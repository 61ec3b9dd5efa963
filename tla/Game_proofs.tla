----------------------------- MODULE Game_proofs -----------------------------
(***************************************************************************)
(* What the games of two players keep, for any servers, decks and number   *)
(* of games and faults: the state of the clients, where each card is, one  *)
(* result of a game that nothing disturbs, and the right one as long as    *)
(* no earlier game left anything behind.                                   *)
(***************************************************************************)
EXTENDS Game, CardRules_proofs, TLAPS, SequenceTheorems, FiniteSetTheorems, FunctionTheorems

(***************************************************************************)
(* Types of what TypeOK leaves open.                                       *)
(***************************************************************************)
Places == {"relay", "forward", "check", "make", "store", "count", "read1", "read2", "tell1",
           "tell2", "reset"}
Unstored == {"relay", "forward", "check", "make", "store"}
Early == {"relay", "forward"}
Final == {"read1", "read2", "tell1", "tell2", "reset"}

Slot == Elements \union {NoCard}
Request == [from : Player, card : Elements, game : Game]
Job == [at : Places, from : Player, card : Elements, game : Game, room : Game, on : Server,
        seen : [Player -> Slot]]
Message == [type : {"MATCH", "PLAY_CARD"}, game : Game]
             \union [type : {"ROUND_RESULT"}, game : Game, winner : Player \union {"nobody"}]
RoomRec == [first : Player, host : Server, local : BOOLEAN]
Map == [made : BOOLEAN, of : [Player -> Slot]]

Busy(s) == job[s] # Idle
Opened == 1 .. Len(rooms)

TypeInv ==
  /\ home \in Homes
  /\ rooms \in Seq(RoomRec) /\ Len(rooms) <= MaxGames
  /\ has \in [Server -> 0 .. Len(rooms)]
  /\ up \in [Server -> BOOLEAN]
  /\ requests \in [Server -> Seq(Request)]
  /\ job \in [Server -> Job \union {Idle}]
  /\ cards \in [Server -> [Game -> Map]]
  /\ wire \in [Player -> Seq(Message)]
  /\ phase \in [Player -> {"waiting", "matched", "choosing", "listening"}]
  /\ game \in [Player -> 0 .. Len(rooms)]
  /\ played \in [Game -> [Player -> Slot]]
  /\ verdict \in [Game -> [Player -> Player \union {"unknown", "cancelled", "nobody"}]]
  /\ decided \in [Game -> Nat]
  /\ mishaps \in [Game -> SUBSET {"raced", "crossed", "dropped"}]
  /\ faults \in 0 .. MaxFaults
  /\ \A p \in Player : phase[p] # "waiting" => game[p] >= 1
  /\ \A s \in Server : \A i \in 1 .. Len(requests[s]) : requests[s][i].game <= Len(rooms)
  /\ \A s \in Server : Busy(s) => job[s].game <= Len(rooms) /\ job[s].room <= Len(rooms)
  /\ \A p \in Player : \A i \in 1 .. Len(wire[p]) : wire[p][i].game <= Len(rooms)

(***************************************************************************)
(* The clients.  The players are in the last game or about to enter it,    *)
(* and everything later is untouched.                                      *)
(***************************************************************************)
IsMatch(p, i) == wire[p][i].type = "MATCH"
MatchIsAhead == \A p \in Player : \A i \in 1 .. Len(wire[p]) :
  IsMatch(p, i) => /\ wire[p][i].game = Len(rooms) /\ game[p] < Len(rooms)
                   /\ \A j \in 1 .. Len(wire[p]) : IsMatch(p, j) => i = j
Untouched(g, p) == played[g][p] = NoCard /\ verdict[g][p] = "unknown"
GamesInOrder == \A g \in Game, p \in Player :
  /\ g > game[p] => Untouched(g, p)
  /\ g <= game[p] => (verdict[g][p] = "unknown" <=> g = game[p] /\ phase[p] # "waiting")

ClientInv ==
  /\ \A p \in Player : game[p] = Len(rooms) \/ (game[p] = Len(rooms) - 1 /\ phase[p] = "waiting")
  /\ MatchIsAhead /\ GamesInOrder
  /\ \A p \in Player : phase[p] \in {"matched", "choosing"} => played[game[p]][p] = NoCard
  /\ \A g \in Game : g > Len(rooms) =>
       /\ decided[g] = 0 /\ mishaps[g] = {}
       /\ \A s \in Server : cards[s][g] = NilMap
  /\ \A g \in Opened : rooms[g].local => \A p \in Player : home[p] = rooms[g].host

(***************************************************************************)
(* Where the card of a player in a game is on its way: among the requests  *)
(* of its server, or carried by the thread there.                          *)
(***************************************************************************)
PendingAt(p, g, i) == requests[home[p]][i].from = p /\ requests[home[p]][i].game = g
Pending(p, g) == \E i \in 1 .. Len(requests[home[p]]) : PendingAt(p, g, i)
CarriedBy(s, p, g) == Busy(s) /\ job[s].from = p /\ job[s].game = g
Carried(p, g) == CarriedBy(home[p], p, g) /\ job[home[p]].at \in Unstored
OnTheWay(p, g) == Pending(p, g) \/ Carried(p, g)
Done(p, g) == played[g][p] # NoCard /\ ~ OnTheWay(p, g)

RequestsArePlayed == \A s \in Server : \A i \in 1 .. Len(requests[s]) :
  LET r == requests[s][i] IN home[r.from] = s /\ r.card = played[r.game][r.from]
JobsArePlayed == \A s \in Server : Busy(s) =>
  /\ home[job[s].from] = s /\ job[s].card = played[job[s].game][job[s].from]
  /\ ~ rooms[job[s].game].local /\ ~ rooms[job[s].room].local
  /\ job[s].at \in Early => job[s].on = s
  /\ up[job[s].on]
  /\ job[s].at = "store" => cards[job[s].on][job[s].room].made
InOnePlace == \A p \in Player, g \in Game :
  /\ \A i, j \in 1 .. Len(requests[home[p]]) : PendingAt(p, g, i) /\ PendingAt(p, g, j) => i = j
  /\ Pending(p, g) => ~ CarriedBy(home[p], p, g)
RelayedWerePlayed == \A p \in Player : \A i \in 1 .. Len(wire[p]) :
  wire[p][i].type = "PLAY_CARD" => played[wire[p][i].game][Opponent(p)] # NoCard

PlaceInv ==
  /\ RequestsArePlayed /\ JobsArePlayed /\ InOnePlace /\ RelayedWerePlayed
  /\ \A s \in Server : has[s] > 0 => ~ rooms[has[s]].local
  /\ \A s \in Server, g \in Game : ~ cards[s][g].made => cards[s][g] = NilMap

(***************************************************************************)
(* A game that no card of another one met, and whose cards were not both   *)
(* handled at once: one thread after the other uses its room, at its host. *)
(***************************************************************************)
Undisturbed(g) == mishaps[g] \intersect {"raced", "crossed"} = {}
Inside(s, g) == Busy(s) /\ job[s].at \notin Early /\ job[s].room = g
HostMap(g) == cards[rooms[g].host][g]
Full(map) == \A p \in Player : map.of[p] # NoCard

OwnRoom(g) ==
  \A s \in Server : Busy(s) /\ (job[s].game = g \/ Inside(s, g)) =>
    /\ job[s].game = g /\ job[s].room = g
    /\ job[s].at \notin Early => job[s].on = rooms[g].host
OneThread(g) == \A s, t \in Server : Inside(s, g) /\ Inside(t, g) => s = t
NotStored(g) == \A p \in Player : ~ Done(p, g) => HostMap(g).of[p] = NoCard /\ decided[g] = 0
OneResult(g) ==
  /\ decided[g] <= 1
  /\ \A s \in Server : Inside(s, g) =>
       /\ job[s].at \in {"read1", "read2", "tell1"} => Full(HostMap(g))
       /\ job[s].at \notin {"tell2", "reset"} => decided[g] = 0
       /\ job[s].at \in {"tell2", "reset"} => decided[g] = 1
       /\ job[s].at = "make" => HostMap(g) = NilMap
NothingLost(g) == mishaps[g] = {} /\ decided[g] = 0 =>
  /\ \A p \in Player : Done(p, g) => HostMap(g).of[p] # NoCard
  /\ Full(HostMap(g)) => \E s \in Server : Inside(s, g) /\ job[s].at \notin Unstored

UndisturbedInv == \A g \in Opened :
  Undisturbed(g) => OwnRoom(g) /\ OneThread(g) /\ NotStored(g) /\ OneResult(g) /\ NothingLost(g)

(***************************************************************************)
(* A game before which nothing was left behind.                            *)
(***************************************************************************)
Clean(g) == ~ Leftovers(g)
Shown(g, p) == verdict[g][p] \in Player \union {"nobody"}
Over(g) == \A p \in Player : Done(p, g)
IsResult(p, i, g) == wire[p][i].type = "ROUND_RESULT" /\ wire[p][i].game = g
Telling(s, g) == Inside(s, g) /\ job[s].at = "tell2"

(* Who was shown a result of a clean game, and it had no second one, has   *)
(* heard everything of it.                                                 *)
Settled(g, p) ==
  /\ Over(g) /\ decided[g] = 1
  /\ \A i \in 1 .. Len(wire[p]) : wire[p][i].game # g
  /\ p = Player2 => \A s \in Server : ~ Telling(s, g)

SettledInv == \A g \in Opened, p \in Player :
  Clean(g) /\ decided[g] <= 1 /\ Shown(g, p) => Settled(g, p)

(* In the last game: maps hold what was played, results come when both     *)
(* cards are there, and as long as there is one only it is the last word.  *)
MapsKeep(g) == \A s \in Server, p \in Player :
  cards[s][g].of[p] # NoCard => cards[s][g].of[p] = played[g][p] /\ Done(p, g)
EndsInResult(g) ==
  /\ decided[g] > 0 => Over(g)
  /\ \A s \in Server : Inside(s, g) =>
       /\ job[s].at \in Final => Over(g)
       /\ job[s].at \in {"tell2", "reset"} => decided[g] > 0
  /\ \A p \in Player : \A i \in 1 .. Len(wire[p]) : IsResult(p, i, g) => decided[g] > 0
LastWord(g) == decided[g] <= 1 =>
  /\ \A p \in Player : \A i \in 1 .. Len(wire[p]) : IsResult(p, i, g) => i = Len(wire[p])
  /\ \A s, t \in Server : Telling(s, g) /\ Telling(t, g) => s = t
  /\ \A s \in Server : Telling(s, g) =>
       \A i \in 1 .. Len(wire[Player2]) : ~ IsResult(Player2, i, g)

Told(g, p) ==
  \/ ~ up[home[p]] \/ verdict[g][p] # "unknown"
  \/ \E i \in 1 .. Len(wire[p]) : IsResult(p, i, g)
AllTold(g) == decided[g] > 0 /\ (faults = 0 => \A p \in Player : Told(g, p))
Seen(s, g, p) == job[s].seen[p] = played[g][p]
There(s, g, p) == cards[job[s].on][g].of[p] = played[g][p]
ReadsRight(g) == \A s \in Server : Inside(s, g) =>
  /\ job[s].at = "read1" => (There(s, g, Player1) /\ There(s, g, Player2)) \/ AllTold(g)
  /\ job[s].at = "read2" => (Seen(s, g, Player1) /\ There(s, g, Player2)) \/ AllTold(g)
  /\ job[s].at = "tell1" => (Seen(s, g, Player1) /\ Seen(s, g, Player2)) \/ AllTold(g)
  /\ job[s].at = "tell2" => \/ Seen(s, g, Player1) /\ Seen(s, g, Player2) /\ (faults = 0 => Told(g, Player1))
                            \/ AllTold(g) /\ decided[g] > 1
  /\ job[s].at = "reset" => AllTold(g)
RightOne(g) == ResultFor(played[g][Player1], played[g][Player2])
FirstIsRight(g) == \A p \in Player : \A i \in 1 .. Len(wire[p]) :
  /\ verdict[g][p] = "unknown" /\ (faults = 0 \/ decided[g] <= 1)
  /\ IsResult(p, i, g) /\ \A j \in 1 .. i - 1 : ~ IsResult(p, j, g)
  => wire[p][i].winner = RightOne(g)
InTurn(g) == \A p \in Player :
  phase[p] = "choosing" /\ game[p] = g /\ rooms[g].first # p => played[g][Opponent(p)] # NoCard

LastGameInv == \A g \in Opened : g = Len(rooms) /\ Clean(g) =>
  MapsKeep(g) /\ EndsInResult(g) /\ LastWord(g) /\ ReadsRight(g) /\ FirstIsRight(g) /\ InTurn(g)

(***************************************************************************)
(* Types.                                                                  *)
(***************************************************************************)
LEMMA OpponentType ==
  ASSUME NEW p \in Player
  PROVE  Opponent(p) \in Player /\ Opponent(p) # p
BY PlayersAssumption DEF Opponent, Player

LEMMA InSeq ==
  ASSUME NEW S, NEW q \in Seq(S), NEW i \in 1 .. Len(q)
  PROVE  q[i] \in S
OBVIOUS

LEMMA HeadTail ==
  ASSUME NEW S, NEW q \in Seq(S), q # <<>>
  PROVE  /\ Head(q) \in S /\ Head(q) = q[1] /\ Len(q) \in Nat \ {0}
         /\ Tail(q) \in Seq(S) /\ Len(Tail(q)) = Len(q) - 1
         /\ \A i \in 1 .. Len(q) - 1 : Tail(q)[i] = q[i + 1]
OBVIOUS

LEMMA Appended ==
  ASSUME NEW S, NEW q \in Seq(S), NEW e \in S
  PROVE  /\ Append(q, e) \in Seq(S) /\ Len(q) \in Nat /\ Len(Append(q, e)) = Len(q) + 1
         /\ \A i \in 1 .. Len(q) : Append(q, e)[i] = q[i]
         /\ Append(q, e)[Len(q) + 1] = e
OBVIOUS

LEMMA CancelledCount ==
  ASSUME TypeInv
  PROVE  Cardinality(Cancelled) \in Nat
<1>1. IsFiniteSet(Game)
  BY FS_Interval, BoundsAssumption DEF Game
<1>2. IsFiniteSet(Player)
  <2>1. IsFiniteSet({}) /\ IsFiniteSet({} \union {Player1})
    BY FS_EmptySet, FS_AddElement
  <2>2. IsFiniteSet(({} \union {Player1}) \union {Player2})
    BY <2>1, FS_AddElement
  <2> QED
    BY <2>2 DEF Player
<1>3. IsFiniteSet(Game \X Player)
  BY <1>1, <1>2, FS_Product
<1>4. IsFiniteSet(Cancelled)
  BY <1>3, FS_Subset DEF Cancelled
<1> QED
  BY <1>4, FS_CardinalityType

LEMMA FaultType ==
  ASSUME TypeInv, Fault
  PROVE  faults' \in 1 .. MaxFaults /\ faults' = faults + 1
<1>1. Cardinality(Cancelled) \in Nat
  BY CancelledCount
<1> QED
  BY <1>1, BoundsAssumption DEF Fault, MoreFaults, TypeInv

LEMMA TypeInit == Init => TypeInv
BY HomesAssumption, BoundsAssumption, PlayersAssumption
   DEF Init, TypeInv, Busy, Idle, NilMap, Map, Slot, RoomRec, Request, Message, Job

(* The parts of what TypeInv types.                                        *)
LEMMA JobTyped ==
  ASSUME TypeInv, NEW s \in Server, Busy(s)
  PROVE  /\ job[s] \in Job /\ job[s].at \in Places /\ job[s].from \in Player
         /\ job[s].card \in Elements /\ job[s].on \in Server
         /\ job[s].game \in Game /\ job[s].game \in Opened
         /\ job[s].room \in Game /\ job[s].room \in Opened
         /\ rooms[job[s].room].host \in Server
<1>1. job[s] \in Job
  BY DEF TypeInv, Busy
<1>2. job[s].game <= Len(rooms) /\ job[s].room <= Len(rooms)
  BY DEF TypeInv
<1>3. job[s].game \in Opened /\ job[s].room \in Opened
  BY <1>1, <1>2 DEF Job, Game, Opened
<1>4. rooms[job[s].room] \in RoomRec
  BY <1>3, InSeq DEF TypeInv, Opened
<1> QED
  BY <1>1, <1>3, <1>4 DEF Job, RoomRec

LEMMA RequestTyped ==
  ASSUME TypeInv, NEW s \in Server, NEW i \in 1 .. Len(requests[s])
  PROVE  /\ requests[s] \in Seq(Request) /\ requests[s][i] \in Request
         /\ requests[s][i].from \in Player /\ requests[s][i].card \in Elements
         /\ requests[s][i].game \in Game /\ requests[s][i].game \in Opened
<1>1. requests[s] \in Seq(Request)
  BY DEF TypeInv
<1>2. requests[s][i] \in Request
  BY <1>1, InSeq
<1>3. requests[s][i].game <= Len(rooms)
  BY DEF TypeInv
<1> QED
  BY <1>1, <1>2, <1>3 DEF Request, Game, Opened

LEMMA HeadRequest ==
  ASSUME TypeInv, NEW s \in Server, requests[s] # <<>>
  PROVE  /\ requests[s] \in Seq(Request) /\ Len(requests[s]) \in Nat \ {0}
         /\ Head(requests[s]) = requests[s][1] /\ Head(requests[s]) \in Request
         /\ Head(requests[s]).from \in Player /\ Head(requests[s]).card \in Elements
         /\ Head(requests[s]).game \in Game /\ Head(requests[s]).game \in Opened
         /\ Head(requests[s]).game <= Len(rooms)
         /\ Tail(requests[s]) \in Seq(Request) /\ Len(Tail(requests[s])) = Len(requests[s]) - 1
         /\ \A i \in 1 .. Len(requests[s]) - 1 : Tail(requests[s])[i] = requests[s][i + 1]
<1>1. requests[s] \in Seq(Request)
  BY DEF TypeInv
<1>2. 1 \in 1 .. Len(requests[s]) /\ Len(requests[s]) \in Nat
  BY <1>1, HeadTail
<1>3. requests[s][1].game <= Len(rooms)
  BY <1>2 DEF TypeInv
<1> QED
  BY <1>1, <1>2, <1>3, HeadTail, RequestTyped

LEMMA MessageTyped ==
  ASSUME TypeInv, NEW p \in Player, NEW i \in 1 .. Len(wire[p])
  PROVE  /\ wire[p] \in Seq(Message) /\ wire[p][i] \in Message
         /\ wire[p][i].type \in {"MATCH", "PLAY_CARD", "ROUND_RESULT"}
         /\ wire[p][i].game \in Game /\ wire[p][i].game \in Opened
         /\ wire[p][i].type = "ROUND_RESULT" => wire[p][i].winner \in Player \union {"nobody"}
<1>1. wire[p] \in Seq(Message)
  BY DEF TypeInv
<1>2. wire[p][i] \in Message
  BY <1>1, InSeq
<1>3. wire[p][i].game <= Len(rooms)
  BY DEF TypeInv
<1> QED
  BY <1>1, <1>2, <1>3 DEF Message, Game, Opened

LEMMA HeadMessage ==
  ASSUME TypeInv, NEW p \in Player, wire[p] # <<>>
  PROVE  /\ wire[p] \in Seq(Message) /\ Len(wire[p]) \in Nat \ {0} /\ 1 \in 1 .. Len(wire[p])
         /\ Head(wire[p]) = wire[p][1] /\ Head(wire[p]) \in Message
         /\ Head(wire[p]).game \in Game /\ Head(wire[p]).game \in Opened
         /\ Head(wire[p]).type = "ROUND_RESULT" =>
              Head(wire[p]).winner \in Player \union {"nobody"}
         /\ Tail(wire[p]) \in Seq(Message) /\ Len(Tail(wire[p])) = Len(wire[p]) - 1
         /\ \A i \in 1 .. Len(wire[p]) - 1 : Tail(wire[p])[i] = wire[p][i + 1]
<1>1. wire[p] \in Seq(Message)
  BY DEF TypeInv
<1>2. 1 \in 1 .. Len(wire[p]) /\ Len(wire[p]) \in Nat
  BY <1>1, HeadTail
<1> QED
  BY <1>1, <1>2, HeadTail, MessageTyped
(* The winner of a result, and the result as a message.                    *)
LEMMA ResultType ==
  ASSUME NEW g \in Game, NEW c1, NEW c2
  PROVE  Result(g, c1, c2) \in Message
BY DEF Result, ResultFor, Message, Player

LEMMA CardType ==
  ASSUME NEW m, m.game \in Game
  PROVE  Card(m) \in Message
BY DEF Card, Message

(* The steps that only change a job.                                       *)
LEMMA TypeOfGoTo ==
  ASSUME TypeInv, NEW s \in Server, Busy(s), NEW place \in Places, GoTo(s, place)
  PROVE  /\ job' \in [Server -> Job \union {Idle}]
         /\ job'[s] \in Job /\ job'[s].at = place /\ job'[s] # Idle
         /\ job'[s].from = job[s].from /\ job'[s].card = job[s].card
         /\ job'[s].game = job[s].game /\ job'[s].room = job[s].room
         /\ job'[s].on = job[s].on /\ job'[s].seen = job[s].seen
         /\ \A t \in Server \ {s} : job'[t] = job[t]
<1>1. job[s] \in Job
  BY DEF TypeInv, Busy
<1>2. job' = [job EXCEPT ![s] = [job[s] EXCEPT !.at = place]]
  BY DEF GoTo
<1>3. [job[s] EXCEPT !.at = place] \in Job
  BY <1>1 DEF Job
<1>4. job'[s] = [job[s] EXCEPT !.at = place]
  BY <1>2 DEF TypeInv
<1>5. job'[s].at = place /\ place # "idle"
  BY <1>1, <1>4 DEF Job, Places
<1>6. job'[s] # Idle
  BY <1>5 DEF Idle
<1> QED
  BY <1>1, <1>2, <1>3, <1>4, <1>5, <1>6 DEF TypeInv, Job

LEMMA TypeClients ==
  ASSUME TypeInv, NEW p \in Player, ClientStep(p)
  PROVE  TypeInv'
<1> USE DEF TypeInv, Busy, Idle, Opened
<1>1. CASE HearMatch(p)
  <2>1. /\ wire[p] # <<>> /\ wire' = [wire EXCEPT ![p] = Tail(@)]
        /\ game' = [game EXCEPT ![p] = Head(wire[p]).game]
    BY <1>1 DEF HearMatch, Heard, Saw
  <2>2. Head(wire[p]).game \in 1 .. Len(rooms)
    BY <2>1, HeadMessage
  <2>3. /\ game' \in [Player -> 0 .. Len(rooms)]
        /\ \A q \in Player : phase'[q] # "waiting" => game'[q] >= 1
    BY <1>1, <2>1, <2>2 DEF HearMatch
  <2>4. /\ wire' \in [Player -> Seq(Message)]
        /\ \A q \in Player : \A i \in 1 .. Len(wire'[q]) : wire'[q][i].game <= Len(rooms)
    BY <2>1, HeadTail
  <2> QED
    BY <1>1, <2>3, <2>4 DEF HearMatch, historyVars
<1>2. CASE Miss(p)
  <2>1. wire[p] # <<>> /\ wire' = [wire EXCEPT ![p] = Tail(@)]
    BY <1>2 DEF Miss, Saw
  <2>2. /\ wire' \in [Player -> Seq(Message)]
        /\ \A q \in Player : \A i \in 1 .. Len(wire'[q]) : wire'[q][i].game <= Len(rooms)
    BY <2>1, HeadTail
  <2> QED
    BY <1>2, <2>2 DEF Miss, clientVars, historyVars
<1>3. CASE EnterGame(p)
  BY <1>3 DEF EnterGame, historyVars
<1>4. CASE PlayCard(p)
  <2>1. PICK c \in Deck[game[p]][p] :
          /\ played' = [played EXCEPT ![game[p]][p] = c]
          /\ requests' = [requests EXCEPT ![home[p]] =
                            Append(@, [from |-> p, card |-> c, game |-> game[p]])]
    BY <1>4 DEF PlayCard
  <2>2. game[p] \in Game /\ game[p] \in 1 .. Len(rooms) /\ home[p] \in Server
    BY <1>4, BoundsAssumption, HomesAssumption DEF PlayCard, Game
  <2>3. c \in Elements
    BY <2>1, <2>2, DeckAssumption DEF Game
  <2>4. [from |-> p, card |-> c, game |-> game[p]] \in Request
    BY <2>2, <2>3 DEF Request
  <2>5. played' \in [Game -> [Player -> Slot]]
    BY <2>1, <2>2, <2>3 DEF Slot
  <2>6. /\ requests' \in [Server -> Seq(Request)]
        /\ \A s \in Server : \A i \in 1 .. Len(requests'[s]) : requests'[s][i].game <= Len(rooms)
    BY <2>1, <2>2, <2>4, Appended
  <2> QED
    BY <1>4, <2>5, <2>6 DEF PlayCard, historyVars
<1>5. CASE CancelGame(p)
  <2>1. game[p] \in Game
    BY <1>5, BoundsAssumption DEF CancelGame, Game
  <2>2. verdict' \in [Game -> [Player -> Player \union {"unknown", "cancelled", "nobody"}]]
    BY <1>5, <2>1 DEF CancelGame, End
  <2> QED
    BY <1>5, <2>2 DEF CancelGame, End, historyVars
<1>6. CASE HearCard(p)
  BY <1>6, HeadTail DEF HearCard, Heard, Saw, historyVars
<1>7. CASE HearResult(p)
  <2>1. game[p] \in Game
    BY <1>7, BoundsAssumption DEF HearResult, Game
  <2>2. Head(wire[p]) \in Message /\ Head(wire[p]).type = "ROUND_RESULT"
    BY <1>7, HeadTail DEF HearResult, Heard
  <2>3. Head(wire[p]).winner \in Player \union {"nobody"}
    BY <2>2 DEF Message
  <2>4. verdict' \in [Game -> [Player -> Player \union {"unknown", "cancelled", "nobody"}]]
    BY <1>7, <2>1, <2>3 DEF HearResult, End
  <2> QED
    BY <1>7, <2>4, HeadTail DEF HearResult, Heard, Saw, End, historyVars
<1> QED
  BY <1>1, <1>2, <1>3, <1>4, <1>5, <1>6, <1>7 DEF ClientStep

LEMMA TypeServers ==
  ASSUME TypeInv, NEW s \in Server, ServerStep(s)
  PROVE  TypeInv'
<1>1. CASE ApplyRoom(s)
  BY <1>1 DEF ApplyRoom, Missing, TypeInv, Busy, clientVars, historyVars
<1>2. CASE PlayLocal(s)
  <2> DEFINE m == Head(requests[s])
             of == [cards[s][m.game].of EXCEPT ![m.from] = m.card]
             both == \A p \in Player : of[p] # NoCard
             toldOf(p) == (IF p = Opponent(m.from) THEN <<Card(m)>> ELSE <<>>)
                            \o (IF both THEN <<Result(m.game, of[Player1], of[Player2])>> ELSE <<>>)
  <2>1. /\ requests[s] \in Seq(Request) /\ requests[s] # <<>> /\ m \in Request
        /\ m.game \in Game /\ m.game <= Len(rooms) /\ m.from \in Player /\ m.card \in Elements
    BY <1>2, HeadRequest, Zenon DEF PlayLocal, Taking
  <2>2. /\ wire' = [p \in Player |-> wire[p] \o toldOf(p)]
        /\ requests' = [requests EXCEPT ![s] = Tail(@)]
        /\ cards' = [cards EXCEPT ![s][m.game] =
                       IF both THEN EmptyMap ELSE [made |-> TRUE, of |-> of]]
        /\ decided' = [decided EXCEPT ![m.game] = IF both THEN @ + 1 ELSE @]
        /\ UNCHANGED <<home, rooms, has, up, job, clientVars, mishaps, faults>>
    BY <1>2, Zenon DEF PlayLocal, Taken
  <2>3. of \in [Player -> Slot] /\ EmptyMap \in Map
    BY <2>1 DEF TypeInv, Map, Slot, EmptyMap
  <2>4. cards' \in [Server -> [Game -> Map]]
    BY <2>1, <2>2, <2>3, Zenon DEF TypeInv, Map
  <2>5. /\ requests' \in [Server -> Seq(Request)]
        /\ \A t \in Server : \A i \in 1 .. Len(requests'[t]) : requests'[t][i].game <= Len(rooms)
    <3> HIDE DEF m, of, both
    <3> QED
      BY <2>1, <2>2, HeadTail DEF TypeInv
  <2>6. ASSUME NEW p \in Player
        PROVE  /\ wire'[p] \in Seq(Message)
               /\ \A i \in 1 .. Len(wire'[p]) : wire'[p][i].game <= Len(rooms)
    <3>1. /\ Card(m) \in Message /\ Card(m).game = m.game
          /\ Result(m.game, of[Player1], of[Player2]) \in Message
          /\ Result(m.game, of[Player1], of[Player2]).game = m.game
      BY <2>1, CardType, ResultType DEF Card, Result
    <3>2. /\ toldOf(p) \in Seq(Message)
          /\ \A i \in 1 .. Len(toldOf(p)) : toldOf(p)[i].game <= Len(rooms)
      <4> HIDE DEF m, of, both
      <4> QED
        BY <2>1, <3>1
    <3>3. wire'[p] = wire[p] \o toldOf(p)
      BY <2>2, Zenon
    <3> HIDE DEF toldOf
    <3> QED
      BY <3>2, <3>3 DEF TypeInv
  <2>7. wire' \in [Player -> Seq(Message)]
    BY <2>2, <2>6, Zenon
  <2>8. decided' \in [Game -> Nat]
    <3> HIDE DEF m, of, both
    <3> QED
      BY <2>1, <2>2 DEF TypeInv
  <2> QED
    BY <2>2, <2>4, <2>5, <2>6, <2>7, <2>8, Zenon DEF TypeInv, Busy, clientVars
<1>3. CASE TakeGlobal(s) \/ GiveUpRoom(s)
  <2> DEFINE m == Head(requests[s])
  <2>1. /\ requests[s] \in Seq(Request) /\ requests[s] # <<>> /\ m \in Request
        /\ m.game \in Game /\ m.game <= Len(rooms) /\ m.from \in Player /\ m.card \in Elements
    BY <1>3, HeadRequest DEF TakeGlobal, GiveUpRoom, Taking
  <2>2. requests' = [requests EXCEPT ![s] = Tail(@)]
    BY <1>3 DEF TakeGlobal, GiveUpRoom, Taken
  <2>3. /\ requests' \in [Server -> Seq(Request)]
        /\ \A t \in Server : \A i \in 1 .. Len(requests'[t]) : requests'[t][i].game <= Len(rooms)
    BY <2>1, <2>2, HeadTail DEF TypeInv
  <2>4. mishaps' \in [Game -> SUBSET {"raced", "crossed", "dropped"}]
    <3>1. \/ mishaps' = [mishaps EXCEPT ![m.game] = IF has[s] = m.game THEN @
                                                   ELSE @ \union {"crossed"}]
          \/ mishaps' = [mishaps EXCEPT ![m.game] = @ \union {"dropped"}]
      BY <1>3 DEF TakeGlobal, GiveUpRoom, Note
    <3> HIDE DEF m
    <3> QED
      BY <2>1, <3>1 DEF TypeInv
  <2>5. CASE TakeGlobal(s)
    <3>1. has[s] \in Game /\ has[s] <= Len(rooms)
      BY <2>5, BoundsAssumption DEF TakeGlobal, TypeInv, Game
    <3> DEFINE new == [at |-> "relay", from |-> m.from, card |-> m.card, game |-> m.game,
                       room |-> has[s], on |-> s, seen |-> NilMap.of]
    <3>2. new \in Job
      BY <2>1, <3>1 DEF Job, Places, NilMap, Slot
    <3>3. job' = [job EXCEPT ![s] = new]
      BY <2>5 DEF TakeGlobal
    <3>4. new.game = m.game /\ new.room = has[s]
      OBVIOUS
    <3>5. \A t \in Server : Busy(t)' => job'[t].game <= Len(rooms) /\ job'[t].room <= Len(rooms)
      <4> HIDE DEF new, m
      <4> QED
        BY <2>1, <3>1, <3>3, <3>4 DEF TypeInv, Busy
    <3> HIDE DEF new, m
    <3> QED
      BY <2>3, <2>4, <2>5, <3>2, <3>3, <3>5 DEF TakeGlobal, TypeInv, clientVars
  <2>6. CASE GiveUpRoom(s)
    BY <2>3, <2>4, <2>6 DEF GiveUpRoom, TypeInv, Busy, clientVars
  <2> QED
    BY <1>3, <2>5, <2>6
<1>4. CASE Relay(s)
  <2> DEFINE q == Opponent(job[s].from)
  <2>1. Busy(s) /\ job[s] \in Job /\ GoTo(s, "forward") /\ "forward" \in Places
    BY <1>4 DEF Relay, At, Busy, TypeInv, Places
  <2>2. q \in Player /\ job[s].game \in Game
    BY <2>1, OpponentType DEF Job
  <2>3. Card(job[s]) \in Message /\ Card(job[s]).game = job[s].game
    BY <2>2, CardType DEF Card
  <2>4. wire' = [wire EXCEPT ![q] = Append(@, Card(job[s]))]
    BY <1>4 DEF Relay, Send
  <2>5. wire' \in [Player -> Seq(Message)]
    BY <2>2, <2>3, <2>4, Appended DEF TypeInv
  <2>6. \A p \in Player : \A i \in 1 .. Len(wire'[p]) : wire'[p][i].game <= Len(rooms)
    <3> HIDE DEF q
    <3>1. job[s].game <= Len(rooms)
      BY <2>1 DEF TypeInv
    <3>2. \A i \in 1 .. Len(wire'[q]) : wire'[q][i].game <= Len(rooms)
      BY <2>2, <2>3, <2>4, <3>1, Appended DEF TypeInv
    <3> QED
      BY <2>2, <2>4, <3>2 DEF TypeInv
  <2>7. \A t \in Server : Busy(t)' => job'[t].game <= Len(rooms) /\ job'[t].room <= Len(rooms)
    <3>1. ASSUME NEW t \in Server, Busy(t)'
          PROVE  Busy(t) /\ job'[t].game = job[t].game /\ job'[t].room = job[t].room
      <4>1. CASE t = s
        BY <2>1, <4>1, TypeOfGoTo
      <4>2. CASE t # s
        BY <2>1, <3>1, <4>2, TypeOfGoTo DEF Busy
      <4> QED
        BY <4>1, <4>2
    <3> QED
      BY <3>1 DEF TypeInv
  <2>8. job' \in [Server -> Job \union {Idle}]
    BY <2>1, TypeOfGoTo
  <2> QED
    BY <1>4, <2>5, <2>6, <2>7, <2>8 DEF Relay, TypeInv, clientVars, historyVars
<1>5. ASSUME NEW place \in Places, Busy(s), GoTo(s, place), rooms' = rooms
      PROVE  /\ job' \in [Server -> Job \union {Idle}]
             /\ \A t \in Server : Busy(t)' =>
                  job'[t].game <= Len(rooms') /\ job'[t].room <= Len(rooms')
  <2>1. ASSUME NEW t \in Server, Busy(t)'
        PROVE  Busy(t) /\ job'[t].game = job[t].game /\ job'[t].room = job[t].room
    <3>1. CASE t = s
      BY <1>5, <3>1, TypeOfGoTo
    <3>2. CASE t # s
      BY <1>5, <2>1, <3>2, TypeOfGoTo DEF Busy
    <3> QED
      BY <3>1, <3>2
  <2> QED
    BY <1>5, <2>1, TypeOfGoTo DEF TypeInv
<1>6. ASSUME Finish(s), rooms' = rooms
      PROVE  /\ job' \in [Server -> Job \union {Idle}]
             /\ \A t \in Server : Busy(t)' =>
                  job'[t].game <= Len(rooms') /\ job'[t].room <= Len(rooms')
  BY <1>6 DEF TypeInv, Busy, Finish
<1>7. CASE RelayFails(s)
  <2>1. faults' \in 0 .. MaxFaults
    BY <1>7, FaultType, BoundsAssumption DEF RelayFails, CallFails, TypeInv
  <2>2. GoTo(s, "forward") /\ "forward" \in Places /\ Busy(s) /\ rooms' = rooms
    BY <1>7 DEF RelayFails, At, Busy, Places
  <2> QED
    BY <1>5, <1>7, <2>1, <2>2 DEF RelayFails, TypeInv, clientVars, historyVars
<1>8. CASE Arrive(s)
  <2> DEFINE h == Host(s)
             g == IF h = job[s].on THEN job[s].room ELSE has[h]
  <2>1. job[s] \in Job /\ Busy(s)
    BY <1>8 DEF Arrive, At, TypeInv, Busy
  <2>2. job[s].room \in 1 .. Len(rooms)
    BY <2>1 DEF Job, Game, TypeInv
  <2>3. h \in Server
    BY <2>1, JobTyped DEF Host
  <2>4. g \in Game /\ g <= Len(rooms)
    BY <1>8, <2>1, <2>2, <2>3, BoundsAssumption DEF Arrive, TypeInv, Game
  <2>5. job' = [job EXCEPT ![s] = [job[s] EXCEPT !.at = "check", !.room = g, !.on = h]]
    BY <1>8 DEF Arrive
  <2>6. mishaps' \in [Game -> SUBSET {"raced", "crossed", "dropped"}]
    BY <1>8 DEF Arrive, TypeInv
  <2> HIDE DEF h, g
  <2>7. /\ [job[s] EXCEPT !.at = "check", !.room = g, !.on = h] \in Job
        /\ [job[s] EXCEPT !.at = "check", !.room = g, !.on = h].game = job[s].game
        /\ [job[s] EXCEPT !.at = "check", !.room = g, !.on = h].room = g
    BY <2>1, <2>3, <2>4 DEF Job, Places
  <2>8. job' \in [Server -> Job \union {Idle}]
    BY <2>5, <2>7 DEF TypeInv
  <2>9. \A t \in Server : Busy(t)' => job'[t].game <= Len(rooms) /\ job'[t].room <= Len(rooms)
    BY <2>1, <2>4, <2>5, <2>7 DEF TypeInv, Busy
  <2> QED
    BY <1>8, <2>6, <2>8, <2>9 DEF Arrive, TypeInv, clientVars
<1>9. CASE RoomNotFound(s) \/ ForwardFails(s)
  <2>1. Finish(s) /\ rooms' = rooms
    BY <1>9 DEF RoomNotFound, ForwardFails
  <2>2. faults' \in 0 .. MaxFaults
    BY <1>9, FaultType, BoundsAssumption DEF RoomNotFound, ForwardFails, CallFails, TypeInv
  <2>3. mishaps' \in [Game -> SUBSET {"raced", "crossed", "dropped"}]
    <3>1. job[s].game \in Game
      BY <1>9, JobTyped DEF RoomNotFound, ForwardFails, At, Busy
    <3>2. mishaps' = [mishaps EXCEPT ![job[s].game] = @ \union {"dropped"}]
      BY <1>9 DEF RoomNotFound, ForwardFails, Note
    <3> QED
      BY <3>1, <3>2 DEF TypeInv
  <2> QED
    BY <1>6, <1>9, <2>1, <2>2, <2>3 DEF RoomNotFound, ForwardFails, TypeInv, clientVars
<1>10. CASE CheckNil(s) \/ CountCards(s)
  <2>1. /\ Finish(s) \/ \E place \in Places : GoTo(s, place)
        /\ Busy(s) /\ rooms' = rooms
    BY <1>10 DEF CheckNil, CountCards, At, Busy, Places
  <2> QED
    BY <1>5, <1>6, <1>10, <2>1 DEF CheckNil, CountCards, TypeInv, clientVars, historyVars
<1>11. CASE MakeMap(s) \/ StoreCard(s) \/ ResetCards(s)
  <2>1. /\ Finish(s) \/ \E place \in Places : GoTo(s, place)
        /\ Busy(s) /\ rooms' = rooms /\ job[s] \in Job
    BY <1>11 DEF MakeMap, StoreCard, ResetCards, Put, At, Busy, Places, TypeInv
  <2>2. Room(s) \in Map /\ EmptyMap \in Map /\ job[s].from \in Player /\ job[s].card \in Slot
    BY <2>1 DEF Room, Job, TypeInv, EmptyMap, Map, Slot
  <2>3. [Room(s) EXCEPT !.of[job[s].from] = job[s].card] \in Map
    BY <2>2 DEF Map
  <2>4. cards' \in [Server -> [Game -> Map]]
    <3>1. PICK map \in Map : cards' = [cards EXCEPT ![job[s].on][job[s].room] = map]
      BY <1>11, <2>2, <2>3 DEF MakeMap, StoreCard, ResetCards, Put
    <3>2. job[s].on \in Server /\ job[s].room \in Game
      BY <2>1, JobTyped
    <3> QED
      BY <3>1, <3>2 DEF TypeInv
  <2> QED
    BY <1>5, <1>6, <1>11, <2>1, <2>4
       DEF MakeMap, StoreCard, ResetCards, Put, TypeInv, clientVars, historyVars
<1>12. CASE ReadCard(s, Player1, "read1", "read2") \/ ReadCard(s, Player2, "read2", "tell1")
  <2>1. PICK p \in Player, from, to \in Places : ReadCard(s, p, from, to)
    BY <1>12 DEF Player, Places
  <2>2. job[s] \in Job /\ Busy(s)
    BY <2>1 DEF ReadCard, At, TypeInv, Busy
  <2>3. Room(s).of[p] \in Slot
    BY <2>2 DEF Room, TypeInv, Map, Job
  <2>4. job' = [job EXCEPT ![s] = [job[s] EXCEPT !.at = to, !.seen[p] = Room(s).of[p]]]
    BY <2>1 DEF ReadCard
  <2>5. /\ [job[s] EXCEPT !.at = to, !.seen[p] = Room(s).of[p]] \in Job
        /\ [job[s] EXCEPT !.at = to, !.seen[p] = Room(s).of[p]].game = job[s].game
        /\ [job[s] EXCEPT !.at = to, !.seen[p] = Room(s).of[p]].room = job[s].room
    BY <2>2, <2>3 DEF Job
  <2> QED
    BY <2>1, <2>2, <2>4, <2>5 DEF ReadCard, TypeInv, Busy, clientVars, historyVars
<1>13. CASE NotifyPlayer(s, Player1, "tell1", "tell2") \/ NotifyPlayer(s, Player2, "tell2", "reset")
  <2>1. PICK p \in Player, from, to \in Places : NotifyPlayer(s, p, from, to)
    BY <1>13 DEF Player, Places
  <2>2. job[s] \in Job /\ Busy(s) /\ GoTo(s, to) /\ rooms' = rooms
    BY <2>1 DEF NotifyPlayer, At, TypeInv, Busy
  <2>3. RoundResult(s) \in Message /\ RoundResult(s).game = job[s].room
    BY <2>2, ResultType DEF RoundResult, Result, Job
  <2>4. decided' \in [Game -> Nat]
    <3>1. job[s].room \in Game /\ decided[job[s].room] \in Nat
      BY <2>2, JobTyped DEF TypeInv
    <3>2. decided' = [decided EXCEPT ![job[s].room] = IF p = Player1 THEN @ + 1 ELSE @]
      BY <2>1 DEF NotifyPlayer
    <3> QED
      BY <3>1, <3>2 DEF TypeInv
  <2>5. faults' \in 0 .. MaxFaults
    BY <2>1, FaultType, BoundsAssumption DEF NotifyPlayer, CallFails, TypeInv
  <2>6. Send(p, RoundResult(s)) \/ UNCHANGED wire
    BY <2>1 DEF NotifyPlayer
  <2>7. job[s].room <= Len(rooms)
    BY <2>2 DEF TypeInv
  <2>8. /\ wire' \in [Player -> Seq(Message)]
        /\ \A q \in Player : \A i \in 1 .. Len(wire'[q]) : wire'[q][i].game <= Len(rooms)
    <3>1. CASE Send(p, RoundResult(s))
      <4>1. wire' = [wire EXCEPT ![p] = Append(@, RoundResult(s))]
        BY <3>1 DEF Send
      <4>2. wire' \in [Player -> Seq(Message)]
        BY <2>3, <4>1, Appended DEF TypeInv
      <4>3. \A i \in 1 .. Len(wire'[p]) : wire'[p][i].game <= Len(rooms)
        BY <2>3, <2>7, <4>1, Appended DEF TypeInv
      <4> QED
        BY <4>1, <4>2, <4>3 DEF TypeInv
    <3>2. CASE UNCHANGED wire
      BY <3>2 DEF TypeInv
    <3> QED
      BY <2>6, <3>1, <3>2
  <2> QED
    BY <1>5, <2>1, <2>2, <2>4, <2>5, <2>8 DEF NotifyPlayer, TypeInv, clientVars
<1> QED
  BY <1>1, <1>2, <1>3, <1>4, <1>7, <1>8, <1>9, <1>10, <1>11, <1>12, <1>13 DEF ServerStep

LEMMA TypeNext == TypeInv /\ [Next]_vars => TypeInv'
<1> SUFFICES ASSUME TypeInv, [Next]_vars
             PROVE  TypeInv'
  OBVIOUS
<1>1. CASE OpenRoom
  <2>1. PICK o \in [first : Player, hosting : Player, local : BOOLEAN] :
          rooms' = Append(rooms, [first |-> o.first, host |-> home[o.hosting], local |-> o.local])
    BY <1>1, OpeningsAssumption DEF OpenRoom, Game
  <2> DEFINE new == [first |-> o.first, host |-> home[o.hosting], local |-> o.local]
  <2>2. new \in RoomRec
    BY HomesAssumption DEF TypeInv, RoomRec
  <2>3. rooms' \in Seq(RoomRec) /\ Len(rooms') = Len(rooms) + 1 /\ Len(rooms) \in Nat
    <3> HIDE DEF new
    <3> QED
      BY <2>1, <2>2, Appended DEF TypeInv, new
  <2>4. Len(rooms') <= MaxGames /\ Len(rooms) + 1 \in Game
    BY <1>1, <2>3, BoundsAssumption DEF OpenRoom, Game
  <2>5. ASSUME NEW p \in Player
        PROVE  /\ wire'[p] \in Seq(Message)
               /\ \A i \in 1 .. Len(wire'[p]) : wire'[p][i].game <= Len(rooms')
    <3> DEFINE e == [type |-> "MATCH", game |-> Len(rooms) + 1]
    <3>1. e \in Message /\ e.game = Len(rooms')
      BY <2>3, <2>4 DEF Message
    <3>2. wire'[p] = Append(wire[p], e)
      BY <1>1 DEF OpenRoom
    <3> HIDE DEF e
    <3>3. wire[p] \in Seq(Message) /\ Len(rooms) \in Nat
      BY <2>3 DEF TypeInv
    <3>4. ASSUME NEW i \in 1 .. Len(wire'[p])
          PROVE  wire'[p][i].game <= Len(rooms')
      <4>1. CASE i = Len(wire[p]) + 1
        BY <3>1, <3>2, <3>3, <4>1, Appended, <2>3
      <4>2. CASE i \in 1 .. Len(wire[p])
        <5>1. wire'[p][i] = wire[p][i] /\ wire[p][i].game <= Len(rooms)
          BY <3>1, <3>2, <3>3, <4>2, Appended DEF TypeInv
        <5>2. wire[p][i].game \in Nat
          <6>1. wire[p][i] \in Message
            BY <3>3, <4>2, InSeq
          <6> QED
            BY <6>1 DEF Message, Game
        <5> QED
          BY <2>3, <5>1, <5>2
      <4> QED
        BY <3>1, <3>2, <3>3, <4>1, <4>2, Appended
    <3> QED
      BY <3>1, <3>2, <3>3, <3>4, Appended
  <2>6. wire' \in [Player -> Seq(Message)]
    BY <1>1, <2>5 DEF OpenRoom
  <2>7. \A s \in Server : \A i \in 1 .. Len(requests[s]) : requests[s][i].game <= Len(rooms')
    <3>1. \A s \in Server : \A i \in 1 .. Len(requests[s]) : requests[s][i].game \in Nat
      BY RequestTyped, BoundsAssumption DEF Game
    <3> QED
      BY <2>3, <3>1 DEF TypeInv
  <2>8. \A s \in Server : Busy(s) => job[s].game <= Len(rooms') /\ job[s].room <= Len(rooms')
    <3>1. \A s \in Server : Busy(s) => job[s].game \in Nat /\ job[s].room \in Nat
      BY DEF TypeInv, Job, Game, Busy
    <3> QED
      BY <2>3, <3>1 DEF TypeInv
  <2>9. has \in [Server -> 0 .. Len(rooms')] /\ game \in [Player -> 0 .. Len(rooms')]
    BY <2>3 DEF TypeInv
  <2> HIDE DEF new
  <2> QED
    BY <1>1, <2>3, <2>4, <2>5, <2>6, <2>7, <2>8, <2>9
       DEF OpenRoom, TypeInv, Busy, clientVars, historyVars
<1>2. ASSUME NEW s \in Server, NEW t \in Server, ConcurrentMapAccess(s, t)
      PROVE  TypeInv'
  <2>1. mishaps' \in [Game -> SUBSET {"raced", "crossed", "dropped"}]
    BY <1>2 DEF ConcurrentMapAccess, TypeInv
  <2>2. /\ job' \in [Server -> Job \union {Idle}]
        /\ \A u \in Server : Busy(u)' => job'[u] = job[u]
    BY <1>2 DEF ConcurrentMapAccess, TypeInv, Busy
  <2> QED
    BY <1>2, <2>1, <2>2 DEF ConcurrentMapAccess, TypeInv, Busy, clientVars
<1>3. CASE UNCHANGED vars
  BY <1>3 DEF vars, clientVars, historyVars, TypeInv, Busy
<1> QED
  BY <1>1, <1>2, <1>3, TypeClients, TypeServers DEF Next

LEMMA TypeOKFromTypes == TypeInv => TypeOK
<1> SUFFICES ASSUME TypeInv
             PROVE  TypeOK
  OBVIOUS
<1>1. \A s \in Server : \A i \in DOMAIN requests[s] : requests[s][i] \in Request
  <2>1. ASSUME NEW s \in Server
        PROVE  DOMAIN requests[s] = 1 .. Len(requests[s])
    BY DEF TypeInv
  <2> QED
    BY <2>1, RequestTyped
<1>2. \A s \in Server : job[s] = Idle \/ job[s] \in Job
  BY DEF TypeInv
<1> QED
  BY <1>1, <1>2 DEF TypeInv, TypeOK, Job, Request, Places, RoomRec, Map, Slot

(***************************************************************************)
(* What a step of a server can add to the messages of a player: a card     *)
(* that is on its way, and at the end a result.                            *)
(***************************************************************************)
Kept(p) == Len(wire'[p]) >= Len(wire[p]) /\ \A i \in 1 .. Len(wire[p]) : wire'[p][i] = wire[p][i]
AddsCard(p, i) ==
  /\ wire'[p][i].type = "PLAY_CARD"
  /\ OnTheWay(Opponent(p), wire'[p][i].game)
  /\ played[wire'[p][i].game][Opponent(p)] # NoCard
LocalResult(s) ==
  LET m == Head(requests[s])
      of == [cards[s][m.game].of EXCEPT ![m.from] = m.card]
  IN Result(m.game, of[Player1], of[Player2])
Tells(s, p) == \/ p = Player1 /\ NotifyPlayer(s, Player1, "tell1", "tell2")
               \/ p = Player2 /\ NotifyPlayer(s, Player2, "tell2", "reset")
AddsResult(s, p, i) ==
  /\ wire'[p][i].type = "ROUND_RESULT" /\ i = Len(wire'[p])
  /\ LET g == wire'[p][i].game IN
     \/ /\ PlayLocal(s) /\ wire'[p][i] = LocalResult(s)
        /\ decided'[g] = decided[g] + 1 /\ \E q \in Player : OnTheWay(q, g)
     \/ /\ Tells(s, p) /\ wire'[p][i] = RoundResult(s)
        /\ Call(s, home[p]) /\ g = job[s].room

LEMMA Joined ==
  ASSUME NEW S, NEW q \in Seq(S), NEW r \in Seq(S)
  PROVE  /\ q \o r \in Seq(S) /\ Len(q \o r) = Len(q) + Len(r)
         /\ \A i \in 1 .. Len(q) : (q \o r)[i] = q[i]
         /\ \A i \in 1 .. Len(q) + Len(r) : i > Len(q) => (q \o r)[i] = r[i - Len(q)]
OBVIOUS

LEMMA ServerKeeps ==
  ASSUME TypeInv, NEW s \in Server, ServerStep(s)
  PROVE  UNCHANGED <<home, rooms, up, clientVars>>
<1> USE DEF clientVars, historyVars
<1>1. CASE ApplyRoom(s)
  BY <1>1 DEF ApplyRoom
<1>2. CASE PlayLocal(s) \/ TakeGlobal(s) \/ GiveUpRoom(s)
  BY <1>2, Zenon DEF PlayLocal, TakeGlobal, GiveUpRoom
<1>3. CASE Relay(s) \/ RelayFails(s) \/ Arrive(s) \/ RoomNotFound(s) \/ ForwardFails(s)
  BY <1>3 DEF Relay, RelayFails, Arrive, RoomNotFound, ForwardFails
<1>4. CASE CheckNil(s) \/ MakeMap(s) \/ StoreCard(s) \/ CountCards(s) \/ ResetCards(s)
  BY <1>4 DEF CheckNil, MakeMap, StoreCard, CountCards, ResetCards, Put
<1>5. CASE ReadCard(s, Player1, "read1", "read2") \/ ReadCard(s, Player2, "read2", "tell1")
  BY <1>5 DEF ReadCard
<1>6. CASE NotifyPlayer(s, Player1, "tell1", "tell2") \/ NotifyPlayer(s, Player2, "tell2", "reset")
  BY <1>6 DEF NotifyPlayer
<1> QED
  BY <1>1, <1>2, <1>3, <1>4, <1>5, <1>6 DEF ServerStep

(* The head of the requests is on its way.                                 *)
LEMMA HeadIsOnTheWay ==
  ASSUME TypeInv, PlaceInv, NEW s \in Server, requests[s] # <<>>
  PROVE  /\ home[Head(requests[s]).from] = s
         /\ Head(requests[s]).card = played[Head(requests[s]).game][Head(requests[s]).from]
         /\ PendingAt(Head(requests[s]).from, Head(requests[s]).game, 1)
         /\ OnTheWay(Head(requests[s]).from, Head(requests[s]).game)
         /\ played[Head(requests[s]).game][Head(requests[s]).from] # NoCard
<1> DEFINE m == Head(requests[s])
<1>1. m = requests[s][1] /\ 1 \in 1 .. Len(requests[s]) /\ m.card \in Elements
  BY HeadRequest
<1>2. home[m.from] = s /\ m.card = played[m.game][m.from]
  BY <1>1 DEF PlaceInv, RequestsArePlayed, JobsArePlayed
<1>3. PendingAt(m.from, m.game, 1)
  BY <1>1, <1>2 DEF PendingAt
<1>4. m.card # NoCard
  BY <1>1 DEF Elements, NoCard
<1> QED
  BY <1>1, <1>2, <1>3, <1>4 DEF OnTheWay, Pending

LEMMA JobIsOnTheWay ==
  ASSUME TypeInv, PlaceInv, NEW s \in Server, Busy(s)
  PROVE  /\ home[job[s].from] = s /\ CarriedBy(s, job[s].from, job[s].game)
         /\ played[job[s].game][job[s].from] = job[s].card /\ job[s].card # NoCard
         /\ job[s].at \in Unstored => OnTheWay(job[s].from, job[s].game)
<1>1. home[job[s].from] = s /\ job[s].card = played[job[s].game][job[s].from]
  BY DEF PlaceInv, RequestsArePlayed, JobsArePlayed
<1>2. job[s].card # NoCard
  BY JobTyped DEF Elements, NoCard
<1> QED
  BY <1>1, <1>2 DEF CarriedBy, OnTheWay, Carried

LEMMA NewMessages ==
  ASSUME TypeInv, PlaceInv, NEW s \in Server, ServerStep(s), NEW p \in Player
  PROVE  /\ Kept(p)
         /\ \A i \in 1 .. Len(wire'[p]) : i > Len(wire[p]) => AddsCard(p, i) \/ AddsResult(s, p, i)
<1>1. wire[p] \in Seq(Message) /\ Len(wire[p]) \in Nat
  BY DEF TypeInv
<1>2. CASE UNCHANGED wire
  BY <1>1, <1>2 DEF Kept
<1>3. CASE PlayLocal(s)
  <2> DEFINE m == Head(requests[s])
             of == [cards[s][m.game].of EXCEPT ![m.from] = m.card]
             both == \A q \in Player : of[q] # NoCard
             told == IF p = Opponent(m.from) THEN <<Card(m)>> ELSE <<>>
             res == IF both THEN <<Result(m.game, of[Player1], of[Player2])>> ELSE <<>>
  <2>1. wire'[p] = wire[p] \o (told \o res)
    BY <1>3, Zenon DEF PlayLocal
  <2>2. decided' = [decided EXCEPT ![m.game] = IF both THEN @ + 1 ELSE @]
    BY <1>3, Zenon DEF PlayLocal
  <2>3. requests[s] # <<>>
    BY <1>3, Zenon DEF PlayLocal, Taking
  <2>4. /\ OnTheWay(m.from, m.game) /\ played[m.game][m.from] # NoCard
        /\ m.from \in Player /\ m.game \in Game
    BY <2>3, HeadIsOnTheWay, HeadRequest
  <2>0. LocalResult(s) = Result(m.game, of[Player1], of[Player2])
    BY DEF LocalResult
  <2>5. /\ Card(m) \in Message /\ Card(m).type = "PLAY_CARD" /\ Card(m).game = m.game
        /\ Result(m.game, of[Player1], of[Player2]) \in Message
        /\ Result(m.game, of[Player1], of[Player2]).type = "ROUND_RESULT"
        /\ Result(m.game, of[Player1], of[Player2]).game = m.game
    BY <2>4, CardType, ResultType DEF Card, Result
  <2> DEFINE c == Card(m)
             r == Result(m.game, of[Player1], of[Player2])
  <2>6. p = Opponent(m.from) => Opponent(p) = m.from
    BY <2>4, PlayersAssumption DEF Opponent, Player
  <2>7. both => decided'[m.game] = decided[m.game] + 1
    <3> HIDE DEF m, both
    <3> QED
      BY <2>2, <2>4, SMTT(30) DEF TypeInv
  <2>8. c \in Message /\ r \in Message /\ c.game = m.game /\ r.game = m.game
        /\ c.type = "PLAY_CARD" /\ r.type = "ROUND_RESULT"
    BY <2>5
  <2>9. /\ told \in Seq(Message) /\ res \in Seq(Message)
        /\ told = (IF p = Opponent(m.from) THEN <<c>> ELSE <<>>)
        /\ res = (IF both THEN <<r>> ELSE <<>>)
    <3>1. told = (IF p = Opponent(m.from) THEN <<c>> ELSE <<>>)
      OBVIOUS
    <3>2. res = (IF both THEN <<r>> ELSE <<>>)
      OBVIOUS
    <3> HIDE DEF told, res, m, both, c, r
    <3> QED
      BY <2>8, <3>1, <3>2
  <2> HIDE DEF told, res, m, both, c, r, of
  <2>10. /\ told \o res \in Seq(Message)
         /\ \A j \in 1 .. Len(told \o res) :
              \/ (told \o res)[j] = c /\ p = Opponent(m.from)
              \/ (told \o res)[j] = r /\ both /\ j = Len(told \o res)
    BY <2>9
  <2> DEFINE more == told \o res
  <2>11. wire'[p] = wire[p] \o more /\ more \in Seq(Message) /\ Len(more) \in Nat
    BY <2>1, <2>10
  <2>12. /\ Len(wire'[p]) = Len(wire[p]) + Len(more)
         /\ \A j \in 1 .. Len(wire[p]) : wire'[p][j] = wire[p][j]
         /\ \A j \in 1 .. Len(wire[p]) + Len(more) :
              j > Len(wire[p]) => wire'[p][j] = more[j - Len(wire[p])]
    <3> HIDE DEF more
    <3> QED
      BY <1>1, <2>11, Joined
  <2>13. Kept(p)
    <3> HIDE DEF more
    <3> QED
      BY <1>1, <2>11, <2>12 DEF Kept
  <2>14. ASSUME NEW i \in 1 .. Len(wire'[p]), i > Len(wire[p])
         PROVE  AddsCard(p, i) \/ AddsResult(s, p, i)
    <3>1. /\ i - Len(wire[p]) \in 1 .. Len(told \o res)
          /\ wire'[p][i] = (told \o res)[i - Len(wire[p])]
          /\ i - Len(wire[p]) = Len(told \o res) => i = Len(wire'[p])
      <4> HIDE DEF more
      <4>1. /\ i - Len(wire[p]) \in 1 .. Len(more)
            /\ wire'[p][i] = more[i - Len(wire[p])]
            /\ i - Len(wire[p]) = Len(more) => i = Len(wire'[p])
        <5>1. /\ Len(wire[p]) \in Nat /\ Len(more) \in Nat
              /\ Len(wire'[p]) = Len(wire[p]) + Len(more)
          BY <1>1, <2>11, <2>12
        <5>2. i \in 1 .. Len(wire[p]) + Len(more) /\ i > Len(wire[p])
          BY <5>1, <2>14
        <5>3. wire'[p][i] = more[i - Len(wire[p])]
          BY <5>1, <5>2, <2>12
        <5> QED
          BY <5>1, <5>2, <5>3
      <4> QED
        BY <4>1 DEF more
    <3>2. CASE wire'[p][i] = c /\ p = Opponent(m.from)
      BY <2>4, <2>6, <2>8, <3>2 DEF AddsCard
    <3>3. CASE wire'[p][i] = r /\ both /\ i = Len(wire'[p])
      <4>1. wire'[p][i] = LocalResult(s)
        BY <2>0, <3>3 DEF r
      <4> QED
        BY <1>3, <2>4, <2>7, <2>8, <3>3, <4>1 DEF AddsResult
    <3> QED
      BY <2>10, <3>1, <3>2, <3>3
  <2> QED
    BY <2>13, <2>14
<1>4. CASE Relay(s)
  <2>1. Busy(s) /\ job[s].at = "relay"
    BY <1>4 DEF Relay, At, Busy
  <2>2. wire' = [wire EXCEPT ![Opponent(job[s].from)] = Append(@, Card(job[s]))]
    BY <1>4 DEF Relay, Send
  <2>3. OnTheWay(job[s].from, job[s].game) /\ played[job[s].game][job[s].from] # NoCard
    BY <2>1, JobIsOnTheWay DEF Unstored
  <2>4. job[s].from \in Player /\ job[s].game \in Game
    BY <2>1, JobTyped
  <2>5. /\ Card(job[s]) \in Message /\ Card(job[s]).game = job[s].game
        /\ Card(job[s]).type = "PLAY_CARD"
    BY <2>4, CardType DEF Card
  <2>6. p = Opponent(job[s].from) => Opponent(p) = job[s].from
    BY <2>4, PlayersAssumption DEF Opponent, Player
  <2>7. CASE p = Opponent(job[s].from)
    <3>1. wire'[p] = Append(wire[p], Card(job[s]))
      BY <2>2, <2>7 DEF TypeInv
    <3>2. /\ Kept(p) /\ Len(wire'[p]) = Len(wire[p]) + 1
          /\ wire'[p][Len(wire[p]) + 1] = Card(job[s])
      BY <1>1, <2>5, <3>1, Appended DEF Kept
    <3>3. \A i \in 1 .. Len(wire'[p]) : i > Len(wire[p]) => i = Len(wire[p]) + 1
      BY <1>1, <3>2
    <3> QED
      BY <2>3, <2>5, <2>6, <2>7, <3>2, <3>3 DEF AddsCard
  <2>8. CASE p # Opponent(job[s].from)
    <3>1. wire'[p] = wire[p]
      BY <2>2, <2>8 DEF TypeInv
    <3> QED
      BY <1>1, <3>1 DEF Kept
  <2> QED
    BY <2>7, <2>8
<1>5. ASSUME NEW q \in Player, NEW from, NEW to, NotifyPlayer(s, q, from, to),
             \/ q = Player1 /\ from = "tell1" /\ to = "tell2"
             \/ q = Player2 /\ from = "tell2" /\ to = "reset"
      PROVE  /\ Kept(p)
             /\ \A i \in 1 .. Len(wire'[p]) : i > Len(wire[p]) => AddsResult(s, p, i)
  <2> DEFINE r == RoundResult(s)
  <2>1. Busy(s) /\ job[s].at = from /\ job[s].room \in Game /\ decided[job[s].room] \in Nat
    BY <1>5, JobTyped DEF NotifyPlayer, At, Busy, TypeInv
  <2>2. /\ r \in Message /\ r.game = job[s].room /\ r.type = "ROUND_RESULT"
    BY <2>1, ResultType DEF RoundResult, Result
  <2>3. Tells(s, q)
    BY <1>5 DEF Tells
  <2>5. CASE Call(s, home[q]) /\ Send(q, r) /\ p = q
    <3>1. wire'[p] = Append(wire[p], r)
      BY <2>5 DEF Send, TypeInv
    <3> HIDE DEF r
    <3>2. Kept(p) /\ Len(wire'[p]) = Len(wire[p]) + 1 /\ wire'[p][Len(wire[p]) + 1] = r
      BY <1>1, <2>2, <3>1, Appended DEF Kept
    <3>3. \A i \in 1 .. Len(wire'[p]) : i > Len(wire[p]) => i = Len(wire'[p])
      BY <1>1, <3>2
    <3> QED
      BY <2>2, <2>3, <2>5, <3>2, <3>3 DEF AddsResult, r
  <2>6. CASE UNCHANGED wire \/ (Send(q, r) /\ p # q)
    <3>1. wire'[p] = wire[p]
      BY <2>6, SMTT(30) DEF Send, TypeInv
    <3> QED
      BY <1>1, <3>1 DEF Kept
  <2> QED
    BY <1>5, <2>5, <2>6 DEF NotifyPlayer
<1>6. ServerStep(s) => \/ UNCHANGED wire \/ PlayLocal(s) \/ Relay(s)
                       \/ NotifyPlayer(s, Player1, "tell1", "tell2")
                       \/ NotifyPlayer(s, Player2, "tell2", "reset")
  BY DEF ServerStep, ApplyRoom, TakeGlobal, GiveUpRoom, RelayFails, Arrive, RoomNotFound,
         ForwardFails, CheckNil, MakeMap, StoreCard, CountCards, ReadCard, ResetCards, Put
<1>7. CASE \/ NotifyPlayer(s, Player1, "tell1", "tell2")
           \/ NotifyPlayer(s, Player2, "tell2", "reset")
  <2>1. Player1 \in Player /\ Player2 \in Player
    BY DEF Player
  <2>2. CASE NotifyPlayer(s, Player1, "tell1", "tell2")
    BY <1>5, <2>1, <2>2
  <2>3. CASE NotifyPlayer(s, Player2, "tell2", "reset")
    BY <1>5, <2>1, <2>3
  <2> QED
    BY <1>7, <2>2, <2>3
<1> QED
  BY <1>2, <1>3, <1>4, <1>6, <1>7

(***************************************************************************)
(* The clients.                                                            *)
(***************************************************************************)
LEMMA ServersSpareTheFuture ==
  ASSUME TypeInv, NEW s \in Server, ServerStep(s), NEW g \in Game, g > Len(rooms)
  PROVE  /\ decided'[g] = decided[g] /\ mishaps'[g] = mishaps[g]
         /\ \A t \in Server : cards'[t][g] = cards[t][g]
<1> USE DEF historyVars
<1>1. CASE ApplyRoom(s) \/ Relay(s) \/ RelayFails(s) \/ CheckNil(s) \/ CountCards(s)
  BY <1>1 DEF ApplyRoom, Relay, RelayFails, CheckNil, CountCards
<1>2. CASE ReadCard(s, Player1, "read1", "read2") \/ ReadCard(s, Player2, "read2", "tell1")
  BY <1>2 DEF ReadCard
<1>3. CASE PlayLocal(s) \/ TakeGlobal(s) \/ GiveUpRoom(s)
  <2> DEFINE m == Head(requests[s])
  <2>1. m.game \in Game /\ m.game # g
    <3>1. requests[s] # <<>>
      BY <1>3, Zenon DEF PlayLocal, TakeGlobal, GiveUpRoom, Taking
    <3>2. m.game \in Game /\ m.game <= Len(rooms)
      BY <3>1, HeadRequest
    <3>3. g \in Int /\ m.game \in Int /\ Len(rooms) \in Int
      BY <3>2, BoundsAssumption DEF Game, TypeInv
    <3> HIDE DEF m
    <3> QED
      BY <3>2, <3>3
  <2>2. CASE PlayLocal(s)
    <3>1. \E new : cards' = [cards EXCEPT ![s][m.game] = new]
      BY <2>2, Zenon DEF PlayLocal
    <3>2. \E new : decided' = [decided EXCEPT ![m.game] = new]
      BY <2>2, Zenon DEF PlayLocal
    <3>3. mishaps' = mishaps
      BY <2>2, Zenon DEF PlayLocal
    <3> HIDE DEF m
    <3> QED
      BY <2>1, <3>1, <3>2, <3>3 DEF TypeInv
  <2>3. CASE TakeGlobal(s) \/ GiveUpRoom(s)
    <3>1. \E new : mishaps' = [mishaps EXCEPT ![m.game] = new]
      BY <2>3 DEF TakeGlobal, GiveUpRoom, Note
    <3>2. cards' = cards /\ decided' = decided
      BY <2>3 DEF TakeGlobal, GiveUpRoom
    <3> HIDE DEF m
    <3> QED
      BY <2>1, <3>1, <3>2 DEF TypeInv
  <2> QED
    BY <1>3, <2>2, <2>3
<1>4. CASE Arrive(s)
  <2> DEFINE k == IF Host(s) = job[s].on THEN job[s].room ELSE has[Host(s)]
             what == (IF Others(s, Host(s), k) THEN {"raced"} ELSE {})
                       \union (IF k # job[s].game THEN {"crossed"} ELSE {})
  <2>1. mishaps' = [j \in Game |-> IF j \in {k, job[s].game} THEN mishaps[j] \union what
                                                              ELSE mishaps[j]]
    BY <1>4 DEF Arrive
  <2>2. job[s].game # g /\ job[s].room # g /\ Host(s) \in Server
    BY <1>4, JobTyped DEF Arrive, At, Busy, Opened, Host
  <2>3. k # g
    BY <2>2 DEF TypeInv, Game
  <2>4. cards' = cards /\ decided' = decided
    BY <1>4 DEF Arrive
  <2> HIDE DEF k, what
  <2> QED
    BY <2>1, <2>2, <2>3, <2>4
<1>5. CASE RoomNotFound(s) \/ ForwardFails(s)
  <2>1. job[s].game # g /\ cards' = cards /\ decided' = decided
    BY <1>5, JobTyped DEF RoomNotFound, ForwardFails, At, Busy, Opened
  <2>2. mishaps' = [mishaps EXCEPT ![job[s].game] = @ \union {"dropped"}]
    BY <1>5 DEF RoomNotFound, ForwardFails, Note
  <2> QED
    BY <2>1, <2>2 DEF TypeInv
<1>6. CASE MakeMap(s) \/ StoreCard(s) \/ ResetCards(s)
  <2>1. job[s].room # g /\ job[s].room \in Game /\ job[s].on \in Server
    BY <1>6, JobTyped DEF MakeMap, StoreCard, ResetCards, At, Busy, Opened
  <2>2. \E new : cards' = [cards EXCEPT ![job[s].on][job[s].room] = new]
    BY <1>6 DEF MakeMap, StoreCard, ResetCards, Put
  <2>3. decided' = decided /\ mishaps' = mishaps
    BY <1>6 DEF MakeMap, StoreCard, ResetCards, Put
  <2> QED
    BY <2>1, <2>2, <2>3 DEF TypeInv
<1>7. CASE NotifyPlayer(s, Player1, "tell1", "tell2") \/ NotifyPlayer(s, Player2, "tell2", "reset")
  <2>1. job[s].room # g /\ job[s].room \in Game
    BY <1>7, JobTyped DEF NotifyPlayer, At, Busy, Opened
  <2>2. \E new : decided' = [decided EXCEPT ![job[s].room] = new]
    BY <1>7 DEF NotifyPlayer
  <2>3. cards' = cards /\ mishaps' = mishaps
    BY <1>7 DEF NotifyPlayer
  <2> QED
    BY <2>1, <2>2, <2>3 DEF TypeInv
<1> QED
  BY <1>1, <1>2, <1>3, <1>4, <1>5, <1>6, <1>7 DEF ServerStep

LEMMA ClientInit == Init => ClientInv
<1> SUFFICES ASSUME Init
             PROVE  ClientInv
  OBVIOUS
<1>1. \A p \in Player : wire[p] = <<>> /\ game[p] = 0 /\ phase[p] = "waiting"
  BY DEF Init
<1>2. Len(rooms) = 0
  BY DEF Init
<1> QED
  BY <1>1, <1>2, BoundsAssumption
     DEF Init, ClientInv, MatchIsAhead, GamesInOrder, Untouched, Game, Opened

(* The players who are at it are in the last game, which their steps are   *)
(* about.                                                                  *)
LEMMA InLastGame ==
  ASSUME TypeInv, ClientInv, NEW p \in Player, phase[p] # "waiting"
  PROVE  /\ game[p] = Len(rooms) /\ game[p] \in Game /\ game[p] \in Opened
         /\ verdict[game[p]][p] = "unknown"
         /\ \A i \in 1 .. Len(wire[p]) : wire[p][i].type # "MATCH"
<1>1. game[p] = Len(rooms) /\ game[p] >= 1
  BY DEF ClientInv, TypeInv
<1>2. game[p] \in Game
  BY <1>1, BoundsAssumption DEF TypeInv, Game
<1>3. verdict[game[p]][p] = "unknown"
  BY <1>1, <1>2 DEF ClientInv, GamesInOrder, Game
<1>4. \A i \in 1 .. Len(wire[p]) : wire[p][i].type # "MATCH"
  BY <1>1 DEF ClientInv, MatchIsAhead, IsMatch, TypeInv
<1> QED
  BY <1>1, <1>2, <1>3, <1>4 DEF Opened, TypeInv

LEMMA ClientsByClients ==
  ASSUME TypeInv, ClientInv, NEW p \in Player, ClientStep(p)
  PROVE  ClientInv'
<1> USE DEF ClientInv, Opened
<1>0. /\ UNCHANGED <<home, rooms, cards, decided, mishaps>>
      /\ Len(rooms) \in Nat /\ \A q \in Player : game[q] \in Nat
  BY DEF ClientStep, HearMatch, Miss, EnterGame, PlayCard, CancelGame, HearCard, HearResult, End,
         historyVars, TypeInv
<1>1. ASSUME Saw(p), wire[p] # <<>>
      PROVE  /\ \A q \in Player \ {p} : wire'[q] = wire[q]
             /\ \A i \in 1 .. Len(wire'[p]) :
                  i + 1 \in 1 .. Len(wire[p]) /\ wire'[p][i] = wire[p][i + 1]
  <2>1. wire' = [wire EXCEPT ![p] = Tail(@)]
    BY <1>1 DEF Saw
  <2> QED
    BY <1>1, <2>1, HeadMessage DEF TypeInv
<1>a. ASSUME UNCHANGED wire \/ (Saw(p) /\ wire[p] # <<>>), game' = game
      PROVE  MatchIsAhead'
  <2>1. CASE UNCHANGED wire
    BY <1>a, <1>0, <2>1 DEF MatchIsAhead, IsMatch
  <2>2. CASE Saw(p) /\ wire[p] # <<>>
    <3>1. ASSUME NEW q \in Player, NEW i \in 1 .. Len(wire'[q]), wire'[q][i].type = "MATCH"
          PROVE  /\ wire'[q][i].game = Len(rooms) /\ game[q] < Len(rooms)
                 /\ \A j \in 1 .. Len(wire'[q]) : wire'[q][j].type = "MATCH" => i = j
      <4>1. CASE q = p
        <5>1. \A j \in 1 .. Len(wire'[p]) :
                j + 1 \in 1 .. Len(wire[p]) /\ wire'[p][j] = wire[p][j + 1]
          BY <1>1, <2>2
        <5>2. IsMatch(p, i + 1) /\ i + 1 \in 1 .. Len(wire[p]) /\ i \in Int
          BY <3>1, <4>1, <5>1 DEF IsMatch
        <5>3. wire[p][i + 1].game = Len(rooms) /\ game[p] < Len(rooms)
          BY <5>2 DEF MatchIsAhead
        <5>4. ASSUME NEW j \in 1 .. Len(wire'[p]), wire'[p][j].type = "MATCH"
              PROVE  i = j
          <6>1. IsMatch(p, j + 1) /\ j + 1 \in 1 .. Len(wire[p]) /\ j \in Int
            BY <5>1, <5>4 DEF IsMatch
          <6>2. i + 1 = j + 1
            BY <5>2, <6>1 DEF MatchIsAhead
          <6> QED
            BY <5>2, <6>1, <6>2
        <5> QED
          BY <3>1, <4>1, <5>1, <5>3, <5>4
      <4>2. CASE q # p
        BY <1>1, <2>2, <3>1, <4>2 DEF MatchIsAhead, IsMatch
      <4> QED
        BY <4>1, <4>2
    <3> QED
      BY <1>a, <1>0, <3>1 DEF MatchIsAhead, IsMatch
  <2> QED
    BY <1>a, <2>1, <2>2
<1>2. CASE HearMatch(p)
  <2>1. Saw(p) /\ wire[p] # <<>> /\ Head(wire[p]).type = "MATCH" /\ phase[p] = "waiting"
    BY <1>2 DEF HearMatch, Heard
  <2>2. Head(wire[p]).game = Len(rooms) /\ game[p] = Len(rooms) - 1 /\ Len(rooms) \in Game
    <3>1. IsMatch(p, 1) /\ 1 \in 1 .. Len(wire[p]) /\ Head(wire[p]) = wire[p][1]
      BY <2>1, HeadMessage DEF IsMatch
    <3>2. wire[p][1].game = Len(rooms) /\ game[p] < Len(rooms)
      BY <3>1 DEF MatchIsAhead
    <3>3. Len(rooms) \in Game
      BY <3>1, <3>2, <2>1, HeadMessage
    <3> QED
      BY <1>0, <3>1, <3>2, <3>3
  <2>3. /\ game' = [game EXCEPT ![p] = Len(rooms)] /\ phase' = [phase EXCEPT ![p] = "matched"]
        /\ UNCHANGED <<played, verdict>>
    BY <1>2, <2>2 DEF HearMatch
  <2>4. \A i \in 1 .. Len(wire'[p]) : wire'[p][i].type # "MATCH"
    <3>1. IsMatch(p, 1) /\ 1 \in 1 .. Len(wire[p])
      BY <2>1, HeadMessage DEF IsMatch
    <3>2. ASSUME NEW i \in 1 .. Len(wire'[p]), wire'[p][i].type = "MATCH"
          PROVE  FALSE
      <4>1. i + 1 \in 1 .. Len(wire[p]) /\ IsMatch(p, i + 1) /\ i >= 1
        BY <1>1, <2>1, <3>2 DEF IsMatch
      <4> QED
        BY <3>1, <4>1 DEF MatchIsAhead
    <3> QED
      BY <3>2
  <2>5. MatchIsAhead'
    <3>1. ASSUME NEW q \in Player, q # p
          PROVE  wire'[q] = wire[q] /\ game'[q] = game[q]
      BY <1>1, <2>1, <2>3, <3>1 DEF TypeInv
    <3> QED
      BY <1>0, <2>4, <3>1 DEF MatchIsAhead, IsMatch
  <2>6. GamesInOrder'
    BY <1>0, <2>1, <2>2, <2>3 DEF GamesInOrder, Untouched, TypeInv, Game
  <2>7. \A q \in Player : phase'[q] \in {"matched", "choosing"} => played[game'[q]][q] = NoCard
    BY <1>0, <2>1, <2>2, <2>3 DEF GamesInOrder, Untouched, TypeInv
  <2> QED
    BY <1>0, <2>2, <2>3, <2>5, <2>6, <2>7 DEF TypeInv
<1>3. CASE Miss(p)
  <2>1. Saw(p) /\ wire[p] # <<>> /\ UNCHANGED <<phase, game, played, verdict>>
    BY <1>3 DEF Miss, clientVars
  <2> QED
    BY <1>0, <1>a, <2>1 DEF GamesInOrder, Untouched
<1>4. CASE EnterGame(p)
  <2>1. /\ phase[p] = "matched" /\ UNCHANGED <<wire, game, played, verdict>>
        /\ phase' = [phase EXCEPT ![p] = phase'[p]] /\ phase'[p] # "waiting"
    BY <1>4 DEF EnterGame, TypeInv
  <2>2. GamesInOrder'
    BY <2>1 DEF GamesInOrder, Untouched, TypeInv
  <2> QED
    BY <1>0, <1>a, <2>1, <2>2, InLastGame DEF TypeInv
<1>5. CASE PlayCard(p)
  <2>1. PICK c : played' = [played EXCEPT ![game[p]][p] = c]
    BY <1>5 DEF PlayCard
  <2>2. /\ phase[p] = "choosing" /\ phase' = [phase EXCEPT ![p] = "listening"]
        /\ UNCHANGED <<wire, game, verdict>>
    BY <1>5 DEF PlayCard
  <2>3. game[p] = Len(rooms) /\ game[p] \in Game
    BY <2>2, InLastGame
  <2>4. GamesInOrder'
    BY <1>0, <2>1, <2>2, <2>3 DEF GamesInOrder, Untouched, TypeInv
  <2>5. \A q \in Player : phase'[q] \in {"matched", "choosing"} => played'[game[q]][q] = NoCard
    BY <2>1, <2>2, <2>3 DEF TypeInv
  <2> QED
    BY <1>0, <1>a, <2>2, <2>3, <2>4, <2>5 DEF TypeInv
<1>6. ASSUME NEW how, how # "unknown", phase[p] # "waiting", End(p, how),
             UNCHANGED wire \/ (Saw(p) /\ wire[p] # <<>>)
      PROVE  ClientInv'
  <2>1. game[p] = Len(rooms) /\ game[p] \in Game
    BY <1>6, InLastGame
  <2>2. /\ verdict' = [verdict EXCEPT ![game[p]][p] = how]
        /\ phase' = [phase EXCEPT ![p] = "waiting"]
        /\ UNCHANGED <<game, played>>
    BY <1>6 DEF End
  <2>3. GamesInOrder'
    BY <1>0, <1>6, <2>1, <2>2 DEF GamesInOrder, Untouched, TypeInv
  <2>4. \A q \in Player : phase'[q] # "waiting" => phase'[q] = phase[q] /\ phase[q] # "waiting"
    BY <2>2 DEF TypeInv
  <2>5. MatchIsAhead'
    BY <1>6, <1>a, <2>2
  <2>6. \A q \in Player : game'[q] = Len(rooms) \/ (game'[q] = Len(rooms) - 1 /\ phase'[q] = "waiting")
    BY <1>6, <2>2, <2>4 DEF TypeInv
  <2> QED
    BY <1>0, <2>2, <2>3, <2>4, <2>5, <2>6
<1>7. CASE CancelGame(p)
  BY <1>6, <1>7 DEF CancelGame
<1>8. CASE HearCard(p)
  <2>1. Saw(p) /\ wire[p] # <<>> /\ phase[p] = "listening" /\ UNCHANGED <<game, played, verdict>>
    BY <1>8 DEF HearCard, Heard
  <2>2. phase' = [phase EXCEPT ![p] = IF played[game[p]][p] = NoCard THEN "choosing" ELSE @]
    BY <1>8 DEF HearCard
  <2>3. GamesInOrder'
    BY <2>1, <2>2 DEF GamesInOrder, Untouched, TypeInv
  <2> QED
    BY <1>0, <1>a, <2>1, <2>2, <2>3 DEF TypeInv
<1>9. CASE HearResult(p)
  <2>1. Saw(p) /\ wire[p] # <<>> /\ phase[p] = "listening" /\ End(p, Head(wire[p]).winner)
    BY <1>9 DEF HearResult, Heard
  <2>2. Head(wire[p]).winner \in Player \union {"nobody"}
    BY <1>9, <2>1, HeadMessage DEF HearResult, Heard
  <2>3. Head(wire[p]).winner # "unknown"
    BY <2>2, PlayersAssumption
  <2> QED
    BY <1>6, <2>1, <2>3
<1> QED
  BY <1>2, <1>3, <1>4, <1>5, <1>7, <1>8, <1>9 DEF ClientStep

LEMMA ClientsByServers ==
  ASSUME TypeInv, PlaceInv, ClientInv, NEW s \in Server, ServerStep(s)
  PROVE  ClientInv'
<1>1. UNCHANGED <<home, rooms, up, phase, game, played, verdict>>
  BY ServerKeeps DEF clientVars
<1>2. ASSUME NEW p \in Player, NEW i \in 1 .. Len(wire'[p]), wire'[p][i].type = "MATCH"
      PROVE  i \in 1 .. Len(wire[p]) /\ wire'[p][i] = wire[p][i]
  <2>1. i \in 1 .. Len(wire[p]) \/ AddsCard(p, i) \/ AddsResult(s, p, i)
    BY NewMessages DEF TypeInv
  <2> QED
    BY <1>2, <2>1, NewMessages DEF AddsCard, AddsResult, Kept
<1>3. MatchIsAhead'
  BY <1>1, <1>2 DEF ClientInv, MatchIsAhead, IsMatch
<1>4. \A g \in Game : g > Len(rooms) =>
        /\ decided'[g] = 0 /\ mishaps'[g] = {}
        /\ \A t \in Server : cards'[t][g] = NilMap
  BY ServersSpareTheFuture DEF ClientInv
<1> QED
  BY <1>1, <1>3, <1>4 DEF ClientInv, GamesInOrder, Untouched, Opened

LEMMA OpenRoomFacts ==
  ASSUME TypeInv, ClientInv, OpenRoom
  PROVE  /\ Len(rooms) \in Nat /\ Len(rooms') = Len(rooms) + 1 /\ Len(rooms') \in Game
         /\ \A p \in Player : phase[p] = "waiting" /\ game[p] = Len(rooms)
         /\ \A g \in Opened : rooms'[g] = rooms[g]
         /\ rooms'[Len(rooms')].host \in Server
         /\ rooms'[Len(rooms')].local => \A p \in Player : home[p] = rooms'[Len(rooms')].host
         /\ \A p \in Player :
              /\ Len(wire[p]) \in Nat /\ Len(wire'[p]) = Len(wire[p]) + 1
              /\ \A i \in 1 .. Len(wire[p]) : wire'[p][i] = wire[p][i]
              /\ wire'[p][Len(wire'[p])] = [type |-> "MATCH", game |-> Len(rooms')]
         /\ UNCHANGED <<home, has, up, requests, job, cards, clientVars, historyVars, faults>>
<1>1. PICK o \in [first : Player, hosting : Player, local : BOOLEAN] :
        /\ o.local => home[Player1] = home[Player2]
        /\ rooms' = Append(rooms, [first |-> o.first, host |-> home[o.hosting], local |-> o.local])
  BY OpeningsAssumption DEF OpenRoom, Game
<1> DEFINE new == [first |-> o.first, host |-> home[o.hosting], local |-> o.local]
<1>2. new.host = home[o.hosting] /\ new.local = o.local /\ new.host \in Server
  BY HomesAssumption DEF TypeInv
<1>3. new \in RoomRec
  BY <1>2 DEF RoomRec
<1>4. Len(rooms) + 1 \in Game
  BY DEF OpenRoom
<1>5. ASSUME NEW p \in Player
      PROVE  /\ Len(wire[p]) \in Nat /\ Len(wire'[p]) = Len(wire[p]) + 1
             /\ \A i \in 1 .. Len(wire[p]) : wire'[p][i] = wire[p][i]
             /\ wire'[p][Len(wire'[p])] = [type |-> "MATCH", game |-> Len(rooms) + 1]
  <2> DEFINE e == [type |-> "MATCH", game |-> Len(rooms) + 1]
  <2>1. e \in Message
    BY <1>4 DEF Message
  <2>2. wire'[p] = Append(wire[p], e) /\ wire[p] \in Seq(Message)
    BY DEF OpenRoom, TypeInv
  <2> HIDE DEF e
  <2>3. /\ Len(wire[p]) \in Nat /\ Len(wire'[p]) = Len(wire[p]) + 1
        /\ \A i \in 1 .. Len(wire[p]) : wire'[p][i] = wire[p][i]
        /\ wire'[p][Len(wire'[p])] = e
    BY <2>1, <2>2, Appended
  <2> QED
    BY <2>3 DEF e
<1>6. /\ Len(rooms) \in Nat /\ Len(rooms') = Len(rooms) + 1
      /\ \A g \in 1 .. Len(rooms) : rooms'[g] = rooms[g]
      /\ rooms'[Len(rooms')] = new
  <2> HIDE DEF new
  <2> QED
    BY <1>1, <1>3, Appended DEF TypeInv, new
<1>7. new.local => \A p \in Player : home[p] = new.host
  BY <1>1, <1>2 DEF Player
<1> HIDE DEF new
<1>8. /\ \A p \in Player : phase[p] = "waiting" /\ game[p] = Len(rooms)
      /\ UNCHANGED <<home, has, up, requests, job, cards, clientVars, historyVars, faults>>
  BY DEF OpenRoom
<1> QED
  BY <1>2, <1>4, <1>5, <1>6, <1>7, <1>8 DEF Opened

LEMMA ClientsByOpening ==
  ASSUME TypeInv, ClientInv, OpenRoom
  PROVE  ClientInv'
<1>1. /\ Len(rooms) \in Nat /\ Len(rooms') = Len(rooms) + 1
      /\ \A p \in Player : phase[p] = "waiting" /\ game[p] = Len(rooms)
      /\ UNCHANGED <<home, cards, phase, game, played, verdict, decided, mishaps>>
  BY OpenRoomFacts DEF clientVars, historyVars
<1>2. MatchIsAhead'
  <2>1. ASSUME NEW p \in Player, NEW i \in 1 .. Len(wire'[p]), wire'[p][i].type = "MATCH"
        PROVE  i = Len(wire'[p]) /\ wire'[p][i].game = Len(rooms')
    <3>1. Len(wire[p]) \in Nat /\ Len(wire'[p]) = Len(wire[p]) + 1
      BY OpenRoomFacts
    <3>2. CASE i \in 1 .. Len(wire[p])
      <4>1. IsMatch(p, i)
        BY <2>1, <3>2, OpenRoomFacts DEF IsMatch
      <4> QED
        BY <1>1, <3>2, <4>1 DEF ClientInv, MatchIsAhead
    <3>3. CASE i = Len(wire'[p])
      BY <3>3, OpenRoomFacts
    <3> QED
      BY <3>1, <3>2, <3>3
  <2> QED
    BY <1>1, <2>1 DEF MatchIsAhead, IsMatch
<1>3. GamesInOrder'
  BY <1>1 DEF ClientInv, GamesInOrder, Untouched
<1>4. \A g \in 1 .. Len(rooms') : rooms'[g].local => \A p \in Player : home[p] = rooms'[g].host
  <2>1. \A g \in 1 .. Len(rooms') : g \in Opened \/ g = Len(rooms')
    BY <1>1 DEF Opened
  <2>2. \A g \in Opened : rooms'[g].local => \A p \in Player : home[p] = rooms'[g].host
    BY OpenRoomFacts DEF ClientInv
  <2> QED
    BY <2>1, <2>2, OpenRoomFacts
<1> QED
  BY <1>1, <1>2, <1>3, <1>4 DEF ClientInv, Opened, Game

LEMMA CrashFacts ==
  ASSUME TypeInv, NEW s \in Server, NEW t \in Server, ConcurrentMapAccess(s, t)
  PROVE  /\ UNCHANGED <<home, rooms, has, requests, cards, wire, clientVars, decided, faults>>
         /\ Inside(s, job[s].room) /\ Inside(t, job[s].room) /\ s # t /\ job[s].on = job[t].on
         /\ \A u \in Server : job'[u] \in {job[u], Idle}
         /\ \A u \in Server : Busy(u)' => Busy(u) /\ up'[job[u].on] = up[job[u].on]
         /\ \A u \in Server : Busy(u) /\ ~ Busy(u)' => "dropped" \in mishaps'[job[u].game]
         /\ \A u \in Server : up'[u] => up[u]
         /\ \A g \in Game : mishaps[g] \subseteq mishaps'[g] /\ mishaps'[g] \subseteq mishaps[g] \union {"dropped"}
         /\ \A g \in Game : (\A u \in Server : Busy(u) => job[u].game # g) => mishaps'[g] = mishaps[g]
<1>1. Busy(s) /\ Busy(t) /\ job[s].at = "store" /\ job[t].at \in {"store", "read1", "read2"}
  BY DEF ConcurrentMapAccess, At, Busy
<1>2. job[s].on = job[t].on /\ job[s].room = job[t].room /\ s # t
  BY DEF ConcurrentMapAccess
<1>3. Inside(s, job[s].room) /\ Inside(t, job[s].room)
  BY <1>1, <1>2 DEF Inside, Early
<1> DEFINE dead == {u \in Server : job[u] # Idle /\ job[u].on = job[s].on}
<1>4. /\ job' = [u \in Server |-> IF u \in dead THEN Idle ELSE job[u]]
      /\ mishaps' = [g \in Game |-> IF \E u \in dead : job[u].game = g
                                      THEN mishaps[g] \union {"dropped"} ELSE mishaps[g]]
      /\ up' = [up EXCEPT ![job[s].on] = FALSE]
      /\ UNCHANGED <<home, rooms, has, requests, cards, wire, clientVars, decided, faults>>
  BY DEF ConcurrentMapAccess
<1>5. \A u \in Server : Busy(u) => job[u].game \in Game /\ job[u].on \in Server
  BY JobTyped
<1> QED
  BY <1>1, <1>2, <1>3, <1>4, <1>5 DEF Busy, TypeInv

LEMMA ClientsByCrash ==
  ASSUME TypeInv, ClientInv, NEW s \in Server, NEW t \in Server, ConcurrentMapAccess(s, t)
  PROVE  ClientInv'
<1>1. UNCHANGED <<home, rooms, cards, wire, phase, game, played, verdict, decided>>
  BY CrashFacts DEF clientVars
<1>2. ASSUME NEW g \in Game, g > Len(rooms)
      PROVE  mishaps'[g] = mishaps[g]
  <2>1. \A u \in Server : Busy(u) => job[u].game # g
    BY <1>2, JobTyped, SMTT(30) DEF Opened, TypeInv
  <2> QED
    BY <2>1, CrashFacts
<1> QED
  BY <1>1, <1>2 DEF ClientInv, MatchIsAhead, IsMatch, GamesInOrder, Untouched, Opened

LEMMA ClientNext == TypeInv /\ PlaceInv /\ ClientInv /\ [Next]_vars => ClientInv'
<1> SUFFICES ASSUME TypeInv, PlaceInv, ClientInv, [Next]_vars
             PROVE  ClientInv'
  OBVIOUS
<1>1. CASE UNCHANGED vars
  BY <1>1 DEF vars, clientVars, historyVars, ClientInv, MatchIsAhead, IsMatch, GamesInOrder,
              Untouched, Opened
<1> QED
  BY <1>1, ClientsByClients, ClientsByServers, ClientsByOpening, ClientsByCrash DEF Next

(***************************************************************************)
(* What the steps of a server change, part by part.                        *)
(***************************************************************************)
SameJob(s) ==
  /\ job'[s].from = job[s].from /\ job'[s].card = job[s].card /\ job'[s].game = job[s].game
  /\ job'[s].room = job[s].room /\ job'[s].on = job[s].on
OtherJobs(s) == \A t \in Server : t # s => job'[t] = job[t]
OtherMaps(h, g) == \A t \in Server, k \in Game : (t # h \/ k # g) => cards'[t][k] = cards[t][k]

LEMMA TakenFacts ==
  ASSUME TypeInv, NEW s \in Server, requests[s] # <<>>, Taken(s)
  PROVE  /\ \A t \in Server : t # s => requests'[t] = requests[t]
         /\ Len(requests[s]) \in Nat \ {0} /\ Len(requests'[s]) = Len(requests[s]) - 1
         /\ \A i \in 1 .. Len(requests'[s]) : /\ i + 1 \in 1 .. Len(requests[s])
                                              /\ requests'[s][i] = requests[s][i + 1]
         /\ \A i \in 1 .. Len(requests[s]) : i # 1 => /\ i - 1 \in 1 .. Len(requests'[s])
                                                      /\ requests'[s][i - 1] = requests[s][i]
<1>1. requests' = [requests EXCEPT ![s] = Tail(@)]
  BY DEF Taken
<1>2. /\ Len(requests[s]) \in Nat \ {0}
      /\ Len(Tail(requests[s])) = Len(requests[s]) - 1
      /\ \A i \in 1 .. Len(requests[s]) - 1 : Tail(requests[s])[i] = requests[s][i + 1]
  BY HeadRequest
<1>3. requests'[s] = Tail(requests[s]) /\ \A t \in Server : t # s => requests'[t] = requests[t]
  BY <1>1 DEF TypeInv
<1>4. \A i \in 1 .. Len(requests[s]) : i # 1 =>
        i - 1 \in 1 .. Len(requests[s]) - 1 /\ (i - 1) + 1 = i
  BY <1>2
<1> QED
  BY <1>2, <1>3, <1>4

LEMMA PlayLocalFacts ==
  ASSUME TypeInv, PlaceInv, NEW s \in Server, PlayLocal(s)
  PROVE  LET m == Head(requests[s])
             q == Opponent(m.from)
             both == cards[s][m.game].of[q] # NoCard
         IN
         /\ requests[s] # <<>> /\ Taken(s) /\ rooms[m.game].local
         /\ m.from \in Player /\ m.card \in Elements /\ m.card # NoCard
         /\ m.game \in Game /\ m.game \in Opened
         /\ OtherMaps(s, m.game) /\ \A g \in Game : g # m.game => decided'[g] = decided[g]
         /\ UNCHANGED <<has, job, mishaps, faults>>
         /\ both => cards'[s][m.game] = EmptyMap /\ decided'[m.game] = decided[m.game] + 1
         /\ ~ both => /\ decided'[m.game] = decided[m.game] /\ cards'[s][m.game].made
                      /\ cards'[s][m.game].of[m.from] = m.card
                      /\ cards'[s][m.game].of[q] = cards[s][m.game].of[q]
<1> DEFINE m == Head(requests[s])
           q == Opponent(m.from)
           of == [cards[s][m.game].of EXCEPT ![m.from] = m.card]
           all == \A p \in Player : of[p] # NoCard
           both == cards[s][m.game].of[q] # NoCard
<1>1. requests[s] # <<>> /\ Taken(s) /\ rooms[m.game].local
  BY Zenon DEF PlayLocal, Taking
<1>2. /\ m.from \in Player /\ m.card \in Elements /\ m.game \in Game /\ m.game \in Opened
  BY <1>1, HeadRequest
<1>3. m.card # NoCard
  BY <1>2 DEF Elements, NoCard
<1>4. cards[s][m.game].of \in [Player -> Slot]
  BY <1>2 DEF TypeInv, Map
<1>5. of[m.from] = m.card /\ of[q] = cards[s][m.game].of[q] /\ q \in Player
  BY <1>2, <1>4, OpponentType
<1>6. \A p \in Player : p = m.from \/ p = q
  BY <1>2 DEF Player, Opponent
<1>7. all <=> both
  BY <1>2, <1>3, <1>5, <1>6, Zenon
<1>8. /\ cards' = [cards EXCEPT ![s][m.game] =
                     IF all THEN EmptyMap ELSE [made |-> TRUE, of |-> of]]
      /\ decided' = [decided EXCEPT ![m.game] = IF all THEN @ + 1 ELSE @]
      /\ UNCHANGED <<has, job, mishaps, faults>>
  BY Zenon DEF PlayLocal
<1> HIDE DEF m, q, of, all, both
<1>9. /\ OtherMaps(s, m.game) /\ \A g \in Game : g # m.game => decided'[g] = decided[g]
      /\ cards'[s][m.game] = IF all THEN EmptyMap ELSE [made |-> TRUE, of |-> of]
      /\ decided'[m.game] = IF all THEN decided[m.game] + 1 ELSE decided[m.game]
  BY <1>2, <1>8 DEF TypeInv, OtherMaps
<1>10. ~ both => /\ cards'[s][m.game].made /\ cards'[s][m.game].of[m.from] = m.card
                 /\ cards'[s][m.game].of[q] = cards[s][m.game].of[q]
  BY <1>5, <1>7, <1>9
<1> USE DEF m, q, both
<1> QED
  BY <1>1, <1>2, <1>3, <1>7, <1>8, <1>9, <1>10

LEMMA TakeGlobalFacts ==
  ASSUME TypeInv, NEW s \in Server, TakeGlobal(s)
  PROVE  LET m == Head(requests[s]) IN
         /\ requests[s] # <<>> /\ Taken(s) /\ ~ rooms[m.game].local /\ ~ Busy(s)
         /\ has[s] > 0 /\ has[s] \in Opened /\ up[s]
         /\ m.from \in Player /\ m.game \in Game /\ m.game \in Opened
         /\ Busy(s)' /\ OtherJobs(s)
         /\ job'[s].at = "relay" /\ job'[s].from = m.from /\ job'[s].card = m.card
         /\ job'[s].game = m.game /\ job'[s].room = has[s] /\ job'[s].on = s
         /\ \A g \in Game : /\ g # m.game => mishaps'[g] = mishaps[g]
                            /\ mishaps[g] \subseteq mishaps'[g]
         /\ has[s] # m.game => "crossed" \in mishaps'[m.game]
         /\ UNCHANGED <<has, cards, wire, decided, faults>>
<1> DEFINE m == Head(requests[s])
           new == [at |-> "relay", from |-> m.from, card |-> m.card, game |-> m.game,
                   room |-> has[s], on |-> s, seen |-> NilMap.of]
<1>1. /\ requests[s] # <<>> /\ Taken(s) /\ ~ rooms[m.game].local /\ ~ Busy(s)
      /\ has[s] > 0 /\ up[s] /\ job' = [job EXCEPT ![s] = new]
      /\ mishaps' = [mishaps EXCEPT ![m.game] = IF has[s] = m.game THEN @
                                                ELSE @ \union {"crossed"}]
      /\ UNCHANGED <<has, cards, wire, decided, faults>>
  BY DEF TakeGlobal, Taking, Busy
<1>2. m.from \in Player /\ m.game \in Game /\ m.game \in Opened
  BY <1>1, HeadRequest
<1>3. job'[s] = new /\ OtherJobs(s)
  BY <1>1 DEF TypeInv, OtherJobs
<1>4. new.at = "relay" /\ Idle.at = "idle"
  BY DEF Idle
<1>5. Busy(s)'
  BY <1>3, <1>4 DEF Busy
<1>6. /\ \A g \in Game : /\ g # m.game => mishaps'[g] = mishaps[g]
                         /\ mishaps[g] \subseteq mishaps'[g]
      /\ has[s] # m.game => "crossed" \in mishaps'[m.game]
  <2> HIDE DEF m, new
  <2> QED
    BY <1>1, <1>2 DEF TypeInv
<1>7. has[s] \in Opened
  BY <1>1 DEF TypeInv, Opened
<1> QED
  BY <1>1, <1>2, <1>3, <1>5, <1>6, <1>7

LEMMA ArriveFacts ==
  ASSUME TypeInv, PlaceInv, NEW s \in Server, Arrive(s)
  PROVE  LET h == Host(s)
             g == IF h = job[s].on THEN job[s].room ELSE has[h]
         IN
         /\ Busy(s) /\ job[s].at = "forward" /\ h \in Server /\ up[h]
         /\ g \in Game /\ g \in Opened /\ ~ rooms[g].local
         /\ Busy(s)' /\ OtherJobs(s)
         /\ job'[s].at = "check" /\ job'[s].from = job[s].from /\ job'[s].card = job[s].card
         /\ job'[s].game = job[s].game /\ job'[s].room = g /\ job'[s].on = h
         /\ \A k \in Game : /\ mishaps[k] \subseteq mishaps'[k]
                            /\ k # g /\ k # job[s].game => mishaps'[k] = mishaps[k]
         /\ Others(s, h, g) => "raced" \in mishaps'[g]
         /\ g # job[s].game => "crossed" \in mishaps'[g] /\ "crossed" \in mishaps'[job[s].game]
         /\ UNCHANGED <<has, requests, cards, wire, decided, faults>>
<1> DEFINE h == Host(s)
           g == IF h = job[s].on THEN job[s].room ELSE has[h]
           what == (IF Others(s, h, g) THEN {"raced"} ELSE {})
                     \union (IF g # job[s].game THEN {"crossed"} ELSE {})
<1>1. /\ Busy(s) /\ job[s].at = "forward" /\ Call(s, h) /\ g > 0
      /\ job' = [job EXCEPT ![s] = [job[s] EXCEPT !.at = "check", !.room = g, !.on = h]]
      /\ mishaps' = [k \in Game |-> IF k \in {g, job[s].game} THEN mishaps[k] \union what
                                                              ELSE mishaps[k]]
      /\ UNCHANGED <<has, requests, cards, wire, decided, faults>>
  BY DEF Arrive, At, Busy
<1>2. h \in Server /\ job[s].game \in Game /\ job[s].room \in Opened /\ job[s] \in Job
  BY <1>1, JobTyped DEF Host
<1>3. up[h]
  BY <1>1 DEF Call, PlaceInv, JobsArePlayed
<1>4. g \in Opened
  BY <1>1, <1>2 DEF TypeInv, Opened
<1>5. g \in Game
  BY <1>4, BoundsAssumption DEF Opened, Game, TypeInv
<1>6. ~ rooms[g].local
  BY <1>1, <1>2 DEF PlaceInv, JobsArePlayed
<1> HIDE DEF g, h
<1>7. /\ \A k \in Game : /\ mishaps[k] \subseteq mishaps'[k]
                         /\ k # g /\ k # job[s].game => mishaps'[k] = mishaps[k]
      /\ Others(s, h, g) => "raced" \in mishaps'[g]
      /\ g # job[s].game => "crossed" \in mishaps'[g] /\ "crossed" \in mishaps'[job[s].game]
  BY <1>1, <1>2, <1>5
<1>8. OtherJobs(s) /\ job'[s] = [job[s] EXCEPT !.at = "check", !.room = g, !.on = h]
  BY <1>1 DEF TypeInv, OtherJobs
<1>9. /\ job'[s].at = "check" /\ job'[s].from = job[s].from /\ job'[s].card = job[s].card
      /\ job'[s].game = job[s].game /\ job'[s].room = g /\ job'[s].on = h
  BY <1>2, <1>8 DEF Job
<1>10. Busy(s)'
  BY <1>9 DEF Busy, Idle
<1> USE DEF g, h
<1> QED
  BY <1>1, <1>2, <1>3, <1>4, <1>5, <1>6, <1>7, <1>8, <1>9, <1>10

LEMMA GoToFacts ==
  ASSUME TypeInv, NEW s \in Server, Busy(s), NEW place \in Places, GoTo(s, place)
  PROVE  /\ Busy(s)' /\ job'[s].at = place /\ SameJob(s) /\ job'[s].seen = job[s].seen
         /\ OtherJobs(s)
BY TypeOfGoTo DEF Busy, SameJob, OtherJobs

LEMMA FinishFacts ==
  ASSUME TypeInv, NEW s \in Server, Finish(s)
  PROVE  ~ Busy(s)' /\ OtherJobs(s)
BY DEF TypeInv, Finish, Busy, OtherJobs

(* The steps that leave the maps, the results and the mishaps alone.       *)
LEMMA MoveFacts ==
  ASSUME TypeInv, NEW s \in Server,
         \/ Relay(s) \/ RelayFails(s) \/ CheckNil(s) \/ CountCards(s)
         \/ ReadCard(s, Player1, "read1", "read2") \/ ReadCard(s, Player2, "read2", "tell1")
  PROVE  /\ Busy(s) /\ OtherJobs(s)
         /\ UNCHANGED <<has, requests, cards, decided, mishaps>>
         /\ faults' = 0 => faults = 0
         /\ Relay(s) \/ UNCHANGED wire
         /\ \/ /\ Busy(s)' /\ SameJob(s)
               /\ \/ job[s].at = "relay" /\ job'[s].at = "forward"
                  \/ job[s].at = "check" /\ job'[s].at = "store" /\ Room(s).made
                  \/ job[s].at = "check" /\ job'[s].at = "make" /\ ~ Room(s).made
                  \/ job[s].at = "count" /\ job'[s].at = "read1" /\ Full(Room(s))
                  \/ /\ job[s].at = "read1" /\ job'[s].at = "read2"
                     /\ job'[s].seen[Player1] = Room(s).of[Player1]
                  \/ /\ job[s].at = "read2" /\ job'[s].at = "tell1"
                     /\ job'[s].seen[Player1] = job[s].seen[Player1]
                     /\ job'[s].seen[Player2] = Room(s).of[Player2]
            \/ ~ Busy(s)' /\ job[s].at = "count" /\ ~ Full(Room(s))
<1>1. CASE Relay(s) \/ RelayFails(s) \/ CheckNil(s)
  <2>1. Busy(s) /\ "forward" \in Places /\ "store" \in Places /\ "make" \in Places
    BY <1>1 DEF Relay, RelayFails, CheckNil, At, Busy, Places
  <2>2. faults' = 0 => faults = 0
    BY <1>1, FaultType, BoundsAssumption DEF Relay, RelayFails, CallFails, CheckNil
  <2> QED
    BY <1>1, <2>1, <2>2, GoToFacts DEF Relay, RelayFails, CheckNil, At, historyVars
<1>2. CASE CountCards(s)
  <2>1. Busy(s) /\ "read1" \in Places /\ job[s].at = "count"
    BY <1>2 DEF CountCards, At, Busy, Places
  <2> QED
    BY <1>2, <2>1, GoToFacts, FinishFacts DEF CountCards, Full, historyVars
<1>3. ASSUME NEW p \in Player, NEW from, NEW to \in Places, ReadCard(s, p, from, to)
      PROVE  /\ Busy(s) /\ OtherJobs(s) /\ job[s].at = from
             /\ Busy(s)' /\ SameJob(s) /\ job'[s].at = to /\ job'[s].seen[p] = Room(s).of[p]
             /\ \A q \in Player : q # p => job'[s].seen[q] = job[s].seen[q]
             /\ UNCHANGED <<has, requests, cards, wire, decided, mishaps, faults>>
  <2>1. /\ Busy(s) /\ job[s].at = from
        /\ job' = [job EXCEPT ![s] = [job[s] EXCEPT !.at = to, !.seen[p] = Room(s).of[p]]]
        /\ UNCHANGED <<has, requests, cards, wire, decided, mishaps, faults>>
    BY <1>3 DEF ReadCard, At, Busy, historyVars
  <2>2. job[s] \in Job
    BY <2>1, JobTyped
  <2>3. OtherJobs(s) /\ job'[s] = [job[s] EXCEPT !.at = to, !.seen[p] = Room(s).of[p]]
    BY <2>1 DEF TypeInv, OtherJobs
  <2>4. /\ SameJob(s) /\ job'[s].at = to /\ job'[s].seen[p] = Room(s).of[p]
        /\ \A q \in Player : q # p => job'[s].seen[q] = job[s].seen[q]
    BY <2>2, <2>3 DEF Job, SameJob
  <2>5. Busy(s)'
    BY <2>4 DEF Busy, Idle, Places
  <2> QED
    BY <2>1, <2>3, <2>4, <2>5
<1>4. Player1 \in Player /\ Player2 \in Player /\ Player1 # Player2
  BY PlayersAssumption DEF Player
<1>5. "read2" \in Places /\ "tell1" \in Places
  BY DEF Places
<1>6. CASE ReadCard(s, Player1, "read1", "read2")
  BY <1>3, <1>4, <1>5, <1>6
<1>7. CASE ReadCard(s, Player2, "read2", "tell1")
  BY <1>3, <1>4, <1>5, <1>7
<1> QED
  BY <1>1, <1>2, <1>6, <1>7

LEMMA PutFacts ==
  ASSUME TypeInv, NEW s \in Server, MakeMap(s) \/ StoreCard(s) \/ ResetCards(s)
  PROVE  LET h == job[s].on
             g == job[s].room
             p == job[s].from
         IN
         /\ Busy(s) /\ OtherJobs(s) /\ h \in Server /\ g \in Game
         /\ UNCHANGED <<has, requests, wire, decided, mishaps, faults>>
         /\ OtherMaps(h, g)
         /\ \/ /\ job[s].at = "make" /\ job'[s].at = "store" /\ Busy(s)' /\ SameJob(s)
               /\ cards'[h][g] = EmptyMap
            \/ /\ job[s].at = "store" /\ job'[s].at = "count" /\ Busy(s)' /\ SameJob(s)
               /\ cards'[h][g].made = cards[h][g].made /\ cards'[h][g].of[p] = job[s].card
               /\ \A q \in Player : q # p => cards'[h][g].of[q] = cards[h][g].of[q]
            \/ /\ job[s].at = "reset" /\ ~ Busy(s)' /\ cards'[h][g] = EmptyMap
<1>1. Busy(s) /\ "store" \in Places /\ "count" \in Places
  BY DEF MakeMap, StoreCard, ResetCards, At, Busy, Places
<1>2. job[s].on \in Server /\ job[s].room \in Game /\ job[s].from \in Player
  BY <1>1, JobTyped
<1>3. UNCHANGED <<has, requests, wire, decided, mishaps, faults>>
  BY DEF MakeMap, StoreCard, ResetCards, Put, historyVars
<1>4. \A map : cards' = [cards EXCEPT ![job[s].on][job[s].room] = map] =>
        OtherMaps(job[s].on, job[s].room) /\ cards'[job[s].on][job[s].room] = map
  BY <1>2 DEF TypeInv, OtherMaps
<1>5. CASE MakeMap(s)
  BY <1>1, <1>2, <1>3, <1>4, <1>5, GoToFacts DEF MakeMap, Put, At
<1>6. CASE StoreCard(s)
  <2> DEFINE map == [Room(s) EXCEPT !.of[job[s].from] = job[s].card]
  <2>1. cards' = [cards EXCEPT ![job[s].on][job[s].room] = map]
    BY <1>6 DEF StoreCard, Put
  <2>2. Room(s) = cards[job[s].on][job[s].room] /\ Room(s) \in Map
    BY <1>2 DEF Room, TypeInv
  <2>3. /\ map.made = Room(s).made /\ map.of[job[s].from] = job[s].card
        /\ \A q \in Player : q # job[s].from => map.of[q] = Room(s).of[q]
    BY <1>2, <2>2 DEF Map
  <2>4. /\ job[s].at = "store" /\ GoTo(s, "count")
    BY <1>6 DEF StoreCard, Put, At
  <2> HIDE DEF map
  <2>5. OtherMaps(job[s].on, job[s].room) /\ cards'[job[s].on][job[s].room] = map
    BY <1>4, <2>1
  <2> QED
    BY <1>1, <1>2, <1>3, <2>2, <2>3, <2>4, <2>5, GoToFacts
<1>7. CASE ResetCards(s)
  BY <1>1, <1>2, <1>3, <1>4, <1>7, FinishFacts DEF ResetCards, At
<1> QED
  BY <1>5, <1>6, <1>7

LEMMA NotifyFacts ==
  ASSUME TypeInv, NEW s \in Server,
         \/ NotifyPlayer(s, Player1, "tell1", "tell2")
         \/ NotifyPlayer(s, Player2, "tell2", "reset")
  PROVE  LET p == IF job[s].at = "tell1" THEN Player1 ELSE Player2
             g == job[s].room
         IN
         /\ Busy(s) /\ Busy(s)' /\ OtherJobs(s) /\ SameJob(s) /\ job'[s].seen = job[s].seen
         /\ \/ job[s].at = "tell1" /\ job'[s].at = "tell2"
            \/ job[s].at = "tell2" /\ job'[s].at = "reset"
         /\ \A k \in Game : decided'[k] = IF k = g /\ job[s].at = "tell1" THEN decided[k] + 1
                                                                         ELSE decided[k]
         /\ UNCHANGED <<has, requests, cards, mishaps>>
         /\ faults' = 0 => faults = 0
         /\ \A q \in Player : q # p => wire'[q] = wire[q]
         /\ \/ Call(s, home[p]) /\ wire'[p] = Append(wire[p], RoundResult(s))
            \/ wire'[p] = wire[p] /\ (faults' = 0 => ~ up[home[p]])
<1>1. ASSUME NEW p \in Player, NEW from \in Places, NEW to \in Places,
             NotifyPlayer(s, p, from, to)
      PROVE  /\ Busy(s) /\ Busy(s)' /\ OtherJobs(s) /\ SameJob(s) /\ job'[s].seen = job[s].seen
             /\ job[s].at = from /\ job'[s].at = to
             /\ \A k \in Game : decided'[k] = IF k = job[s].room /\ p = Player1
                                              THEN decided[k] + 1 ELSE decided[k]
             /\ UNCHANGED <<has, requests, cards, mishaps>>
             /\ faults' = 0 => faults = 0
             /\ \A q \in Player : q # p => wire'[q] = wire[q]
             /\ \/ Call(s, home[p]) /\ wire'[p] = Append(wire[p], RoundResult(s))
                \/ wire'[p] = wire[p] /\ (faults' = 0 => ~ up[home[p]])
  <2>1. Busy(s) /\ GoTo(s, to) /\ job[s].at = from /\ UNCHANGED <<has, requests, cards, mishaps>>
    BY <1>1 DEF NotifyPlayer, At, Busy
  <2>2. job[s].room \in Game
    BY <2>1, JobTyped
  <2>3. decided' = [decided EXCEPT ![job[s].room] = IF p = Player1 THEN @ + 1 ELSE @]
    BY <1>1 DEF NotifyPlayer
  <2>4. \A k \in Game : decided'[k] = IF k = job[s].room /\ p = Player1
                                      THEN decided[k] + 1 ELSE decided[k]
    BY <2>2, <2>3 DEF TypeInv
  <2>5. CASE Call(s, home[p]) /\ Send(p, RoundResult(s)) /\ UNCHANGED faults
    BY <2>1, <2>4, <2>5, GoToFacts DEF Send, TypeInv
  <2>6. CASE CallFails(s, home[p]) /\ UNCHANGED wire
    <3>1. faults' = 0 => ~ up[home[p]] /\ faults = 0
      BY <2>6, FaultType, BoundsAssumption DEF CallFails
    <3> QED
      BY <2>1, <2>4, <2>6, <3>1, GoToFacts
  <2> QED
    BY <1>1, <2>5, <2>6 DEF NotifyPlayer
<1>2. /\ Player1 \in Player /\ Player2 \in Player /\ Player1 # Player2
      /\ "tell1" \in Places /\ "tell2" \in Places /\ "reset" \in Places
  BY PlayersAssumption DEF Player, Places
<1>3. CASE NotifyPlayer(s, Player1, "tell1", "tell2")
  BY <1>1, <1>2, <1>3
<1>4. CASE NotifyPlayer(s, Player2, "tell2", "reset")
  BY <1>1, <1>2, <1>4
<1> QED
  BY <1>3, <1>4

LEMMA DropFacts ==
  ASSUME TypeInv, NEW s \in Server, RoomNotFound(s) \/ ForwardFails(s)
  PROVE  /\ Busy(s) /\ job[s].at = "forward" /\ ~ Busy(s)' /\ OtherJobs(s)
         /\ \A g \in Game : /\ g # job[s].game => mishaps'[g] = mishaps[g]
                            /\ mishaps[g] \subseteq mishaps'[g]
         /\ "dropped" \in mishaps'[job[s].game]
         /\ UNCHANGED <<has, requests, cards, wire, decided>>
         /\ faults' = 0 => faults = 0
<1>1. Busy(s) /\ job[s].at = "forward" /\ Finish(s) /\ Note(job[s].game, "dropped")
  BY DEF RoomNotFound, ForwardFails, At, Busy
<1>2. job[s].game \in Game
  BY <1>1, JobTyped
<1>3. /\ \A g \in Game : /\ g # job[s].game => mishaps'[g] = mishaps[g]
                         /\ mishaps[g] \subseteq mishaps'[g]
      /\ "dropped" \in mishaps'[job[s].game]
  BY <1>1, <1>2 DEF Note, TypeInv
<1>4. faults' = 0 => faults = 0
  BY FaultType, BoundsAssumption DEF RoomNotFound, ForwardFails, CallFails
<1> QED
  BY <1>1, <1>3, <1>4, FinishFacts DEF RoomNotFound, ForwardFails

LEMMA GiveUpFacts ==
  ASSUME TypeInv, NEW s \in Server, GiveUpRoom(s)
  PROVE  LET m == Head(requests[s]) IN
         /\ requests[s] # <<>> /\ Taken(s) /\ m.game \in Game /\ m.from \in Player
         /\ \A g \in Game : /\ g # m.game => mishaps'[g] = mishaps[g]
                            /\ mishaps[g] \subseteq mishaps'[g]
         /\ "dropped" \in mishaps'[m.game]
         /\ UNCHANGED <<has, job, cards, wire, decided, faults>>
<1> DEFINE m == Head(requests[s])
<1>1. requests[s] # <<>> /\ Taken(s) /\ mishaps' = [mishaps EXCEPT ![m.game] = @ \union {"dropped"}]
  BY DEF GiveUpRoom, Taking, Note
<1>2. m.game \in Game /\ m.from \in Player
  BY <1>1, HeadRequest
<1>3. UNCHANGED <<has, job, cards, wire, decided, faults>>
  BY DEF GiveUpRoom
<1> HIDE DEF m
<1>4. /\ \A g \in Game : /\ g # m.game => mishaps'[g] = mishaps[g]
                         /\ mishaps[g] \subseteq mishaps'[g]
      /\ "dropped" \in mishaps'[m.game]
  BY <1>1, <1>2 DEF TypeInv
<1> USE DEF m
<1> QED
  BY <1>1, <1>2, <1>3, <1>4

(***************************************************************************)
(* Each card is in one place.                                              *)
(***************************************************************************)
LEMMA PlaceInit == Init => PlaceInv
<1> SUFFICES ASSUME Init
             PROVE  PlaceInv
  OBVIOUS
<1>1. /\ \A s \in Server : requests[s] = <<>> /\ ~ Busy(s) /\ has[s] = 0
      /\ \A p \in Player : wire[p] = <<>> /\ home[p] \in Server
      /\ \A s \in Server, g \in Game : cards[s][g] = NilMap
  BY HomesAssumption DEF Init, Busy
<1> QED
  BY <1>1 DEF PlaceInv, RequestsArePlayed, JobsArePlayed, InOnePlace, RelayedWerePlayed, Pending

(* The requests when the first one is taken.                               *)
LEMMA TakenPlaces ==
  ASSUME TypeInv, PlaceInv, NEW s \in Server, requests[s] # <<>>, Taken(s),
         UNCHANGED <<home, played>>
  PROVE  /\ RequestsArePlayed'
         /\ \A p \in Player, g \in Game :
              /\ \A i, j \in 1 .. Len(requests'[home[p]]) :
                   PendingAt(p, g, i)' /\ PendingAt(p, g, j)' => i = j
              /\ Pending(p, g)' <=>
                   Pending(p, g) /\ ~ (p = Head(requests[s]).from /\ g = Head(requests[s]).game)
<1> DEFINE m == Head(requests[s])
<1>1. /\ \A t \in Server : t # s => requests'[t] = requests[t]
      /\ Len(requests[s]) \in Nat \ {0}
      /\ \A i \in 1 .. Len(requests'[s]) : /\ i + 1 \in 1 .. Len(requests[s])
                                           /\ requests'[s][i] = requests[s][i + 1]
      /\ \A i \in 1 .. Len(requests[s]) : i # 1 => /\ i - 1 \in 1 .. Len(requests'[s])
                                                   /\ requests'[s][i - 1] = requests[s][i]
  BY TakenFacts
<1>2. home[m.from] = s /\ PendingAt(m.from, m.game, 1) /\ m = requests[s][1]
  BY HeadIsOnTheWay, HeadRequest
<1>3. \A p \in Player : home[p] \in Server
  BY HomesAssumption DEF TypeInv
<1> HIDE DEF m
<1>4. RequestsArePlayed'
  <2>1. ASSUME NEW t \in Server, NEW i \in 1 .. Len(requests'[t])
        PROVE  \E j \in 1 .. Len(requests[t]) : requests'[t][i] = requests[t][j]
    BY <1>1
  <2> QED
    BY <2>1 DEF PlaceInv, RequestsArePlayed
<1>5. ASSUME NEW p \in Player, NEW g \in Game
      PROVE  /\ \A i, j \in 1 .. Len(requests'[home[p]]) :
                  PendingAt(p, g, i)' /\ PendingAt(p, g, j)' => i = j
             /\ Pending(p, g)' <=> Pending(p, g) /\ ~ (p = m.from /\ g = m.game)
  <2>1. \A i, j \in 1 .. Len(requests[home[p]]) : PendingAt(p, g, i) /\ PendingAt(p, g, j) => i = j
    BY DEF PlaceInv, InOnePlace
  <2>2. CASE home[p] # s
    BY <1>1, <1>2, <1>3, <2>1, <2>2 DEF PendingAt, Pending
  <2>3. CASE home[p] = s
    <3>1. \A i \in 1 .. Len(requests'[s]) : PendingAt(p, g, i)' => PendingAt(p, g, i + 1)
      BY <1>1, <2>3 DEF PendingAt
    <3>2. \A i \in 1 .. Len(requests[s]) : i # 1 /\ PendingAt(p, g, i) => PendingAt(p, g, i - 1)'
      BY <1>1, <2>3 DEF PendingAt
    <3>3. PendingAt(p, g, 1) <=> p = m.from /\ g = m.game
      BY <1>2, <2>3 DEF PendingAt
    <3>4. ASSUME NEW i \in 1 .. Len(requests'[s]), NEW j \in 1 .. Len(requests'[s]),
                 PendingAt(p, g, i)', PendingAt(p, g, j)'
          PROVE  i = j
      <4>1. i + 1 = j + 1
        BY <1>1, <2>1, <2>3, <3>1, <3>4
      <4> QED
        BY <4>1
    <3>5. ASSUME Pending(p, g)'
          PROVE  Pending(p, g) /\ ~ (p = m.from /\ g = m.game)
      <4>1. PICK i \in 1 .. Len(requests'[s]) : PendingAt(p, g, i)'
        BY <2>3, <3>5 DEF Pending
      <4>2. PendingAt(p, g, i + 1) /\ i + 1 \in 1 .. Len(requests[s]) /\ i + 1 # 1
        BY <1>1, <3>1, <4>1
      <4>3. ~ PendingAt(p, g, 1)
        BY <1>1, <2>1, <2>3, <4>2
      <4> QED
        BY <2>3, <3>3, <4>2, <4>3 DEF Pending
    <3>6. ASSUME Pending(p, g), ~ (p = m.from /\ g = m.game)
          PROVE  Pending(p, g)'
      <4>1. PICK i \in 1 .. Len(requests[s]) : PendingAt(p, g, i)
        BY <2>3, <3>6 DEF Pending
      <4>2. i # 1
        BY <3>3, <3>6, <4>1
      <4>3. i - 1 \in 1 .. Len(requests'[s]) /\ PendingAt(p, g, i - 1)'
        BY <1>1, <3>2, <4>1, <4>2
      <4>4. home'[p] = s
        BY <2>3
      <4> QED
        BY <4>3, <4>4 DEF Pending
    <3> QED
      BY <2>3, <3>4, <3>5, <3>6
  <2> QED
    BY <2>2, <2>3
<1> QED
  BY <1>4, <1>5 DEF m

(* How the steps of a server change where a card is on its way: it gets    *)
(* handled, or dropped.                                                    *)
Handles(s, p, g) ==
  \/ PlayLocal(s) /\ p = Head(requests[s]).from /\ g = Head(requests[s]).game
  \/ Busy(s) /\ job[s].at = "store" /\ StoreCard(s) /\ p = job[s].from /\ g = job[s].game

LEMMA WaysByTaking ==
  ASSUME TypeInv, PlaceInv, NEW s \in Server, PlayLocal(s) \/ TakeGlobal(s) \/ GiveUpRoom(s)
  PROVE  /\ RequestsArePlayed' /\ InOnePlace'
         /\ \A p \in Player, g \in Game : OnTheWay(p, g)' => OnTheWay(p, g)
         /\ \A p \in Player, g \in Game :
              OnTheWay(p, g) => OnTheWay(p, g)' \/ Handles(s, p, g) \/ "dropped" \in mishaps'[g]
         /\ \A p \in Player, g \in Game : Handles(s, p, g) => ~ OnTheWay(p, g)'
<1> DEFINE m == Head(requests[s])
<1>1. UNCHANGED <<home, rooms, up, phase, game, played, verdict>>
  BY ServerKeeps DEF clientVars, ServerStep
<1>2. \A p \in Player : home[p] \in Server
  BY HomesAssumption DEF TypeInv
<1>3. requests[s] # <<>> /\ Taken(s) /\ ~ Busy(s)
  BY Zenon DEF PlayLocal, TakeGlobal, GiveUpRoom, Taking, Busy
<1>4. m.from \in Player /\ m.game \in Game /\ home[m.from] = s /\ Pending(m.from, m.game)
  <2>1. Len(requests[s]) \in Nat \ {0} /\ m.from \in Player /\ m.game \in Game
    BY <1>3, HeadRequest
  <2>2. home[m.from] = s /\ PendingAt(m.from, m.game, 1)
    BY <1>3, HeadIsOnTheWay
  <2> HIDE DEF m
  <2> QED
    BY <2>1, <2>2 DEF Pending
<1>5. /\ RequestsArePlayed'
      /\ \A p \in Player, g \in Game :
           /\ \A i, j \in 1 .. Len(requests'[home[p]]) :
                PendingAt(p, g, i)' /\ PendingAt(p, g, j)' => i = j
           /\ Pending(p, g)' <=> Pending(p, g) /\ ~ (p = m.from /\ g = m.game)
  BY <1>1, <1>3, TakenPlaces
<1>6. /\ \A p \in Player, g \in Game :
           PlayLocal(s) /\ p = m.from /\ g = m.game => Handles(s, p, g)
      /\ GiveUpRoom(s) => "dropped" \in mishaps'[m.game]
  BY GiveUpFacts DEF Handles
<1>7. PlayLocal(s) \/ GiveUpRoom(s) => UNCHANGED job
  BY Zenon DEF PlayLocal, GiveUpRoom
<1>8. TakeGlobal(s) => /\ Busy(s)' /\ OtherJobs(s) /\ job'[s].at = "relay"
                       /\ job'[s].from = m.from /\ job'[s].game = m.game
  BY TakeGlobalFacts
<1> HIDE DEF m
<1>9. CASE PlayLocal(s) \/ GiveUpRoom(s)
  <2>1. \A p \in Player, g \in Game :
          /\ CarriedBy(home[p], p, g)' <=> CarriedBy(home[p], p, g)
          /\ Carried(p, g)' <=> Carried(p, g)
    BY <1>1, <1>7, <1>9 DEF CarriedBy, Carried, Busy
  <2>2. InOnePlace'
    BY <1>1, <1>5, <2>1 DEF PlaceInv, InOnePlace
  <2>3. ~ Carried(m.from, m.game)
    BY <1>3, <1>4 DEF Carried, CarriedBy
  <2>4. \A p \in Player, g \in Game : p = m.from /\ g = m.game => ~ OnTheWay(p, g)'
    BY <1>4, <1>5, <2>1, <2>3 DEF OnTheWay
  <2>7. \A p \in Player, g \in Game : Handles(s, p, g) => p = m.from /\ g = m.game
    BY <1>3 DEF Handles, m
  <2>5. \A p \in Player, g \in Game : OnTheWay(p, g)' => OnTheWay(p, g)
    BY <1>5, <2>1 DEF OnTheWay
  <2>6. \A p \in Player, g \in Game :
          OnTheWay(p, g) => OnTheWay(p, g)' \/ (p = m.from /\ g = m.game)
    BY <1>5, <2>1 DEF OnTheWay
  <2> QED
    BY <1>5, <1>6, <1>9, <2>2, <2>4, <2>5, <2>6, <2>7
<1>10. CASE TakeGlobal(s)
  <2>1. ASSUME NEW p \in Player, NEW g \in Game
        PROVE  /\ CarriedBy(home[p], p, g)' <=>
                    CarriedBy(home[p], p, g) \/ (p = m.from /\ g = m.game)
               /\ Carried(p, g)' <=> Carried(p, g) \/ (p = m.from /\ g = m.game)
    <3>1. CASE home[p] = s
      BY <1>1, <1>3, <1>4, <1>8, <1>10, <3>1 DEF CarriedBy, Carried, Busy, Unstored
    <3>2. CASE home[p] # s
      BY <1>1, <1>2, <1>4, <1>8, <1>10, <3>2 DEF CarriedBy, Carried, Busy, OtherJobs
    <3> QED
      BY <3>1, <3>2
  <2>2. InOnePlace'
    BY <1>1, <1>5, <2>1 DEF PlaceInv, InOnePlace
  <2>3. \A p \in Player, g \in Game : OnTheWay(p, g)' <=> OnTheWay(p, g)
    BY <1>4, <1>5, <2>1 DEF OnTheWay
  <2>4. ~ PlayLocal(s)
    BY <1>10, Zenon DEF PlayLocal, TakeGlobal
  <2>5. \A p \in Player, g \in Game : ~ Handles(s, p, g)
    BY <1>3, <2>4 DEF Handles
  <2> QED
    BY <1>5, <2>2, <2>3, <2>5
<1> QED
  BY <1>9, <1>10

LEMMA WaysByWork ==
  ASSUME TypeInv, PlaceInv, NEW s \in Server, UNCHANGED <<home, played, requests>>, OtherJobs(s),
         Busy(s)' => /\ Busy(s) /\ job'[s].from = job[s].from /\ job'[s].game = job[s].game
                     /\ job'[s].at \in Unstored => job[s].at \in Unstored
  PROVE  /\ RequestsArePlayed' /\ InOnePlace'
         /\ \A p \in Player, g \in Game : OnTheWay(p, g)' => OnTheWay(p, g)
         /\ \A p \in Player, g \in Game : OnTheWay(p, g) => OnTheWay(p, g)'
              \/ /\ p = job[s].from /\ g = job[s].game /\ Busy(s) /\ job[s].at \in Unstored
                 /\ ~ (Busy(s)' /\ job'[s].at \in Unstored)
<1>2. \A p \in Player : home[p] \in Server
  BY HomesAssumption DEF TypeInv
<1>3. \A p \in Player, g \in Game :
        /\ Pending(p, g)' <=> Pending(p, g)
        /\ \A i \in 1 .. Len(requests[home[p]]) : PendingAt(p, g, i)' <=> PendingAt(p, g, i)
  BY DEF Pending, PendingAt
<1>4. ASSUME NEW p \in Player, NEW g \in Game
      PROVE  /\ CarriedBy(home[p], p, g)' => CarriedBy(home[p], p, g)
             /\ Carried(p, g)' => Carried(p, g)
             /\ Carried(p, g) => Carried(p, g)'
                  \/ /\ p = job[s].from /\ g = job[s].game /\ Busy(s) /\ job[s].at \in Unstored
                     /\ ~ (Busy(s)' /\ job'[s].at \in Unstored)
  <2>1. CASE home[p] = s
    BY <2>1 DEF CarriedBy, Carried
  <2>2. CASE home[p] # s
    BY <1>2, <2>2 DEF CarriedBy, Carried, OtherJobs, Busy
  <2> QED
    BY <2>1, <2>2
<1>5. RequestsArePlayed'
  BY DEF PlaceInv, RequestsArePlayed
<1>6. InOnePlace'
  <2>1. ASSUME NEW p \in Player, NEW g \in Game
        PROVE  /\ \A i, j \in 1 .. Len(requests[home[p]]) :
                    PendingAt(p, g, i)' /\ PendingAt(p, g, j)' => i = j
               /\ Pending(p, g)' => ~ CarriedBy(home[p], p, g)'
    BY <1>3, <1>4 DEF PlaceInv, InOnePlace
  <2> QED
    BY <2>1 DEF InOnePlace
<1> QED
  BY <1>3, <1>4, <1>5, <1>6 DEF OnTheWay

LEMMA WaysByServers ==
  ASSUME TypeInv, PlaceInv, NEW s \in Server, ServerStep(s)
  PROVE  /\ RequestsArePlayed' /\ InOnePlace'
         /\ \A p \in Player, g \in Game : OnTheWay(p, g)' => OnTheWay(p, g)
         /\ \A p \in Player, g \in Game :
              OnTheWay(p, g) => OnTheWay(p, g)' \/ Handles(s, p, g) \/ "dropped" \in mishaps'[g]
<1>1. UNCHANGED <<home, played>>
  BY ServerKeeps DEF clientVars
<1>2. CASE PlayLocal(s) \/ TakeGlobal(s) \/ GiveUpRoom(s)
  BY <1>2, WaysByTaking
<1>3. CASE ApplyRoom(s)
  <2>1. UNCHANGED <<requests, job>> /\ OtherJobs(s)
    BY <1>3 DEF ApplyRoom, OtherJobs
  <2> QED
    BY <1>1, <2>1, WaysByWork DEF Busy
<1>4. CASE Arrive(s)
  <2>1. /\ UNCHANGED requests /\ OtherJobs(s) /\ Busy(s) /\ job[s].at = "forward" /\ Busy(s)'
        /\ job'[s].from = job[s].from /\ job'[s].game = job[s].game /\ job'[s].at = "check"
    BY <1>4, ArriveFacts
  <2> QED
    BY <1>1, <2>1, WaysByWork DEF Unstored
<1>5. CASE RoomNotFound(s) \/ ForwardFails(s)
  <2>1. /\ UNCHANGED requests /\ OtherJobs(s) /\ Busy(s) /\ job[s].at = "forward" /\ ~ Busy(s)'
        /\ "dropped" \in mishaps'[job[s].game]
    BY <1>5, DropFacts
  <2> QED
    BY <1>1, <2>1, WaysByWork
<1>6. CASE \/ Relay(s) \/ RelayFails(s) \/ CheckNil(s) \/ CountCards(s)
           \/ ReadCard(s, Player1, "read1", "read2") \/ ReadCard(s, Player2, "read2", "tell1")
  <2>1. UNCHANGED requests /\ OtherJobs(s) /\ Busy(s)
    BY <1>6, MoveFacts
  <2>2. \/ /\ Busy(s)' /\ SameJob(s)
           /\ job'[s].at \in Unstored <=> job[s].at \in Unstored
        \/ ~ Busy(s)' /\ job[s].at = "count"
    BY <1>6, MoveFacts DEF Unstored
  <2>3. "count" \notin Unstored
    BY DEF Unstored
  <2> QED
    BY <1>1, <2>1, <2>2, <2>3, WaysByWork DEF SameJob
<1>7. CASE MakeMap(s) \/ StoreCard(s) \/ ResetCards(s)
  <2>1. UNCHANGED requests /\ OtherJobs(s) /\ Busy(s)
    BY <1>7, PutFacts
  <2>2. \/ Busy(s)' /\ SameJob(s) /\ job[s].at = "make" /\ job'[s].at = "store"
        \/ Busy(s)' /\ SameJob(s) /\ job[s].at = "store" /\ job'[s].at = "count"
        \/ ~ Busy(s)' /\ job[s].at = "reset"
    BY <1>7, PutFacts
  <2>3. job[s].at = "store" => StoreCard(s)
    BY <1>7 DEF MakeMap, StoreCard, ResetCards, At
  <2>4. \A p \in Player, g \in Game :
          job[s].at = "store" /\ p = job[s].from /\ g = job[s].game => Handles(s, p, g)
    BY <2>1, <2>3 DEF Handles
  <2> QED
    BY <1>1, <2>1, <2>2, <2>4, WaysByWork DEF SameJob, Unstored
<1>8. CASE NotifyPlayer(s, Player1, "tell1", "tell2") \/ NotifyPlayer(s, Player2, "tell2", "reset")
  <2>1. UNCHANGED requests /\ OtherJobs(s) /\ Busy(s) /\ Busy(s)' /\ SameJob(s)
    BY <1>8, NotifyFacts
  <2>2. job[s].at \in {"tell1", "tell2"} /\ job'[s].at \in {"tell2", "reset"}
    BY <1>8, NotifyFacts
  <2> QED
    BY <1>1, <2>1, <2>2, WaysByWork DEF SameJob, Unstored
<1> QED
  BY <1>2, <1>3, <1>4, <1>5, <1>6, <1>7, <1>8 DEF ServerStep

(* A card that was handled is no longer on its way.                        *)
LEMMA HandledIsNotOnTheWay ==
  ASSUME TypeInv, PlaceInv, NEW s \in Server, NEW p \in Player, NEW g \in Game, Handles(s, p, g)
  PROVE  ~ OnTheWay(p, g)'
<1>1. CASE PlayLocal(s)
  BY <1>1, WaysByTaking
<1>2. CASE Busy(s) /\ job[s].at = "store" /\ StoreCard(s) /\ p = job[s].from /\ g = job[s].game
  <2>1. UNCHANGED <<home, requests>> /\ job'[s].at = "count"
    BY <1>2, PutFacts, Zenon DEF StoreCard, Put
  <2>2. home[p] = s /\ CarriedBy(home[p], p, g)
    BY <1>2, JobIsOnTheWay
  <2>3. ~ Pending(p, g)
    BY <2>2 DEF PlaceInv, InOnePlace
  <2>4. ~ Pending(p, g)'
    BY <2>1, <2>3 DEF Pending, PendingAt
  <2>5. ~ Carried(p, g)'
    BY <2>1, <2>2 DEF Carried, Unstored
  <2> QED
    BY <2>4, <2>5 DEF OnTheWay
<1> QED
  BY <1>1, <1>2 DEF Handles

LEMMA PlayCardFacts ==
  ASSUME TypeInv, ClientInv, NEW p \in Player, PlayCard(p)
  PROVE  /\ phase[p] = "choosing" /\ game[p] = Len(rooms) /\ game[p] \in Game /\ game[p] \in Opened
         /\ played[game[p]][p] = NoCard /\ phase'[p] = "listening"
         /\ home[p] \in Server /\ \A s \in Server : s # home[p] => requests'[s] = requests[s]
         /\ Len(requests[home[p]]) \in Nat /\ Len(requests'[home[p]]) = Len(requests[home[p]]) + 1
         /\ \A i \in 1 .. Len(requests[home[p]]) : requests'[home[p]][i] = requests[home[p]][i]
         /\ \E c \in Elements :
              /\ requests'[home[p]][Len(requests[home[p]]) + 1] =
                   [from |-> p, card |-> c, game |-> game[p]]
              /\ \A g \in Game, q \in Player :
                   played'[g][q] = IF g = game[p] /\ q = p THEN c ELSE played[g][q]
         /\ \A q \in Player : q # p => phase'[q] = phase[q]
         /\ UNCHANGED <<home, rooms, has, up, job, cards, wire, game, verdict, decided, mishaps,
                        faults>>
<1>1. PICK c \in Deck[game[p]][p] :
        /\ played' = [played EXCEPT ![game[p]][p] = c]
        /\ requests' = [requests EXCEPT ![home[p]] =
                          Append(@, [from |-> p, card |-> c, game |-> game[p]])]
  BY DEF PlayCard
<1>2. /\ phase[p] = "choosing" /\ phase' = [phase EXCEPT ![p] = "listening"]
      /\ UNCHANGED <<home, rooms, has, up, job, cards, wire, game, verdict, decided, mishaps, faults>>
  BY DEF PlayCard, historyVars
<1>3. /\ game[p] = Len(rooms) /\ game[p] \in Game /\ game[p] \in Opened /\ home[p] \in Server
      /\ played[game[p]][p] = NoCard
  BY <1>2, InLastGame, HomesAssumption DEF TypeInv, ClientInv
<1>4. c \in Elements
  BY <1>1, <1>3, DeckAssumption DEF Game
<1> DEFINE e == [from |-> p, card |-> c, game |-> game[p]]
<1>5. e \in Request
  BY <1>3, <1>4 DEF Request
<1>6. \A g \in Game, q \in Player : played'[g][q] = IF g = game[p] /\ q = p THEN c ELSE played[g][q]
  BY <1>1, <1>3 DEF TypeInv
<1>7. requests' = [requests EXCEPT ![home[p]] = Append(@, e)]
  BY <1>1
<1> HIDE DEF e
<1>8. /\ \A s \in Server : s # home[p] => requests'[s] = requests[s]
      /\ Len(requests[home[p]]) \in Nat /\ Len(requests'[home[p]]) = Len(requests[home[p]]) + 1
      /\ \A i \in 1 .. Len(requests[home[p]]) : requests'[home[p]][i] = requests[home[p]][i]
      /\ requests'[home[p]][Len(requests[home[p]]) + 1] = e
  <2>1. requests'[home[p]] = Append(requests[home[p]], e) /\ requests[home[p]] \in Seq(Request)
    BY <1>3, <1>7 DEF TypeInv
  <2>2. \A s \in Server : s # home[p] => requests'[s] = requests[s]
    BY <1>3, <1>7 DEF TypeInv
  <2> QED
    BY <1>5, <2>1, <2>2, Appended
<1>9. \A q \in Player : phase'[q] = IF q = p THEN "listening" ELSE phase[q]
  BY <1>2 DEF TypeInv
<1> QED
  BY <1>2, <1>3, <1>4, <1>6, <1>8, <1>9 DEF e

(* What the other steps of the clients leave alone.                        *)
LEMMA ClientKeeps ==
  ASSUME TypeInv, NEW p \in Player, ClientStep(p), ~ PlayCard(p)
  PROVE  /\ UNCHANGED <<home, rooms, has, up, requests, job, cards, played, decided, mishaps, faults>>
         /\ UNCHANGED wire \/ (Saw(p) /\ wire[p] # <<>>)
BY DEF ClientStep, HearMatch, Miss, EnterGame, CancelGame, HearCard, HearResult, Heard, End,
       clientVars, historyVars

LEMMA SawFacts ==
  ASSUME TypeInv, NEW p \in Player, Saw(p), wire[p] # <<>>
  PROVE  /\ \A q \in Player : q # p => wire'[q] = wire[q]
         /\ Len(wire[p]) \in Nat \ {0} /\ Len(wire'[p]) = Len(wire[p]) - 1
         /\ Head(wire[p]) = wire[p][1]
         /\ \A i \in 1 .. Len(wire'[p]) : /\ i + 1 \in 1 .. Len(wire[p])
                                          /\ wire'[p][i] = wire[p][i + 1]
         /\ \A i \in 1 .. Len(wire[p]) : i # 1 => /\ i - 1 \in 1 .. Len(wire'[p])
                                                  /\ wire'[p][i - 1] = wire[p][i]
<1>1. wire' = [wire EXCEPT ![p] = Tail(@)]
  BY DEF Saw
<1>2. /\ Len(wire[p]) \in Nat \ {0} /\ Head(wire[p]) = wire[p][1]
      /\ Len(Tail(wire[p])) = Len(wire[p]) - 1
      /\ \A i \in 1 .. Len(wire[p]) - 1 : Tail(wire[p])[i] = wire[p][i + 1]
  BY HeadMessage
<1>3. wire'[p] = Tail(wire[p]) /\ \A q \in Player : q # p => wire'[q] = wire[q]
  BY <1>1 DEF TypeInv
<1>4. \A i \in 1 .. Len(wire[p]) : i # 1 =>
        i - 1 \in 1 .. Len(wire[p]) - 1 /\ (i - 1) + 1 = i
  BY <1>2
<1> QED
  BY <1>2, <1>3, <1>4

LEMMA WaysByPlaying ==
  ASSUME TypeInv, ClientInv, PlaceInv, NEW p \in Player, PlayCard(p)
  PROVE  /\ RequestsArePlayed' /\ InOnePlace'
         /\ \A q \in Player, g \in Game :
              OnTheWay(q, g)' <=> OnTheWay(q, g) \/ (q = p /\ g = game[p])
<1>0. PICK n \in Nat : n = Len(requests[home[p]])
  BY PlayCardFacts
<1>1. PICK c \in Elements :
        /\ requests'[home[p]][n + 1] = [from |-> p, card |-> c, game |-> game[p]]
        /\ \A g \in Game, q \in Player :
             played'[g][q] = IF g = game[p] /\ q = p THEN c ELSE played[g][q]
  BY <1>0, PlayCardFacts
<1>2. /\ \A s \in Server : s # home[p] => requests'[s] = requests[s]
      /\ Len(requests[home[p]]) = n /\ Len(requests'[home[p]]) = n + 1
      /\ \A i \in 1 .. n : requests'[home[p]][i] = requests[home[p]][i]
      /\ home[p] \in Server /\ game[p] \in Game /\ played[game[p]][p] = NoCard
      /\ UNCHANGED <<home, job, game>>
  BY <1>0, PlayCardFacts
<1>3. \A q \in Player : home[q] \in Server
  BY HomesAssumption DEF TypeInv
<1>4. ~ OnTheWay(p, game[p]) /\ ~ CarriedBy(home[p], p, game[p])
  <2>1. ASSUME NEW i \in 1 .. n, PendingAt(p, game[p], i)
        PROVE  FALSE
    <3>1. /\ requests[home[p]][i].card = NoCard /\ requests[home[p]][i].card \in Elements
      BY <1>2, <2>1, RequestTyped DEF PendingAt, PlaceInv, RequestsArePlayed
    <3> QED
      BY <3>1 DEF Elements, NoCard
  <2>2. ~ CarriedBy(home[p], p, game[p])
    BY <1>2, JobIsOnTheWay DEF CarriedBy
  <2> QED
    BY <1>2, <2>1, <2>2 DEF OnTheWay, Pending, Carried
<1>5. RequestsArePlayed'
  <2>1. ASSUME NEW s \in Server, NEW i \in 1 .. Len(requests'[s])
        PROVE  LET r == requests'[s][i] IN home[r.from] = s /\ r.card = played'[r.game][r.from]
    <3>1. CASE i \in 1 .. Len(requests[s]) /\ requests'[s][i] = requests[s][i]
      <4>1. /\ requests[s][i].from \in Player /\ requests[s][i].game \in Game
            /\ requests[s][i].card # NoCard
        BY <3>1, RequestTyped DEF Elements, NoCard
      <4>2. /\ home[requests[s][i].from] = s
            /\ requests[s][i].card = played[requests[s][i].game][requests[s][i].from]
        BY <3>1 DEF PlaceInv, RequestsArePlayed
      <4> QED
        BY <1>1, <1>2, <3>1, <4>1, <4>2
    <3>2. CASE s = home[p] /\ i = n + 1
      BY <1>1, <1>2, <3>2
    <3> QED
      BY <1>2, <2>1, <3>1, <3>2
  <2> QED
    BY <1>2, <2>1 DEF RequestsArePlayed
<1>6. ASSUME NEW q \in Player, NEW g \in Game
      PROVE  /\ \A i \in 1 .. Len(requests'[home[q]]) : PendingAt(q, g, i)' =>
                  \/ i \in 1 .. Len(requests[home[q]]) /\ PendingAt(q, g, i)
                  \/ q = p /\ g = game[p] /\ i = n + 1
             /\ \A i \in 1 .. Len(requests[home[q]]) : PendingAt(q, g, i) =>
                  i \in 1 .. Len(requests'[home[q]]) /\ PendingAt(q, g, i)'
             /\ q = p /\ g = game[p] => n + 1 \in 1 .. Len(requests'[home[q]]) /\ PendingAt(q, g, n + 1)'
             /\ CarriedBy(home[q], q, g)' <=> CarriedBy(home[q], q, g)
             /\ Carried(q, g)' <=> Carried(q, g)
  <2>1. /\ CarriedBy(home[q], q, g)' <=> CarriedBy(home[q], q, g)
        /\ Carried(q, g)' <=> Carried(q, g)
    BY <1>2 DEF CarriedBy, Carried, Busy
  <2>2. CASE home[q] = home[p]
    BY <1>1, <1>2, <2>1, <2>2 DEF PendingAt
  <2>3. CASE home[q] # home[p]
    BY <1>2, <1>3, <2>1, <2>3 DEF PendingAt
  <2> QED
    BY <2>2, <2>3
<1>7. \A q \in Player, g \in Game : Pending(q, g)' <=> Pending(q, g) \/ (q = p /\ g = game[p])
  BY <1>6, <1>2 DEF Pending
<1>8. InOnePlace'
  <2>1. ASSUME NEW q \in Player, NEW g \in Game
        PROVE  /\ \A i, j \in 1 .. Len(requests'[home[q]]) :
                    PendingAt(q, g, i)' /\ PendingAt(q, g, j)' => i = j
               /\ Pending(q, g)' => ~ CarriedBy(home[q], q, g)'
    <3>1. CASE q = p /\ g = game[p]
      BY <1>4, <1>6, <3>1 DEF OnTheWay, Pending
    <3>2. CASE ~ (q = p /\ g = game[p])
      BY <1>6, <1>7, <3>2 DEF PlaceInv, InOnePlace
    <3> QED
      BY <3>1, <3>2
  <2> QED
    BY <1>2, <2>1 DEF InOnePlace
<1> QED
  BY <1>5, <1>6, <1>7, <1>8 DEF OnTheWay

(* Nothing else of the clients changes where a card is.                    *)
WayVars == <<home, requests, job>>

LEMMA WaysKept ==
  ASSUME UNCHANGED WayVars
  PROVE  \A p, g : OnTheWay(p, g)' <=> OnTheWay(p, g)
BY DEF WayVars, OnTheWay, Pending, PendingAt, Carried, CarriedBy, Busy

LEMMA PlaceByClients ==
  ASSUME TypeInv, ClientInv, PlaceInv, NEW p \in Player, ClientStep(p)
  PROVE  PlaceInv'
<1>1. CASE PlayCard(p)
  <2>1. RequestsArePlayed' /\ InOnePlace'
    BY <1>1, WaysByPlaying
  <2>2. /\ UNCHANGED <<home, rooms, has, up, job, cards, wire>>
        /\ \A g \in Game, q \in Player : played[g][q] # NoCard => played'[g][q] = played[g][q]
        /\ \A g \in Game, q \in Player : played[g][q] # NoCard => played'[g][q] # NoCard
    BY <1>1, PlayCardFacts
  <2>3. JobsArePlayed'
    <3>1. ASSUME NEW s \in Server, Busy(s)
          PROVE  played'[job[s].game][job[s].from] = played[job[s].game][job[s].from]
      <4>1. job[s].game \in Game /\ job[s].from \in Player /\ played[job[s].game][job[s].from] # NoCard
        BY <3>1, JobTyped, JobIsOnTheWay
      <4> QED
        BY <2>2, <4>1
    <3> QED
      BY <2>2, <3>1 DEF PlaceInv, JobsArePlayed, Busy
  <2>4. RelayedWerePlayed'
    <3>1. ASSUME NEW q \in Player, NEW i \in 1 .. Len(wire[q]), wire[q][i].type = "PLAY_CARD"
          PROVE  played'[wire[q][i].game][Opponent(q)] # NoCard
      <4>1. wire[q][i].game \in Game /\ Opponent(q) \in Player
        BY MessageTyped, OpponentType
      <4> QED
        BY <2>2, <3>1, <4>1 DEF PlaceInv, RelayedWerePlayed
    <3> QED
      BY <2>2, <3>1 DEF RelayedWerePlayed
  <2> QED
    BY <2>1, <2>2, <2>3, <2>4 DEF PlaceInv
<1>2. CASE ~ PlayCard(p)
  <2>1. /\ UNCHANGED <<home, rooms, has, up, requests, job, cards, played>>
        /\ UNCHANGED wire \/ (Saw(p) /\ wire[p] # <<>>)
    BY <1>2, ClientKeeps
  <2>2. RequestsArePlayed' /\ JobsArePlayed' /\ InOnePlace'
    BY <2>1 DEF PlaceInv, RequestsArePlayed, JobsArePlayed, InOnePlace, Busy, PendingAt, Pending,
                CarriedBy
  <2>3. \A q \in Player : \A i \in 1 .. Len(wire'[q]) :
          \E j \in 1 .. Len(wire[q]) : wire'[q][i] = wire[q][j]
    BY <2>1, SawFacts
  <2>4. RelayedWerePlayed'
    BY <2>1, <2>3 DEF PlaceInv, RelayedWerePlayed
  <2> QED
    BY <2>1, <2>2, <2>4 DEF PlaceInv
<1> QED
  BY <1>1, <1>2

LEMMA JobsByServers ==
  ASSUME TypeInv, PlaceInv, NEW s \in Server, ServerStep(s)
  PROVE  JobsArePlayed'
<1>1. UNCHANGED <<home, rooms, up, phase, game, played, verdict>>
  BY ServerKeeps DEF clientVars
<1>2. \A t \in Server, g \in Game : cards[t][g].made => cards'[t][g].made
  <2>1. CASE PlayLocal(s)
    BY <2>1, PlayLocalFacts DEF OtherMaps, EmptyMap
  <2>2. CASE MakeMap(s) \/ StoreCard(s) \/ ResetCards(s)
    BY <2>2, PutFacts DEF OtherMaps, EmptyMap
  <2>3. CASE UNCHANGED cards
    BY <2>3
  <2>4. PlayLocal(s) \/ MakeMap(s) \/ StoreCard(s) \/ ResetCards(s) \/ UNCHANGED cards
    BY DEF ServerStep, ApplyRoom, TakeGlobal, GiveUpRoom, Relay, RelayFails, Arrive, RoomNotFound,
           ForwardFails, CheckNil, CountCards, ReadCard, NotifyPlayer
  <2> QED
    BY <2>1, <2>2, <2>3, <2>4
<1>3. ASSUME OtherJobs(s),
             Busy(s)' => /\ home[job'[s].from] = s /\ job'[s].card = played[job'[s].game][job'[s].from]
                         /\ ~ rooms[job'[s].game].local /\ ~ rooms[job'[s].room].local
                         /\ job'[s].at \in Early => job'[s].on = s
                         /\ up[job'[s].on]
                         /\ job'[s].at = "store" => cards'[job'[s].on][job'[s].room].made
      PROVE  JobsArePlayed'
  <2>1. ASSUME NEW t \in Server, t # s, Busy(t)'
        PROVE  /\ job'[t] = job[t] /\ Busy(t)
               /\ job[t].at = "store" => cards'[job[t].on][job[t].room].made
    <3>1. job'[t] = job[t] /\ Busy(t)
      BY <1>3, <2>1 DEF OtherJobs, Busy
    <3>2. job[t].on \in Server /\ job[t].room \in Game
      BY <3>1, JobTyped
    <3> QED
      BY <1>2, <3>1, <3>2 DEF PlaceInv, JobsArePlayed
  <2> QED
    BY <1>1, <1>3, <2>1 DEF PlaceInv, JobsArePlayed
<1>4. ASSUME Busy(s), OtherJobs(s),
             Busy(s)' => /\ SameJob(s)
                         /\ job'[s].at \in Early => job[s].at \in Early
                         /\ job'[s].at = "store" => cards'[job[s].on][job[s].room].made
      PROVE  JobsArePlayed'
  BY <1>3, <1>4 DEF SameJob, PlaceInv, JobsArePlayed
<1>5. CASE ApplyRoom(s) \/ PlayLocal(s) \/ GiveUpRoom(s)
  <2>1. UNCHANGED job
    BY <1>5, Zenon DEF ApplyRoom, PlayLocal, GiveUpRoom
  <2>2. ASSUME NEW t \in Server, Busy(t)
        PROVE  job[t].at = "store" => cards'[job[t].on][job[t].room].made
    BY <1>2, <2>2, JobTyped DEF PlaceInv, JobsArePlayed
  <2> QED
    BY <1>1, <2>1, <2>2 DEF PlaceInv, JobsArePlayed, Busy
<1>6. CASE TakeGlobal(s)
  <2> DEFINE m == Head(requests[s])
  <2>1. /\ requests[s] # <<>> /\ ~ rooms[m.game].local /\ has[s] > 0 /\ up[s]
        /\ OtherJobs(s) /\ job'[s].at = "relay" /\ job'[s].from = m.from /\ job'[s].card = m.card
        /\ job'[s].game = m.game /\ job'[s].room = has[s] /\ job'[s].on = s
    BY <1>6, TakeGlobalFacts
  <2>2. home[m.from] = s /\ m.card = played[m.game][m.from]
    BY <2>1, HeadIsOnTheWay
  <2>3. ~ rooms[has[s]].local
    BY <2>1 DEF PlaceInv
  <2> HIDE DEF m
  <2> QED
    BY <1>3, <2>1, <2>2, <2>3
<1>7. CASE Arrive(s)
  <2> DEFINE h == Host(s)
             g == IF h = job[s].on THEN job[s].room ELSE has[h]
  <2>1. /\ Busy(s) /\ up[h] /\ ~ rooms[g].local /\ OtherJobs(s)
        /\ job'[s].at = "check" /\ job'[s].from = job[s].from /\ job'[s].card = job[s].card
        /\ job'[s].game = job[s].game /\ job'[s].room = g /\ job'[s].on = h
    BY <1>7, ArriveFacts
  <2> HIDE DEF h, g
  <2> QED
    BY <1>3, <2>1 DEF PlaceInv, JobsArePlayed, Early
<1>8. CASE RoomNotFound(s) \/ ForwardFails(s)
  BY <1>4, <1>8, DropFacts
<1>9. CASE \/ Relay(s) \/ RelayFails(s) \/ CheckNil(s) \/ CountCards(s)
           \/ ReadCard(s, Player1, "read1", "read2") \/ ReadCard(s, Player2, "read2", "tell1")
  <2>1. Busy(s) /\ OtherJobs(s) /\ UNCHANGED cards
    BY <1>9, MoveFacts
  <2>2. Busy(s)' => /\ SameJob(s)
                    /\ job'[s].at \in Early => job[s].at \in Early
                    /\ job'[s].at = "store" => Room(s).made
    BY <1>9, MoveFacts DEF Early
  <2> QED
    BY <1>4, <2>1, <2>2 DEF Room
<1>10. CASE MakeMap(s) \/ StoreCard(s) \/ ResetCards(s)
  BY <1>4, <1>10, PutFacts DEF Early, EmptyMap
<1>11. CASE NotifyPlayer(s, Player1, "tell1", "tell2") \/ NotifyPlayer(s, Player2, "tell2", "reset")
  BY <1>4, <1>11, NotifyFacts DEF Early
<1> QED
  BY <1>5, <1>6, <1>7, <1>8, <1>9, <1>10, <1>11 DEF ServerStep

LEMMA PlaceByServers ==
  ASSUME TypeInv, PlaceInv, NEW s \in Server, ServerStep(s)
  PROVE  PlaceInv'
<1>1. UNCHANGED <<home, rooms, played>>
  BY ServerKeeps DEF clientVars
<1>2. RequestsArePlayed' /\ InOnePlace' /\ JobsArePlayed'
  BY WaysByServers, JobsByServers
<1>3. RelayedWerePlayed'
  <2>1. ASSUME NEW p \in Player, NEW i \in 1 .. Len(wire'[p]), wire'[p][i].type = "PLAY_CARD"
        PROVE  played[wire'[p][i].game][Opponent(p)] # NoCard
    <3>1. CASE i \in 1 .. Len(wire[p])
      <4>1. wire'[p][i] = wire[p][i]
        BY <3>1, NewMessages DEF Kept
      <4> QED
        BY <2>1, <3>1, <4>1 DEF PlaceInv, RelayedWerePlayed
    <3>2. CASE i > Len(wire[p])
      BY <2>1, <3>2, NewMessages DEF AddsCard, AddsResult
    <3> QED
      BY <3>1, <3>2 DEF TypeInv
  <2> QED
    BY <1>1, <2>1 DEF RelayedWerePlayed
<1>4. \A t \in Server : has'[t] > 0 => ~ rooms[has'[t]].local
  <2>1. CASE ApplyRoom(s)
    <3>1. PICK g \in Missing(s) : has' = [has EXCEPT ![s] = g]
      BY <2>1 DEF ApplyRoom
    <3>2. ~ rooms[g].local
      BY <3>1 DEF Missing
    <3> QED
      BY <3>1, <3>2 DEF PlaceInv, TypeInv
  <2>2. CASE UNCHANGED has
    BY <2>2 DEF PlaceInv
  <2>3. ApplyRoom(s) \/ UNCHANGED has
    BY Zenon DEF ServerStep, PlayLocal, TakeGlobal, GiveUpRoom, Relay, RelayFails, Arrive, RoomNotFound,
           ForwardFails, CheckNil, CountCards, ReadCard, NotifyPlayer, MakeMap, StoreCard, ResetCards,
           Put
  <2> QED
    BY <2>1, <2>2, <2>3
<1>5. \A t \in Server, g \in Game : ~ cards'[t][g].made => cards'[t][g] = NilMap
  <2>1. CASE PlayLocal(s)
    BY <2>1, PlayLocalFacts DEF OtherMaps, EmptyMap, PlaceInv
  <2>2. CASE MakeMap(s) \/ StoreCard(s) \/ ResetCards(s)
    <3>1. job[s].at = "store" /\ Busy(s) => cards[job[s].on][job[s].room].made
      BY DEF PlaceInv, JobsArePlayed
    <3> QED
      BY <2>2, <3>1, PutFacts DEF OtherMaps, EmptyMap, PlaceInv
  <2>3. CASE UNCHANGED cards
    BY <2>3 DEF PlaceInv
  <2>4. PlayLocal(s) \/ MakeMap(s) \/ StoreCard(s) \/ ResetCards(s) \/ UNCHANGED cards
    BY DEF ServerStep, ApplyRoom, TakeGlobal, GiveUpRoom, Relay, RelayFails, Arrive, RoomNotFound,
           ForwardFails, CheckNil, CountCards, ReadCard, NotifyPlayer
  <2> QED
    BY <2>1, <2>2, <2>3, <2>4
<1> QED
  BY <1>1, <1>2, <1>3, <1>4, <1>5 DEF PlaceInv

LEMMA PlaceByOpening ==
  ASSUME TypeInv, ClientInv, PlaceInv, OpenRoom
  PROVE  PlaceInv'
<1>1. UNCHANGED <<home, has, up, requests, job, cards, played>>
  BY OpenRoomFacts DEF clientVars
<1>2. \A g \in Opened : rooms'[g] = rooms[g]
  BY OpenRoomFacts
<1>3. RequestsArePlayed' /\ InOnePlace'
  BY <1>1 DEF PlaceInv, RequestsArePlayed, InOnePlace, PendingAt, Pending, CarriedBy, Busy
<1>4. JobsArePlayed'
  <2>1. ASSUME NEW s \in Server, Busy(s)
        PROVE  ~ rooms'[job[s].game].local /\ ~ rooms'[job[s].room].local
    BY <1>2, <2>1, JobTyped DEF PlaceInv, JobsArePlayed
  <2> QED
    BY <1>1, <2>1 DEF PlaceInv, JobsArePlayed, Busy
<1>5. \A s \in Server : has[s] > 0 => ~ rooms'[has[s]].local
  <2>1. ASSUME NEW s \in Server, has[s] > 0
        PROVE  has[s] \in Opened
    BY <2>1 DEF TypeInv, Opened
  <2> QED
    BY <1>2, <2>1 DEF PlaceInv
<1>6. RelayedWerePlayed'
  <2>1. ASSUME NEW p \in Player, NEW i \in 1 .. Len(wire'[p]), wire'[p][i].type = "PLAY_CARD"
        PROVE  i \in 1 .. Len(wire[p]) /\ wire'[p][i] = wire[p][i]
    BY <2>1, OpenRoomFacts
  <2> QED
    BY <1>1, <2>1 DEF PlaceInv, RelayedWerePlayed
<1> QED
  BY <1>1, <1>3, <1>4, <1>5, <1>6 DEF PlaceInv

(* The threads of a server that dies lose their cards.                     *)
LEMMA WaysByCrash ==
  ASSUME TypeInv, NEW s \in Server, NEW t \in Server, ConcurrentMapAccess(s, t)
  PROVE  /\ \A p \in Player, g \in Game : OnTheWay(p, g)' => OnTheWay(p, g)
         /\ \A p \in Player, g \in Game : OnTheWay(p, g) => OnTheWay(p, g)' \/ "dropped" \in mishaps'[g]
         /\ \A p, g : Pending(p, g)' <=> Pending(p, g)
         /\ \A p \in Player, g \in Game : CarriedBy(home[p], p, g)' => CarriedBy(home[p], p, g)
<1>1. /\ UNCHANGED <<home, requests>>
      /\ \A u \in Server : job'[u] \in {job[u], Idle}
      /\ \A u \in Server : Busy(u) /\ ~ Busy(u)' => "dropped" \in mishaps'[job[u].game]
  BY CrashFacts
<1>2. \A p \in Player : home[p] \in Server
  BY HomesAssumption DEF TypeInv
<1>3. \A p, g : Pending(p, g)' <=> Pending(p, g)
  BY <1>1 DEF Pending, PendingAt
<1>4. ASSUME NEW p \in Player, NEW g \in Game
      PROVE  /\ CarriedBy(home[p], p, g)' => CarriedBy(home[p], p, g)
             /\ Carried(p, g)' => Carried(p, g)
             /\ Carried(p, g) => Carried(p, g)' \/ "dropped" \in mishaps'[g]
  <2>1. job'[home[p]] \in {job[home[p]], Idle} /\ home' = home
    BY <1>1, <1>2
  <2>2. Busy(home[p]) /\ ~ Busy(home[p])' => "dropped" \in mishaps'[job[home[p]].game]
    BY <1>1, <1>2
  <2> QED
    BY <2>1, <2>2 DEF CarriedBy, Carried, Busy
<1> QED
  BY <1>3, <1>4 DEF OnTheWay

LEMMA PlaceByCrash ==
  ASSUME TypeInv, PlaceInv, NEW s \in Server, NEW t \in Server, ConcurrentMapAccess(s, t)
  PROVE  PlaceInv'
<1>1. UNCHANGED <<home, rooms, has, requests, cards, wire, played>>
  BY CrashFacts DEF clientVars
<1>2. \A u \in Server : Busy(u)' => Busy(u) /\ job'[u] = job[u] /\ up'[job[u].on] = up[job[u].on]
  BY CrashFacts DEF Busy
<1>3. JobsArePlayed'
  BY <1>1, <1>2 DEF PlaceInv, JobsArePlayed
<1>4. InOnePlace'
  <2>1. \A p \in Player, g \in Game : \A i, j \in 1 .. Len(requests'[home[p]]) :
          PendingAt(p, g, i)' /\ PendingAt(p, g, j)' => i = j
    BY <1>1 DEF PlaceInv, InOnePlace, PendingAt
  <2> QED
    BY <1>1, <2>1, WaysByCrash DEF PlaceInv, InOnePlace
<1>5. RequestsArePlayed' /\ RelayedWerePlayed'
  BY <1>1 DEF PlaceInv, RequestsArePlayed, RelayedWerePlayed
<1> QED
  BY <1>1, <1>3, <1>4, <1>5 DEF PlaceInv

LEMMA PlaceNext == TypeInv /\ ClientInv /\ PlaceInv /\ [Next]_vars => PlaceInv'
<1> SUFFICES ASSUME TypeInv, ClientInv, PlaceInv, [Next]_vars
             PROVE  PlaceInv'
  OBVIOUS
<1>1. CASE UNCHANGED vars
  BY <1>1 DEF vars, clientVars, historyVars, PlaceInv, RequestsArePlayed, JobsArePlayed, InOnePlace,
              RelayedWerePlayed, Busy, PendingAt, Pending, CarriedBy
<1> QED
  BY <1>1, PlaceByClients, PlaceByServers, PlaceByOpening, PlaceByCrash DEF Next

CoreInv == TypeInv /\ ClientInv /\ PlaceInv

LEMMA CoreInit == Init => CoreInv
BY TypeInit, ClientInit, PlaceInit DEF CoreInv

LEMMA CoreNext == CoreInv /\ [Next]_vars => CoreInv'
BY TypeNext, ClientNext, PlaceNext DEF CoreInv

(***************************************************************************)
(* A card that was played and is no longer on its way stays so; it got     *)
(* there by being handled, or dropped.                                     *)
(***************************************************************************)
LEMMA DoneByClients ==
  ASSUME CoreInv, NEW q \in Player, ClientStep(q)
  PROVE  \A p \in Player, g \in Game : Done(p, g)' <=> Done(p, g)
<1> USE DEF CoreInv
<1>1. CASE PlayCard(q)
  <2>1. \A p \in Player, g \in Game : OnTheWay(p, g)' <=> OnTheWay(p, g) \/ (p = q /\ g = game[q])
    BY <1>1, WaysByPlaying
  <2>2. /\ played[game[q]][q] = NoCard
        /\ \A g \in Game, p \in Player : ~ (g = game[q] /\ p = q) => played'[g][p] = played[g][p]
    BY <1>1, PlayCardFacts
  <2> QED
    BY <2>1, <2>2 DEF Done
<1>2. CASE ~ PlayCard(q)
  BY <1>2, ClientKeeps, WaysKept DEF Done, WayVars
<1> QED
  BY <1>1, <1>2

LEMMA DoneByServers ==
  ASSUME CoreInv, NEW s \in Server, ServerStep(s)
  PROVE  \A p \in Player, g \in Game :
           /\ Done(p, g) => Done(p, g)'
           /\ Done(p, g)' => Done(p, g) \/ Handles(s, p, g) \/ "dropped" \in mishaps'[g]
           /\ Handles(s, p, g) => ~ Done(p, g) /\ Done(p, g)'
<1> USE DEF CoreInv
<1> SUFFICES ASSUME NEW p \in Player, NEW g \in Game
             PROVE  /\ Done(p, g) => Done(p, g)'
                    /\ Done(p, g)' => Done(p, g) \/ Handles(s, p, g) \/ "dropped" \in mishaps'[g]
                    /\ Handles(s, p, g) => ~ Done(p, g) /\ Done(p, g)'
  OBVIOUS
<1>1. played' = played
  BY ServerKeeps DEF clientVars
<1>2. /\ OnTheWay(p, g)' => OnTheWay(p, g)
      /\ OnTheWay(p, g) => OnTheWay(p, g)' \/ Handles(s, p, g) \/ "dropped" \in mishaps'[g]
  BY WaysByServers
<1>3. ASSUME Handles(s, p, g)
      PROVE  OnTheWay(p, g) /\ ~ OnTheWay(p, g)' /\ played[g][p] # NoCard
  <2>1. ~ OnTheWay(p, g)'
    BY <1>3, HandledIsNotOnTheWay
  <2>2. CASE PlayLocal(s) /\ p = Head(requests[s]).from /\ g = Head(requests[s]).game
    BY <2>1, <2>2, PlayLocalFacts, HeadIsOnTheWay
  <2>3. CASE Busy(s) /\ job[s].at = "store" /\ StoreCard(s) /\ p = job[s].from /\ g = job[s].game
    BY <2>1, <2>3, JobIsOnTheWay DEF Unstored
  <2> QED
    BY <1>3, <2>2, <2>3 DEF Handles
<1> QED
  BY <1>1, <1>2, <1>3 DEF Done

LEMMA DoneByOpening ==
  ASSUME CoreInv, OpenRoom
  PROVE  \A p \in Player, g \in Game : Done(p, g)' <=> Done(p, g)
BY OpenRoomFacts, WaysKept DEF CoreInv, Done, WayVars, clientVars

LEMMA DoneByCrash ==
  ASSUME CoreInv, NEW s \in Server, NEW t \in Server, ConcurrentMapAccess(s, t)
  PROVE  \A p \in Player, g \in Game :
           /\ Done(p, g) => Done(p, g)'
           /\ Done(p, g)' => Done(p, g) \/ "dropped" \in mishaps'[g]
BY WaysByCrash, CrashFacts DEF CoreInv, Done, clientVars

(* A card that a thread still carries is not done.                         *)
LEMMA CarriedIsNotDone ==
  ASSUME CoreInv, NEW s \in Server, Busy(s), job[s].at \in Unstored
  PROVE  ~ Done(job[s].from, job[s].game) /\ job[s].from \in Player /\ job[s].game \in Game
BY JobIsOnTheWay, JobTyped DEF CoreInv, Done

(***************************************************************************)
(* Games that nothing disturbs.                                            *)
(***************************************************************************)
Good(g) == OwnRoom(g) /\ OneThread(g) /\ NotStored(g) /\ OneResult(g) /\ NothingLost(g)

(* A mishap is never forgotten.                                            *)
LEMMA MishapsGrow ==
  ASSUME CoreInv, [Next]_vars
  PROVE  \A g \in Game : mishaps[g] \subseteq mishaps'[g]
<1> USE DEF CoreInv
<1>1. CASE UNCHANGED vars
  BY <1>1 DEF vars, historyVars
<1>2. ASSUME NEW p \in Player, ClientStep(p)
      PROVE  UNCHANGED mishaps
  BY <1>2, ClientKeeps, PlayCardFacts
<1>3. ASSUME NEW s \in Server, ServerStep(s)
      PROVE  \A g \in Game : mishaps[g] \subseteq mishaps'[g]
  <2>1. CASE TakeGlobal(s) \/ GiveUpRoom(s)
    BY <2>1, TakeGlobalFacts, GiveUpFacts
  <2>2. CASE Arrive(s) \/ RoomNotFound(s) \/ ForwardFails(s)
    BY <2>2, ArriveFacts, DropFacts
  <2>3. CASE UNCHANGED mishaps
    BY <2>3
  <2>4. \/ TakeGlobal(s) \/ GiveUpRoom(s) \/ Arrive(s) \/ RoomNotFound(s) \/ ForwardFails(s)
        \/ UNCHANGED mishaps
    BY <1>3, Zenon DEF ServerStep, ApplyRoom, PlayLocal, Relay, RelayFails, CheckNil, CountCards, ReadCard,
                NotifyPlayer, MakeMap, StoreCard, ResetCards, Put, historyVars
  <2> QED
    BY <2>1, <2>2, <2>3, <2>4
<1>4. OpenRoom => UNCHANGED mishaps
  BY OpenRoomFacts DEF historyVars
<1>5. ASSUME NEW s \in Server, NEW t \in Server, ConcurrentMapAccess(s, t)
      PROVE  \A g \in Game : mishaps[g] \subseteq mishaps'[g]
  BY <1>5, CrashFacts
<1> QED
  BY <1>1, <1>2, <1>3, <1>4, <1>5 DEF Next

(* What no thread of the game and no change of its map touches.            *)
LEMMA GoodKept ==
  ASSUME NEW g, Good(g), rooms'[g].host = rooms[g].host, HostMap(g)' = HostMap(g),
         decided'[g] = decided[g], mishaps[g] \subseteq mishaps'[g],
         \A p \in Player : /\ Done(p, g) => Done(p, g)'
                           /\ Done(p, g)' => Done(p, g) \/ "dropped" \in mishaps'[g],
         \A s \in Server : Busy(s)' /\ (job'[s].game = g \/ Inside(s, g)') =>
            \/ job'[s] = job[s]
            \/ job'[s].at \in Early /\ job'[s].room = g /\ job'[s].game = g,
         \A s \in Server : Inside(s, g) /\ job[s].at \notin Unstored =>
            job'[s] = job[s] \/ mishaps'[g] # {}
  PROVE  Good(g)'
<1>1. \A s \in Server : Inside(s, g)' => job'[s] = job[s] /\ Inside(s, g)
  BY DEF Inside, Busy
<1>2. OwnRoom(g)'
  BY DEF Good, OwnRoom, Inside, Busy
<1>3. OneThread(g)'
  BY <1>1 DEF Good, OneThread
<1>4. NotStored(g)'
  BY DEF Good, NotStored
<1>5. OneResult(g)'
  BY <1>1 DEF Good, OneResult
<1>6. NothingLost(g)'
  <2> SUFFICES ASSUME mishaps'[g] = {}, decided'[g] = 0
               PROVE  /\ \A p \in Player : Done(p, g)' => HostMap(g)'.of[p] # NoCard
                      /\ Full(HostMap(g)') => \E s \in Server : Inside(s, g)' /\ job'[s].at \notin Unstored
    BY DEF NothingLost, Full
  <2>1. mishaps[g] = {} /\ decided[g] = 0
    OBVIOUS
  <2>2. \A p \in Player : Done(p, g)' => HostMap(g).of[p] # NoCard
    BY <2>1 DEF Good, NothingLost
  <2>3. ASSUME Full(HostMap(g))
        PROVE  \E s \in Server : Inside(s, g)' /\ job'[s].at \notin Unstored
    <3>1. PICK s \in Server : Inside(s, g) /\ job[s].at \notin Unstored
      BY <2>1, <2>3 DEF Good, NothingLost
    <3>2. job'[s] = job[s]
      BY <3>1
    <3> QED
      BY <3>1, <3>2 DEF Inside, Busy
  <2> QED
    BY <2>2, <2>3
<1> QED
  BY <1>2, <1>3, <1>4, <1>5, <1>6 DEF Good

(* A step of the only thread that works at the room of the game.           *)
LEMMA GoodByThread ==
  ASSUME NEW g, NEW s \in Server, Good(g), Inside(s, g), OtherJobs(s), UNCHANGED rooms,
         Busy(s)' => SameJob(s) /\ job'[s].at \notin Early,
         \A p \in Player : ~ Done(p, g)' => HostMap(g)'.of[p] = NoCard /\ decided'[g] = 0,
         decided'[g] <= 1,
         Busy(s)' => /\ job'[s].at \in {"read1", "read2", "tell1"} => Full(HostMap(g)')
                     /\ job'[s].at \notin {"tell2", "reset"} => decided'[g] = 0
                     /\ job'[s].at \in {"tell2", "reset"} => decided'[g] = 1
                     /\ job'[s].at = "make" => HostMap(g)' = NilMap,
         mishaps'[g] = {} /\ decided'[g] = 0 =>
            /\ \A p \in Player : Done(p, g)' => HostMap(g)'.of[p] # NoCard
            /\ Full(HostMap(g)') => Busy(s)' /\ job'[s].at \notin Unstored
  PROVE  Good(g)'
<1>1. job[s].game = g /\ job[s].room = g /\ job[s].on = rooms[g].host /\ Busy(s)
  BY DEF Good, OwnRoom, Inside
<1>2. \A t \in Server : t # s => ~ Inside(t, g) /\ ~ Inside(t, g)'
  BY DEF Good, OneThread, OtherJobs, Inside, Busy
<1>3. OwnRoom(g)'
  <2>1. ASSUME NEW t \in Server, Busy(t)', job'[t].game = g \/ Inside(t, g)'
        PROVE  /\ job'[t].game = g /\ job'[t].room = g
               /\ job'[t].at \notin Early => job'[t].on = rooms[g].host
    <3>1. CASE t = s
      BY <1>1, <2>1, <3>1 DEF SameJob
    <3>2. CASE t # s
      BY <2>1, <3>2 DEF Good, OwnRoom, OtherJobs, Inside, Busy
    <3> QED
      BY <3>1, <3>2
  <2> QED
    BY <2>1 DEF OwnRoom
<1>4. OneThread(g)'
  BY <1>2 DEF OneThread
<1>5. NotStored(g)'
  BY DEF NotStored
<1>6. OneResult(g)'
  BY <1>2 DEF OneResult, Inside, Full
<1>7. Busy(s)' => Inside(s, g)'
  BY <1>1 DEF Inside, SameJob
<1>8. NothingLost(g)'
  BY <1>7 DEF NothingLost, Full
<1> QED
  BY <1>3, <1>4, <1>5, <1>6, <1>8 DEF Good

LEMMA HostTyped ==
  ASSUME TypeInv, NEW g \in Opened
  PROVE  rooms[g] \in RoomRec /\ rooms[g].host \in Server
<1>1. rooms[g] \in RoomRec
  BY InSeq DEF TypeInv, Opened
<1> QED
  BY <1>1 DEF RoomRec

LEMMA GoodByLocal ==
  ASSUME CoreInv, NEW s \in Server, PlayLocal(s), NEW g \in Opened, Good(g), g \in Game
  PROVE  Good(g)'
<1> USE DEF CoreInv
<1> DEFINE m == Head(requests[s])
           q == Opponent(m.from)
           both == cards[s][m.game].of[q] # NoCard
<1>1. ServerStep(s) /\ UNCHANGED <<home, rooms>>
  BY ServerKeeps, SMTT(30) DEF ServerStep
<1>2. /\ rooms[m.game].local /\ m.from \in Player /\ m.card # NoCard /\ m.game \in Game
      /\ m.game \in Opened /\ OtherMaps(s, m.game)
      /\ \A k \in Game : k # m.game => decided'[k] = decided[k]
      /\ UNCHANGED <<job, mishaps>> /\ requests[s] # <<>>
      /\ both => cards'[s][m.game] = EmptyMap /\ decided'[m.game] = decided[m.game] + 1
      /\ ~ both => /\ decided'[m.game] = decided[m.game]
                   /\ cards'[s][m.game].of[m.from] = m.card
                   /\ cards'[s][m.game].of[q] = cards[s][m.game].of[q]
  BY PlayLocalFacts
<1>3. \A p \in Player : /\ Done(p, g) => Done(p, g)'
                        /\ Done(p, g)' => Done(p, g) \/ Handles(s, p, g) \/ "dropped" \in mishaps'[g]
                        /\ Handles(s, p, g) => ~ Done(p, g) /\ Done(p, g)'
  BY <1>1, DoneByServers
<1>4. \A p \in Player : Handles(s, p, g) <=> p = m.from /\ g = m.game
  BY Zenon DEF Handles, PlayLocal, Taking, Busy
<1>5. q \in Player /\ \A p \in Player : p = m.from \/ p = q
  BY <1>2, OpponentType DEF Player, Opponent
<1>6. home[m.from] = s
  BY <1>2, HeadIsOnTheWay
<1>9. PICK me \in Player, other \in Player : me = m.from /\ other = q
  BY <1>2, <1>5
<1> HIDE DEF m, q
<1>7. CASE g # m.game
  <2>1. HostMap(g)' = HostMap(g)
    <3>1. rooms[g].host \in Server
      BY HostTyped
    <3> QED
      BY <1>1, <1>2, <1>7, <3>1 DEF HostMap, OtherMaps
  <2> QED
    BY <1>1, <1>2, <1>3, <1>4, <1>7, <2>1, GoodKept DEF Inside, Busy
<1>8. CASE g = m.game
  <2>1. rooms[g].host = s
    BY <1>2, <1>6, <1>8 DEF ClientInv
  <2>2. \A t \in Server : ~ (Busy(t) /\ job[t].game = g) /\ ~ Inside(t, g)
    BY <1>2, <1>8 DEF PlaceInv, JobsArePlayed, Inside
  <2>3. HostMap(g) = cards[s][g] /\ HostMap(g)' = cards'[s][g]
    BY <1>1, <2>1 DEF HostMap
  <2>4. ~ Done(me, g) /\ Done(me, g)' /\ decided[g] = 0
    <3>1. Handles(s, me, g)
      BY <1>2, <1>4, <1>8, <1>9
    <3>2. ~ Done(me, g) /\ Done(me, g)'
      BY <1>2, <1>3, <3>1
    <3> QED
      BY <1>2, <3>2 DEF Good, NotStored
  <2>9. Done(other, g) => Done(other, g)'
    BY <1>3, <1>5, <1>9
  <2>10. ~ Done(other, g) => HostMap(g).of[other] = NoCard
    BY <1>5, <1>9 DEF Good, NotStored
  <2>5. OwnRoom(g)' /\ OneThread(g)' /\ \A t \in Server : ~ Inside(t, g)'
    BY <1>2, <2>2 DEF OwnRoom, OneThread, Inside, Busy
  <2>6. CASE both
    <3>1. \A p \in Player : Done(p, g)'
      BY <1>5, <1>9, <1>8, <2>3, <2>4, <2>6, <2>9, <2>10
    <3>2. decided'[g] = 1
      BY <1>2, <1>8, <2>4, <2>6
    <3> QED
      BY <2>5, <3>1, <3>2 DEF Good, NotStored, OneResult, NothingLost
  <2>7. CASE ~ both
    <3>1. HostMap(g)'.of[other] = NoCard /\ HostMap(g)'.of[me] # NoCard /\ decided'[g] = 0
      BY <1>2, <1>8, <1>9, <2>3, <2>4, <2>7
    <3>2. NotStored(g)'
      <4>1. \A p \in Player : ~ Done(p, g)' => p = other
        BY <1>5, <1>9, <2>4
      <4>2. \A p \in Player : p = other => HostMap(g)'.of[p] = NoCard
        BY <3>1
      <4> QED
        BY <3>1, <4>1, <4>2 DEF NotStored
    <3>3. mishaps'[g] = {} => ~ Done(other, g)'
      <4>1. HostMap(g).of[other] = NoCard /\ other # me
        BY <1>8, <1>9, <1>2, <2>3, <2>7, <3>1
      <4>2. ~ Handles(s, other, g)
        BY <1>4, <1>5, <1>9, <4>1
      <4>3. Done(other, g)' => Done(other, g) \/ "dropped" \in mishaps'[g]
        BY <1>3, <1>5, <1>9, <4>2
      <4>4. mishaps[g] = {} => ~ Done(other, g)
        BY <1>5, <1>9, <2>4, <4>1 DEF Good, NothingLost
      <4> QED
        BY <1>2, <4>3, <4>4
    <3>4. NothingLost(g)'
      <4>1. ~ Full(HostMap(g)')
        BY <1>5, <1>9, <3>1 DEF Full
      <4>2. mishaps'[g] = {} => \A p \in Player : Done(p, g)' => p = me
        BY <1>5, <1>9, <3>3
      <4>3. \A p \in Player : p = me => HostMap(g)'.of[p] # NoCard
        BY <3>1
      <4> QED
        BY <4>1, <4>2, <4>3 DEF NothingLost, Full
    <3>5. OneResult(g)'
      BY <2>5, <3>1 DEF OneResult
    <3> QED
      BY <2>5, <3>2, <3>4, <3>5 DEF Good
  <2> QED
    BY <2>6, <2>7
<1> QED
  BY <1>7, <1>8

(* The steps before a card is at the host.                                 *)
LEMMA GoodEarly ==
  ASSUME CoreInv, NEW s \in Server,
         \/ ApplyRoom(s) \/ TakeGlobal(s) \/ GiveUpRoom(s) \/ RoomNotFound(s) \/ ForwardFails(s)
         \/ (job[s].at = "relay" /\ (Relay(s) \/ RelayFails(s))),
         NEW g \in Opened, Good(g), g \in Game, Undisturbed(g)'
  PROVE  Good(g)'
<1> USE DEF CoreInv
<1>1. ServerStep(s) /\ UNCHANGED <<home, rooms>>
  BY ServerKeeps DEF ServerStep
<1>2. \A p \in Player : /\ Done(p, g) => Done(p, g)'
                        /\ Done(p, g)' => Done(p, g) \/ "dropped" \in mishaps'[g]
  <2>1. CASE ApplyRoom(s)
    BY <1>1, <2>1, WaysKept, ServerKeeps DEF ApplyRoom, WayVars, Done, clientVars
  <2>2. CASE ~ ApplyRoom(s)
    <3>1. ~ PlayLocal(s)
      BY <2>2, Zenon DEF TakeGlobal, GiveUpRoom, RoomNotFound, ForwardFails, Relay, RelayFails, PlayLocal, Taking, At
    <3>2. ~ StoreCard(s)
      BY <2>2 DEF TakeGlobal, GiveUpRoom, RoomNotFound, ForwardFails, StoreCard, Taking, At
    <3> QED
      BY <1>1, <3>1, <3>2, DoneByServers DEF Handles
  <2> QED
    BY <2>1, <2>2
<1>3. UNCHANGED <<cards, decided>> /\ mishaps[g] \subseteq mishaps'[g]
  <2>1. UNCHANGED <<cards, decided>>
    BY DEF ApplyRoom, TakeGlobal, GiveUpRoom, RoomNotFound, ForwardFails, Relay, RelayFails, historyVars
  <2> QED
    BY <1>1, <2>1, MishapsGrow DEF Next
<1>4. HostMap(g)' = HostMap(g)
  BY <1>1, <1>3 DEF HostMap
<1>5. CASE ApplyRoom(s) \/ GiveUpRoom(s)
  <2>1. UNCHANGED job
    BY <1>5 DEF ApplyRoom, GiveUpRoom
  <2> QED
    BY <1>1, <1>2, <1>3, <1>4, <2>1, GoodKept
<1>6. CASE TakeGlobal(s)
  <2> DEFINE k == Head(requests[s]).game
  <2>1. /\ OtherJobs(s) /\ job'[s].at = "relay" /\ job'[s].game = k /\ job'[s].room = has[s]
        /\ has[s] # k => "crossed" \in mishaps'[k]
        /\ ~ Busy(s)
    BY <1>6, TakeGlobalFacts
  <2> HIDE DEF k
  <2>2. job'[s].game = g => job'[s].room = g
    BY <2>1 DEF Undisturbed
  <2>3. \A t \in Server : Busy(t)' /\ (job'[t].game = g \/ Inside(t, g)') =>
            \/ job'[t] = job[t]
            \/ job'[t].at \in Early /\ job'[t].room = g /\ job'[t].game = g
    BY <2>1, <2>2 DEF OtherJobs, Inside, Early
  <2>4. \A t \in Server : Inside(t, g) => job'[t] = job[t]
    BY <2>1 DEF OtherJobs, Inside
  <2> QED
    BY <1>1, <1>2, <1>3, <1>4, <2>3, <2>4, GoodKept
<1>7. CASE RoomNotFound(s) \/ ForwardFails(s)
  <2>1. OtherJobs(s) /\ job[s].at = "forward" /\ ~ Busy(s)'
    BY <1>7, DropFacts
  <2>2. \A t \in Server : Busy(t)' => job'[t] = job[t]
    BY <2>1 DEF OtherJobs
  <2>3. \A t \in Server : Inside(t, g) => job'[t] = job[t]
    BY <2>1 DEF OtherJobs, Inside, Early
  <2> QED
    BY <1>1, <1>2, <1>3, <1>4, <2>2, <2>3, GoodKept
<1>8. CASE job[s].at = "relay" /\ (Relay(s) \/ RelayFails(s))
  <2>1. Busy(s) /\ OtherJobs(s) /\ Busy(s)' /\ SameJob(s) /\ job'[s].at = "forward"
    BY <1>8, MoveFacts
  <2>2. job[s].game = g => job[s].room = g
    BY <2>1 DEF Good, OwnRoom
  <2>3. \A t \in Server : Busy(t)' /\ (job'[t].game = g \/ Inside(t, g)') =>
            \/ job'[t] = job[t]
            \/ job'[t].at \in Early /\ job'[t].room = g /\ job'[t].game = g
    BY <2>1, <2>2 DEF OtherJobs, Inside, Early, SameJob
  <2>4. \A t \in Server : Inside(t, g) => job'[t] = job[t]
    BY <1>8, <2>1 DEF OtherJobs, Inside, Early
  <2> QED
    BY <1>1, <1>2, <1>3, <1>4, <2>3, <2>4, GoodKept
<1> QED
  BY <1>5, <1>6, <1>7, <1>8

LEMMA GoodByArrival ==
  ASSUME CoreInv, NEW s \in Server, Arrive(s),
         NEW g \in Opened, Good(g), g \in Game, Undisturbed(g)'
  PROVE  Good(g)'
<1> USE DEF CoreInv
<1> DEFINE h == Host(s)
           k == IF h = job[s].on THEN job[s].room ELSE has[h]
<1>1. /\ Busy(s) /\ job[s].at = "forward" /\ k \in Game /\ h \in Server /\ OtherJobs(s) /\ Busy(s)'
      /\ job'[s].at = "check" /\ job'[s].from = job[s].from /\ job'[s].game = job[s].game
      /\ job'[s].room = k /\ job'[s].on = h
      /\ mishaps[g] \subseteq mishaps'[g]
      /\ Others(s, h, k) => "raced" \in mishaps'[k]
      /\ k # job[s].game => "crossed" \in mishaps'[k] /\ "crossed" \in mishaps'[job[s].game]
      /\ UNCHANGED <<cards, decided>>
  BY ArriveFacts
<1>2. ServerStep(s) /\ UNCHANGED <<home, rooms>>
  BY ServerKeeps DEF ServerStep
<1>3. \A p \in Player : /\ Done(p, g) => Done(p, g)'
                        /\ Done(p, g)' => Done(p, g) \/ "dropped" \in mishaps'[g]
  <2>1. ~ PlayLocal(s) /\ job[s].at # "store"
    BY <1>1, Zenon DEF PlayLocal, Taking, Busy
  <2> QED
    BY <1>2, <2>1, DoneByServers DEF Handles
<1>4. HostMap(g)' = HostMap(g)
  BY <1>1, <1>2 DEF HostMap
<1>5. h = rooms[job[s].room].host
  BY DEF Host
<1> HIDE DEF h, k
<1>6. k = g <=> job[s].game = g
  BY <1>1 DEF Undisturbed
<1>7. CASE job[s].game # g
  <2>1. ~ Inside(s, g)' /\ job'[s].game # g /\ ~ Inside(s, g)
    BY <1>1, <1>6, <1>7 DEF Inside, Early
  <2> QED
    BY <1>1, <1>2, <1>3, <1>4, <2>1, GoodKept DEF OtherJobs
<1>8. CASE job[s].game = g
  <2>1. job[s].room = g /\ h = rooms[g].host
    BY <1>1, <1>5, <1>8 DEF Good, OwnRoom
  <2>2. ~ Done(job[s].from, g) /\ job[s].from \in Player
    BY <1>1, <1>8, CarriedIsNotDone DEF Unstored
  <2>3. decided[g] = 0
    BY <2>2 DEF Good, NotStored
  <2>4. \A t \in Server \ {s} : ~ Inside(t, g)
    <3>1. ASSUME NEW t \in Server \ {s}, Inside(t, g)
          PROVE  FALSE
      <4>1. job[t].on = h /\ job[t].room = g /\ Busy(t) /\ job[t].at \notin Early
        BY <2>1, <3>1 DEF Good, OwnRoom, Inside
      <4>2. Others(s, h, k)
        BY <1>6, <1>8, <4>1 DEF Others, Busy, Early
      <4> QED
        BY <1>1, <1>6, <1>8, <4>2 DEF Undisturbed
    <3> QED
      BY <3>1
  <2>5. \A t \in Server : t # s => ~ Inside(t, g)'
    BY <1>1, <2>4 DEF OtherJobs, Inside, Busy
  <2>6. OwnRoom(g)'
    <3>1. ASSUME NEW t \in Server, Busy(t)', job'[t].game = g \/ Inside(t, g)'
          PROVE  /\ job'[t].game = g /\ job'[t].room = g
                 /\ job'[t].at \notin Early => job'[t].on = rooms[g].host
      <4>1. CASE t = s
        BY <1>1, <1>6, <1>8, <2>1, <4>1
      <4>2. CASE t # s
        BY <1>1, <3>1, <4>2 DEF Good, OwnRoom, OtherJobs, Inside, Busy
      <4> QED
        BY <4>1, <4>2
    <3> QED
      BY <1>2, <3>1 DEF OwnRoom
  <2>7. OneThread(g)'
    BY <2>5 DEF OneThread
  <2>8. NotStored(g)'
    BY <1>1, <1>3, <1>4 DEF Good, NotStored
  <2>9. OneResult(g)'
    BY <1>1, <2>3, <2>5 DEF OneResult
  <2>10. NothingLost(g)'
    <3> SUFFICES ASSUME mishaps'[g] = {}, decided'[g] = 0
                 PROVE  /\ \A p \in Player : Done(p, g)' => HostMap(g)'.of[p] # NoCard
                        /\ ~ Full(HostMap(g)')
      BY DEF NothingLost, Full
    <3>1. HostMap(g).of[job[s].from] = NoCard
      BY <2>2 DEF Good, NotStored
    <3>2. ~ Full(HostMap(g)')
      BY <1>4, <2>2, <3>1 DEF Full
    <3> QED
      BY <1>1, <1>3, <1>4, <3>2 DEF Good, NothingLost
  <2> QED
    BY <2>6, <2>7, <2>8, <2>9, <2>10 DEF Good
<1> QED
  BY <1>7, <1>8

(* The steps of a thread at a room: one that works at another game's.      *)
LEMMA GoodElsewhere ==
  ASSUME CoreInv, NEW s \in Server, ServerStep(s), Busy(s), job[s].at \notin Early, OtherJobs(s),
         Busy(s)' => SameJob(s) /\ job'[s].at \notin Early,
         OtherMaps(job[s].on, job[s].room),
         \A k \in Game : k # job[s].room => decided'[k] = decided[k],
         NEW g \in Opened, Good(g), g \in Game, job[s].room # g
  PROVE  Good(g)'
<1> USE DEF CoreInv
<1>1. UNCHANGED <<home, rooms>> /\ mishaps[g] \subseteq mishaps'[g]
  BY ServerKeeps, MishapsGrow DEF Next
<1>2. job[s].game # g /\ ~ Inside(s, g)
  BY DEF Good, OwnRoom, Inside
<1>3. HostMap(g)' = HostMap(g)
  BY <1>1, HostTyped DEF HostMap, OtherMaps
<1>4. \A p \in Player : /\ Done(p, g) => Done(p, g)'
                        /\ Done(p, g)' => Done(p, g) \/ "dropped" \in mishaps'[g]
  <2>1. ~ PlayLocal(s)
    BY Zenon DEF PlayLocal, Taking, Busy
  <2> QED
    BY <1>2, <2>1, DoneByServers DEF Handles
<1>5. \A t \in Server : Busy(t)' /\ (job'[t].game = g \/ Inside(t, g)') => job'[t] = job[t]
  BY <1>2 DEF OtherJobs, SameJob, Inside
<1>6. \A t \in Server : Inside(t, g) => job'[t] = job[t]
  BY <1>2 DEF OtherJobs
<1> QED
  BY <1>1, <1>3, <1>4, <1>5, <1>6, GoodKept

LEMMA GoodByMove ==
  ASSUME CoreInv, NEW s \in Server,
         \/ Relay(s) \/ RelayFails(s) \/ CheckNil(s) \/ CountCards(s)
         \/ ReadCard(s, Player1, "read1", "read2") \/ ReadCard(s, Player2, "read2", "tell1"),
         job[s].at \notin Early, NEW g \in Opened, Good(g), g \in Game
  PROVE  Good(g)'
<1> USE DEF CoreInv
<1>1. ServerStep(s) /\ UNCHANGED <<home, rooms>>
  BY ServerKeeps DEF ServerStep
<1>2. Busy(s) /\ OtherJobs(s) /\ UNCHANGED <<cards, decided, mishaps>>
  BY MoveFacts
<1>3. \/ /\ Busy(s)' /\ SameJob(s) /\ job'[s].at \notin Early
         /\ \/ job[s].at = "check" /\ job'[s].at = "store"
            \/ job[s].at = "check" /\ job'[s].at = "make" /\ ~ Room(s).made
            \/ job[s].at = "count" /\ job'[s].at = "read1" /\ Full(Room(s))
            \/ job[s].at = "read1" /\ job'[s].at = "read2"
            \/ job[s].at = "read2" /\ job'[s].at = "tell1"
      \/ ~ Busy(s)' /\ job[s].at = "count" /\ ~ Full(Room(s))
  BY MoveFacts DEF Early
<1>4. CASE job[s].room # g
  BY <1>1, <1>2, <1>3, <1>4, GoodElsewhere DEF OtherMaps
<1>5. CASE job[s].room = g
  <2>1. Inside(s, g) /\ job[s].on = rooms[g].host /\ job[s].room = g
    BY <1>2, <1>5 DEF Inside, Good, OwnRoom
  <2>2. HostMap(g)' = HostMap(g) /\ Room(s) = HostMap(g)
    BY <1>1, <1>2, <2>1 DEF HostMap, Room
  <2>3. \A p \in Player : /\ Done(p, g) => Done(p, g)'
                          /\ Done(p, g)' => Done(p, g) \/ "dropped" \in mishaps'[g]
    <3>1. ~ PlayLocal(s) /\ job[s].at # "store"
      BY <1>2, <1>3, Zenon DEF PlayLocal, Taking, Busy
    <3> QED
      BY <1>1, <3>1, DoneByServers DEF Handles
  <2>4. decided[g] = 0
    BY <1>3, <2>1 DEF Good, OneResult
  <2>5. \A p \in Player : ~ Done(p, g)' => HostMap(g).of[p] = NoCard
    BY <2>3 DEF Good, NotStored
  <2>6. ~ Room(s).made => Room(s) = NilMap
    BY <1>2, JobTyped DEF PlaceInv, Room
  <2>7. Busy(s)' /\ job'[s].at \in {"read1", "read2", "tell1"} => Full(HostMap(g))
    BY <1>3, <2>1, <2>2 DEF Good, OneResult
  <2>8. mishaps[g] = {} => \A p \in Player : Done(p, g)' => HostMap(g).of[p] # NoCard
    BY <1>2, <2>3, <2>4 DEF Good, NothingLost
  <2>9. mishaps[g] = {} /\ Full(HostMap(g)) => Busy(s)' /\ job'[s].at \notin Unstored
    <3>1. mishaps[g] = {} /\ Full(HostMap(g)) => job[s].at \notin Unstored
      BY <2>1, <2>4 DEF Good, NothingLost, OneThread
    <3> QED
      BY <1>3, <2>2, <3>1 DEF Unstored
  <2>10. Busy(s)' => job'[s].at \notin {"tell2", "reset"} /\ (job'[s].at = "make" => HostMap(g) = NilMap)
    BY <1>3, <2>2, <2>6
  <2>11. \A p \in Player : ~ Done(p, g)' => HostMap(g)'.of[p] = NoCard /\ decided'[g] = 0
    BY <1>2, <2>2, <2>4, <2>5
  <2>12. mishaps'[g] = {} /\ decided'[g] = 0 =>
            /\ \A p \in Player : Done(p, g)' => HostMap(g)'.of[p] # NoCard
            /\ Full(HostMap(g)') => Busy(s)' /\ job'[s].at \notin Unstored
    BY <1>2, <2>2, <2>8, <2>9
  <2>13. decided'[g] = 0
    BY <1>2, <2>4
  <2>14. UNCHANGED rooms /\ (Busy(s)' => SameJob(s) /\ job'[s].at \notin Early)
    BY <1>1, <1>3
  <2>15. Busy(s)' => /\ job'[s].at \in {"read1", "read2", "tell1"} => Full(HostMap(g)')
                     /\ job'[s].at \notin {"tell2", "reset"} => decided'[g] = 0
                     /\ job'[s].at \in {"tell2", "reset"} => decided'[g] = 1
                     /\ job'[s].at = "make" => HostMap(g)' = NilMap
    BY <2>2, <2>7, <2>10, <2>13
  <2> QED
    BY <1>2, <2>1, <2>11, <2>12, <2>13, <2>14, <2>15, GoodByThread
<1> QED
  BY <1>4, <1>5

LEMMA GoodByPut ==
  ASSUME CoreInv, NEW s \in Server, MakeMap(s) \/ StoreCard(s) \/ ResetCards(s),
         NEW g \in Opened, Good(g), g \in Game
  PROVE  Good(g)'
<1> USE DEF CoreInv
<1>1. ServerStep(s) /\ UNCHANGED <<home, rooms>>
  BY ServerKeeps DEF ServerStep
<1>2. PICK h, k, p : h = job[s].on /\ k = job[s].room /\ p = job[s].from
  OBVIOUS
<1>3. /\ Busy(s) /\ OtherJobs(s) /\ UNCHANGED <<decided, mishaps>> /\ OtherMaps(h, k)
      /\ \/ /\ job[s].at = "make" /\ job'[s].at = "store" /\ Busy(s)' /\ SameJob(s)
            /\ cards'[h][k] = EmptyMap
         \/ /\ job[s].at = "store" /\ job'[s].at = "count" /\ Busy(s)' /\ SameJob(s)
            /\ cards'[h][k].of[p] = job[s].card
            /\ \A q \in Player : q # p => cards'[h][k].of[q] = cards[h][k].of[q]
         \/ /\ job[s].at = "reset" /\ ~ Busy(s)' /\ cards'[h][k] = EmptyMap
  BY <1>2, PutFacts, SMTT(30)
<1>4. CASE k # g
  BY <1>1, <1>2, <1>3, <1>4, GoodElsewhere DEF Early
<1>5. CASE k = g
  <2>1. Inside(s, g) /\ h = rooms[g].host /\ job[s].game = g
    BY <1>2, <1>3, <1>5 DEF Inside, Good, OwnRoom, Early
  <2>2. HostMap(g)' = cards'[h][k] /\ HostMap(g) = cards[h][k]
    BY <1>1, <1>5, <2>1 DEF HostMap
  <2>3. \A q \in Player : /\ Done(q, g) => Done(q, g)'
                          /\ Done(q, g)' => \/ Done(q, g) \/ "dropped" \in mishaps'[g]
                                            \/ q = p /\ job[s].at = "store"
                          /\ q = p /\ job[s].at = "store" => Done(q, g)'
    <3>1. ~ PlayLocal(s)
      BY <1>3, Zenon DEF PlayLocal, Taking, Busy
    <3>2. job[s].at = "store" => StoreCard(s)
      BY DEF MakeMap, StoreCard, ResetCards, At
    <3>3. \A q \in Player : Handles(s, q, g) <=> q = p /\ job[s].at = "store"
      BY <1>2, <1>3, <2>1, <3>1, <3>2, Zenon DEF Handles
    <3> QED
      BY <1>1, <3>3, DoneByServers
  <2>4. job[s].at # "reset" => decided[g] = 0
    BY <1>3, <2>1 DEF Good, OneResult
  <2>5. job[s].at = "reset" => decided[g] = 1 /\ \A q \in Player : Done(q, g)
    BY <1>3, <2>1 DEF Good, OneResult, NotStored
  <2>6. job[s].at = "make" => cards'[h][k].of = cards[h][k].of
    BY <1>3, <2>1, <2>2 DEF Good, OneResult, NilMap, EmptyMap
  <2>7. \A q \in Player : ~ Done(q, g)' => HostMap(g)'.of[q] = NoCard /\ decided'[g] = 0
    <3>1. ASSUME NEW q \in Player, ~ Done(q, g)'
          PROVE  HostMap(g)'.of[q] = NoCard /\ decided'[g] = 0
      <4>1. ~ Done(q, g) /\ ~ (q = p /\ job[s].at = "store")
        BY <2>3, <3>1
      <4>2. HostMap(g).of[q] = NoCard /\ decided[g] = 0
        BY <4>1 DEF Good, NotStored
      <4>3. job[s].at # "reset"
        BY <2>5, <4>1
      <4> QED
        BY <1>3, <2>2, <2>6, <4>1, <4>2, <4>3
    <3> QED
      BY <3>1
  <2>8. ASSUME mishaps'[g] = {}, decided'[g] = 0
        PROVE  /\ \A q \in Player : Done(q, g)' => HostMap(g)'.of[q] # NoCard
               /\ Full(HostMap(g)') => Busy(s)' /\ job'[s].at \notin Unstored
    <3>1. mishaps[g] = {} /\ decided[g] = 0 /\ job[s].at # "reset"
      BY <1>3, <2>5, <2>8
    <3>2. \A q \in Player : Done(q, g) => HostMap(g).of[q] # NoCard
      BY <3>1 DEF Good, NothingLost
    <3>3. Full(HostMap(g)) => job[s].at \notin Unstored
      BY <2>1, <3>1 DEF Good, NothingLost, OneThread
    <3>4. job[s].card # NoCard
      BY <1>3, JobIsOnTheWay
    <3>5. CASE job[s].at = "make"
      <4>1. HostMap(g)'.of = HostMap(g).of
        BY <2>2, <2>6, <3>5
      <4>2. ~ Full(HostMap(g)')
        BY <3>3, <3>5, <4>1 DEF Full, Unstored
      <4> QED
        BY <2>3, <2>8, <3>2, <3>5, <4>1, <4>2
    <3>6. CASE job[s].at = "store"
      <4>1. \A q \in Player : Done(q, g)' => HostMap(g)'.of[q] # NoCard
        BY <1>3, <2>2, <2>3, <2>8, <3>2, <3>4, <3>6
      <4>2. Busy(s)' /\ job'[s].at \notin Unstored
        BY <1>3, <3>6 DEF Unstored
      <4> QED
        BY <4>1, <4>2
    <3> QED
      BY <1>3, <3>1, <3>5, <3>6
  <2>9. decided'[g] <= 1 /\ (Busy(s)' => decided'[g] = 0)
    BY <1>3, <2>4, <2>5
  <2> QED
    BY <1>1, <1>3, <2>1, <2>7, <2>8, <2>9, GoodByThread DEF Early
<1> QED
  BY <1>4, <1>5

LEMMA GoodByNotice ==
  ASSUME CoreInv, NEW s \in Server,
         \/ NotifyPlayer(s, Player1, "tell1", "tell2")
         \/ NotifyPlayer(s, Player2, "tell2", "reset"),
         NEW g \in Opened, Good(g), g \in Game
  PROVE  Good(g)'
<1> USE DEF CoreInv
<1>1. ServerStep(s) /\ UNCHANGED <<home, rooms>>
  BY ServerKeeps DEF ServerStep
<1>2. PICK k : k = job[s].room
  OBVIOUS
<1>3. /\ Busy(s) /\ Busy(s)' /\ OtherJobs(s) /\ SameJob(s)
      /\ \/ job[s].at = "tell1" /\ job'[s].at = "tell2"
         \/ job[s].at = "tell2" /\ job'[s].at = "reset"
      /\ \A j \in Game : decided'[j] = IF j = k /\ job[s].at = "tell1" THEN decided[j] + 1
                                                                      ELSE decided[j]
      /\ UNCHANGED <<cards, mishaps>>
  BY <1>2, NotifyFacts
<1>4. CASE k # g
  BY <1>1, <1>2, <1>3, <1>4, GoodElsewhere DEF Early, OtherMaps
<1>5. CASE k = g
  <2>1. Inside(s, g)
    BY <1>2, <1>3, <1>5 DEF Inside, Early
  <2>2. decided'[g] = 1 /\ HostMap(g)' = HostMap(g)
    BY <1>1, <1>3, <1>5, <2>1 DEF Good, OneResult, HostMap
  <2>3. \A p \in Player : Done(p, g)'
    <3>1. \A p \in Player : Done(p, g)
      BY <1>3, <2>1 DEF Good, OneResult, NotStored, Full
    <3> QED
      BY <1>1, <3>1, DoneByServers
  <2> QED
    BY <1>1, <1>3, <2>1, <2>2, <2>3, GoodByThread DEF Early
<1> QED
  BY <1>4, <1>5

LEMMA GoodByServers ==
  ASSUME CoreInv, NEW s \in Server, ServerStep(s),
         NEW g \in Opened, Good(g), g \in Game, Undisturbed(g)'
  PROVE  Good(g)'
<1>1. CASE \/ Relay(s) \/ RelayFails(s) \/ CheckNil(s) \/ CountCards(s)
           \/ ReadCard(s, Player1, "read1", "read2") \/ ReadCard(s, Player2, "read2", "tell1")
  <2>1. job[s].at \in Early => job[s].at = "relay" /\ (Relay(s) \/ RelayFails(s))
    BY <1>1 DEF Relay, RelayFails, CheckNil, CountCards, ReadCard, At, Early
  <2> QED
    BY <1>1, <2>1, GoodByMove, GoodEarly
<1> QED
  BY <1>1, GoodByLocal, GoodEarly, GoodByArrival, GoodByPut, GoodByNotice DEF ServerStep

LEMMA GoodByClients ==
  ASSUME CoreInv, NEW q \in Player, ClientStep(q), NEW g \in Opened, Good(g), g \in Game
  PROVE  Good(g)'
<1>1. UNCHANGED <<rooms, cards, decided, mishaps, job>>
  BY ClientKeeps, PlayCardFacts DEF CoreInv
<1>2. \A p \in Player : Done(p, g)' <=> Done(p, g)
  BY DoneByClients
<1> QED
  BY <1>1, <1>2, GoodKept DEF HostMap

LEMMA GoodByCrash ==
  ASSUME CoreInv, NEW s \in Server, NEW t \in Server, ConcurrentMapAccess(s, t),
         NEW g \in Opened, Good(g), g \in Game
  PROVE  Good(g)'
<1>1. UNCHANGED <<rooms, cards, decided>> /\ mishaps[g] \subseteq mishaps'[g]
  BY CrashFacts DEF CoreInv
<1>2. \A p \in Player : /\ Done(p, g) => Done(p, g)'
                        /\ Done(p, g)' => Done(p, g) \/ "dropped" \in mishaps'[g]
  BY DoneByCrash
<1>3. \A u \in Server : Busy(u)' => job'[u] = job[u]
  BY CrashFacts DEF CoreInv, Busy
<1>4. \A u \in Server : Inside(u, g) => job'[u] = job[u] \/ mishaps'[g] # {}
  <2>1. \A u \in Server : Inside(u, g) => Busy(u) /\ job[u].game = g
    BY DEF Good, OwnRoom, Inside
  <2> QED
    BY <1>3, <2>1, CrashFacts DEF CoreInv
<1> QED
  BY <1>1, <1>2, <1>3, <1>4, GoodKept DEF HostMap

LEMMA GoodByOpening ==
  ASSUME CoreInv, OpenRoom, \A g \in Opened : Undisturbed(g) => Good(g),
         NEW g \in Opened', Undisturbed(g)'
  PROVE  Good(g)'
<1> USE DEF CoreInv
<1>1. /\ Len(rooms) \in Nat /\ Len(rooms') = Len(rooms) + 1 /\ Len(rooms') \in Game
      /\ \A k \in Opened : rooms'[k] = rooms[k]
      /\ rooms'[Len(rooms')].host \in Server
      /\ UNCHANGED <<home, job, cards, played, decided, mishaps>>
  BY OpenRoomFacts DEF clientVars, historyVars
<1>2. \A p \in Player, k \in Game : Done(p, k)' <=> Done(p, k)
  BY DoneByOpening
<1>3. g \in Game
  BY <1>1, BoundsAssumption DEF Opened, Game
<1>4. CASE g \in Opened
  <2>1. Good(g)
    BY <1>1, <1>4 DEF Undisturbed
  <2> QED
    BY <1>1, <1>2, <1>3, <1>4, <2>1, GoodKept DEF HostMap
<1>5. CASE g = Len(rooms')
  <2>1. \A p \in Player : ~ Done(p, g)'
    <3>1. \A p \in Player : game[p] = Len(rooms)
      BY OpenRoomFacts
    <3>2. \A p \in Player : played[g][p] = NoCard
      BY <1>1, <1>3, <1>5, <3>1 DEF ClientInv, GamesInOrder, Untouched
    <3> QED
      BY <1>2, <1>3, <3>2 DEF Done
  <2>2. decided'[g] = 0 /\ HostMap(g)' = NilMap
    BY <1>1, <1>3, <1>5 DEF ClientInv, HostMap
  <2>3. \A s \in Server : ~ (Busy(s)' /\ (job'[s].game = g \/ job'[s].room = g))
    <3>1. \A s \in Server : Busy(s) => job[s].game <= Len(rooms) /\ job[s].room <= Len(rooms)
      BY DEF TypeInv
    <3>2. ~ (g <= Len(rooms))
      BY <1>1, <1>5
    <3> QED
      BY <1>1, <3>1, <3>2 DEF Busy
  <2>4. \A s \in Server : ~ Inside(s, g)'
    BY <2>3 DEF Inside
  <2>5. OwnRoom(g)' /\ OneThread(g)' /\ NotStored(g)' /\ OneResult(g)'
    <3>1. \A p \in Player : NilMap.of[p] = NoCard
      BY DEF NilMap
    <3> QED
      BY <2>2, <2>3, <2>4, <3>1 DEF OwnRoom, OneThread, NotStored, OneResult
  <2>6. NothingLost(g)'
    <3>1. \A p \in Player : HostMap(g)'.of[p] = NoCard
      BY <2>2 DEF NilMap
    <3>2. ~ Full(HostMap(g)')
      BY <3>1 DEF Full, Player
    <3> QED
      BY <2>1, <3>2 DEF NothingLost, Full
  <2> QED
    BY <2>5, <2>6 DEF Good
<1> QED
  BY <1>1, <1>4, <1>5 DEF Opened

LEMMA UndisturbedNext == CoreInv /\ UndisturbedInv /\ [Next]_vars => UndisturbedInv'
<1> SUFFICES ASSUME CoreInv, UndisturbedInv, [Next]_vars, NEW g \in Opened', Undisturbed(g)'
             PROVE  Good(g)'
  BY DEF UndisturbedInv, Good
<1>1. \A k \in Opened : k \in Game /\ (Undisturbed(k) => Good(k))
  BY BoundsAssumption DEF UndisturbedInv, Good, Opened, Game, CoreInv, TypeInv
<1>2. CASE OpenRoom
  BY <1>1, <1>2, GoodByOpening
<1>3. CASE ~ OpenRoom
  <2>1. UNCHANGED rooms
    <3>1. CASE UNCHANGED vars
      BY <3>1 DEF vars
    <3> QED
      BY <1>3, <3>1, ClientKeeps, PlayCardFacts, ServerKeeps, CrashFacts DEF Next, CoreInv
  <2>2. g \in Opened /\ g \in Game
    BY <1>1, <2>1 DEF Opened
  <2>3. Good(g)
    BY <1>1, <2>2, MishapsGrow DEF Undisturbed
  <2>4. CASE UNCHANGED vars
    <3>1. UNCHANGED <<rooms, job, cards, decided, mishaps, WayVars, played>>
      BY <2>4 DEF vars, clientVars, historyVars, WayVars
    <3>2. \A p \in Player : Done(p, g)' <=> Done(p, g)
      BY <3>1, WaysKept DEF Done
    <3>3. HostMap(g)' = HostMap(g)
      BY <3>1 DEF HostMap
    <3> QED
      BY <2>3, <3>1, <3>2, <3>3, GoodKept
  <2> QED
    BY <1>3, <2>2, <2>3, <2>4, GoodByClients, GoodByServers, GoodByCrash DEF Next
<1> QED
  BY <1>2, <1>3

LEMMA UndisturbedInit == Init => UndisturbedInv
BY DEF Init, UndisturbedInv, Opened

(* The invariant of the players, the cards on their way and the games that *)
(* nothing disturbs (processClientCard, processHostCard).                  *)
THEOREM CoreInvariance == Spec => [](CoreInv /\ UndisturbedInv)
<1>1. Init => CoreInv /\ UndisturbedInv
  BY CoreInit, UndisturbedInit
<1>2. CoreInv /\ UndisturbedInv /\ [Next]_vars => (CoreInv /\ UndisturbedInv)'
  BY CoreNext, UndisturbedNext
<1> QED
  BY <1>1, <1>2, PTL DEF Spec

(* Every variable of the games stays in its type: rooms, requests, jobs    *)
(* and maps of both kinds of room (HandleGameMessage, processClientCard,   *)
(* processHostCard, PlayLocalGame, PlayGlobalGame).                        *)
THEOREM TypeCorrect == Spec => []TypeOK
<1>1. CoreInv /\ UndisturbedInv => TypeOK
  BY TypeOKFromTypes DEF CoreInv
<1> QED
  BY <1>1, CoreInvariance, PTL

(* A game has more than one result only if its two cards were at the host  *)
(* at once or one of them met another game's room (processHostCard): while *)
(* neither is the case one thread after the other is in the room, and who  *)
(* finds both cards there is the last to store one.                        *)
THEOREM ResultsAreSingle == Spec => []DecidedOnce
<1>1. CoreInv /\ UndisturbedInv => DecidedOnce
  <2> SUFFICES ASSUME CoreInv, UndisturbedInv, NEW g \in Game, decided[g] > 1, Undisturbed(g)
               PROVE  FALSE
    BY DEF DecidedOnce, Undisturbed
  <2>1. g \in Opened
    BY BoundsAssumption DEF CoreInv, TypeInv, ClientInv, Game, Opened
  <2>2. decided[g] <= 1 /\ decided[g] \in Nat
    BY <2>1 DEF UndisturbedInv, OneResult, CoreInv, TypeInv
  <2> QED
    BY <2>2
<1> QED
  BY <1>1, CoreInvariance, PTL

(* When both cards of a game were handled it has a result, unless one was  *)
(* dropped or met another game's room, or both were handled at once        *)
(* (processHostCard, HandleGameMessage): otherwise whoever stores the      *)
(* second card finds the first.                                            *)
THEOREM HandledCardsAreCompared == Spec => []UndecidedNeedsMishap
<1>1. CoreInv /\ UndisturbedInv => UndecidedNeedsMishap
  <2> SUFFICES ASSUME CoreInv, UndisturbedInv, NEW g \in Game, AllPlayed(g),
                      \A s \in Server : /\ \A i \in DOMAIN requests[s] : requests[s][i].game # g
                                        /\ job[s] # Idle => job[s].game # g,
                      ~ (decided[g] > 0), mishaps[g] = {}
               PROVE  FALSE
    BY DEF UndecidedNeedsMishap
  <2> USE DEF CoreInv
  <2>1. g \in Opened
    <3>1. Player1 \in Player /\ played[g][Player1] # NoCard
      BY DEF AllPlayed, Player
    <3>2. ~ (g > game[Player1])
      BY <3>1 DEF ClientInv, GamesInOrder, Untouched
    <3>3. game[Player1] \in 0 .. Len(rooms) /\ Len(rooms) \in Nat
      BY <3>1 DEF TypeInv
    <3> QED
      BY <3>2, <3>3 DEF Game, Opened
  <2>2. \A p \in Player : Done(p, g)
    <3>1. ASSUME NEW p \in Player
          PROVE  ~ Pending(p, g) /\ ~ Carried(p, g)
      <4>1. home[p] \in Server
        BY HomesAssumption DEF TypeInv
      <4>2. DOMAIN requests[home[p]] = 1 .. Len(requests[home[p]])
        BY <4>1 DEF TypeInv
      <4> QED
        BY <4>1, <4>2 DEF Pending, PendingAt, Carried, CarriedBy, Busy
    <3> QED
      BY <3>1 DEF AllPlayed, Done, OnTheWay
  <2>3. OwnRoom(g) /\ NothingLost(g)
    BY <2>1 DEF UndisturbedInv, Undisturbed
  <2>4. decided[g] = 0
    BY DEF TypeInv
  <2>5. Full(HostMap(g))
    BY <2>2, <2>3, <2>4 DEF NothingLost, Full
  <2>6. PICK s \in Server : Inside(s, g)
    BY <2>3, <2>4, <2>5 DEF NothingLost
  <2>7. job[s].game = g /\ Busy(s)
    BY <2>3, <2>6 DEF OwnRoom, Inside
  <2> QED
    BY <2>7 DEF Busy
<1> QED
  BY <1>1, CoreInvariance, PTL

(***************************************************************************)
(* What is never taken back: cards, verdicts, results and faults.          *)
(***************************************************************************)
LEMMA VerdictsByClients ==
  ASSUME CoreInv, NEW p \in Player, ClientStep(p)
  PROVE  \A g \in Game, q \in Player :
           \/ verdict'[g][q] = verdict[g][q]
           \/ /\ q = p /\ g = game[p] /\ verdict[g][q] = "unknown" /\ phase[p] # "waiting"
              /\ \/ CancelGame(p) /\ verdict'[g][q] = "cancelled" /\ ~ HearResult(p)
                 \/ HearResult(p) /\ verdict'[g][q] = Head(wire[p]).winner
<1> USE DEF CoreInv
<1>1. ASSUME NEW how, End(p, how), phase[p] # "waiting"
      PROVE  \A g \in Game, q \in Player :
                \/ verdict'[g][q] = verdict[g][q]
                \/ /\ q = p /\ g = game[p] /\ verdict[g][q] = "unknown" /\ phase[p] # "waiting"
                   /\ verdict'[g][q] = how
  <2>1. game[p] \in Game /\ verdict[game[p]][p] = "unknown"
    BY <1>1, InLastGame
  <2>2. verdict' = [verdict EXCEPT ![game[p]] = [verdict[game[p]] EXCEPT ![p] = how]]
    BY <1>1 DEF End
  <2> QED
    BY <1>1, <2>1, <2>2 DEF TypeInv
<1>2. CASE CancelGame(p)
  <2>1. End(p, "cancelled") /\ phase[p] # "waiting" /\ UNCHANGED wire
    BY <1>2 DEF CancelGame
  <2>2. ~ HearResult(p)
    <3>1. ASSUME Saw(p), wire[p] # <<>>
          PROVE  wire' # wire
      BY <3>1, SawFacts DEF TypeInv
    <3> QED
      BY <2>1, <3>1 DEF HearResult, Heard
  <2> QED
    BY <1>1, <1>2, <2>1, <2>2
<1>3. CASE HearResult(p)
  <2>1. End(p, Head(wire[p]).winner) /\ phase[p] # "waiting"
    BY <1>3 DEF HearResult
  <2> QED
    BY <1>1, <1>3, <2>1
<1>4. CASE ~ CancelGame(p) /\ ~ HearResult(p)
  BY <1>4 DEF ClientStep, HearMatch, Miss, EnterGame, PlayCard, HearCard, clientVars
<1> QED
  BY <1>2, <1>3, <1>4

LEMMA ResultsGrow ==
  ASSUME CoreInv, NEW s \in Server, ServerStep(s)
  PROVE  /\ \A g \in Game : decided'[g] \in {decided[g], decided[g] + 1}
         /\ faults' = 0 => faults = 0
<1> USE DEF CoreInv
<1>1. CASE PlayLocal(s)
  <2>1. \A g \in Game : g # Head(requests[s]).game => decided'[g] = decided[g]
    BY <1>1, PlayLocalFacts
  <2>2. decided'[Head(requests[s]).game] \in {decided[Head(requests[s]).game], decided[Head(requests[s]).game] + 1}
    BY <1>1, PlayLocalFacts
  <2>3. UNCHANGED faults
    BY <1>1, Zenon DEF PlayLocal
  <2> QED
    BY <2>1, <2>2, <2>3
<1>2. CASE NotifyPlayer(s, Player1, "tell1", "tell2") \/ NotifyPlayer(s, Player2, "tell2", "reset")
  BY <1>2, NotifyFacts
<1>3. CASE \/ ApplyRoom(s) \/ TakeGlobal(s) \/ GiveUpRoom(s) \/ Arrive(s)
           \/ RoomNotFound(s) \/ MakeMap(s) \/ StoreCard(s) \/ ResetCards(s)
  BY <1>3 DEF ApplyRoom, TakeGlobal, GiveUpRoom, Arrive, RoomNotFound, MakeMap, StoreCard, ResetCards,
              Put, historyVars
<1>4. CASE \/ Relay(s) \/ RelayFails(s) \/ CheckNil(s) \/ CountCards(s) \/ ForwardFails(s)
           \/ ReadCard(s, Player1, "read1", "read2") \/ ReadCard(s, Player2, "read2", "tell1")
  BY <1>4, MoveFacts, DropFacts
<1> QED
  BY <1>1, <1>2, <1>3, <1>4 DEF ServerStep

LEMMA Grow ==
  ASSUME CoreInv, [Next]_vars
  PROVE  /\ \A g \in Game : decided[g] \in Nat /\ decided'[g] \in {decided[g], decided[g] + 1}
         /\ \A g \in Game, p \in Player :
              /\ verdict[g][p] # "unknown" => verdict'[g][p] = verdict[g][p]
              /\ played[g][p] # NoCard => played'[g][p] = played[g][p]
              /\ Done(p, g) => Done(p, g)' /\ played'[g][p] = played[g][p]
         /\ faults' = 0 => faults = 0
         /\ home' = home /\ \A s \in Server : up'[s] => up[s]
         /\ \A g \in Opened : rooms'[g] = rooms[g] /\ g \in Opened'
<1> USE DEF CoreInv
<1>1. \A g \in Game : decided[g] \in Nat
  BY DEF TypeInv
<1>2. \A g \in Game, p \in Player : Done(p, g) => played[g][p] # NoCard
  BY DEF Done
<1>3. CASE UNCHANGED vars
  BY <1>1, <1>3, WaysKept DEF vars, clientVars, historyVars, WayVars, Done, Opened
<1>4. ASSUME NEW q \in Player, ClientStep(q)
      PROVE  /\ UNCHANGED <<home, rooms, up, decided, faults>>
             /\ \A g \in Game, p \in Player : played[g][p] # NoCard => played'[g][p] = played[g][p]
  <2>1. CASE PlayCard(q)
    BY <2>1, PlayCardFacts
  <2>2. CASE ~ PlayCard(q)
    BY <1>4, <2>2, ClientKeeps
  <2> QED
    BY <2>1, <2>2
<1>5. ASSUME NEW q \in Player, ClientStep(q)
      PROVE  \A g \in Game, p \in Player : verdict[g][p] # "unknown" => verdict'[g][p] = verdict[g][p]
  BY <1>5, VerdictsByClients
<1>6. \A q \in Player : ClientStep(q) => \A p \in Player, g \in Game : Done(p, g) => Done(p, g)'
  BY DoneByClients
<1>7. ASSUME NEW s \in Server, ServerStep(s)
      PROVE  /\ UNCHANGED <<home, rooms, up, played, verdict>>
             /\ \A p \in Player, g \in Game : Done(p, g) => Done(p, g)'
  BY <1>7, ServerKeeps, DoneByServers DEF clientVars
<1>8. CASE OpenRoom
  <2>1. UNCHANGED <<home, up, played, verdict, decided, faults>>
    BY <1>8, OpenRoomFacts DEF clientVars, historyVars
  <2>2. \A g \in Opened : rooms'[g] = rooms[g] /\ g \in Opened'
    BY <1>8, OpenRoomFacts DEF Opened
  <2> QED
    BY <1>1, <1>2, <1>8, <2>1, <2>2, DoneByOpening
<1>9. ASSUME NEW s \in Server, NEW t \in Server, ConcurrentMapAccess(s, t)
      PROVE  /\ UNCHANGED <<home, rooms, played, verdict, decided, faults>>
             /\ \A u \in Server : up'[u] => up[u]
             /\ \A p \in Player, g \in Game : Done(p, g) => Done(p, g)'
  BY <1>9, CrashFacts, DoneByCrash DEF clientVars
<1>10. CASE \E p \in Player : ClientStep(p)
  BY <1>1, <1>2, <1>4, <1>5, <1>6, <1>10 DEF Opened
<1>11. CASE \E s \in Server : ServerStep(s)
  BY <1>1, <1>2, <1>7, <1>11, ResultsGrow DEF Opened
<1>12. CASE \E s, t \in Server : ConcurrentMapAccess(s, t)
  BY <1>1, <1>2, <1>9, <1>12 DEF Opened
<1> QED
  BY <1>3, <1>8, <1>10, <1>11, <1>12 DEF Next

(***************************************************************************)
(* Who was shown the result of a clean game has heard everything of it, so *)
(* nothing of an earlier game meets a clean one.                           *)
(***************************************************************************)
LEMMA CleanStays ==
  ASSUME CoreInv, [Next]_vars, NEW g \in Game, Clean(g)'
  PROVE  Clean(g)
<1>1. ASSUME NEW k \in 1 .. g - 1, decided[k] > 1 \/ \E p \in Player : verdict[k][p] = "cancelled"
      PROVE  decided'[k] > 1 \/ \E p \in Player : verdict'[k][p] = "cancelled"
  <2>1. k \in Game
    BY BoundsAssumption DEF Game
  <2>2. decided[k] > 1 => decided'[k] > 1
    BY <2>1, Grow
  <2>3. \A p \in Player : verdict[k][p] = "cancelled" => verdict'[k][p] = "cancelled"
    BY <2>1, Grow
  <2> QED
    BY <1>1, <2>2, <2>3
<1> QED
  BY <1>1 DEF Clean, Leftovers

LEMMA OldIsOver ==
  ASSUME CoreInv, SettledInv, Len(rooms) > 0, Clean(Len(rooms))
  PROVE  /\ Len(rooms) \in Game /\ Len(rooms) \in Opened
         /\ \A g \in Game, p \in Player : OnTheWay(p, g) => g = Len(rooms)
         /\ \A p \in Player : \A i \in 1 .. Len(wire[p]) : wire[p][i].game = Len(rooms)
<1> USE DEF CoreInv
<1>1. Len(rooms) \in Game /\ Len(rooms) \in Opened /\ Len(rooms) \in Nat
  BY BoundsAssumption DEF TypeInv, Game, Opened
<1>2. ASSUME NEW g \in Opened, g # Len(rooms), NEW p \in Player
      PROVE  Settled(g, p)
  <2>1. g \in Game /\ g \in 1 .. Len(rooms) - 1
    BY <1>1, <1>2, BoundsAssumption DEF Opened, Game, TypeInv
  <2>2. ~ (decided[g] > 1) /\ verdict[g][p] # "cancelled"
    BY <2>1 DEF Clean, Leftovers
  <2>3. decided[g] <= 1
    BY <2>1, <2>2 DEF TypeInv
  <2>4. Clean(g)
    <3>1. \A k \in 1 .. g - 1 : k \in 1 .. Len(rooms) - 1
      BY <1>1, <2>1
    <3> QED
      BY <3>1 DEF Clean, Leftovers
  <2>5. verdict[g][p] # "unknown"
    <3>1. game[p] = Len(rooms) \/ (game[p] = Len(rooms) - 1 /\ phase[p] = "waiting")
      BY DEF ClientInv
    <3>2. g <= game[p] /\ ~ (g = game[p] /\ phase[p] # "waiting")
      BY <1>1, <2>1, <3>1
    <3> QED
      BY <2>1, <3>2 DEF ClientInv, GamesInOrder
  <2>6. Shown(g, p)
    BY <2>1, <2>2, <2>5 DEF Shown, TypeInv
  <2> QED
    BY <1>2, <2>3, <2>4, <2>6 DEF SettledInv
<1>3. ASSUME NEW g \in Game, NEW p \in Player, OnTheWay(p, g)
      PROVE  g = Len(rooms)
  <2>1. g \in Opened
    <3>1. home[p] \in Server
      BY HomesAssumption DEF TypeInv
    <3>2. CASE Pending(p, g)
      <4>1. PICK i \in 1 .. Len(requests[home[p]]) : PendingAt(p, g, i)
        BY <3>2 DEF Pending
      <4> QED
        BY <3>1, <4>1, RequestTyped DEF PendingAt
    <3>3. CASE Carried(p, g)
      BY <3>1, <3>3, JobTyped DEF Carried, CarriedBy
    <3> QED
      BY <1>3, <3>2, <3>3 DEF OnTheWay
  <2>2. g # Len(rooms) => Over(g)
    BY <1>2, <2>1 DEF Settled
  <2> QED
    BY <1>3, <2>2 DEF Over, Done
<1>4. \A p \in Player : \A i \in 1 .. Len(wire[p]) : wire[p][i].game = Len(rooms)
  BY <1>2, MessageTyped DEF Settled
<1> QED
  BY <1>1, <1>3, <1>4

LEMMA SettledKept ==
  ASSUME CoreInv, [Next]_vars, NEW g \in Game, NEW p \in Player, Settled(g, p),
         decided'[g] <= 1,
         \A i \in 1 .. Len(wire'[p]) : wire'[p][i].game = g =>
            \E j \in 1 .. Len(wire[p]) : wire[p][j].game = g,
         p = Player2 => \A s \in Server : Telling(s, g)' => Telling(s, g)
  PROVE  Settled(g, p)'
<1>1. decided'[g] = 1
  BY Grow DEF Settled
<1>2. Over(g)'
  BY Grow DEF Settled, Over
<1> QED
  BY <1>1, <1>2 DEF Settled

LEMMA TellingByServers ==
  ASSUME CoreInv, NEW s \in Server, ServerStep(s)
  PROVE  \A t \in Server, g \in Game : Telling(t, g)' =>
           \/ Telling(t, g)
           \/ /\ t = s /\ NotifyPlayer(s, Player1, "tell1", "tell2") /\ Inside(s, g)
              /\ job[s].at = "tell1" /\ decided'[g] = decided[g] + 1
<1> USE DEF CoreInv
<1>1. CASE NotifyPlayer(s, Player1, "tell1", "tell2") \/ NotifyPlayer(s, Player2, "tell2", "reset")
  <2>1. PICK k : k = job[s].room
    OBVIOUS
  <2>2. /\ Busy(s) /\ OtherJobs(s) /\ SameJob(s)
        /\ \/ job[s].at = "tell1" /\ job'[s].at = "tell2"
           \/ job[s].at = "tell2" /\ job'[s].at = "reset"
        /\ \A j \in Game : decided'[j] = IF j = k /\ job[s].at = "tell1" THEN decided[j] + 1
                                                                        ELSE decided[j]
    BY <1>1, <2>1, NotifyFacts
  <2>3. job[s].at = "tell1" => NotifyPlayer(s, Player1, "tell1", "tell2")
    BY <1>1 DEF NotifyPlayer, At
  <2> QED
    BY <2>1, <2>2, <2>3 DEF Telling, Inside, Early, OtherJobs, SameJob, Busy
<1>2. CASE ApplyRoom(s) \/ PlayLocal(s) \/ GiveUpRoom(s)
  <2>1. UNCHANGED job
    BY <1>2, Zenon DEF ApplyRoom, PlayLocal, GiveUpRoom
  <2> QED
    BY <2>1 DEF Telling, Inside, Busy
<1>3. CASE TakeGlobal(s) \/ Arrive(s) \/ RoomNotFound(s) \/ ForwardFails(s)
  <2>1. OtherJobs(s) /\ (Busy(s)' => job'[s].at \in {"relay", "check"})
    BY <1>3, TakeGlobalFacts, ArriveFacts, DropFacts
  <2> QED
    BY <2>1 DEF Telling, Inside, Busy, OtherJobs
<1>4. CASE \/ Relay(s) \/ RelayFails(s) \/ CheckNil(s) \/ CountCards(s)
           \/ ReadCard(s, Player1, "read1", "read2") \/ ReadCard(s, Player2, "read2", "tell1")
  <2>1. OtherJobs(s) /\ (Busy(s)' => job'[s].at # "tell2")
    BY <1>4, MoveFacts
  <2> QED
    BY <2>1 DEF Telling, Inside, Busy, OtherJobs
<1>5. CASE MakeMap(s) \/ StoreCard(s) \/ ResetCards(s)
  <2>1. OtherJobs(s) /\ (Busy(s)' => job'[s].at # "tell2")
    BY <1>5, PutFacts
  <2> QED
    BY <2>1 DEF Telling, Inside, Busy, OtherJobs
<1> QED
  BY <1>1, <1>2, <1>3, <1>4, <1>5 DEF ServerStep

LEMMA SettledByServers ==
  ASSUME CoreInv, SettledInv, NEW s \in Server, ServerStep(s)
  PROVE  SettledInv'
<1> USE DEF CoreInv
<1>1. UNCHANGED <<rooms, verdict, home, played>> /\ [Next]_vars
  BY ServerKeeps DEF Next, clientVars
<1> SUFFICES ASSUME NEW g \in Opened, NEW p \in Player, Clean(g)', decided'[g] <= 1, Shown(g, p)
             PROVE  Settled(g, p)'
  BY <1>1 DEF SettledInv, Opened, Shown
<1>2. g \in Game
  BY BoundsAssumption DEF TypeInv, Opened, Game
<1>3. Settled(g, p) /\ decided'[g] = decided[g]
  <2>1. Clean(g) /\ decided[g] \in Nat /\ decided'[g] \in {decided[g], decided[g] + 1}
    BY <1>1, <1>2, CleanStays, Grow
  <2>2. decided[g] <= 1
    BY <2>1
  <2>3. Settled(g, p)
    BY <2>1, <2>2 DEF SettledInv
  <2> QED
    BY <2>1, <2>3 DEF Settled
<1>4. \A q \in Player : ~ OnTheWay(q, g)
  BY <1>3 DEF Settled, Over, Done
<1>5. \A t \in Server : Telling(t, g)' => Telling(t, g)
  <2>1. decided[g] # decided[g] + 1
    BY <1>1, <1>2, Grow
  <2> QED
    BY <1>2, <1>3, <2>1, TellingByServers
<1>6. ASSUME NEW i \in 1 .. Len(wire'[p]), wire'[p][i].game = g
      PROVE  \E j \in 1 .. Len(wire[p]) : wire[p][j].game = g
  <2>1. CASE i \in 1 .. Len(wire[p])
    BY <1>6, <2>1, NewMessages DEF Kept
  <2>2. CASE i > Len(wire[p])
    <3>1. AddsCard(p, i) \/ AddsResult(s, p, i)
      BY <2>2, NewMessages
    <3>2. ~ AddsCard(p, i)
      BY <1>4, <1>6, OpponentType DEF AddsCard
    <3>3. decided'[g] # decided[g] + 1
      BY <1>1, <1>2, <1>3, Grow
    <3>4. /\ Tells(s, p) /\ g = job[s].room
      BY <1>6, <3>1, <3>2, <3>3 DEF AddsResult
    <3>5. CASE NotifyPlayer(s, Player1, "tell1", "tell2")
      <4>1. job[s].at = "tell1"
        BY <3>5 DEF NotifyPlayer, At
      <4>2. decided'[g] = decided[g] + 1
        BY <1>2, <3>4, <3>5, <4>1, NotifyFacts
      <4> QED
        BY <3>3, <4>2
    <3>6. CASE p = Player2 /\ NotifyPlayer(s, Player2, "tell2", "reset")
      <4>1. Telling(s, g)
        BY <3>4, <3>6 DEF NotifyPlayer, At, Telling, Inside, Busy, Early
      <4> QED
        BY <1>3, <3>6, <4>1 DEF Settled
    <3> QED
      BY <3>4, <3>5, <3>6 DEF Tells
  <2> QED
    BY <2>1, <2>2 DEF TypeInv
<1> QED
  BY <1>1, <1>2, <1>3, <1>5, <1>6, SettledKept

LEMMA SettledByOpening ==
  ASSUME CoreInv, SettledInv, OpenRoom
  PROVE  SettledInv'
<1> USE DEF CoreInv
<1> SUFFICES ASSUME NEW g \in Opened', NEW p \in Player, Clean(g)', decided'[g] <= 1, Shown(g, p)'
             PROVE  Settled(g, p)'
  BY DEF SettledInv
<1>1. /\ Len(rooms) \in Nat /\ Len(rooms') = Len(rooms) + 1 /\ Len(rooms') \in Game
      /\ \A q \in Player : game[q] = Len(rooms)
      /\ UNCHANGED <<job, played, verdict, decided, game>> /\ [Next]_vars
  BY OpenRoomFacts DEF clientVars, historyVars, Next
<1>2. g \in Game
  BY <1>1, BoundsAssumption DEF Opened, Game
<1>3. g \in Opened
  <2>1. verdict[g][p] # "unknown"
    BY <1>1, PlayersAssumption DEF Shown
  <2>2. ~ (g > game[p])
    BY <1>2, <2>1 DEF ClientInv, GamesInOrder, Untouched
  <2> QED
    BY <1>1, <1>2, <2>2 DEF Opened, Game
<1>4. Settled(g, p)
  <2>1. Clean(g)
    BY <1>1, <1>2, CleanStays
  <2> QED
    BY <1>1, <1>3, <2>1 DEF SettledInv, Shown
<1>5. ASSUME NEW i \in 1 .. Len(wire'[p]), wire'[p][i].game = g
      PROVE  \E j \in 1 .. Len(wire[p]) : wire[p][j].game = g
  <2>1. g # Len(rooms')
    BY <1>1, <1>3 DEF Opened
  <2>2. /\ Len(wire[p]) \in Nat /\ Len(wire'[p]) = Len(wire[p]) + 1
        /\ \A j \in 1 .. Len(wire[p]) : wire'[p][j] = wire[p][j]
        /\ wire'[p][Len(wire'[p])].game = Len(rooms')
    BY OpenRoomFacts
  <2>3. i \in 1 .. Len(wire[p])
    BY <1>5, <2>1, <2>2
  <2> QED
    BY <1>5, <2>2, <2>3
<1>6. \A s \in Server : Telling(s, g)' => Telling(s, g)
  BY <1>1 DEF Telling, Inside, Busy
<1> QED
  BY <1>1, <1>2, <1>4, <1>5, <1>6, SettledKept

LEMMA SettledByCrash ==
  ASSUME CoreInv, SettledInv, NEW s \in Server, NEW t \in Server, ConcurrentMapAccess(s, t)
  PROVE  SettledInv'
<1> USE DEF CoreInv
<1>1. UNCHANGED <<rooms, wire, verdict, decided>> /\ [Next]_vars
  BY CrashFacts DEF clientVars, Next
<1> SUFFICES ASSUME NEW g \in Opened, NEW p \in Player, Clean(g)', decided[g] <= 1, Shown(g, p)
             PROVE  Settled(g, p)'
  BY <1>1 DEF SettledInv, Opened, Shown
<1>2. g \in Game
  BY BoundsAssumption DEF TypeInv, Opened, Game
<1>3. Settled(g, p)
  BY <1>1, <1>2, CleanStays DEF SettledInv
<1>4. \A u \in Server : Telling(u, g)' => Telling(u, g)
  BY CrashFacts DEF Telling, Inside, Busy
<1> QED
  BY <1>1, <1>2, <1>3, <1>4, SettledKept

LEMMA HeadIsResult ==
  ASSUME CoreInv, SettledInv, LastGameInv, NEW p \in Player, HearResult(p), Clean(Len(rooms))
  PROVE  /\ Len(rooms) \in Game /\ Len(rooms) \in Opened /\ game[p] = Len(rooms)
         /\ 1 \in 1 .. Len(wire[p]) /\ IsResult(p, 1, Len(rooms)) /\ Head(wire[p]) = wire[p][1]
         /\ decided[Len(rooms)] > 0 /\ Over(Len(rooms))
<1> USE DEF CoreInv
<1>1. wire[p] # <<>> /\ Head(wire[p]).type = "ROUND_RESULT" /\ phase[p] = "listening"
  BY DEF HearResult, Heard
<1>2. /\ game[p] = Len(rooms) /\ Len(rooms) > 0
      /\ 1 \in 1 .. Len(wire[p]) /\ Head(wire[p]) = wire[p][1]
  BY <1>1, InLastGame, HeadMessage DEF Opened
<1>3. Len(rooms) \in Game /\ Len(rooms) \in Opened /\ IsResult(p, 1, Len(rooms))
  BY <1>1, <1>2, OldIsOver DEF IsResult
<1>4. decided[Len(rooms)] > 0 /\ Over(Len(rooms))
  BY <1>2, <1>3 DEF LastGameInv, EndsInResult
<1> QED
  BY <1>2, <1>3, <1>4

LEMMA SettledByClients ==
  ASSUME CoreInv, SettledInv, LastGameInv, NEW q \in Player, ClientStep(q)
  PROVE  SettledInv'
<1> USE DEF CoreInv
<1>1. /\ UNCHANGED <<rooms, job, decided>> /\ [Next]_vars
      /\ UNCHANGED wire \/ (Saw(q) /\ wire[q] # <<>>)
  BY ClientKeeps, PlayCardFacts DEF Next
<1> SUFFICES ASSUME NEW g \in Opened, NEW p \in Player, Clean(g)', decided[g] <= 1, Shown(g, p)'
             PROVE  Settled(g, p)'
  BY <1>1 DEF SettledInv, Opened
<1>2. g \in Game
  BY BoundsAssumption DEF TypeInv, Opened, Game
<1>3. Clean(g)
  BY <1>1, <1>2, CleanStays
<1>4. \A i \in 1 .. Len(wire'[p]) : \E j \in 1 .. Len(wire[p]) : wire'[p][i] = wire[p][j]
  BY <1>1, SawFacts
<1>5. \A s \in Server : Telling(s, g)' => Telling(s, g)
  BY <1>1 DEF Telling, Inside, Busy
<1>6. CASE Shown(g, p)
  <2>1. Settled(g, p)
    BY <1>3, <1>6 DEF SettledInv
  <2> QED
    BY <1>1, <1>2, <1>4, <1>5, <2>1, SettledKept
<1>7. CASE ~ Shown(g, p)
  <2>1. p = q /\ g = game[q] /\ HearResult(q)
    BY <1>2, <1>7, VerdictsByClients, PlayersAssumption DEF Shown
  <2>2. phase[q] # "waiting"
    BY <2>1 DEF HearResult
  <2>3. g = Len(rooms)
    BY <2>1, <2>2, InLastGame
  <2>4. /\ 1 \in 1 .. Len(wire[p]) /\ IsResult(p, 1, g) /\ decided[g] > 0 /\ Over(g)
    BY <1>3, <2>1, <2>3, HeadIsResult
  <2>5. LastWord(g)
    BY <1>3, <2>3, <2>4 DEF LastGameInv, Opened, TypeInv
  <2>6. Len(wire[p]) = 1
    BY <2>4, <2>5 DEF LastWord
  <2>7. Len(wire'[p]) = 0
    BY <2>1, <2>6, SawFacts DEF HearResult, Heard
  <2>8. decided'[g] = 1
    BY <1>1, <1>2, <2>4 DEF TypeInv
  <2>9. Over(g)'
    BY <1>1, <1>2, <2>4, Grow DEF Over
  <2>10. p = Player2 => \A s \in Server : ~ Telling(s, g)'
    BY <1>5, <2>4, <2>5 DEF LastWord
  <2>11. \A i \in 1 .. Len(wire'[p]) : FALSE
    BY <2>7
  <2> QED
    BY <2>8, <2>9, <2>10, <2>11 DEF Settled
<1> QED
  BY <1>6, <1>7

LEMMA SettledNext == CoreInv /\ SettledInv /\ LastGameInv /\ [Next]_vars => SettledInv'
<1> SUFFICES ASSUME CoreInv, SettledInv, LastGameInv, [Next]_vars
             PROVE  SettledInv'
  OBVIOUS
<1>1. CASE UNCHANGED vars
  <2>1. UNCHANGED <<rooms, job, wire, verdict, decided, played, WayVars>>
    BY <1>1 DEF vars, clientVars, historyVars, WayVars
  <2>2. \A p \in Player, g \in Game : Done(p, g)' <=> Done(p, g)
    BY <2>1, WaysKept DEF Done
  <2>3. Opened \subseteq Game
    BY BoundsAssumption DEF CoreInv, TypeInv, Opened, Game
  <2> QED
    BY <2>1, <2>2, <2>3 DEF SettledInv, Opened, Clean, Leftovers, Shown, Settled, Over, Telling,
                            Inside, Busy
<1> QED
  BY <1>1, SettledByServers, SettledByOpening, SettledByCrash, SettledByClients DEF Next

(***************************************************************************)
(* The last game, when nothing of an earlier one was left behind.          *)
(***************************************************************************)
LastOf(g) ==
  MapsKeep(g) /\ EndsInResult(g) /\ LastWord(g) /\ ReadsRight(g) /\ FirstIsRight(g) /\ InTurn(g)

LEMMA LastByOpening ==
  ASSUME CoreInv, OpenRoom, NEW g, g = Len(rooms')
  PROVE  LastOf(g)'
<1> USE DEF CoreInv
<1>2. /\ Len(rooms) \in Nat /\ g = Len(rooms) + 1 /\ g \in Game
      /\ \A p \in Player : phase[p] = "waiting"
      /\ UNCHANGED <<job, cards, phase, decided>>
  BY OpenRoomFacts DEF clientVars, historyVars
<1>3. decided'[g] = 0 /\ \A s \in Server, p \in Player : cards'[s][g].of[p] = NoCard
  BY <1>2 DEF ClientInv, NilMap
<1>4. \A s \in Server : ~ Inside(s, g)'
  <2>1. \A s \in Server : Busy(s) => job[s].room <= Len(rooms)
    BY DEF TypeInv
  <2>2. ~ (g <= Len(rooms))
    BY <1>2
  <2> QED
    BY <1>2, <2>1, <2>2 DEF Inside, Busy
<1>5. \A p \in Player : \A i \in 1 .. Len(wire'[p]) : ~ IsResult(p, i, g)'
  <2>1. ASSUME NEW p \in Player, NEW i \in 1 .. Len(wire'[p]), IsResult(p, i, g)'
        PROVE  FALSE
    <3>1. /\ Len(wire[p]) \in Nat /\ Len(wire'[p]) = Len(wire[p]) + 1
          /\ \A j \in 1 .. Len(wire[p]) : wire'[p][j] = wire[p][j]
          /\ wire'[p][Len(wire'[p])].type = "MATCH"
      BY OpenRoomFacts
    <3>2. i \in 1 .. Len(wire[p])
      BY <2>1, <3>1 DEF IsResult
    <3>3. wire[p][i].game = g /\ wire[p][i].game <= Len(rooms)
      BY <2>1, <3>1, <3>2 DEF IsResult, TypeInv
    <3> QED
      BY <1>2, <3>3
  <2> QED
    BY <2>1
<1>6. MapsKeep(g)' /\ EndsInResult(g)' /\ LastWord(g)'
  BY <1>3, <1>4, <1>5 DEF MapsKeep, EndsInResult, LastWord, Telling
<1>7. ReadsRight(g)' /\ FirstIsRight(g)' /\ InTurn(g)'
  BY <1>2, <1>4, <1>5 DEF ReadsRight, FirstIsRight, InTurn
<1> QED
  BY <1>6, <1>7 DEF LastOf

(* A player never leaves a result of the last game unheard and the game    *)
(* unended.                                                                *)
LEMMA ResultIsShown ==
  ASSUME CoreInv, SettledInv, NEW g, g = Len(rooms), g > 0, Clean(g), LastOf(g),
         NEW q \in Player, ClientStep(q), Saw(q), wire[q] # <<>>, IsResult(q, 1, g)
  PROVE  verdict'[g][q] # "unknown"
<1> USE DEF CoreInv
<1>1. /\ g \in Game /\ Head(wire[q]).type = "ROUND_RESULT" /\ Head(wire[q]).game = g
      /\ 1 \in 1 .. Len(wire[q]) /\ wire' # wire
  <2>1. wire' # wire
    BY SawFacts DEF TypeInv
  <2> QED
    BY <2>1, HeadMessage, OldIsOver DEF IsResult
<1>2. played[g][q] # NoCard
  BY <1>1 DEF LastOf, EndsInResult, Over, Done
<1>3. game[q] = g
  <2>1. ~ (g > game[q])
    BY <1>1, <1>2 DEF ClientInv, GamesInOrder, Untouched
  <2> QED
    BY <2>1 DEF TypeInv
<1>4. CASE Miss(q)
  <2>1. Subscribed(q)
    BY <1>1, <1>3 DEF Subscribed
  <2>2. phase[q] # "matched"
    BY <1>2, <1>3 DEF ClientInv
  <2>3. phase[q] = "waiting"
    BY <1>4, <2>1, <2>2 DEF Miss
  <2>4. verdict[g][q] # "unknown"
    BY <1>1, <1>3, <2>3 DEF ClientInv, GamesInOrder, TypeInv
  <2> QED
    BY <1>1, <1>4, <2>4 DEF Miss, clientVars
<1>5. CASE HearResult(q)
  <2>1. Head(wire[q]).winner \in Player \union {"nobody"}
    BY <1>1, HeadMessage
  <2>2. verdict' = [verdict EXCEPT ![g] = [verdict[g] EXCEPT ![q] = Head(wire[q]).winner]]
    BY <1>3, <1>5 DEF HearResult, End
  <2>3. verdict'[g][q] = Head(wire[q]).winner
    BY <1>1, <2>2 DEF TypeInv
  <2> QED
    BY <2>1, <2>3, PlayersAssumption
<1> QED
  BY <1>1, <1>4, <1>5 DEF ClientStep, HearMatch, EnterGame, PlayCard, CancelGame, HearCard, Heard

LEMMA ToldKept ==
  ASSUME CoreInv, [Next]_vars, NEW g \in Game, NEW p \in Player, Told(g, p),
         \A i \in 1 .. Len(wire[p]) : IsResult(p, i, g) =>
            \/ \E j \in 1 .. Len(wire'[p]) : IsResult(p, j, g)'
            \/ verdict'[g][p] # "unknown"
  PROVE  Told(g, p)'
<1>1. home'[p] = home[p] /\ home[p] \in Server
  BY Grow, HomesAssumption DEF CoreInv, TypeInv
<1>2. CASE ~ up[home[p]]
  BY <1>1, <1>2, Grow DEF Told
<1>3. CASE verdict[g][p] # "unknown"
  BY <1>3, Grow DEF Told
<1>4. CASE \E i \in 1 .. Len(wire[p]) : IsResult(p, i, g)
  BY <1>4 DEF Told
<1> QED
  BY <1>2, <1>3, <1>4 DEF Told

LEMMA AllToldKept ==
  ASSUME CoreInv, [Next]_vars, NEW g \in Game, AllTold(g), \A p \in Player : Told(g, p) => Told(g, p)'
  PROVE  AllTold(g)'
<1>1. decided'[g] > 0
  BY Grow DEF AllTold
<1>2. faults' = 0 => faults = 0
  BY Grow
<1> QED
  BY <1>1, <1>2 DEF AllTold

LEMMA LastByClients ==
  ASSUME CoreInv, SettledInv, NEW g, g = Len(rooms), g > 0, Clean(g), LastOf(g),
         NEW q \in Player, ClientStep(q)
  PROVE  LastOf(g)'
<1> USE DEF CoreInv
<1>1. /\ UNCHANGED <<rooms, home, up, job, cards, decided, faults>> /\ [Next]_vars
      /\ UNCHANGED wire \/ (Saw(q) /\ wire[q] # <<>>)
  BY ClientKeeps, PlayCardFacts DEF Next
<1>2. g \in Game /\ Len(rooms) > 0 /\ Clean(Len(rooms))
  BY OldIsOver
<1>3. \A p \in Player : Done(p, g) => Done(p, g)' /\ played'[g][p] = played[g][p]
  BY <1>1, <1>2, Grow
<1>4. ASSUME Over(g)
      PROVE  Over(g)' /\ played'[g][Player1] = played[g][Player1] /\ played'[g][Player2] = played[g][Player2]
  BY <1>3, <1>4 DEF Over, Player
<1>5. ASSUME NEW p \in Player
      PROVE  \/ wire'[p] = wire[p]
             \/ /\ p = q /\ Saw(q) /\ wire[q] # <<>> /\ Len(wire[p]) \in Nat \ {0}
                /\ Len(wire'[p]) = Len(wire[p]) - 1
                /\ \A i \in 1 .. Len(wire'[p]) : /\ i + 1 \in 1 .. Len(wire[p])
                                                 /\ wire'[p][i] = wire[p][i + 1]
                /\ \A i \in 1 .. Len(wire[p]) : i # 1 => /\ i - 1 \in 1 .. Len(wire'[p])
                                                         /\ wire'[p][i - 1] = wire[p][i]
  BY <1>1, <1>5, SawFacts
<1>6. ASSUME NEW p \in Player, NEW i \in 1 .. Len(wire'[p]), IsResult(p, i, g)'
      PROVE  /\ i = Len(wire'[p]) \/ \E j \in 1 .. Len(wire[p]) : IsResult(p, j, g) /\ j # Len(wire[p])
             /\ \E j \in 1 .. Len(wire[p]) : IsResult(p, j, g)
  <2>1. CASE wire'[p] = wire[p]
    BY <1>6, <2>1 DEF IsResult
  <2>2. CASE wire'[p] # wire[p]
    <3>1. i + 1 \in 1 .. Len(wire[p]) /\ wire'[p][i] = wire[p][i + 1] /\ Len(wire'[p]) = Len(wire[p]) - 1
          /\ Len(wire[p]) \in Nat \ {0}
      BY <1>5, <1>6, <2>2
    <3>2. IsResult(p, i + 1, g)
      BY <1>6, <3>1 DEF IsResult
    <3> QED
      BY <1>6, <3>1, <3>2
  <2> QED
    BY <2>1, <2>2
<1>7. MapsKeep(g)'
  BY <1>1, <1>3 DEF LastOf, MapsKeep
<1>8. \A s \in Server : (Inside(s, g)' <=> Inside(s, g)) /\ (Telling(s, g)' <=> Telling(s, g))
  BY <1>1 DEF Inside, Telling, Busy
<1>9. EndsInResult(g)'
  <2>1. \A p \in Player : \A i \in 1 .. Len(wire'[p]) : IsResult(p, i, g)' => decided[g] > 0
    BY <1>6 DEF LastOf, EndsInResult
  <2> QED
    BY <1>1, <1>4, <1>8, <2>1 DEF LastOf, EndsInResult
<1>10. LastWord(g)'
  <2> SUFFICES ASSUME decided[g] <= 1
               PROVE  /\ \A p \in Player : \A i \in 1 .. Len(wire'[p]) : IsResult(p, i, g)' => i = Len(wire'[p])
                      /\ \A s, t \in Server : Telling(s, g) /\ Telling(t, g) => s = t
                      /\ \A s \in Server : Telling(s, g) =>
                           \A i \in 1 .. Len(wire'[Player2]) : ~ IsResult(Player2, i, g)'
    BY <1>1, <1>8 DEF LastWord
  <2>1. \A p \in Player : \A j \in 1 .. Len(wire[p]) : IsResult(p, j, g) => j = Len(wire[p])
    BY DEF LastOf, LastWord
  <2>2. Player2 \in Player
    BY DEF Player
  <2> QED
    BY <1>6, <2>1, <2>2 DEF LastOf, LastWord
<1>11. \A p \in Player : Told(g, p) => Told(g, p)'
  <2>1. ASSUME NEW p \in Player, NEW i \in 1 .. Len(wire[p]), IsResult(p, i, g)
        PROVE  \/ \E j \in 1 .. Len(wire'[p]) : IsResult(p, j, g)'
               \/ verdict'[g][p] # "unknown"
    <3>1. CASE wire'[p] = wire[p]
      BY <2>1, <3>1 DEF IsResult
    <3>2. CASE wire'[p] # wire[p] /\ i # 1
      BY <1>5, <2>1, <3>2 DEF IsResult
    <3>3. CASE wire'[p] # wire[p] /\ i = 1
      BY <1>5, <2>1, <3>3, ResultIsShown
    <3> QED
      BY <3>1, <3>2, <3>3
  <2> QED
    BY <1>1, <1>2, <2>1, ToldKept
<1>12. ReadsRight(g)'
  <2>1. AllTold(g) => AllTold(g)'
    BY <1>1, <1>2, <1>11, AllToldKept
  <2>2. ASSUME NEW s \in Server, Inside(s, g), job[s].at \in Final, NEW p \in Player
        PROVE  /\ Seen(s, g, p) => Seen(s, g, p)'
               /\ There(s, g, p) => There(s, g, p)'
    <3>1. Over(g)
      BY <2>2 DEF LastOf, EndsInResult
    <3>2. played'[g][p] = played[g][p]
      BY <1>3, <3>1 DEF Over
    <3> QED
      BY <1>1, <3>2 DEF Seen, There
  <2>3. Player1 \in Player /\ Player2 \in Player
    BY DEF Player
  <2>4. ASSUME NEW s \in Server, Inside(s, g)
        PROVE  /\ job[s].at = "read1" => (There(s, g, Player1)' /\ There(s, g, Player2)') \/ AllTold(g)'
               /\ job[s].at = "read2" => (Seen(s, g, Player1)' /\ There(s, g, Player2)') \/ AllTold(g)'
               /\ job[s].at = "tell1" => (Seen(s, g, Player1)' /\ Seen(s, g, Player2)') \/ AllTold(g)'
               /\ job[s].at = "tell2" =>
                    \/ /\ Seen(s, g, Player1)' /\ Seen(s, g, Player2)'
                       /\ faults' = 0 => Told(g, Player1)'
                    \/ AllTold(g)' /\ decided'[g] > 1
               /\ job[s].at = "reset" => AllTold(g)'
    <3>1. CASE job[s].at \in Final
      <4>1. /\ Seen(s, g, Player1) => Seen(s, g, Player1)'
            /\ Seen(s, g, Player2) => Seen(s, g, Player2)'
            /\ There(s, g, Player1) => There(s, g, Player1)'
            /\ There(s, g, Player2) => There(s, g, Player2)'
            /\ Told(g, Player1) => Told(g, Player1)'
        BY <1>11, <2>2, <2>3, <2>4, <3>1
      <4>2. /\ job[s].at = "read1" => (There(s, g, Player1) /\ There(s, g, Player2)) \/ AllTold(g)
            /\ job[s].at = "read2" => (Seen(s, g, Player1) /\ There(s, g, Player2)) \/ AllTold(g)
            /\ job[s].at = "tell1" => (Seen(s, g, Player1) /\ Seen(s, g, Player2)) \/ AllTold(g)
            /\ job[s].at = "tell2" => \/ /\ Seen(s, g, Player1) /\ Seen(s, g, Player2)
                                         /\ faults = 0 => Told(g, Player1)
                                      \/ AllTold(g) /\ decided[g] > 1
            /\ job[s].at = "reset" => AllTold(g)
        BY <2>4 DEF LastOf, ReadsRight
      <4> QED
        BY <1>1, <2>1, <4>1, <4>2
    <3>2. CASE job[s].at \notin Final
      BY <3>2 DEF Final
    <3> QED
      BY <3>1, <3>2
  <2> QED
    BY <1>1, <1>8, <2>4 DEF ReadsRight
<1>13. FirstIsRight(g)'
  <2>1. ASSUME NEW p \in Player, NEW i \in 1 .. Len(wire'[p]), verdict'[g][p] = "unknown",
               faults = 0 \/ decided[g] <= 1, IsResult(p, i, g)',
               \A j \in 1 .. i - 1 : ~ IsResult(p, j, g)'
        PROVE  wire'[p][i].winner = RightOne(g)'
    <3>1. Over(g)
      BY <1>6, <2>1 DEF LastOf, EndsInResult
    <3>2. RightOne(g)' = RightOne(g)
      BY <1>4, <3>1 DEF RightOne
    <3>3. verdict[g][p] = "unknown"
      BY <1>1, <1>2, <2>1, Grow
    <3>4. CASE wire'[p] = wire[p]
      BY <2>1, <3>2, <3>3, <3>4 DEF LastOf, FirstIsRight, IsResult
    <3>5. CASE wire'[p] # wire[p]
      <4>1. /\ p = q /\ Saw(q) /\ wire[q] # <<>> /\ Len(wire[p]) \in Nat \ {0}
            /\ Len(wire'[p]) = Len(wire[p]) - 1
            /\ \A j \in 1 .. Len(wire[p]) : j # 1 => /\ j - 1 \in 1 .. Len(wire'[p])
                                                     /\ wire'[p][j - 1] = wire[p][j]
            /\ i + 1 \in 1 .. Len(wire[p]) /\ wire'[p][i] = wire[p][i + 1]
        BY <1>5, <2>1, <3>5
      <4>2. IsResult(p, i + 1, g)
        BY <2>1, <4>1 DEF IsResult
      <4>3. ~ IsResult(p, 1, g)
        BY <2>1, <4>1, ResultIsShown
      <4>4. ASSUME NEW j \in 1 .. (i + 1) - 1
            PROVE  ~ IsResult(p, j, g)
        <5>1. j \in 1 .. Len(wire[p]) /\ (j # 1 => j - 1 \in 1 .. i - 1)
          BY <2>1, <4>1
        <5> QED
          BY <2>1, <4>1, <4>3, <5>1 DEF IsResult
      <4> QED
        BY <2>1, <3>2, <3>3, <4>1, <4>2, <4>4 DEF LastOf, FirstIsRight
    <3> QED
      BY <3>4, <3>5
  <2> QED
    BY <1>1, <2>1 DEF FirstIsRight
<1>14. InTurn(g)'
  <2>1. ASSUME NEW p \in Player, phase'[p] = "choosing", game'[p] = g, rooms[g].first # p
        PROVE  played'[g][Opponent(p)] # NoCard
    <3>1. Opponent(p) \in Player
      BY OpponentType
    <3>2. SUFFICES played[g][Opponent(p)] # NoCard
      BY <1>1, <1>2, <3>1, Grow
    <3>3. phase[p] = "choosing" /\ game[p] = g => played[g][Opponent(p)] # NoCard
      BY <2>1 DEF LastOf, InTurn
    <3>4. CASE EnterGame(q) \/ HearMatch(q) \/ Miss(q) \/ PlayCard(q) \/ CancelGame(q) \/ HearResult(q)
      BY <2>1, <3>3, <3>4 DEF EnterGame, HearMatch, Miss, PlayCard, CancelGame, HearResult, End, TypeInv,
                              clientVars
    <3>5. CASE HearCard(q)
      <4>1. phase[p] = "choosing" \/ p = q
        BY <2>1, <3>5 DEF HearCard, TypeInv
      <4>2. UNCHANGED game /\ wire[q] # <<>> /\ Head(wire[q]).type = "PLAY_CARD"
        BY <3>5 DEF HearCard, Heard
      <4>3. wire[q][1].type = "PLAY_CARD" /\ wire[q][1].game = g /\ 1 \in 1 .. Len(wire[q])
        BY <1>2, <4>2, HeadMessage, OldIsOver
      <4>4. played[g][Opponent(q)] # NoCard
        BY <4>3 DEF PlaceInv, RelayedWerePlayed
      <4> QED
        BY <2>1, <3>3, <4>1, <4>2, <4>4
    <3> QED
      BY <3>4, <3>5 DEF ClientStep
  <2> QED
    BY <1>1, <2>1 DEF InTurn
<1> QED
  BY <1>7, <1>9, <1>10, <1>12, <1>13, <1>14 DEF LastOf

(* As long as a card of the last game is on its way, it is not over.       *)
LEMMA LastFacts ==
  ASSUME CoreInv, SettledInv, NEW g, g = Len(rooms), g > 0, Clean(g)
  PROVE  /\ g \in Game
         /\ \A s \in Server : requests[s] # <<>> => Head(requests[s]).game = g /\ ~ Over(g)
         /\ \A s \in Server : Busy(s) /\ job[s].at \in Unstored => job[s].game = g /\ ~ Over(g)
<1> USE DEF CoreInv
<1>1. g \in Game /\ \A k \in Game, p \in Player : OnTheWay(p, k) => k = g
  BY OldIsOver
<1>2. ASSUME NEW s \in Server, requests[s] # <<>>
      PROVE  Head(requests[s]).game = g /\ ~ Over(g)
  <2>1. PICK p, k : p = Head(requests[s]).from /\ k = Head(requests[s]).game
    OBVIOUS
  <2>2. OnTheWay(p, k) /\ p \in Player /\ k \in Game
    BY <1>2, <2>1, HeadIsOnTheWay, HeadRequest
  <2> QED
    BY <1>1, <2>1, <2>2 DEF Over, Done
<1>3. ASSUME NEW s \in Server, Busy(s), job[s].at \in Unstored
      PROVE  job[s].game = g /\ ~ Over(g)
  <2>1. PICK p, k : p = job[s].from /\ k = job[s].game
    OBVIOUS
  <2>2. OnTheWay(p, k) /\ p \in Player /\ k \in Game
    BY <1>3, <2>1, JobIsOnTheWay, JobTyped
  <2> QED
    BY <1>1, <2>1, <2>2 DEF Over, Done
<1> QED
  BY <1>1, <1>2, <1>3

LEMMA MapsByServers ==
  ASSUME CoreInv, SettledInv, NEW g, g = Len(rooms), g > 0, Clean(g), LastOf(g),
         NEW s \in Server, ServerStep(s)
  PROVE  MapsKeep(g)'
<1> USE DEF CoreInv
<1>1. UNCHANGED played /\ [Next]_vars
  BY ServerKeeps DEF clientVars, Next
<1>2. g \in Game /\ \A p \in Player : Done(p, g) => Done(p, g)'
  BY <1>1, LastFacts, Grow
<1>3. ASSUME NEW t \in Server, NEW p \in Player, cards'[t][g].of[p] # NoCard
      PROVE  \/ cards'[t][g].of[p] = cards[t][g].of[p]
             \/ cards'[t][g].of[p] = played[g][p] /\ Handles(s, p, g)
  <2>0. EmptyMap.of[p] = NoCard
    BY DEF EmptyMap
  <2>1. CASE PlayLocal(s)
    <3>1. PICK from, q, card, k : /\ from = Head(requests[s]).from /\ card = Head(requests[s]).card
                                  /\ k = Head(requests[s]).game /\ q = Opponent(from)
      OBVIOUS
    <3>2. /\ requests[s] # <<>> /\ OtherMaps(s, k) /\ from \in Player
          /\ cards[s][k].of[q] # NoCard => cards'[s][k] = EmptyMap
          /\ cards[s][k].of[q] = NoCard => /\ cards'[s][k].of[from] = card
                                           /\ cards'[s][k].of[q] = cards[s][k].of[q]
      BY <2>1, <3>1, PlayLocalFacts, Zenon
    <3>3. k = g /\ card = played[g][from]
      BY <3>1, <3>2, LastFacts, HeadIsOnTheWay
    <3>4. p = from \/ p = q
      BY <3>1, <3>2 DEF Player, Opponent
    <3>5. Handles(s, from, g)
      BY <2>1, <3>1, <3>3 DEF Handles
    <3> QED
      BY <1>2, <1>3, <2>0, <3>2, <3>3, <3>4, <3>5 DEF OtherMaps
  <2>2. CASE MakeMap(s) \/ StoreCard(s) \/ ResetCards(s)
    <3>1. PICK h, k, from : h = job[s].on /\ k = job[s].room /\ from = job[s].from
      OBVIOUS
    <3>2. /\ Busy(s) /\ OtherMaps(h, k)
          /\ \/ cards'[h][k] = EmptyMap
             \/ /\ job[s].at = "store" /\ cards'[h][k].of[from] = job[s].card
                /\ \A q \in Player : q # from => cards'[h][k].of[q] = cards[h][k].of[q]
      BY <2>2, <3>1, PutFacts
    <3>3. CASE h = t /\ k = g /\ job[s].at = "store" /\ p = from /\ cards'[h][k].of[p] = job[s].card
      <4>1. job[s].game = g
        BY <3>2, <3>3, LastFacts DEF Unstored
      <4>2. job[s].card = played[g][p]
        BY <3>1, <3>2, <3>3, <4>1, JobIsOnTheWay
      <4>3. StoreCard(s)
        BY <2>2, <3>3 DEF MakeMap, StoreCard, ResetCards, At
      <4> QED
        BY <3>1, <3>2, <3>3, <4>1, <4>2, <4>3 DEF Handles
    <3>4. CASE cards'[t][g].of[p] = cards[t][g].of[p]
      BY <3>4
    <3> QED
      BY <1>2, <1>3, <2>0, <3>2, <3>3, <3>4 DEF OtherMaps
  <2>3. CASE UNCHANGED cards
    BY <2>3
  <2>4. PlayLocal(s) \/ MakeMap(s) \/ StoreCard(s) \/ ResetCards(s) \/ UNCHANGED cards
    BY DEF ServerStep, ApplyRoom, TakeGlobal, GiveUpRoom, Relay, RelayFails, Arrive, RoomNotFound,
           ForwardFails, CheckNil, CountCards, ReadCard, NotifyPlayer
  <2> QED
    BY <2>1, <2>2, <2>3, <2>4
<1>4. \A p \in Player : Handles(s, p, g) => Done(p, g)'
  BY <1>2, DoneByServers
<1>5. \A t \in Server, p \in Player : cards[t][g].of[p] # NoCard =>
        cards[t][g].of[p] = played[g][p] /\ Done(p, g)
  BY DEF LastOf, MapsKeep
<1> QED
  BY <1>1, <1>2, <1>3, <1>4, <1>5 DEF MapsKeep

(* Who is in the room after a step: what is new there is only reading and  *)
(* telling, and that of whom took the step.                                *)
LEMMA InsideByServers ==
  ASSUME CoreInv, NEW s \in Server, ServerStep(s), NEW g \in Game
  PROVE  \A t \in Server : Inside(t, g)' =>
           \/ job'[t] = job[t] /\ Inside(t, g)
           \/ job'[t].at \notin Final
           \/ /\ t = s /\ Inside(s, g) /\ SameJob(s)
              /\ \/ /\ job[s].at = "count" /\ job'[s].at = "read1" /\ Full(Room(s))
                    /\ UNCHANGED <<cards, decided>>
                 \/ /\ job[s].at = "read1" /\ job'[s].at = "read2"
                    /\ job'[s].seen[Player1] = Room(s).of[Player1]
                    /\ UNCHANGED <<cards, decided>>
                 \/ /\ job[s].at = "read2" /\ job'[s].at = "tell1"
                    /\ job'[s].seen[Player1] = job[s].seen[Player1]
                    /\ job'[s].seen[Player2] = Room(s).of[Player2]
                    /\ UNCHANGED <<cards, decided>>
                 \/ /\ job[s].at = "tell1" /\ job'[s].at = "tell2" /\ job'[s].seen = job[s].seen
                    /\ NotifyPlayer(s, Player1, "tell1", "tell2")
                    /\ decided'[g] = decided[g] + 1
                 \/ /\ job[s].at = "tell2" /\ job'[s].at = "reset" /\ job'[s].seen = job[s].seen
                    /\ NotifyPlayer(s, Player2, "tell2", "reset")
                    /\ decided'[g] = decided[g]
<1> USE DEF CoreInv
<1>1. ASSUME OtherJobs(s), NEW t \in Server, t # s, Inside(t, g)'
      PROVE  job'[t] = job[t] /\ Inside(t, g)
  BY <1>1 DEF OtherJobs, Inside, Busy
<1>2. CASE ApplyRoom(s) \/ PlayLocal(s) \/ GiveUpRoom(s)
  <2>1. UNCHANGED job
    BY <1>2, Zenon DEF ApplyRoom, PlayLocal, GiveUpRoom
  <2> QED
    BY <2>1 DEF Inside, Busy
<1>3. CASE TakeGlobal(s) \/ Arrive(s) \/ RoomNotFound(s) \/ ForwardFails(s)
  <2>1. OtherJobs(s) /\ (Busy(s)' => job'[s].at \in {"relay", "check"})
    BY <1>3, TakeGlobalFacts, ArriveFacts, DropFacts
  <2> QED
    BY <1>1, <2>1 DEF Inside, Final
<1>4. CASE MakeMap(s) \/ StoreCard(s) \/ ResetCards(s)
  <2>1. OtherJobs(s) /\ (Busy(s)' => job'[s].at \in {"store", "count"})
    BY <1>4, PutFacts
  <2> QED
    BY <1>1, <2>1 DEF Inside, Final
<1>5. CASE \/ Relay(s) \/ RelayFails(s) \/ CheckNil(s) \/ CountCards(s)
           \/ ReadCard(s, Player1, "read1", "read2") \/ ReadCard(s, Player2, "read2", "tell1")
  <2>1. Busy(s) /\ OtherJobs(s) /\ UNCHANGED <<cards, decided>>
    BY <1>5, MoveFacts
  <2>2. \/ ~ Busy(s)' \/ job'[s].at \in {"forward", "store", "make"}
        \/ /\ SameJob(s)
           /\ \/ job[s].at = "count" /\ job'[s].at = "read1" /\ Full(Room(s))
              \/ /\ job[s].at = "read1" /\ job'[s].at = "read2"
                 /\ job'[s].seen[Player1] = Room(s).of[Player1]
              \/ /\ job[s].at = "read2" /\ job'[s].at = "tell1"
                 /\ job'[s].seen[Player1] = job[s].seen[Player1]
                 /\ job'[s].seen[Player2] = Room(s).of[Player2]
    BY <1>5, MoveFacts
  <2>3. SameJob(s) /\ job[s].at \in {"count", "read1", "read2"} /\ Inside(s, g)' => Inside(s, g)
    BY <2>1 DEF SameJob, Inside, Early
  <2> QED
    BY <1>1, <2>1, <2>2, <2>3 DEF Inside, Final
<1>6. CASE NotifyPlayer(s, Player1, "tell1", "tell2") \/ NotifyPlayer(s, Player2, "tell2", "reset")
  <2>1. PICK k : k = job[s].room
    OBVIOUS
  <2>2. /\ Busy(s) /\ OtherJobs(s) /\ SameJob(s) /\ job'[s].seen = job[s].seen
        /\ \/ job[s].at = "tell1" /\ job'[s].at = "tell2"
           \/ job[s].at = "tell2" /\ job'[s].at = "reset"
        /\ \A j \in Game : decided'[j] = IF j = k /\ job[s].at = "tell1" THEN decided[j] + 1
                                                                        ELSE decided[j]
    BY <1>6, <2>1, NotifyFacts
  <2>3. /\ job[s].at = "tell1" => NotifyPlayer(s, Player1, "tell1", "tell2")
        /\ job[s].at = "tell2" => NotifyPlayer(s, Player2, "tell2", "reset")
    BY <1>6 DEF NotifyPlayer, At
  <2>4. Inside(s, g)' => Inside(s, g) /\ k = g
    BY <2>1, <2>2 DEF SameJob, Inside, Early
  <2> QED
    BY <1>1, <2>1, <2>2, <2>3, <2>4
<1> QED
  BY <1>2, <1>3, <1>4, <1>5, <1>6 DEF ServerStep

LEMMA EndsByServers ==
  ASSUME CoreInv, SettledInv, NEW g, g = Len(rooms), g > 0, Clean(g), LastOf(g),
         NEW s \in Server, ServerStep(s)
  PROVE  EndsInResult(g)' /\ (decided'[g] # decided[g] => Over(g)')
<1> USE DEF CoreInv
<1>1. [Next]_vars /\ g \in Game /\ decided[g] \in Nat /\ decided'[g] \in {decided[g], decided[g] + 1}
  BY LastFacts, Grow DEF Next
<1>2. Over(g) => Over(g)'
  BY <1>1, Grow DEF Over
<1>3. \A t \in Server : Inside(t, g) => /\ job[t].at \in Final => Over(g)
                                        /\ job[t].at \in {"tell2", "reset"} => decided[g] > 0
  BY DEF LastOf, EndsInResult
<1>4. ASSUME NEW t \in Server, Inside(t, g)'
      PROVE  /\ job'[t].at \in Final => Over(g)'
             /\ job'[t].at \in {"tell2", "reset"} => decided'[g] > 0
  <2>1. CASE Inside(t, g) /\ job'[t] = job[t]
    BY <1>1, <1>2, <1>3, <2>1
  <2>2. CASE Inside(s, g) /\ t = s /\ job[s].at = "count" /\ job'[s].at = "read1" /\ Full(Room(s))
    <3>1. job[s].room = g /\ job[s].on \in Server
      BY <2>2, JobTyped DEF Inside
    <3>2. Over(g)
      BY <2>2, <3>1 DEF LastOf, MapsKeep, Full, Room, Over
    <3> QED
      BY <1>2, <2>2, <3>2
  <2>3. CASE Inside(s, g) /\ t = s /\ job[s].at \in Final
    <3>1. Over(g)'
      BY <1>2, <1>3, <2>3
    <3>2. job'[s].at \in {"tell2", "reset"} => decided'[g] > 0
      BY <1>1, <1>3, <1>4, <2>3, InsideByServers DEF Final
    <3> QED
      BY <2>3, <3>1, <3>2
  <2> QED
    BY <1>1, <1>4, <2>1, <2>2, <2>3, InsideByServers DEF Final
<1>5. ASSUME decided'[g] # decided[g]
      PROVE  Over(g)'
  <2>1. CASE PlayLocal(s)
    <3>1. PICK from, q, k : /\ from = Head(requests[s]).from
                            /\ k = Head(requests[s]).game /\ q = Opponent(from)
      OBVIOUS
    <3>2. /\ \A j \in Game : j # k => decided'[j] = decided[j]
          /\ from \in Player
          /\ cards[s][k].of[q] = NoCard => decided'[k] = decided[k]
      BY <2>1, <3>1, PlayLocalFacts
    <3>3. k = g /\ cards[s][g].of[q] # NoCard /\ q \in Player
      BY <1>1, <1>5, <3>1, <3>2, OpponentType
    <3>4. Done(q, g)'
      BY <1>1, <3>3, Grow DEF LastOf, MapsKeep
    <3>5. Done(from, g)'
      BY <1>1, <2>1, <3>1, <3>2, <3>3, DoneByServers DEF Handles
    <3>6. \A p \in Player : p = from \/ p = q
      BY <3>1, <3>2 DEF Player, Opponent
    <3> QED
      BY <3>4, <3>5, <3>6 DEF Over
  <2>2. CASE NotifyPlayer(s, Player1, "tell1", "tell2") \/ NotifyPlayer(s, Player2, "tell2", "reset")
    <3>1. PICK k : k = job[s].room
      OBVIOUS
    <3>2. /\ Busy(s)
          /\ \A j \in Game : decided'[j] = IF j = k /\ job[s].at = "tell1" THEN decided[j] + 1
                                                                          ELSE decided[j]
      BY <2>2, <3>1, NotifyFacts
    <3>3. Inside(s, g) /\ job[s].at \in Final
      BY <1>1, <1>5, <3>1, <3>2 DEF Inside, Early, Final
    <3> QED
      BY <1>2, <1>3, <3>3
  <2>3. \/ PlayLocal(s) \/ UNCHANGED decided
        \/ NotifyPlayer(s, Player1, "tell1", "tell2") \/ NotifyPlayer(s, Player2, "tell2", "reset")
    BY DEF ServerStep, ApplyRoom, TakeGlobal, GiveUpRoom, Relay, RelayFails, Arrive, RoomNotFound,
           ForwardFails, CheckNil, CountCards, ReadCard, MakeMap, StoreCard, ResetCards, Put, historyVars
  <2> QED
    BY <1>5, <2>1, <2>2, <2>3
<1>6. decided'[g] > 0 => Over(g)'
  BY <1>1, <1>2, <1>5 DEF LastOf, EndsInResult
<1>7. ASSUME NEW p \in Player, NEW i \in 1 .. Len(wire'[p]), IsResult(p, i, g)'
      PROVE  decided'[g] > 0
  <2>1. CASE i \in 1 .. Len(wire[p])
    <3>1. IsResult(p, i, g)
      BY <1>7, <2>1, NewMessages DEF Kept, IsResult
    <3> QED
      BY <1>1, <2>1, <3>1 DEF LastOf, EndsInResult
  <2>2. CASE i > Len(wire[p])
    <3>1. AddsResult(s, p, i)
      BY <1>7, <2>2, NewMessages DEF AddsCard, IsResult
    <3>2. CASE decided'[g] = decided[g] + 1
      BY <1>1, <3>2
    <3>3. CASE Tells(s, p) /\ g = job[s].room
      <4>1. /\ Inside(s, g) /\ job[s].at \in {"tell1", "tell2"}
            /\ \/ NotifyPlayer(s, Player1, "tell1", "tell2")
               \/ NotifyPlayer(s, Player2, "tell2", "reset")
        BY <3>3 DEF Tells, NotifyPlayer, At, Inside, Busy, Early
      <4>2. Busy(s) /\ (job[s].at = "tell1" => decided'[g] = decided[g] + 1)
        BY <1>1, <3>3, <4>1, NotifyFacts
      <4>3. job[s].at = "tell2" => decided[g] > 0
        BY <1>3, <3>3, <4>1, <4>2 DEF Inside, Early
      <4> QED
        BY <1>1, <4>1, <4>2, <4>3
    <3> QED
      BY <1>7, <3>1, <3>2, <3>3 DEF AddsResult, IsResult
  <2> QED
    BY <2>1, <2>2 DEF TypeInv
<1> QED
  BY <1>4, <1>5, <1>6, <1>7 DEF EndsInResult

(* As long as nothing of an earlier game comes up, all messages are of the *)
(* last game: a card, while the game is not over, or a result, right at    *)
(* the end.                                                                *)
OfLastGame ==
  Len(rooms) > 0 /\ Clean(Len(rooms)) =>
    \A p \in Player : \A i \in 1 .. Len(wire[p]) : wire[p][i].game = Len(rooms)

LEMMA OfLastGameNext == CoreInv /\ SettledInv /\ LastGameInv /\ [Next]_vars => OfLastGame'
<1>1. CoreInv /\ SettledInv => OfLastGame
  BY OldIsOver DEF OfLastGame
<1> QED
  BY <1>1, CoreNext, SettledNext, PTL

LEMMA NewestMessages ==
  ASSUME CoreInv, SettledInv, NEW g, g = Len(rooms), g > 0, Clean(g), LastOf(g),
         NEW s \in Server, ServerStep(s), Clean(g)'
  PROVE  \A p \in Player : \A i \in 1 .. Len(wire'[p]) : i > Len(wire[p]) =>
           /\ IsResult(p, i, g)' => i = Len(wire'[p])
           /\ \/ /\ ~ Over(g)
                 /\ IsResult(p, i, g)' => /\ PlayLocal(s) /\ wire'[p][i] = LocalResult(s)
                                          /\ decided'[g] = decided[g] + 1
              \/ /\ Inside(s, g) /\ Tells(s, p) /\ Call(s, home[p])
                 /\ wire'[p][i] = RoundResult(s)
                 /\ \/ p = Player1 /\ job[s].at = "tell1" /\ decided'[g] = decided[g] + 1
                    \/ p = Player2 /\ job[s].at = "tell2" /\ decided'[g] = decided[g]
<1> USE DEF CoreInv
<1>1. [Next]_vars /\ rooms' = rooms /\ g \in Game
  BY ServerKeeps, LastFacts DEF Next
<1>2. LastGameInv
  BY DEF LastGameInv, LastOf
<1>3. \A p \in Player : \A i \in 1 .. Len(wire'[p]) : wire'[p][i].game = g
  BY <1>1, <1>2, OfLastGameNext DEF OfLastGame
<1> SUFFICES ASSUME NEW p \in Player, NEW i \in 1 .. Len(wire'[p]), i > Len(wire[p])
             PROVE  /\ IsResult(p, i, g)' => i = Len(wire'[p])
                    /\ \/ /\ ~ Over(g)
                          /\ IsResult(p, i, g)' => /\ PlayLocal(s) /\ wire'[p][i] = LocalResult(s)
                                                   /\ decided'[g] = decided[g] + 1
                       \/ /\ Inside(s, g) /\ Tells(s, p) /\ Call(s, home[p])
                          /\ wire'[p][i] = RoundResult(s)
                          /\ \/ p = Player1 /\ job[s].at = "tell1" /\ decided'[g] = decided[g] + 1
                             \/ p = Player2 /\ job[s].at = "tell2" /\ decided'[g] = decided[g]
  OBVIOUS
<1>4. wire'[p][i].game = g /\ (AddsCard(p, i) \/ AddsResult(s, p, i))
  BY <1>3, NewMessages
<1>5. CASE AddsCard(p, i)
  <2>1. ~ Over(g)
    BY <1>4, <1>5, OpponentType DEF AddsCard, Over, Done
  <2>2. ~ IsResult(p, i, g)'
    BY <1>5 DEF AddsCard, IsResult
  <2> QED
    BY <2>1, <2>2
<1>6. CASE AddsResult(s, p, i) /\ PlayLocal(s) /\ wire'[p][i] = LocalResult(s)
           /\ decided'[g] = decided[g] + 1 /\ \E q \in Player : OnTheWay(q, g)
  BY <1>6 DEF AddsResult, Over, Done
<1>7. CASE AddsResult(s, p, i) /\ Tells(s, p) /\ wire'[p][i] = RoundResult(s)
           /\ Call(s, home[p]) /\ g = job[s].room
  <2>1. Busy(s) /\ \A k \in Game : decided'[k] = IF k = g /\ job[s].at = "tell1" THEN decided[k] + 1
                                                                                ELSE decided[k]
    BY <1>7, NotifyFacts DEF Tells
  <2>2. \/ p = Player1 /\ job[s].at = "tell1"
        \/ p = Player2 /\ job[s].at = "tell2"
    BY <1>7 DEF Tells, NotifyPlayer, At
  <2>3. Inside(s, g)
    BY <1>7, <2>1, <2>2 DEF Inside, Early
  <2> QED
    BY <1>1, <1>7, <2>1, <2>2, <2>3 DEF AddsResult
<1> QED
  BY <1>4, <1>5, <1>6, <1>7 DEF AddsResult

LEMMA LastWordByServers ==
  ASSUME CoreInv, SettledInv, NEW g, g = Len(rooms), g > 0, Clean(g), LastOf(g),
         NEW s \in Server, ServerStep(s), Clean(g)'
  PROVE  LastWord(g)'
<1> USE DEF CoreInv
<1>1. g \in Game /\ decided[g] \in Nat /\ decided'[g] \in {decided[g], decided[g] + 1}
  BY LastFacts, Grow DEF Next
<1> SUFFICES ASSUME decided'[g] <= 1
             PROVE  /\ \A p \in Player : \A i \in 1 .. Len(wire'[p]) : IsResult(p, i, g)' => i = Len(wire'[p])
                    /\ \A u, t \in Server : Telling(u, g)' /\ Telling(t, g)' => u = t
                    /\ \A t \in Server : Telling(t, g)' =>
                         \A i \in 1 .. Len(wire'[Player2]) : ~ IsResult(Player2, i, g)'
  BY DEF LastWord
<1>2. /\ \A p \in Player : \A i \in 1 .. Len(wire[p]) :
           IsResult(p, i, g) => i = Len(wire[p]) /\ decided[g] > 0 /\ Over(g)
      /\ \A t \in Server : Telling(t, g) => decided[g] > 0 /\ Over(g)
      /\ \A u, t \in Server : Telling(u, g) /\ Telling(t, g) => u = t
      /\ \A t \in Server : Telling(t, g) =>
           \A i \in 1 .. Len(wire[Player2]) : ~ IsResult(Player2, i, g)
  BY <1>1 DEF LastOf, LastWord, EndsInResult, Telling
<1>3. \A p \in Player : /\ Len(wire[p]) \in Nat /\ Len(wire'[p]) \in Nat /\ Len(wire'[p]) >= Len(wire[p])
                        /\ \A i \in 1 .. Len(wire[p]) : /\ IsResult(p, i, g)' <=> IsResult(p, i, g)
                                                        /\ i \in 1 .. Len(wire'[p])
  <2>1. \A p \in Player : Len(wire[p]) \in Nat /\ Len(wire'[p]) \in Nat
    <3>1. TypeInv'
      BY CoreNext DEF Next
    <3> QED
      BY <3>1 DEF TypeInv
  <2> QED
    BY <2>1, NewMessages DEF Kept, IsResult
<1>4. ~ (decided'[g] = decided[g] + 1 /\ decided[g] > 0)
  BY <1>1
<1>5. ASSUME NEW p \in Player, NEW i \in 1 .. Len(wire'[p]), IsResult(p, i, g)'
      PROVE  i = Len(wire'[p])
  <2>1. CASE i > Len(wire[p])
    BY <1>5, <2>1, NewestMessages
  <2>2. CASE i <= Len(wire[p]) /\ Len(wire'[p]) > Len(wire[p])
    <3>1. PICK j \in 1 .. Len(wire'[p]) : j > Len(wire[p])
      BY <1>3, <2>2
    <3>2. i \in 1 .. Len(wire[p]) /\ IsResult(p, i, g)
      BY <1>3, <1>5, <2>2
    <3>3. decided[g] > 0 /\ Over(g)
      BY <1>2, <3>2
    <3>4. p = Player2 /\ Inside(s, g) /\ job[s].at = "tell2"
      BY <1>4, <3>1, <3>3, NewestMessages
    <3> QED
      BY <1>2, <3>2, <3>4 DEF Telling
  <2>3. CASE Len(wire'[p]) = Len(wire[p])
    BY <1>2, <1>3, <1>5, <2>3
  <2> QED
    BY <1>3, <2>1, <2>2, <2>3
<1>6. \A t \in Server : Telling(t, g)' =>
        \/ Telling(t, g)
        \/ t = s /\ Inside(s, g) /\ job[s].at = "tell1" /\ decided[g] = 0 /\ ~ Telling(s, g)
  BY <1>1, <1>4, TellingByServers DEF Telling
<1>7. \A u, t \in Server : Telling(u, g)' /\ Telling(t, g)' => u = t
  <2>1. decided[g] = 0 => ~ (decided[g] > 0)
    OBVIOUS
  <2> QED
    BY <1>2, <1>6, <2>1
<1>8. ASSUME NEW t \in Server, Telling(t, g)', NEW i \in 1 .. Len(wire'[Player2]), IsResult(Player2, i, g)'
      PROVE  FALSE
  <2>0. Player2 \in Player /\ Player1 # Player2
    BY PlayersAssumption DEF Player
  <2>1. i > Len(wire[Player2])
    <3>1. SUFFICES ASSUME i <= Len(wire[Player2])
                   PROVE  FALSE
      BY <1>3, <2>0
    <3>2. i \in 1 .. Len(wire[Player2]) /\ IsResult(Player2, i, g)
      BY <1>3, <1>8, <2>0, <3>1
    <3>3. ~ Telling(t, g) /\ decided[g] > 0
      BY <1>2, <2>0, <3>2
    <3> QED
      BY <1>6, <1>8, <3>3
  <2>2. CASE ~ Over(g) /\ PlayLocal(s)
    <3>1. UNCHANGED job
      BY <2>2, Zenon DEF PlayLocal
    <3>2. Telling(t, g)
      BY <1>8, <3>1 DEF Telling, Inside, Busy
    <3> QED
      BY <1>2, <2>2, <3>2
  <2>3. CASE Inside(s, g) /\ job[s].at = "tell2" /\ Tells(s, Player2)
    <3>1. job'[s].at = "reset"
      BY <2>0, <2>3, NotifyFacts DEF Tells
    <3>2. t # s
      BY <1>8, <3>1 DEF Telling
    <3>3. Telling(t, g) /\ Telling(s, g)
      BY <1>6, <1>8, <2>3, <3>2 DEF Telling
    <3> QED
      BY <1>2, <3>2, <3>3
  <2> QED
    BY <1>8, <2>0, <2>1, <2>2, <2>3, NewestMessages
<1> QED
  BY <1>5, <1>7, <1>8

(* Who was told a result stays told, and a notice tells it.                *)
LEMMA ToldByServers ==
  ASSUME CoreInv, NEW s \in Server, ServerStep(s), NEW g \in Game
  PROVE  /\ \A p \in Player : Told(g, p) => Told(g, p)'
         /\ AllTold(g) => AllTold(g)'
<1> USE DEF CoreInv
<1>1. [Next]_vars
  BY DEF Next
<1>2. ASSUME NEW p \in Player, Told(g, p)
      PROVE  Told(g, p)'
  <2>1. Kept(p) /\ Len(wire[p]) \in Nat /\ Len(wire'[p]) \in Nat
    <3>1. TypeInv'
      BY <1>1, CoreNext
    <3>2. Len(wire[p]) \in Nat /\ Len(wire'[p]) \in Nat
      BY <3>1 DEF TypeInv
    <3> QED
      BY <3>2, NewMessages
  <2>2. \A i \in 1 .. Len(wire[p]) : i \in 1 .. Len(wire'[p]) /\ (IsResult(p, i, g) => IsResult(p, i, g)')
    BY <2>1 DEF Kept, IsResult
  <2> QED
    BY <1>1, <1>2, <2>2, ToldKept
<1> QED
  BY <1>1, <1>2, AllToldKept

LEMMA ToldByNotice ==
  ASSUME CoreInv, NEW s \in Server, NEW g \in Game, g = job[s].room, faults' = 0, NEW p \in Player,
         Tells(s, p)
  PROVE  Told(g, p)'
<1> USE DEF CoreInv
<1>1. p = IF job[s].at = "tell1" THEN Player1 ELSE Player2
  BY PlayersAssumption DEF Tells, NotifyPlayer, At
<1>2. \/ wire'[p] = Append(wire[p], RoundResult(s))
      \/ ~ up[home[p]]
  BY <1>1, NotifyFacts DEF Tells
<1>3. UNCHANGED <<home, up>>
  BY DEF Tells, NotifyPlayer
<1>4. CASE wire'[p] = Append(wire[p], RoundResult(s))
  <2>1. PICK i : i = Len(wire[p]) + 1
    OBVIOUS
  <2>2. i \in 1 .. Len(wire'[p]) /\ wire'[p][i] = RoundResult(s)
    BY <1>4, <2>1 DEF TypeInv
  <2>3. IsResult(p, i, g)'
    BY <2>2 DEF IsResult, RoundResult, Result
  <2> QED
    BY <2>2, <2>3 DEF Told
<1>5. CASE ~ up[home[p]]
  BY <1>3, <1>5 DEF Told
<1> QED
  BY <1>2, <1>4, <1>5

(* When the last game is over, only a reset touches its maps.              *)
LEMMA MapsRest ==
  ASSUME CoreInv, SettledInv, NEW g, g = Len(rooms), g > 0, Clean(g), LastOf(g),
         NEW s \in Server, ServerStep(s), Over(g)
  PROVE  (\A h \in Server : cards'[h][g] = cards[h][g]) \/ AllTold(g)
<1> USE DEF CoreInv
<1>1. g \in Game
  BY LastFacts
<1>2. ~ PlayLocal(s)
  BY LastFacts, Zenon DEF PlayLocal, Taking
<1>3. ~ MakeMap(s) /\ ~ StoreCard(s)
  BY LastFacts DEF MakeMap, StoreCard, At, Busy, Unstored
<1>4. CASE ResetCards(s)
  <2>1. PICK h, k : h = job[s].on /\ k = job[s].room
    OBVIOUS
  <2>2. Busy(s) /\ OtherMaps(h, k)
    BY <1>4, <2>1, PutFacts
  <2>3. CASE k # g
    BY <1>1, <2>2, <2>3 DEF OtherMaps
  <2>4. CASE k = g
    <3>1. Inside(s, g) /\ job[s].at = "reset"
      BY <1>4, <2>1, <2>2, <2>4 DEF ResetCards, At, Inside, Early
    <3> QED
      BY <3>1 DEF LastOf, ReadsRight
  <2> QED
    BY <2>3, <2>4
<1>5. PlayLocal(s) \/ MakeMap(s) \/ StoreCard(s) \/ ResetCards(s) \/ UNCHANGED cards
  BY DEF ServerStep, ApplyRoom, TakeGlobal, GiveUpRoom, Relay, RelayFails, Arrive, RoomNotFound,
         ForwardFails, CheckNil, CountCards, ReadCard, NotifyPlayer
<1> QED
  BY <1>2, <1>3, <1>4, <1>5

LEMMA ReadsByServers ==
  ASSUME CoreInv, SettledInv, NEW g, g = Len(rooms), g > 0, Clean(g), LastOf(g),
         NEW s \in Server, ServerStep(s)
  PROVE  ReadsRight(g)'
<1> USE DEF CoreInv
<1>1. /\ UNCHANGED <<home, rooms, up, played, verdict>> /\ [Next]_vars
      /\ g \in Game /\ decided[g] \in Nat /\ decided'[g] \in {decided[g], decided[g] + 1}
      /\ faults' = 0 => faults = 0
  BY ServerKeeps, LastFacts, Grow DEF clientVars, Next
<1>2. AllTold(g) => AllTold(g)'
  BY <1>1, ToldByServers
<1>3. Player1 \in Player /\ Player2 \in Player
  BY DEF Player
<1> SUFFICES ASSUME NEW t \in Server, Inside(t, g)'
             PROVE  /\ job'[t].at = "read1" => (There(t, g, Player1)' /\ There(t, g, Player2)') \/ AllTold(g)'
                    /\ job'[t].at = "read2" => (Seen(t, g, Player1)' /\ There(t, g, Player2)') \/ AllTold(g)'
                    /\ job'[t].at = "tell1" => (Seen(t, g, Player1)' /\ Seen(t, g, Player2)') \/ AllTold(g)'
                    /\ job'[t].at = "tell2" =>
                         \/ /\ Seen(t, g, Player1)' /\ Seen(t, g, Player2)'
                            /\ faults' = 0 => Told(g, Player1)'
                         \/ AllTold(g)' /\ decided'[g] > 1
                    /\ job'[t].at = "reset" => AllTold(g)'
  BY DEF ReadsRight
<1>4. CASE job'[t].at \notin Final
  BY <1>4 DEF Final
<1>5. CASE job'[t] = job[t] /\ Inside(t, g) /\ job[t].at \in Final
  <2>1. Over(g) /\ job[t].on \in Server
    BY <1>5, JobTyped DEF LastOf, EndsInResult, Inside
  <2>2. ASSUME NEW p \in Player
        PROVE  /\ Seen(t, g, p) => Seen(t, g, p)'
               /\ There(t, g, p) => There(t, g, p)' \/ AllTold(g)'
    <3>1. Seen(t, g, p) => Seen(t, g, p)'
      BY <1>1, <1>5 DEF Seen
    <3>2. cards'[job[t].on][g] = cards[job[t].on][g] \/ AllTold(g)'
      BY <1>2, <2>1, MapsRest
    <3> QED
      BY <1>1, <1>5, <3>1, <3>2 DEF There
  <2>3. Told(g, Player1) => Told(g, Player1)'
    BY <1>1, <1>3, ToldByServers
  <2>4. decided[g] > 1 => decided'[g] > 1
    BY <1>1
  <2>5. /\ job[t].at = "read1" => (There(t, g, Player1) /\ There(t, g, Player2)) \/ AllTold(g)
        /\ job[t].at = "read2" => (Seen(t, g, Player1) /\ There(t, g, Player2)) \/ AllTold(g)
        /\ job[t].at = "tell1" => (Seen(t, g, Player1) /\ Seen(t, g, Player2)) \/ AllTold(g)
        /\ job[t].at = "tell2" => \/ /\ Seen(t, g, Player1) /\ Seen(t, g, Player2)
                                     /\ faults = 0 => Told(g, Player1)
                                  \/ AllTold(g) /\ decided[g] > 1
        /\ job[t].at = "reset" => AllTold(g)
    BY <1>5 DEF LastOf, ReadsRight
  <2>6. /\ Seen(t, g, Player1) => Seen(t, g, Player1)'
        /\ Seen(t, g, Player2) => Seen(t, g, Player2)'
        /\ There(t, g, Player1) => There(t, g, Player1)' \/ AllTold(g)'
        /\ There(t, g, Player2) => There(t, g, Player2)' \/ AllTold(g)'
    BY <1>3, <2>2
  <2> QED
    BY <1>1, <1>2, <1>5, <2>3, <2>4, <2>5, <2>6
<1>6. CASE t = s /\ Inside(s, g) /\ SameJob(s) /\ job[s].at = "count" /\ job'[s].at = "read1"
           /\ Full(Room(s)) /\ UNCHANGED cards
  <2>1. job[s].room = g /\ job[s].on \in Server
    BY <1>6, JobTyped DEF Inside
  <2>2. \A p \in Player : cards[job[s].on][g].of[p] = played[g][p]
    BY <1>6, <2>1 DEF LastOf, MapsKeep, Full, Room
  <2>3. There(s, g, Player1)' /\ There(s, g, Player2)'
    BY <1>1, <1>3, <1>6, <2>2 DEF There, SameJob
  <2> QED
    BY <1>6, <2>3
<1>7. CASE t = s /\ Inside(s, g) /\ SameJob(s) /\ job[s].at = "read1" /\ job'[s].at = "read2"
           /\ job'[s].seen[Player1] = Room(s).of[Player1] /\ UNCHANGED cards
  <2>1. job[s].room = g
    BY <1>7 DEF Inside
  <2>2. (There(s, g, Player1) /\ There(s, g, Player2)) \/ AllTold(g)
    BY <1>7 DEF LastOf, ReadsRight
  <2>3. /\ There(s, g, Player1) => Seen(s, g, Player1)'
        /\ There(s, g, Player2) => There(s, g, Player2)'
    BY <1>1, <1>7, <2>1 DEF There, Seen, SameJob, Room
  <2> QED
    BY <1>2, <1>7, <2>2, <2>3
<1>8. CASE t = s /\ Inside(s, g) /\ SameJob(s) /\ job[s].at = "read2" /\ job'[s].at = "tell1"
           /\ job'[s].seen[Player1] = job[s].seen[Player1]
           /\ job'[s].seen[Player2] = Room(s).of[Player2] /\ UNCHANGED cards
  <2>1. job[s].room = g
    BY <1>8 DEF Inside
  <2>2. (Seen(s, g, Player1) /\ There(s, g, Player2)) \/ AllTold(g)
    BY <1>8 DEF LastOf, ReadsRight
  <2>3. /\ Seen(s, g, Player1) => Seen(s, g, Player1)'
        /\ There(s, g, Player2) => Seen(s, g, Player2)'
    BY <1>1, <1>8, <2>1 DEF There, Seen, Room
  <2> QED
    BY <1>2, <1>8, <2>2, <2>3
<1>9. CASE t = s /\ Inside(s, g) /\ SameJob(s) /\ job[s].at = "tell1" /\ job'[s].at = "tell2"
           /\ job'[s].seen = job[s].seen /\ NotifyPlayer(s, Player1, "tell1", "tell2")
           /\ decided'[g] = decided[g] + 1
  <2>1. (Seen(s, g, Player1) /\ Seen(s, g, Player2)) \/ AllTold(g)
    BY <1>9 DEF LastOf, ReadsRight
  <2>2. CASE Seen(s, g, Player1) /\ Seen(s, g, Player2)
    <3>1. Seen(s, g, Player1)' /\ Seen(s, g, Player2)'
      BY <1>1, <1>9, <2>2 DEF Seen
    <3>2. faults' = 0 => Told(g, Player1)'
      BY <1>1, <1>3, <1>9, ToldByNotice DEF Tells, Inside
    <3> QED
      BY <1>9, <3>1, <3>2
  <2>3. CASE AllTold(g)
    <3>1. decided'[g] > 1
      BY <1>1, <1>9, <2>3 DEF AllTold
    <3> QED
      BY <1>2, <1>9, <2>3, <3>1
  <2> QED
    BY <2>1, <2>2, <2>3
<1>10. CASE t = s /\ Inside(s, g) /\ SameJob(s) /\ job[s].at = "tell2" /\ job'[s].at = "reset"
            /\ NotifyPlayer(s, Player2, "tell2", "reset") /\ decided'[g] = decided[g]
  <2>1. decided[g] > 0 /\ (faults = 0 => Told(g, Player1))
    BY <1>3, <1>10 DEF LastOf, ReadsRight, EndsInResult, AllTold
  <2>2. faults' = 0 => Told(g, Player1)' /\ Told(g, Player2)'
    BY <1>1, <1>3, <1>10, <2>1, ToldByNotice, ToldByServers DEF Tells, Inside
  <2>3. AllTold(g)'
    BY <1>10, <2>1, <2>2 DEF AllTold, Player
  <2> QED
    BY <1>10, <2>3
<1> QED
  BY <1>1, <1>4, <1>5, <1>6, <1>7, <1>8, <1>9, <1>10, InsideByServers

LEMMA FirstByServers ==
  ASSUME CoreInv, SettledInv, NEW g, g = Len(rooms), g > 0, Clean(g), LastOf(g),
         NEW s \in Server, ServerStep(s), Clean(g)'
  PROVE  FirstIsRight(g)'
<1> USE DEF CoreInv
<1>1. /\ UNCHANGED <<home, rooms, up, played, verdict>> /\ [Next]_vars
      /\ g \in Game /\ decided[g] \in Nat /\ decided'[g] \in {decided[g], decided[g] + 1}
      /\ faults' = 0 => faults = 0
  BY ServerKeeps, LastFacts, Grow DEF clientVars, Next
<1> SUFFICES ASSUME NEW p \in Player, NEW i \in 1 .. Len(wire'[p]), verdict[g][p] = "unknown",
                    faults' = 0 \/ decided'[g] <= 1, IsResult(p, i, g)',
                    \A j \in 1 .. i - 1 : ~ IsResult(p, j, g)'
             PROVE  wire'[p][i].winner = RightOne(g)
  BY <1>1 DEF FirstIsRight, RightOne
<1>2. Len(wire[p]) \in Nat /\ Len(wire'[p]) \in Nat
  <2>1. TypeInv'
    BY <1>1, CoreNext
  <2> QED
    BY <2>1 DEF TypeInv
<1>3. Len(wire'[p]) >= Len(wire[p]) /\ \A j \in 1 .. Len(wire[p]) : wire'[p][j] = wire[p][j]
  BY NewMessages DEF Kept
<1>4. \A j \in 1 .. Len(wire[p]) : j < i => ~ IsResult(p, j, g)
  <2> SUFFICES ASSUME NEW j \in 1 .. Len(wire[p]), j < i
               PROVE  ~ IsResult(p, j, g)
    OBVIOUS
  <2>1. j \in 1 .. i - 1
    BY <1>2
  <2> QED
    BY <1>3, <2>1 DEF IsResult
<1>5. CASE i <= Len(wire[p])
  <2>1. i \in 1 .. Len(wire[p]) /\ wire'[p][i] = wire[p][i]
    BY <1>2, <1>3, <1>5
  <2>2. IsResult(p, i, g) /\ \A j \in 1 .. i - 1 : ~ IsResult(p, j, g)
    BY <1>2, <1>3, <1>4, <2>1 DEF IsResult
  <2>3. faults = 0 \/ decided[g] <= 1
    BY <1>1
  <2> QED
    BY <2>1, <2>2, <2>3 DEF LastOf, FirstIsRight
<1>6. CASE i > Len(wire[p]) /\ PlayLocal(s) /\ wire'[p][i] = LocalResult(s) /\ decided'[g] = decided[g] + 1
  <2>1. PICK from, q, card : /\ from = Head(requests[s]).from /\ card = Head(requests[s]).card
                             /\ q = Opponent(from)
    OBVIOUS
  <2>2. requests[s] # <<>> /\ from \in Player /\ Head(requests[s]).game \in Game
    BY <1>6, <2>1, PlayLocalFacts
  <2>3. Head(requests[s]).game = g
    BY <2>2, LastFacts
  <2>4. card = played[g][from]
    BY <2>1, <2>2, <2>3, HeadIsOnTheWay, SMTT(30)
  <2>5. cards[s][g].of[q] # NoCard /\ q \in Player
    BY <1>1, <1>6, <2>1, <2>2, <2>3, PlayLocalFacts, OpponentType
  <2>6. cards[s][g].of[q] = played[g][q]
    BY <2>5 DEF LastOf, MapsKeep
  <2>7. PICK of : of = [cards[s][g].of EXCEPT ![from] = card]
    OBVIOUS
  <2>8. wire'[p][i].winner = ResultFor(of[Player1], of[Player2])
    BY <1>6, <2>1, <2>3, <2>7 DEF LocalResult, Result
  <2>9. cards[s][g] \in Map
    BY <1>1 DEF TypeInv
  <2>10. of[from] = card /\ of[q] = cards[s][g].of[q]
    BY <2>1, <2>2, <2>5, <2>7, <2>9, OpponentType DEF Map
  <2>11. \/ from = Player1 /\ q = Player2
         \/ from = Player2 /\ q = Player1
    BY <2>1, <2>2, PlayersAssumption DEF Player, Opponent
  <2> QED
    BY <2>4, <2>6, <2>8, <2>10, <2>11 DEF RightOne
<1>7. CASE /\ i > Len(wire[p]) /\ Inside(s, g) /\ Tells(s, p) /\ Call(s, home[p])
           /\ wire'[p][i] = RoundResult(s)
           /\ \/ p = Player1 /\ job[s].at = "tell1" /\ decided'[g] = decided[g] + 1
              \/ p = Player2 /\ job[s].at = "tell2" /\ decided'[g] = decided[g]
  <2>1. up[home[p]]
    BY <1>7 DEF Call, Inside, PlaceInv, JobsArePlayed
  <2>2. ~ Told(g, p)
    <3>1. \A j \in 1 .. Len(wire[p]) : ~ IsResult(p, j, g)
      BY <1>2, <1>4, <1>7
    <3> QED
      BY <2>1, <3>1 DEF Told
  <2>3. ~ (AllTold(g) /\ decided'[g] > 1)
    BY <1>1, <2>2 DEF AllTold
  <2>4. Seen(s, g, Player1) /\ Seen(s, g, Player2)
    <3>1. CASE p = Player1 /\ job[s].at = "tell1" /\ decided'[g] = decided[g] + 1
      <4>1. AllTold(g) => decided'[g] > 1
        BY <1>1, <3>1 DEF AllTold
      <4> QED
        BY <1>7, <2>3, <3>1, <4>1 DEF LastOf, ReadsRight
    <3>2. CASE p = Player2 /\ job[s].at = "tell2" /\ decided'[g] = decided[g]
      BY <1>7, <2>3, <3>2 DEF LastOf, ReadsRight
    <3> QED
      BY <1>7, <3>1, <3>2
  <2>5. wire'[p][i].winner = ResultFor(job[s].seen[Player1], job[s].seen[Player2])
    BY <1>7 DEF RoundResult, Result
  <2> QED
    BY <2>4, <2>5 DEF Seen, RightOne
<1>8. CASE i > Len(wire[p]) /\ ~ PlayLocal(s)
  BY <1>7, <1>8, NewestMessages
<1>9. CASE i > Len(wire[p]) /\ PlayLocal(s)
  <2>1. ~ Tells(s, p)
    BY <1>9, Zenon DEF PlayLocal, Taking, Tells, NotifyPlayer, At
  <2> QED
    BY <1>6, <1>9, <2>1, NewestMessages
<1> QED
  BY <1>2, <1>5, <1>8, <1>9

LEMMA LastByServers ==
  ASSUME CoreInv, SettledInv, NEW g, g = Len(rooms), g > 0, Clean(g), LastOf(g),
         NEW s \in Server, ServerStep(s), Clean(g)'
  PROVE  LastOf(g)'
<1>1. MapsKeep(g)'
  BY MapsByServers
<1>2. EndsInResult(g)'
  BY EndsByServers
<1>3. LastWord(g)'
  BY LastWordByServers
<1>4. ReadsRight(g)'
  BY ReadsByServers
<1>5. FirstIsRight(g)'
  BY FirstByServers
<1>6. InTurn(g)'
  BY ServerKeeps DEF CoreInv, clientVars, LastOf, InTurn
<1> QED
  BY <1>1, <1>2, <1>3, <1>4, <1>5, <1>6 DEF LastOf

LEMMA LastByCrash ==
  ASSUME CoreInv, NEW g, g = Len(rooms), g > 0, LastOf(g),
         NEW s \in Server, NEW t \in Server, ConcurrentMapAccess(s, t)
  PROVE  LastOf(g)'
<1> USE DEF CoreInv
<1>1. /\ UNCHANGED <<home, rooms, cards, wire, phase, game, played, verdict, decided, faults>>
      /\ [Next]_vars /\ g \in Game
  BY CrashFacts, BoundsAssumption DEF clientVars, Next, TypeInv, Game
<1>2. \A u \in Server : Inside(u, g)' => Inside(u, g) /\ job'[u] = job[u]
  BY CrashFacts DEF Inside, Busy
<1>3. \A u \in Server : Telling(u, g)' => Telling(u, g)
  BY <1>2 DEF Telling
<1>4. \A p \in Player : Done(p, g) => Done(p, g)'
  BY <1>1, Grow
<1>5. MapsKeep(g)'
  BY <1>1, <1>4 DEF LastOf, MapsKeep
<1>6. \A p, i : IsResult(p, i, g)' <=> IsResult(p, i, g)
  BY <1>1 DEF IsResult
<1>7. EndsInResult(g)'
  <2>1. Over(g) => Over(g)'
    BY <1>4 DEF Over
  <2> QED
    BY <1>1, <1>2, <1>6, <2>1 DEF LastOf, EndsInResult
<1>8. LastWord(g)'
  <2>1. Player2 \in Player
    BY DEF Player
  <2> QED
    BY <1>1, <1>3, <1>6, <2>1 DEF LastOf, LastWord
<1>9. ReadsRight(g)'
  <2>1. \A p \in Player : Told(g, p) => Told(g, p)'
    BY <1>1, <1>6, ToldKept
  <2>2. AllTold(g) => AllTold(g)'
    BY <1>1, <2>1, AllToldKept
  <2>3. Told(g, Player1) => Told(g, Player1)'
    BY <2>1 DEF Player
  <2>4. ASSUME NEW u \in Server, Inside(u, g)'
        PROVE  /\ job'[u] = job[u] /\ Inside(u, g)
               /\ \A p \in Player : /\ Seen(u, g, p)' <=> Seen(u, g, p)
                                    /\ There(u, g, p)' <=> There(u, g, p)
    BY <1>1, <1>2, <2>4 DEF Seen, There
  <2>5. Player1 \in Player /\ Player2 \in Player
    BY DEF Player
  <2> QED
    BY <1>1, <2>2, <2>3, <2>4, <2>5 DEF LastOf, ReadsRight
<1>10. FirstIsRight(g)' /\ InTurn(g)'
  BY <1>1, <1>6 DEF LastOf, FirstIsRight, InTurn, RightOne
<1> QED
  BY <1>5, <1>7, <1>8, <1>9, <1>10 DEF LastOf

LEMMA LastGameNext == CoreInv /\ SettledInv /\ LastGameInv /\ [Next]_vars => LastGameInv'
<1> SUFFICES ASSUME CoreInv, SettledInv, LastGameInv, [Next]_vars,
                    NEW g \in Opened', g = Len(rooms'), Clean(g)'
             PROVE  LastOf(g)'
  BY DEF LastGameInv, LastOf
<1> USE DEF CoreInv
<1>1. CASE OpenRoom
  BY <1>1, LastByOpening
<1>2. CASE ~ OpenRoom
  <2>1. rooms' = rooms
    BY <1>2, ServerKeeps, ClientKeeps, PlayCardFacts, CrashFacts DEF Next, vars
  <2>2. g = Len(rooms)
    BY <2>1
  <2>3. g > 0 /\ g \in Game /\ g \in Opened
    BY <2>1, <2>2, BoundsAssumption DEF TypeInv, Game, Opened
  <2>4. Clean(g)
    BY <2>3, CleanStays
  <2>5. LastOf(g)
    BY <2>2, <2>3, <2>4 DEF LastGameInv, LastOf
  <2>6. LastOf(g)'
    <3>1. CASE \E s \in Server : ServerStep(s)
      BY <2>2, <2>3, <2>4, <2>5, <3>1, LastByServers
    <3>2. CASE \E p \in Player : ClientStep(p)
      BY <2>2, <2>3, <2>4, <2>5, <3>2, LastByClients
    <3>3. CASE \E s, t \in Server : ConcurrentMapAccess(s, t)
      BY <2>2, <2>3, <2>5, <3>3, LastByCrash
    <3>4. CASE UNCHANGED vars
      <4>1. UNCHANGED <<home, rooms, up, job, cards, wire, phase, game, played, verdict, decided, faults, WayVars>>
        BY <3>4 DEF vars, clientVars, historyVars, WayVars
      <4>2. \A p \in Player : Done(p, g)' <=> Done(p, g)
        BY <2>3, <4>1, WaysKept DEF Done
      <4> QED
        BY <2>5, <4>1, <4>2 DEF LastOf, MapsKeep, EndsInResult, LastWord, ReadsRight, FirstIsRight, InTurn,
               Over, Inside, Busy, IsResult, Telling, Seen, There, AllTold, Told, RightOne
    <3> QED
      BY <1>2, <3>1, <3>2, <3>3, <3>4 DEF Next
  <2> QED
    BY <2>6
<1> QED
  BY <1>1, <1>2

(* The invariant of the last game, as long as no earlier one left anything *)
(* behind (processHostCard, PlayGlobalGame).                               *)
THEOREM LastGameInvariance == Spec => [](CoreInv /\ SettledInv /\ LastGameInv)
<1>1. Init => CoreInv /\ SettledInv /\ LastGameInv
  BY CoreInit DEF Init, SettledInv, LastGameInv, Opened
<1>2. CoreInv /\ SettledInv /\ LastGameInv /\ [Next]_vars => (CoreInv /\ SettledInv /\ LastGameInv)'
  BY CoreNext, SettledNext, LastGameNext
<1> QED
  BY <1>1, <1>2, PTL DEF Spec

LEMMA ResultKept ==
  ASSUME CoreInv, SettledInv, LastGameInv, WrongResultNeedsLeftovers, [Next]_vars
  PROVE  WrongResultNeedsLeftovers'
<1> USE DEF CoreInv
<1> SUFFICES ASSUME NEW g \in Game, NEW p \in Player, Shown(g, p)'
             PROVE  \/ AllPlayed(g)' /\ verdict'[g][p] = ResultFor(played'[g][Player1], played'[g][Player2])
                    \/ Leftovers(g)'
                    \/ faults' > 0 /\ decided'[g] > 1
  BY DEF WrongResultNeedsLeftovers, Shown
<1>1. /\ faults \in Nat /\ faults' \in Nat /\ (faults' = 0 => faults = 0)
      /\ decided[g] \in Nat /\ decided'[g] \in {decided[g], decided[g] + 1}
      /\ Player1 \in Player /\ Player2 \in Player
  <2>1. TypeInv'
    BY CoreNext
  <2>2. faults \in Nat /\ faults' \in Nat
    BY <2>1, BoundsAssumption DEF TypeInv
  <2> QED
    BY <2>2, Grow DEF Player
<1>2. AllPlayed(g) => /\ AllPlayed(g)'
                      /\ played'[g][Player1] = played[g][Player1]
                      /\ played'[g][Player2] = played[g][Player2]
  BY <1>1, Grow DEF AllPlayed
<1>3. faults > 0 /\ decided[g] > 1 => faults' > 0 /\ decided'[g] > 1
  BY <1>1
<1>4. Leftovers(g) => Leftovers(g)'
  BY CleanStays DEF Clean
<1>5. CASE Shown(g, p)
  <2>1. verdict'[g][p] = verdict[g][p]
    BY <1>5, Grow, PlayersAssumption DEF Shown
  <2> QED
    BY <1>2, <1>3, <1>4, <1>5, <2>1 DEF WrongResultNeedsLeftovers, Shown
<1>6. CASE ~ Shown(g, p) /\ Clean(g)
  <2>1. verdict'[g][p] # verdict[g][p]
    BY <1>6 DEF Shown
  <2>2. PICK q \in Player : ClientStep(q)
    BY <2>1, ServerKeeps, CrashFacts, OpenRoomFacts DEF Next, vars, clientVars
  <2>3. /\ p = q /\ HearResult(q) /\ g = game[q] /\ verdict'[g][p] = Head(wire[q]).winner
        /\ verdict[g][q] = "unknown"
    BY <1>6, <2>1, <2>2, VerdictsByClients, PlayersAssumption DEF Shown
  <2>4. g = Len(rooms) /\ g \in Opened
    BY <2>3, InLastGame DEF HearResult
  <2>5. 1 \in 1 .. Len(wire[p]) /\ IsResult(p, 1, g) /\ Head(wire[p]) = wire[p][1] /\ Over(g)
    BY <1>6, <2>3, <2>4, HeadIsResult
  <2>6. UNCHANGED <<decided, faults>>
    BY <2>3 DEF HearResult, End, historyVars
  <2>7. AllPlayed(g)
    BY <2>5 DEF Over, Done, AllPlayed
  <2>8. CASE faults = 0 \/ decided[g] <= 1
    <3>1. FirstIsRight(g)
      BY <1>6, <2>4 DEF LastGameInv
    <3>2. wire[p][1].winner = RightOne(g)
      BY <2>3, <2>5, <2>8, <3>1 DEF FirstIsRight
    <3> QED
      BY <1>2, <2>3, <2>5, <2>7, <3>2 DEF RightOne
  <2>9. CASE ~ (faults = 0 \/ decided[g] <= 1)
    BY <1>1, <2>6, <2>9
  <2> QED
    BY <2>8, <2>9
<1> QED
  BY <1>4, <1>5, <1>6 DEF Clean

(* A player is shown another result than the rules give only if an earlier *)
(* game was given up or announced twice, or if a call failed and there was *)
(* a second result: as long as neither is the case, every message is of    *)
(* the last game, and its first result is read from a map that holds both  *)
(* cards (PlayGlobalGame and PlayLocalGame, which compare no room id, and  *)
(* processHostCard).                                                       *)
THEOREM WrongResultsHaveACause == Spec => []WrongResultNeedsLeftovers
<1>1. Init => WrongResultNeedsLeftovers
  BY PlayersAssumption DEF Init, WrongResultNeedsLeftovers
<1>2. CoreInv /\ SettledInv /\ LastGameInv /\ WrongResultNeedsLeftovers /\ [Next]_vars
        => WrongResultNeedsLeftovers'
  BY ResultKept
<1> QED
  BY <1>1, <1>2, LastGameInvariance, PTL DEF Spec

LEMMA TurnKept ==
  ASSUME CoreInv, LastGameInv, OutOfTurnNeedsLeftovers, [Next]_vars
  PROVE  OutOfTurnNeedsLeftovers'
<1> USE DEF CoreInv
<1> SUFFICES ASSUME NEW g \in Opened', NEW p, p = rooms'[g].first,
                    played'[g][p] = NoCard, played'[g][Opponent(p)] # NoCard, Clean(g)'
             PROVE  FALSE
  BY DEF OutOfTurnNeedsLeftovers, Opened, Clean
<1>1. TypeInv' /\ g \in Game /\ p \in Player /\ Opponent(p) \in Player
  <2>1. TypeInv'
    BY CoreNext
  <2>2. g \in Game
    BY <2>1, BoundsAssumption DEF TypeInv, Opened, Game
  <2>3. p \in Player
    <3>1. rooms'[g] \in RoomRec
      BY <2>1, InSeq DEF TypeInv, Opened
    <3> QED
      BY <3>1 DEF RoomRec
  <2> QED
    BY <2>1, <2>2, <2>3, OpponentType
<1>2. Clean(g)
  BY <1>1, CleanStays
<1>3. ASSUME g \in Opened, p = rooms[g].first
      PROVE  played[g][p] # NoCard \/ played[g][Opponent(p)] = NoCard
  BY <1>2, <1>3 DEF OutOfTurnNeedsLeftovers, Opened, Clean
<1>4. CASE OpenRoom
  <2>1. UNCHANGED played /\ \A q \in Player : game[q] = Len(rooms)
    BY <1>4, OpenRoomFacts DEF clientVars
  <2>2. g \in Opened
    <3>1. ~ (g > game[Opponent(p)])
      BY <1>1, <2>1 DEF ClientInv, GamesInOrder, Untouched
    <3> QED
      BY <1>1, <2>1, <3>1 DEF Opened, Game, TypeInv
  <2>3. p = rooms[g].first
    BY <1>4, <2>2, OpenRoomFacts
  <2> QED
    BY <1>3, <2>1, <2>2, <2>3
<1>5. ASSUME NEW q \in Player, PlayCard(q)
      PROVE  FALSE
  <2>1. /\ phase[q] = "choosing" /\ UNCHANGED rooms
        /\ game[q] = Len(rooms) /\ game[q] \in Opened
    BY <1>5, InLastGame DEF PlayCard
  <2>2. /\ \A k \in Game, r \in Player : ~ (k = game[q] /\ r = q) => played'[k][r] = played[k][r]
        /\ game[q] \in Game => played'[game[q]][q] # NoCard
    <3>1. PICK c \in Elements : \A k \in Game, r \in Player :
             played'[k][r] = IF k = game[q] /\ r = q THEN c ELSE played[k][r]
      BY <1>5, PlayCardFacts
    <3> QED
      BY <3>1 DEF Elements, NoCard
  <2>3. g = game[q] /\ q = Opponent(p)
    <3>1. CASE g # game[q]
      BY <1>1, <1>3, <2>1, <2>2, <3>1 DEF Opened
    <3>2. CASE g = game[q] /\ q = p
      BY <1>1, <2>2, <3>2
    <3> QED
      BY <1>1, <3>1, <3>2 DEF Opponent, Player
  <2>4. InTurn(g)
    BY <1>2, <2>1, <2>3 DEF LastGameInv
  <2>5. p = Opponent(q) /\ p # q
    BY <1>1, <2>3, PlayersAssumption DEF Opponent, Player
  <2>6. played[g][p] # NoCard
    BY <1>1, <2>1, <2>3, <2>4, <2>5 DEF InTurn
  <2> QED
    BY <1>1, <2>2, <2>5, <2>6
<1>6. CASE ~ OpenRoom /\ ~ \E q \in Player : PlayCard(q)
  <2>1. UNCHANGED <<rooms, played>>
    BY <1>6, ServerKeeps, ClientKeeps, CrashFacts DEF Next, vars, clientVars
  <2> QED
    BY <1>1, <1>3, <2>1 DEF Opened
<1> QED
  BY <1>4, <1>5, <1>6

(* Who does not have the turn plays first only on what an earlier game     *)
(* left behind: while nothing is left, the only cards it hears of are of   *)
(* its game, and those are relayed after they were played (PlayLocalGame,  *)
(* PlayGlobalGame, processClientCard).                                     *)
THEOREM TurnsAreKept == Spec => []OutOfTurnNeedsLeftovers
<1>1. Init => OutOfTurnNeedsLeftovers
  BY DEF Init, OutOfTurnNeedsLeftovers
<1>2. CoreInv /\ SettledInv /\ LastGameInv /\ OutOfTurnNeedsLeftovers /\ [Next]_vars
        => OutOfTurnNeedsLeftovers'
  BY TurnKept
<1> QED
  BY <1>1, <1>2, LastGameInvariance, PTL DEF Spec

(***************************************************************************)
(* The first game of two players implements the round that Round promises. *)
(***************************************************************************)
LEMMA WinnerByTheRules ==
  ASSUME \A p \in Player : played[1][p] \in Elements
  PROVE  FirstGame!Winner = RightOne(1)
<1>1. PICK c1, c2 : c1 = played[1][Player1] /\ c2 = played[1][Player2]
  OBVIOUS
<1>2. c1 \in Elements /\ c2 \in Elements
  BY <1>1 DEF Player
<1>3. /\ CheckWinner(c1, c2) = "GANHOU" <=> FirstGame!Beats(c1, c2)
      /\ CheckWinner(c1, c2) = "PERDEU" <=> FirstGame!Beats(c2, c1)
  BY <1>2, RulesAreKept DEF Beats, StrongAgainst, FirstGame!Beats, FirstGame!StrongAgainst
<1> QED
  BY <1>1, <1>3 DEF FirstGame!Winner, RightOne, ResultFor

LEMMA RoundInit == Init => FirstGame!Init
<1>1. 1 \in Game
  BY BoundsAssumption DEF Game
<1>2. Init => /\ played[1] = [p \in Player |-> NoCard]
              /\ verdict[1] = [p \in Player |-> "unknown"]
  BY <1>1 DEF Init
<1> QED
  BY <1>2 DEF FirstGame!Init, FirstGame!Player, Player, FirstGame!NoCard, NoCard

LEMMA RoundNext ==
  ASSUME CoreInv, SettledInv, LastGameInv, [Next]_vars, faults' = 0
  PROVE  FirstGame!Next \/ UNCHANGED FirstGame!vars
<1> USE DEF CoreInv
<1>1. /\ 1 \in Game /\ Clean(1) /\ FirstGame!Player = Player /\ FirstGame!NoCard = NoCard
      /\ FirstGame!Elements = Elements
  BY BoundsAssumption DEF Game, Clean, Leftovers, FirstGame!Player, Player, FirstGame!NoCard, NoCard,
                          FirstGame!Elements, Elements
<1>2. ASSUME NEW q \in Player, NEW how, End(q, how), phase[q] # "waiting", game[q] = 1
      PROVE  /\ verdict[1][q] = "unknown" /\ UNCHANGED played
             /\ verdict'[1] = [verdict[1] EXCEPT ![q] = how]
  <2>1. verdict[1][q] = "unknown"
    BY <1>2, InLastGame
  <2>2. verdict' = [verdict EXCEPT ![1] = [verdict[1] EXCEPT ![q] = how]]
    BY <1>2 DEF End
  <2> QED
    BY <1>1, <1>2, <2>1, <2>2 DEF End, TypeInv
<1>3. ASSUME NEW q \in Player, NEW how, End(q, how), phase[q] # "waiting", game[q] # 1
      PROVE  played'[1] = played[1] /\ verdict'[1] = verdict[1]
  BY <1>1, <1>3 DEF End, TypeInv
<1>4. ASSUME NEW q \in Player, PlayCard(q)
      PROVE  FirstGame!Next \/ UNCHANGED FirstGame!vars
  <2>1. /\ phase[q] = "choosing" /\ game[q] \in Game /\ UNCHANGED verdict
        /\ played[game[q]][q] = NoCard /\ verdict[game[q]][q] = "unknown"
    BY <1>4, PlayCardFacts, InLastGame
  <2>2. PICK c \in Elements : played' = [played EXCEPT ![game[q]] = [played[game[q]] EXCEPT ![q] = c]]
    BY <1>4, <2>1, DeckAssumption DEF PlayCard, Game
  <2>3. CASE game[q] = 1
    <3>1. played'[1] = [played[1] EXCEPT ![q] = c]
      BY <1>1, <2>2, <2>3 DEF TypeInv
    <3>2. FirstGame!Play(q, c)
      BY <1>1, <2>1, <2>3, <3>1 DEF FirstGame!Play
    <3> QED
      BY <1>1, <2>2, <3>2 DEF FirstGame!Next
  <2>4. CASE game[q] # 1
    BY <1>1, <2>1, <2>2, <2>4 DEF TypeInv, FirstGame!vars
  <2> QED
    BY <2>3, <2>4
<1>5. ASSUME NEW q \in Player, CancelGame(q)
      PROVE  FirstGame!Next \/ UNCHANGED FirstGame!vars
  <2>1. End(q, "cancelled") /\ phase[q] # "waiting"
    BY <1>5 DEF CancelGame
  <2>2. CASE game[q] = 1
    <3>1. FirstGame!Cancel(q)
      BY <1>2, <2>1, <2>2 DEF FirstGame!Cancel
    <3> QED
      BY <1>1, <3>1 DEF FirstGame!Next
  <2>3. CASE game[q] # 1
    BY <1>3, <2>1, <2>3 DEF FirstGame!vars
  <2> QED
    BY <2>2, <2>3
<1>6. ASSUME NEW q \in Player, HearResult(q)
      PROVE  FirstGame!Next \/ UNCHANGED FirstGame!vars
  <2>1. End(q, Head(wire[q]).winner) /\ phase[q] # "waiting"
    BY <1>6 DEF HearResult
  <2>2. CASE game[q] = 1
    <3>1. Len(rooms) = 1
      BY <2>1, <2>2, InLastGame
    <3>2. 1 \in Opened /\ 1 \in 1 .. Len(wire[q]) /\ IsResult(q, 1, 1) /\ Head(wire[q]) = wire[q][1] /\ Over(1)
      BY <1>1, <1>6, <3>1, HeadIsResult
    <3>3. FirstIsRight(1)
      BY <1>1, <3>1, <3>2 DEF LastGameInv
    <3>4. verdict[1][q] = "unknown" /\ faults = 0
      BY <1>2, <2>1, <2>2, Grow
    <3>5. wire[q][1].winner = RightOne(1)
      BY <3>2, <3>3, <3>4 DEF FirstIsRight
    <3>6. \A p \in Player : played[1][p] # NoCard /\ played[1][p] \in Elements
      BY <1>1, <3>2 DEF Over, Done, TypeInv, Slot
    <3>7. FirstGame!Learn(q)
      BY <1>1, <1>2, <2>1, <2>2, <3>2, <3>5, <3>6, WinnerByTheRules DEF FirstGame!Learn
    <3> QED
      BY <1>1, <3>7 DEF FirstGame!Next
  <2>3. CASE game[q] # 1
    BY <1>3, <2>1, <2>3 DEF FirstGame!vars
  <2> QED
    BY <2>2, <2>3
<1>7. CASE ~ \E q \in Player : PlayCard(q) \/ CancelGame(q) \/ HearResult(q)
  <2>1. UNCHANGED <<played, verdict>>
    <3>1. CASE \E q \in Player : ClientStep(q)
      BY <1>7, <3>1 DEF ClientStep, HearMatch, Miss, EnterGame, HearCard, clientVars
    <3>2. CASE ~ \E q \in Player : ClientStep(q)
      BY <3>2, ServerKeeps, OpenRoomFacts, CrashFacts DEF Next, vars, clientVars
    <3> QED
      BY <3>1, <3>2
  <2> QED
    BY <2>1 DEF FirstGame!vars
<1> QED
  BY <1>4, <1>5, <1>6, <1>7

(* As long as no call fails, the first game of two players is a round as   *)
(* the rules on their screens have it, whatever the threads at the host's  *)
(* room do (processClientCard, processHostCard, PlayGlobalGame).           *)
THEOREM FirstGamesAreRounds == Spec => FirstGameIsRound
<1>1. Init => FirstGame!Init
  BY RoundInit
<1>2. CoreInv /\ SettledInv /\ LastGameInv /\ [Next]_vars => [faults' = 0 => FirstGame!Next]_(FirstGame!vars)
  BY RoundNext
<1> QED
  BY <1>1, <1>2, LastGameInvariance, PTL DEF Spec, FirstGameIsRound

=============================================================================
