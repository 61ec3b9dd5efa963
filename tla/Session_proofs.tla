--------------------------- MODULE Session_proofs ---------------------------
(***************************************************************************)
(* Players in the game are logged in, under names of their own, and play   *)
(* with cards of their account, for any number of clients, names, cards,   *)
(* requests and restarts.                                                  *)
(***************************************************************************)
EXTENDS Session, TLAPS, SequenceTheorems

(* Only HEARTBEATs are anonymous, so only their one entry is ever active,  *)
(* and the monitor removes no player.                                      *)
OnlyNoIDIsActive ==
  /\ \A c \in Client : active[c] = "absent"
  /\ todo \subseteq {NoID}

WellFormed ==
  \A i \in DOMAIN requests :
    /\ requests[i].action = "HEARTBEAT" <=> requests[i].from = NoID
    /\ requests[i].action = "LOGIN" => requests[i].name \in Name

GameAction == {"OPEN_PACK", "SEE_CARDS", "CHANGE_DECK"}

(* PINGs change nothing of an account.                                     *)
Mine(m, c) == m.from = c /\ m.action # "PING"

(* The accounts of the others were lost in a restart, or are about to go   *)
(* with a LOGOUT that a signal sent, whose number is 0, while the rest of  *)
(* the client goes on.                                                     *)
Known(c) == c \notin forgotten /\ c \notin interrupted

(* What a request of c says of its sender.  The last one is what c waits   *)
(* for; while an action of the game is pending c is logged in, and while c *)
(* is in the game no LOGIN or LOGOUT of it is pending.                     *)
Wanted(m, c) ==
  /\ m.n <= asked[c]
  /\ m.n = 0 => c \in interrupted
  /\ m.n = asked[c] /\ client[c] = "login" => m.action = "LOGIN" /\ m.name = name[c]
  /\ Known(c) /\ m.action \in GameAction => users[c] \in Name
  /\ Known(c) /\ m.action = "CHANGE_DECK" => m.cards \subseteq cards[c]
  /\ m.action \in {"LOGIN", "LOGOUT"} /\ m.n # 0 => ~ InGame(c)

(* A later request of a client follows an earlier one.                     *)
Follows(m1, m2) ==
  /\ m2.n = 0 \/ m1.n < m2.n
  /\ m2.action \in GameAction /\ m1.n # 0 => m1.action \notin {"LOGIN", "LOGOUT"}

RequestsInv(c) ==
  /\ \A i \in DOMAIN requests : Mine(requests[i], c) => Wanted(requests[i], c)
  /\ \A i, j \in DOMAIN requests :
       i < j /\ Mine(requests[i], c) /\ Mine(requests[j], c) => Follows(requests[i], requests[j])

(* An answer that is on its way is that of the last request, and nothing   *)
(* else that its client asked is pending.                                  *)
RepliesInv(c) ==
  \A r \in replies : r.to = c =>
    /\ Waiting(c)
    /\ \A i \in DOMAIN requests : Mine(requests[i], c) => requests[i].n = 0
    /\ \A s \in replies : s.to = c => s = r
    /\ Known(c) => r.cards \subseteq cards[c]
    /\ Known(c) /\ r.ok /\ client[c] = "login" => users[c] = name[c]

(* What c plays with, while the server knows it.                           *)
Plays(c) ==
  /\ users[c] = name[c]
  /\ userDeck[c] \subseteq cards[c] /\ choice[c] \subseteq cards[c]

AccountInv(c) ==
  /\ Waiting(c) => asked[c] # 0
  /\ Known(c) /\ InGame(c) => Plays(c)
  /\ InGame(c) \/ client[c] = "login" => name[c] \in Name
  /\ Known(c) => deck[c] \subseteq cards[c] /\ users[c] \in Name \union {Absent}

IInv ==
  /\ TypeOK /\ OnlyNoIDIsActive /\ WellFormed
  /\ \A c \in Client : RequestsInv(c) /\ RepliesInv(c) /\ AccountInv(c)
  /\ NamesAreUnique

(* What a request of c that still waits says of its deck.                  *)
Saves(m, c) ==
  /\ m.n = asked[c] /\ client[c] = "see" => m.action = "SEE_CARDS"
  /\ m.n = asked[c] /\ client[c] = "deck" => m.action = "CHANGE_DECK" /\ m.cards = choice[c]
  /\ Known(c) /\ InGame(c) /\ m.action = "CHANGE_DECK" =>
       /\ "deck" \in missed[c] \/ (client[c] = "deck" /\ m.n = asked[c])
       /\ m.cards = {} => "see" \in missed[c]

(* And what an answer that is on its way to c says of it.                  *)
Tells(r, c) ==
  /\ client[c] \in {"see", "deck"} => r.ok
  /\ Known(c) =>
       /\ client[c] = "login" /\ r.ok => deck[c] = r.cards /\ r.cards # {}
       /\ client[c] = "see" => r.cards # {}
       /\ client[c] = "deck" => deck[c] = choice[c]

(* The two copies, and the cards that c chooses from, or has chosen.       *)
Keeps(c) ==
  Known(c) =>
    /\ users[c] \in Name => cards[c] # {}
    /\ client[c] \in {"in", "draw", "see", "choose"} /\ userDeck[c] # deck[c] => "deck" \in missed[c]
    /\ InGame(c) /\ {} \in {userDeck[c], deck[c]} => "see" \in missed[c]
    /\ client[c] \in {"choose", "deck"} /\ choice[c] = {} => "see" \in missed[c]

DeckInv(c) ==
  /\ \A i \in DOMAIN requests : Mine(requests[i], c) => Saves(requests[i], c)
  /\ \A r \in replies : r.to = c => Tells(r, c)
  /\ Keeps(c)

(***************************************************************************)
(* Types.                                                                  *)
(***************************************************************************)
LEMMA AppendFacts ==
  ASSUME requests \in Seq(Request), NEW m \in Request, requests' = Append(requests, m)
  PROVE  /\ requests' \in Seq(Request)
         /\ Len(requests) \in Nat /\ DOMAIN requests = 1 .. Len(requests)
         /\ DOMAIN requests' = 1 .. Len(requests) + 1
         /\ \A i \in DOMAIN requests : requests'[i] = requests[i]
         /\ requests'[Len(requests) + 1] = m
<1>1. Len(requests) \in Nat /\ DOMAIN requests = 1 .. Len(requests)
  BY LenProperties
<1>2. /\ requests' \in Seq(Request) /\ Len(requests') = Len(requests) + 1
      /\ \A i \in 1 .. Len(requests) : requests'[i] = requests[i]
      /\ requests'[Len(requests) + 1] = m
  BY AppendProperties
<1>3. DOMAIN requests' = 1 .. Len(requests')
  BY <1>2, LenProperties
<1> QED
  BY <1>1, <1>2, <1>3

LEMMA TailFacts ==
  ASSUME requests \in Seq(Request), requests # <<>>, requests' = Tail(requests)
  PROVE  /\ requests' \in Seq(Request) /\ Head(requests) \in Request
         /\ 1 \in DOMAIN requests /\ Head(requests) = requests[1]
         /\ \A i \in DOMAIN requests' : i \in Nat /\ i + 1 \in DOMAIN requests /\ i + 1 > 1
                                        /\ requests'[i] = requests[i + 1]
<1>1. Len(requests) \in Nat \ {0} /\ DOMAIN requests = 1 .. Len(requests)
  BY LenProperties, EmptySeq
<1>2. /\ requests' \in Seq(Request) /\ Head(requests) \in Request
      /\ Len(requests') = Len(requests) - 1
      /\ \A i \in 1 .. Len(requests') : requests'[i] = requests[i + 1]
  BY HeadTailProperties
<1>3. DOMAIN requests' = 1 .. Len(requests')
  BY <1>2, LenProperties
<1> QED
  BY <1>1, <1>2, <1>3

(* The request in hand, unless it is a HEARTBEAT, is one of a client.      *)
LEMMA InHandFacts ==
  ASSUME TypeOK, WellFormed, NEW action, InHand(action)
  PROVE  /\ requests # <<>> /\ requests \in Seq(Request)
         /\ Head(requests) \in Request /\ 1 \in DOMAIN requests /\ Head(requests) = requests[1]
         /\ Head(requests).action = action
         /\ action # "HEARTBEAT" => Head(requests).from \in Client
         /\ action = "LOGIN" => Head(requests).name \in Name
<1>1. requests # <<>> /\ requests \in Seq(Request) /\ Head(requests).action = action
  BY DEF InHand, TypeOK
<1>2. Len(requests) \in Nat \ {0} /\ DOMAIN requests = 1 .. Len(requests)
  BY <1>1, LenProperties, EmptySeq
<1>3. Head(requests) \in Request /\ 1 \in DOMAIN requests /\ Head(requests) = requests[1]
  BY <1>1, <1>2, HeadTailProperties
<1> QED
  BY <1>1, <1>3 DEF WellFormed, Request, ID

LEMMA AnswerType ==
  ASSUME TypeOK, NEW ok \in BOOLEAN, NEW data \in SUBSET Card, Answer(ok, data),
         Head(requests).from \in Client
  PROVE  replies' \subseteq Reply
BY DEF TypeOK, Answer, Reply

LEMMA DeleteType ==
  ASSUME TypeOK, NEW id \in ID, DeleteUser(id)
  PROVE  /\ users' \in [Client -> Name \union {NoName, Absent}]
         /\ cards' \in [Client -> SUBSET Card] /\ deck' \in [Client -> SUBSET Card]
BY DEF TypeOK, DeleteUser

(* A message that is sent, or one that is finished, leaves the queue typed.*)
LEMMA SendType ==
  ASSUME TypeOK, NEW action, NEW id, NEW typed, NEW chosen, NEW n, Send(action, id, typed, chosen, n),
         [action |-> action, from |-> id, name |-> typed, cards |-> chosen, n |-> n] \in Request,
         step' = step
  PROVE  requests' \in Seq(Request) /\ (step' # "start" => InHand("LOGOUT")')
<1>1. requests' \in Seq(Request)
  BY AppendFacts DEF TypeOK, Send
<1>2. requests # <<>> => requests' # <<>> /\ Head(requests') = Head(requests)
  BY HeadTailAppend, AppendProperties DEF TypeOK, Send
<1> QED
  BY <1>1, <1>2 DEF TypeOK, InHand

LEMMA ProceedType ==
  ASSUME TypeOK, NEW c \in Client, NEW ok \in BOOLEAN, NEW got \in SUBSET Card, Waiting(c),
         Proceed(c, ok, got), replies' \subseteq Reply, beating' \in [Client -> BOOLEAN],
         missed' \in [Client -> SUBSET {"see", "deck"}]
  PROVE  TypeOK'
<1>1. After(client[c], ok) \in {"in", "menu", "choose"}
  BY DEF After, Waiting
<1>2. DeckAfter(c, ok, got) \in SUBSET Card
  BY DEF DeckAfter, TypeOK
<1>3. client' \in [Client -> {"menu", "login", "in", "draw", "see", "choose", "deck", "logout",
                              "gone"}]
  BY <1>1 DEF TypeOK, Proceed, GoTo
<1>4. /\ userDeck' \in [Client -> SUBSET Card] /\ choice' \in [Client -> SUBSET Card]
  BY <1>2 DEF TypeOK, Proceed
<1> QED
  BY <1>3, <1>4 DEF TypeOK, Proceed, serverVars, accounts, monitorVars, restartVars, InHand

LEMMA MessageType ==
  ASSUME TypeOK, NEW c \in Client
  PROVE  /\ asked[c] \in Nat /\ asked[c] + 1 \in Nat
         /\ \A action \in {"LOGIN", "LOGOUT", "HEARTBEAT", "PING"} \union GameAction :
              \A id \in ID, typed \in Name \union {NoName}, chosen \in SUBSET Card, n \in Nat :
                [action |-> action, from |-> id, name |-> typed, cards |-> chosen, n |-> n]
                  \in Request
BY DEF TypeOK, Request, GameAction

LEMMA AskType ==
  ASSUME TypeOK, NEW c \in Client, NEW action \in {"LOGIN", "LOGOUT"} \union GameAction,
         NEW typed \in Name \union {NoName}, NEW chosen \in SUBSET Card,
         Ask(c, action, typed, chosen)
  PROVE  /\ requests' \in Seq(Request) /\ (step' # "start" => InHand("LOGOUT")')
         /\ asked' \in [Client -> Nat] /\ \A d \in Client : asked'[d] <= MaxRequests[d]
         /\ UNCHANGED <<serverVars, replies, interrupted>>
<1>1. [action |-> action, from |-> c, name |-> typed, cards |-> chosen, n |-> asked[c] + 1]
        \in Request
  BY MessageType DEF ID
<1>2. step' = step /\ UNCHANGED <<serverVars, replies, interrupted>>
  BY DEF Ask, serverVars
<1>3. requests' \in Seq(Request) /\ (step' # "start" => InHand("LOGOUT")')
  BY <1>1, <1>2, SendType DEF Ask
<1>4. asked' \in [Client -> Nat] /\ \A d \in Client : asked'[d] <= MaxRequests[d]
  <2>1. asked \in [Client -> Nat] /\ \A d \in Client : asked[d] <= MaxRequests[d]
    BY DEF TypeOK
  <2>2. asked[c] < MaxRequests[c] /\ asked' = [asked EXCEPT ![c] = asked[c] + 1]
    BY DEF Ask
  <2>3. \A d \in Client : MaxRequests[d] \in Nat
    BY MaxRequestsAssumption
  <2> QED
    BY <2>1, <2>2, <2>3
<1> QED
  BY <1>2, <1>3, <1>4

LEMMA AskingType ==
  ASSUME TypeOK, NEW c \in Client, NEW action \in {"LOGIN", "LOGOUT"} \union GameAction,
         NEW typed \in Name \union {NoName}, NEW chosen \in SUBSET Card,
         Ask(c, action, typed, chosen),
         NEW place \in {"login", "logout", "draw", "see", "deck"}, GoTo(c, place),
         name' \in [Client -> Name \union {NoName}], choice' \in [Client -> SUBSET Card],
         UNCHANGED <<beating, userDeck, missed>>
  PROVE  TypeOK'
<1>1. client' \in [Client -> {"menu", "login", "in", "draw", "see", "choose", "deck", "logout",
                              "gone"}]
  BY DEF TypeOK, GoTo
<1>2. /\ requests' \in Seq(Request) /\ (step' # "start" => InHand("LOGOUT")')
      /\ asked' \in [Client -> Nat] /\ \A d \in Client : asked'[d] <= MaxRequests[d]
      /\ UNCHANGED <<serverVars, replies, interrupted>>
  BY AskType
<1> QED
  BY <1>1, <1>2 DEF TypeOK, serverVars, accounts, monitorVars, restartVars

LEMMA TypeNextClient ==
  ASSUME TypeOK, NEW c \in Client, ClientStep(c)
  PROVE  TypeOK'
<1> DEFINE Places == {"menu", "login", "in", "draw", "see", "choose", "deck", "logout", "gone"}
<1>0. ASSUME NEW place \in Places, GoTo(c, place) PROVE client' \in [Client -> Places]
  BY <1>0 DEF GoTo, TypeOK
<1>t. name \in [Client -> Name \union {NoName}] /\ choice \in [Client -> SUBSET Card]
  BY DEF TypeOK
<1>1. CASE SendLogin(c)
  <2>1. PICK typed \in Name : name' = [name EXCEPT ![c] = typed] /\ Ask(c, "LOGIN", typed, {})
    BY <1>1 DEF SendLogin
  <2> QED
    BY <1>1, <1>t, <2>1, AskingType DEF SendLogin, deckVars
<1>2. CASE SendLogout(c) \/ DrawCard(c) \/ SeeCards(c)
  <2>1. /\ \E action \in {"LOGOUT", "OPEN_PACK", "SEE_CARDS"} : Ask(c, action, NoName, {})
        /\ \E place \in {"logout", "draw", "see"} : GoTo(c, place)
        /\ UNCHANGED <<name, choice, beating, userDeck, missed>>
    BY <1>2 DEF SendLogout, DrawCard, SeeCards, deckVars
  <2> QED
    BY <1>t, <2>1, AskingType DEF GameAction
<1>3. CASE ChangeDeck(c)
  <2>1. PICK chosen \in ChooseDeck(choice[c]) :
          choice' = [choice EXCEPT ![c] = chosen] /\ Ask(c, "CHANGE_DECK", NoName, chosen)
    BY <1>3 DEF ChangeDeck
  <2>2. chosen \in SUBSET Card
    BY <1>t DEF ChooseDeck
  <2> QED
    BY <1>3, <1>t, <2>1, <2>2, AskingType DEF ChangeDeck, GameAction
<1>4. CASE GiveUp(c)
  <2>1. Waiting(c) /\ Proceed(c, FALSE, {})
    BY <1>4 DEF GiveUp
  <2>2. /\ replies' \subseteq Reply /\ beating' \in [Client -> BOOLEAN]
        /\ missed' \in [Client -> SUBSET {"see", "deck"}]
    BY <1>4 DEF GiveUp, TypeOK
  <2> QED
    BY <2>1, <2>2, ProceedType
<1>5. CASE Beat(c)
  <2>1. step' = step /\ UNCHANGED <<serverVars, replies, clientVars>>
    BY <1>5 DEF Beat, serverVars
  <2>2. requests' \in Seq(Request) /\ (step' # "start" => InHand("LOGOUT")')
    BY <1>5, <2>1, MessageType, SendType DEF Beat, ID
  <2> QED
    BY <2>1, <2>2 DEF TypeOK, serverVars, accounts, monitorVars, restartVars, clientVars, deckVars
<1>6. CASE Crash(c)
  <2>1. /\ client' \in [Client -> Places] /\ beating' \in [Client -> BOOLEAN]
        /\ replies' \subseteq Reply
        /\ userDeck' \in [Client -> SUBSET Card] /\ choice' \in [Client -> SUBSET Card]
        /\ missed' \in [Client -> SUBSET {"see", "deck"}]
        /\ UNCHANGED <<serverVars, requests, name, asked, interrupted>>
    BY <1>0, <1>6 DEF Crash, TypeOK
  <2> QED
    BY <2>1 DEF TypeOK, serverVars, accounts, monitorVars, restartVars, InHand
<1>7. CASE Interrupt(c)
  <2>1. requests' \in Seq(Request) /\ (step' # "start" => InHand("LOGOUT")')
    BY <1>7, MessageType, SendType DEF Interrupt, serverVars, ID
  <2> QED
    BY <1>7, <2>1 DEF Interrupt, TypeOK, serverVars, accounts, monitorVars, restartVars, deckVars
<1> QED
  BY <1>1, <1>2, <1>3, <1>4, <1>5, <1>6, <1>7 DEF ClientStep

LEMMA FinishType ==
  ASSUME TypeOK, requests # <<>>, Finish
  PROVE  requests' \in Seq(Request) /\ step' = "start"
BY TailFacts DEF TypeOK, Finish

LEMMA TypeNextServer ==
  ASSUME TypeOK, WellFormed, HandlerStep \/ MonitorStep \/ Restart \/ \E id \in ID : FallSilent(id)
  PROVE  TypeOK'
<1> USE DEF clientVars, deckVars, monitorVars, restartVars, accounts
<1>1. CASE HandleLogin
  <2>1. /\ Head(requests).from \in Client /\ Head(requests).name \in Name
        /\ requests # <<>>
    BY <1>1, InHandFacts DEF HandleLogin
  <2>2. replies' \subseteq Reply
    BY <1>1, <2>1, AnswerType, CardAssumption DEF HandleLogin
  <2>3. /\ users' \in [Client -> Name \union {NoName, Absent}]
        /\ cards' \in [Client -> SUBSET Card] /\ deck' \in [Client -> SUBSET Card]
    <3>1. /\ users \in [Client -> Name \union {NoName, Absent}]
          /\ cards \in [Client -> SUBSET Card] /\ deck \in [Client -> SUBSET Card]
      BY DEF TypeOK
    <3>2. \/ UNCHANGED <<users, cards, deck>>
          \/ LET r == Head(requests)
             IN /\ users' = [users EXCEPT ![r.from] = r.name]
                /\ cards' = [cards EXCEPT ![r.from] = {Basic}]
                /\ deck' = [deck EXCEPT ![r.from] = {Basic}]
      BY <1>1 DEF HandleLogin
    <3> QED
      BY <2>1, <3>1, <3>2, CardAssumption
  <2>4. Finish /\ UNCHANGED <<monitorVars, restarts, clientVars>> /\ forgotten' \subseteq forgotten
    BY <1>1 DEF HandleLogin
  <2> QED
    BY <2>1, <2>2, <2>3, <2>4, FinishType DEF TypeOK
<1>2. CASE HandleDrawCard
  <2>1. Head(requests).from \in Client /\ requests # <<>>
    BY <1>2, InHandFacts DEF HandleDrawCard
  <2>2. replies' \subseteq Reply
    BY <1>2, <2>1, AnswerType DEF HandleDrawCard
  <2>3. cards' \in [Client -> SUBSET Card]
    <3>1. cards \in [Client -> SUBSET Card]
      BY DEF TypeOK
    <3>2. \/ UNCHANGED cards
          \/ \E x \in Card : LET c == Head(requests).from
                            IN cards' = [cards EXCEPT ![c] =
                                           IF users[c] = Absent THEN @ ELSE @ \union {x}]
      BY <1>2 DEF HandleDrawCard
    <3>3. ASSUME NEW c \in Client, NEW x \in Card,
                 cards' = [cards EXCEPT ![c] = IF users[c] = Absent THEN @ ELSE @ \union {x}]
          PROVE  cards' \in [Client -> SUBSET Card]
      <4>1. (IF users[c] = Absent THEN cards[c] ELSE cards[c] \union {x}) \in SUBSET Card
        BY <3>1
      <4> QED
        BY <3>1, <3>3, <4>1
    <3> QED
      BY <2>1, <3>1, <3>2, <3>3
  <2>4. Finish /\ UNCHANGED <<monitorVars, restartVars, clientVars, users, deck>>
    BY <1>2 DEF HandleDrawCard
  <2> QED
    BY <2>1, <2>2, <2>3, <2>4, FinishType DEF TypeOK
<1>3. CASE HandleSeeCards
  <2>1. Head(requests).from \in Client /\ requests # <<>>
    BY <1>3, InHandFacts DEF HandleSeeCards
  <2>2. cards[Head(requests).from] \in SUBSET Card
    BY <2>1 DEF TypeOK
  <2>3. replies' \subseteq Reply
    BY <1>3, <2>1, <2>2, AnswerType DEF HandleSeeCards
  <2> QED
    BY <1>3, <2>1, <2>3, FinishType DEF HandleSeeCards, TypeOK
<1>4. CASE HandleChangeDeck
  <2>1. /\ Head(requests).from \in Client /\ requests # <<>>
        /\ Head(requests).cards \in SUBSET Card
    BY <1>4, InHandFacts DEF HandleChangeDeck, Request
  <2>2. replies' \subseteq Reply
    BY <1>4, <2>1, AnswerType DEF HandleChangeDeck
  <2>3. /\ users' \in [Client -> Name \union {NoName, Absent}]
        /\ deck' \in [Client -> SUBSET Card]
    BY <1>4, <2>1 DEF HandleChangeDeck, TypeOK
  <2> QED
    BY <1>4, <2>1, <2>2, <2>3, FinishType DEF HandleChangeDeck, TypeOK
<1>5. CASE LogoutUser
  <2>1. Head(requests).from \in ID
    BY <1>5, InHandFacts DEF LogoutUser, ID
  <2>2. /\ users' \in [Client -> Name \union {NoName, Absent}]
        /\ cards' \in [Client -> SUBSET Card] /\ deck' \in [Client -> SUBSET Card]
    BY <1>5, <2>1, DeleteType DEF LogoutUser
  <2> QED
    BY <1>5, <2>2 DEF LogoutUser, TypeOK, InHand
<1>6. CASE LogoutActive
  <2>1. Head(requests).from \in Client /\ requests # <<>>
    BY <1>6, InHandFacts DEF LogoutActive
  <2>2. active' \in [ID -> {"absent", "active", "waiting"}]
    BY <1>6 DEF LogoutActive, TypeOK
  <2>3. CASE step = "active"
    BY <1>6, <2>2, <2>3 DEF LogoutActive, TypeOK, InHand
  <2>4. CASE step # "active"
    <3>1. replies' \subseteq Reply
      BY <1>6, <2>1, <2>4, AnswerType DEF LogoutActive
    <3> QED
      BY <1>6, <2>1, <2>2, <2>4, <3>1, FinishType DEF LogoutActive, TypeOK
  <2> QED
    BY <2>3, <2>4
<1>7. CASE HandleHeartbeat
  <2>1. requests # <<>>
    BY <1>7, InHandFacts DEF HandleHeartbeat
  <2>2. active' \in [ID -> {"absent", "active", "waiting"}] /\ silent' \in [ID -> BOOLEAN]
    BY <1>7 DEF HandleHeartbeat, TypeOK
  <2> QED
    BY <1>7, <2>1, <2>2, FinishType DEF HandleHeartbeat, TypeOK
<1>8. CASE HandlePing
  <2>1. requests # <<>>
    BY <1>8, InHandFacts DEF HandlePing
  <2>2. active' \in [ID -> {"absent", "active", "waiting"}] /\ silent' \in [ID -> BOOLEAN]
    BY <1>8 DEF HandlePing, TypeOK
  <2> QED
    BY <1>8, <2>1, <2>2, FinishType DEF HandlePing, TypeOK
<1>9. CASE StartRound
  BY <1>9 DEF StartRound, TypeOK, InHand
<1>10. ASSUME NEW id \in ID, LookAt(id) PROVE TypeOK'
  BY <1>10 DEF LookAt, TypeOK, InHand
<1>11. ASSUME NEW id \in ID, DropUser(id) PROVE TypeOK'
  BY <1>11, DeleteType DEF DropUser, TypeOK, InHand
<1>12. CASE EndRound
  BY <1>12 DEF EndRound, TypeOK, InHand
<1>13. ASSUME NEW id \in ID, FallSilent(id) PROVE TypeOK'
  BY <1>13 DEF FallSilent, TypeOK, InHand
<1>14. CASE Restart
  <2>1. requests' \in Seq(Request) /\ step' = "start" /\ restarts' \in 0 .. MaxRestarts
    BY <1>14, EmptySeq, MaxRestartsAssumption DEF Restart, TypeOK
  <2> QED
    BY <1>14, <2>1 DEF Restart, TypeOK
<1> QED
  BY <1>14, <1>1, <1>2, <1>3, <1>4, <1>5, <1>6, <1>7, <1>8, <1>9, <1>10, <1>11, <1>12, <1>13
     DEF HandlerStep, MonitorStep

LEMMA TypeNext == IInv /\ [Next]_vars => TypeOK'
<1> SUFFICES ASSUME IInv, [Next]_vars PROVE TypeOK'
  OBVIOUS
<1>0. TypeOK /\ WellFormed
  BY DEF IInv
<1>1. ASSUME NEW r \in replies, ReceiveReply(r) PROVE TypeOK'
  <2>1. /\ r.to \in Client /\ r.ok \in BOOLEAN /\ r.cards \in SUBSET Card /\ Waiting(r.to)
    BY <1>0 DEF TypeOK, Reply, IInv, RepliesInv
  <2>2. /\ replies' \subseteq Reply /\ Proceed(r.to, r.ok, r.cards)
        /\ beating' \in [Client -> BOOLEAN] /\ missed' \in [Client -> SUBSET {"see", "deck"}]
    BY <1>0, <1>1, <2>1 DEF ReceiveReply, TypeOK
  <2> QED
    BY <1>0, <2>1, <2>2, ProceedType
<1>2. CASE UNCHANGED vars
  BY <1>0, <1>2 DEF TypeOK, vars, serverVars, accounts, monitorVars, restartVars, clientVars, deckVars, InHand
<1> QED
  BY <1>0, <1>1, <1>2, TypeNextClient, TypeNextServer DEF Next

(***************************************************************************)
(* What a step leaves as it was for a client.                              *)
(***************************************************************************)
Local(c) == RequestsInv(c) /\ RepliesInv(c) /\ AccountInv(c)

SameClient(c) ==
  /\ client'[c] = client[c] /\ name'[c] = name[c] /\ asked'[c] = asked[c]
  /\ userDeck'[c] = userDeck[c] /\ choice'[c] = choice[c]
  /\ c \in interrupted => c \in interrupted'

SameAccount(c) ==
  /\ users'[c] = users[c] /\ cards'[c] = cards[c] /\ deck'[c] = deck[c]
  /\ c \in forgotten' <=> c \in forgotten
  /\ c \in interrupted' <=> c \in interrupted

(* The requests of c that still wait are old ones, k places further on.    *)
Shifted(c, k) ==
  \A i \in DOMAIN requests' : Mine(requests'[i], c) =>
    /\ i \in Nat /\ i + k \in DOMAIN requests
    /\ requests'[i] = requests[i + k]

(* What the actions of the game that still wait say of the account.        *)
GameKept(c) ==
  \A i \in DOMAIN requests' : Mine(requests'[i], c) /\ requests'[i].action \in GameAction =>
    (Known(c)' =>
      /\ users'[c] \in Name
      /\ (requests'[i].action = "CHANGE_DECK" => requests'[i].cards \subseteq cards'[c]))

LEMMA RequestsKept ==
  ASSUME NEW c \in Client, RequestsInv(c), SameClient(c), NEW k \in {0, 1}, Shifted(c, k),
         GameKept(c)
  PROVE  RequestsInv(c)'
<1>1. ASSUME NEW i \in DOMAIN requests', Mine(requests'[i], c)
      PROVE  Wanted(requests[i + k], c)
  BY <1>1 DEF Shifted, RequestsInv
<1>2. ASSUME NEW i \in DOMAIN requests', NEW m, m = requests'[i], Mine(m, c)
      PROVE  Wanted(m, c)'
  <2>1. Wanted(m, c)
    BY <1>1, <1>2 DEF Shifted
  <2>2. Known(c)' => /\ m.action \in GameAction => users'[c] \in Name
                     /\ m.action = "CHANGE_DECK" => m.cards \subseteq cards'[c]
    BY <1>2 DEF GameKept, GameAction
  <2> QED
    BY <2>1, <2>2 DEF Wanted, SameClient, InGame
<1>3. ASSUME NEW i \in DOMAIN requests', NEW j \in DOMAIN requests', i < j,
             Mine(requests'[i], c), Mine(requests'[j], c)
      PROVE  Follows(requests'[i], requests'[j])
  <2>1. /\ i + k \in DOMAIN requests /\ requests'[i] = requests[i + k] /\ i \in Nat
        /\ j + k \in DOMAIN requests /\ requests'[j] = requests[j + k] /\ j \in Nat
    BY <1>3 DEF Shifted
  <2>2. i + k < j + k
    BY <1>3, <2>1
  <2> QED
    BY <1>3, <2>1, <2>2 DEF RequestsInv
<1> QED
  BY <1>2, <1>3 DEF RequestsInv, Mine, Follows, Wanted, InGame, Known

(* A step that does not concern c.                                         *)
LEMMA Frame ==
  ASSUME NEW c \in Client, Local(c), SameClient(c), SameAccount(c),
         NEW k \in {0, 1}, Shifted(c, k), \A r \in replies' : r.to = c => r \in replies
  PROVE  Local(c)'
<1>1. GameKept(c)
  <2> SUFFICES ASSUME NEW i \in DOMAIN requests', Mine(requests'[i], c),
                      requests'[i].action \in GameAction, Known(c)'
               PROVE  /\ users'[c] \in Name
                      /\ requests'[i].action = "CHANGE_DECK"
                           => requests'[i].cards \subseteq cards'[c]
    BY DEF GameKept
  <2>1. Wanted(requests'[i], c)
    BY DEF Shifted, Local, RequestsInv
  <2> QED
    BY <2>1 DEF Wanted, SameAccount, Known
<1>2. RequestsInv(c)'
  BY <1>1, RequestsKept DEF Local
<1>3. RepliesInv(c)'
  <2>1. ASSUME NEW r \in replies', r.to = c, NEW i \in DOMAIN requests', Mine(requests'[i], c)
        PROVE  requests'[i].n = 0
    BY <2>1 DEF Shifted, Local, RepliesInv
  <2>2. ASSUME NEW r \in replies', r.to = c
        PROVE  /\ Waiting(c)' /\ \A s \in replies' : s.to = c => s = r
               /\ Known(c)' => r.cards \subseteq cards'[c]
               /\ Known(c)' /\ r.ok /\ client'[c] = "login" => users'[c] = name'[c]
    BY <2>2 DEF Local, RepliesInv, Waiting, SameClient, SameAccount, Known
  <2> QED
    BY <2>1, <2>2 DEF RepliesInv, Mine
<1>4. AccountInv(c)'
  BY DEF Local, AccountInv, Plays, InGame, Waiting, SameClient, SameAccount, Known
<1> QED
  BY <1>2, <1>3, <1>4 DEF Local

LEMMA FinishShifts ==
  ASSUME TypeOK, requests # <<>>, Finish, NEW c \in Client
  PROVE  Shifted(c, 1)
BY TailFacts DEF TypeOK, Finish, Shifted

LEMMA StayShifts ==
  ASSUME TypeOK, requests' = requests, NEW c \in Client
  PROVE  Shifted(c, 0)
<1>1. DOMAIN requests = 1 .. Len(requests) /\ Len(requests) \in Nat
  BY LenProperties DEF TypeOK
<1> QED
  BY <1>1 DEF Shifted

LEMMA SendShifts ==
  ASSUME TypeOK, NEW m \in Request, requests' = Append(requests, m), NEW c \in Client, ~ Mine(m, c)
  PROVE  Shifted(c, 0)
<1>1. /\ Len(requests) \in Nat /\ DOMAIN requests = 1 .. Len(requests)
      /\ DOMAIN requests' = 1 .. Len(requests) + 1
      /\ \A i \in DOMAIN requests : requests'[i] = requests[i]
      /\ requests'[Len(requests) + 1] = m
  BY AppendFacts DEF TypeOK
<1>2. ASSUME NEW i \in DOMAIN requests', Mine(requests'[i], c)
      PROVE  i \in Nat /\ i + 0 \in DOMAIN requests /\ requests'[i] = requests[i + 0]
  <2>1. i \in 1 .. Len(requests)
    BY <1>1, <1>2
  <2> QED
    BY <1>1, <2>1
<1> QED
  BY <1>2 DEF Shifted

(***************************************************************************)
(* Steps of a client itself.                                               *)
(***************************************************************************)
LEMMA NobodyWaits ==
  ASSUME TypeOK, NEW c \in Client, RepliesInv(c), ~ Waiting(c), replies' = replies
  PROVE  \A r \in replies' : r.to # c
BY DEF RepliesInv

(* A new message of c that says what c is about, after the old ones.       *)
LEMMA NewRequest ==
  ASSUME TypeOK, NEW c \in Client, NEW m \in Request, requests' = Append(requests, m),
         RequestsInv(c), WellFormed,
         \A i \in DOMAIN requests : \A x :
           x = requests[i] /\ Mine(x, c) => Wanted(x, c)' /\ Follows(x, m),
         Wanted(m, c)'
  PROVE  RequestsInv(c)'
<1>1. /\ Len(requests) \in Nat /\ DOMAIN requests = 1 .. Len(requests)
      /\ DOMAIN requests' = 1 .. Len(requests) + 1
      /\ \A i \in DOMAIN requests : requests'[i] = requests[i]
      /\ requests'[Len(requests) + 1] = m
  BY AppendFacts DEF TypeOK
<1>2. \A i \in DOMAIN requests' : i \in DOMAIN requests \/ i = Len(requests) + 1
  BY <1>1
<1>3. ASSUME NEW i \in DOMAIN requests', NEW x, x = requests'[i], Mine(x, c)
      PROVE  Wanted(x, c)'
  <2>1. CASE i \in DOMAIN requests
    BY <1>1, <1>3, <2>1 DEF Wanted, InGame
  <2>2. CASE i = Len(requests) + 1
    BY <1>1, <1>3, <2>2
  <2> QED
    BY <1>2, <2>1, <2>2
<1>4. ASSUME NEW i \in DOMAIN requests', NEW j \in DOMAIN requests', i < j,
             Mine(requests'[i], c), Mine(requests'[j], c)
      PROVE  Follows(requests'[i], requests'[j])
  <2>1. i \in DOMAIN requests
    BY <1>1, <1>4
  <2>2. CASE j \in DOMAIN requests
    BY <1>1, <1>4, <2>1, <2>2 DEF RequestsInv
  <2>3. CASE j = Len(requests) + 1
    BY <1>1, <1>4, <2>1, <2>3
  <2> QED
    BY <1>2, <2>2, <2>3
<1> QED
  BY <1>3, <1>4 DEF RequestsInv, Mine, Follows, Wanted, InGame, Known

LEMMA AskLocal ==
  ASSUME TypeOK, WellFormed, NEW c \in Client, Local(c),
         NEW action \in {"LOGIN", "LOGOUT"} \union GameAction,
         NEW typed \in Name \union {NoName}, NEW chosen \in SUBSET Card,
         Ask(c, action, typed, chosen),
         ~ Waiting(c), client[c] # "gone",
         \/ action = "LOGIN" /\ client'[c] = "login" /\ name'[c] = typed /\ typed \in Name
         \/ action = "LOGOUT" /\ client'[c] = "logout"
         \/ /\ action \in GameAction /\ InGame(c) /\ client'[c] \in {"draw", "see", "deck"}
            /\ name'[c] = name[c] /\ userDeck'[c] = userDeck[c]
            /\ Known(c) => choice'[c] \subseteq cards[c],
         Known(c) => chosen \subseteq cards[c]
  PROVE  Local(c)'
<1>1. /\ asked[c] \in Nat /\ asked'[c] = asked[c] + 1
      /\ SameAccount(c) /\ replies' = replies
  BY DEF Ask, Send, SameAccount, serverVars, accounts, restartVars, TypeOK
<1>2. PICK m \in Request :
        /\ m = [action |-> action, from |-> c, name |-> typed, cards |-> chosen,
                n |-> asked[c] + 1]
        /\ requests' = Append(requests, m)
  BY MessageType DEF ID, Ask, Send
<1>3. \A i \in DOMAIN requests : requests[i].n \in Nat
  <2>1. \A i \in DOMAIN requests : requests[i] \in Request
    BY LenProperties, ElementOfSeq DEF TypeOK
  <2> QED
    BY <2>1 DEF Request
<1>4. /\ m.n = asked[c] + 1 /\ m.action = action /\ m.name = typed /\ m.cards = chosen
      /\ Known(c) /\ action \in GameAction => users[c] \in Name
  BY <1>2 DEF GameAction, Local, AccountInv, Plays, InGame
<1>5. client'[c] # "gone" /\ (action = "LOGIN" \/ client'[c] # "login")
  OBVIOUS
<1>6. InGame(c)' => InGame(c) /\ action \in GameAction
  BY DEF InGame
<1>7. ASSUME NEW i \in DOMAIN requests, NEW x, x = requests[i], Mine(x, c)
      PROVE  Wanted(x, c)' /\ Follows(x, m)
  <2>1. Wanted(x, c) /\ x.n \in Nat
    BY <1>3, <1>7 DEF Local, RequestsInv
  <2>2. x.n < asked'[c]
    BY <1>1, <2>1 DEF Wanted
  <2>3. Wanted(x, c)'
    BY <1>1, <1>6, <2>1, <2>2 DEF Wanted, SameAccount, Known
  <2>4. Follows(x, m)
    BY <1>1, <1>4, <2>1, <2>2 DEF Wanted, Follows, GameAction
  <2> QED
    BY <2>3, <2>4
<1>8. Wanted(m, c)'
  BY <1>1, <1>4, <1>5, <1>6 DEF Wanted, SameAccount, GameAction, Known
<1>9. RequestsInv(c)'
  BY <1>1, <1>2, <1>7, <1>8, NewRequest DEF Local
<1>10. RepliesInv(c)'
  BY <1>1, NobodyWaits DEF Local, RepliesInv
<1>11. AccountInv(c)'
  <2>1. asked'[c] # 0
    BY <1>1
  <2> QED
    BY <1>1, <1>6, <2>1 DEF Local, AccountInv, Plays, SameAccount, InGame, GameAction, Known
<1> QED
  BY <1>9, <1>10, <1>11 DEF Local

(* What a client waited for has ended.                                     *)
LEMMA ProceedLocal ==
  ASSUME TypeOK, NEW c \in Client, Local(c), Waiting(c), NEW ok \in BOOLEAN, NEW got \in SUBSET Card,
         Proceed(c, ok, got), \A r \in replies' : r.to # c,
         Known(c) => got \subseteq cards[c],
         ok => \A i \in DOMAIN requests : Mine(requests[i], c) => requests[i].n = 0,
         Known(c) /\ ok /\ client[c] = "login" => users[c] = name[c]
  PROVE  Local(c)'
<1>1. /\ SameAccount(c) /\ requests' = requests /\ asked'[c] = asked[c] /\ name'[c] = name[c]
      /\ client'[c] = After(client[c], ok)
      /\ userDeck'[c] = DeckAfter(c, ok, got)
      /\ choice'[c] = IF client[c] = "see" THEN got ELSE {}
  BY DEF Proceed, SameAccount, serverVars, accounts, restartVars, GoTo, TypeOK
<1>2. /\ client'[c] \in {"in", "menu", "choose"}
      /\ InGame(c)' => InGame(c) \/ (client[c] = "login" /\ ok)
  <2>1. CASE client[c] = "login"
    BY <1>1, <2>1 DEF After, InGame
  <2>2. CASE client[c] = "logout"
    BY <1>1, <2>2 DEF After, InGame
  <2>3. CASE client[c] \in {"draw", "see", "deck"}
    BY <1>1, <2>3 DEF After, InGame
  <2> QED
    BY <2>1, <2>2, <2>3 DEF Waiting
<1>3. ASSUME NEW i \in DOMAIN requests, NEW x, x = requests[i], Mine(x, c)
      PROVE  Wanted(x, c)'
  <2>1. Wanted(x, c) /\ (ok => x.n = 0)
    BY <1>3 DEF Local, RequestsInv
  <2>2. InGame(c)' => InGame(c) \/ x.n = 0
    BY <1>2, <2>1
  <2> QED
    BY <1>1, <1>2, <2>1, <2>2 DEF Wanted, Waiting, SameAccount, Known
<1>4. RequestsInv(c)'
  BY <1>1, <1>3 DEF Local, RequestsInv, Mine, Follows, Wanted, InGame, Known
<1>5. RepliesInv(c)'
  BY DEF RepliesInv
<1>6. AccountInv(c)'
  <2>1. InGame(c)' => name[c] \in Name /\ (Known(c) => users[c] = name[c])
    BY <1>2 DEF Local, AccountInv, Plays
  <2>2. Known(c) /\ InGame(c)' => choice'[c] \subseteq cards[c]
    BY <1>1
  <2>3. Known(c) /\ InGame(c)' => userDeck'[c] \subseteq cards[c]
    BY <1>1, <1>2 DEF DeckAfter, Local, AccountInv, Plays, InGame
  <2> QED
    BY <1>1, <1>2, <2>1, <2>2, <2>3 DEF Local, AccountInv, Plays, SameAccount, Known, Waiting
<1> QED
  BY <1>4, <1>5, <1>6 DEF Local

LEMMA ReceiveLocal ==
  ASSUME TypeOK, \A c \in Client : Local(c), NEW r \in replies, ReceiveReply(r)
  PROVE  \A c \in Client : Local(c)'
<1>1. r.to \in Client /\ r.ok \in BOOLEAN /\ r.cards \in SUBSET Card
  BY DEF TypeOK, Reply
<1>2. /\ Waiting(r.to)
      /\ \A i \in DOMAIN requests : Mine(requests[i], r.to) => requests[i].n = 0
      /\ \A s \in replies : s.to = r.to => s = r
      /\ Known(r.to) => r.cards \subseteq cards[r.to]
      /\ Known(r.to) /\ r.ok /\ client[r.to] = "login" => users[r.to] = name[r.to]
  BY <1>1 DEF Local, RepliesInv
<1>3. Proceed(r.to, r.ok, r.cards) /\ replies' = replies \ {r}
  BY DEF ReceiveReply
<1>4. Local(r.to)'
  BY <1>1, <1>2, <1>3, ProceedLocal
<1>5. ASSUME NEW c \in Client, c # r.to PROVE Local(c)'
  <2>1. SameClient(c) /\ SameAccount(c) /\ requests' = requests
    BY <1>1, <1>3, <1>5 DEF Proceed, GoTo, SameClient, SameAccount, serverVars, accounts, restartVars, TypeOK
  <2>2. Shifted(c, 0)
    BY <2>1, StayShifts
  <2> QED
    BY <1>3, <2>1, <2>2, Frame
<1> QED
  BY <1>4, <1>5

(* A message of nobody, or of another client, does not concern c.          *)
LEMMA SendFrame ==
  ASSUME TypeOK, NEW c \in Client, Local(c), SameClient(c), SameAccount(c), replies' = replies,
         NEW action, NEW id, NEW typed, NEW chosen, NEW n, Send(action, id, typed, chosen, n),
         [action |-> action, from |-> id, name |-> typed, cards |-> chosen, n |-> n] \in Request,
         id # c \/ action = "PING"
  PROVE  Local(c)'
<1>1. PICK m \in Request : requests' = Append(requests, m) /\ ~ Mine(m, c)
  BY DEF Send, Mine
<1>2. Shifted(c, 0)
  BY <1>1, SendShifts
<1> QED
  BY <1>2, Frame

LEMMA AskOther ==
  ASSUME TypeOK, NEW c \in Client, NEW d \in Client, c # d, Local(c),
         NEW action \in {"LOGIN", "LOGOUT"} \union GameAction,
         NEW typed \in Name \union {NoName}, NEW chosen \in SUBSET Card,
         Ask(d, action, typed, chosen),
         client'[c] = client[c], name'[c] = name[c], userDeck'[c] = userDeck[c],
         choice'[c] = choice[c]
  PROVE  Local(c)'
<1>1. [action |-> action, from |-> d, name |-> typed, cards |-> chosen, n |-> asked[d] + 1]
        \in Request
  BY MessageType DEF ID
<1>2. SameClient(c) /\ SameAccount(c) /\ replies' = replies
  BY DEF Ask, SameClient, SameAccount, serverVars, accounts, restartVars, TypeOK
<1> QED
  BY <1>1, <1>2, SendFrame DEF Ask

(* The five actions that ask the server for something.                     *)
LEMMA AskingLocal ==
  ASSUME TypeOK, WellFormed, \A c \in Client : Local(c), NEW c \in Client,
         SendLogin(c) \/ SendLogout(c) \/ DrawCard(c) \/ SeeCards(c) \/ ChangeDeck(c)
  PROVE  \A d \in Client : Local(d)'
<1>1. PICK action \in {"LOGIN", "LOGOUT"} \union GameAction, typed \in Name \union {NoName},
           chosen \in SUBSET Card :
        /\ Ask(c, action, typed, chosen)
        /\ ~ Waiting(c) /\ client[c] # "gone"
        /\ \/ action = "LOGIN" /\ client'[c] = "login" /\ name'[c] = typed /\ typed \in Name
           \/ action = "LOGOUT" /\ client'[c] = "logout"
           \/ /\ action \in GameAction /\ InGame(c) /\ client'[c] \in {"draw", "see", "deck"}
              /\ name'[c] = name[c] /\ userDeck'[c] = userDeck[c]
              /\ Known(c) => choice'[c] \subseteq cards[c]
        /\ Known(c) => chosen \subseteq cards[c]
        /\ \A d \in Client \ {c} : /\ client'[d] = client[d] /\ name'[d] = name[d]
                                   /\ userDeck'[d] = userDeck[d] /\ choice'[d] = choice[d]
  <2> DEFINE Goal(action, typed, chosen) ==
        /\ Ask(c, action, typed, chosen)
        /\ ~ Waiting(c) /\ client[c] # "gone"
        /\ \/ action = "LOGIN" /\ client'[c] = "login" /\ name'[c] = typed /\ typed \in Name
           \/ action = "LOGOUT" /\ client'[c] = "logout"
           \/ /\ action \in GameAction /\ InGame(c) /\ client'[c] \in {"draw", "see", "deck"}
              /\ name'[c] = name[c] /\ userDeck'[c] = userDeck[c]
              /\ Known(c) => choice'[c] \subseteq cards[c]
        /\ Known(c) => chosen \subseteq cards[c]
        /\ \A d \in Client \ {c} : /\ client'[d] = client[d] /\ name'[d] = name[d]
                                   /\ userDeck'[d] = userDeck[d] /\ choice'[d] = choice[d]
  <2>1. CASE SendLogin(c)
    <3>1. PICK typed \in Name : name' = [name EXCEPT ![c] = typed] /\ Ask(c, "LOGIN", typed, {})
      BY <2>1 DEF SendLogin
    <3>2. Goal("LOGIN", typed, {})
      BY <2>1, <3>1 DEF SendLogin, GoTo, Waiting, TypeOK, deckVars
    <3> QED
      BY <3>2
  <2>2. CASE SendLogout(c)
    <3>1. Goal("LOGOUT", NoName, {})
      BY <2>2 DEF SendLogout, GoTo, Waiting, TypeOK, deckVars
    <3> QED
      BY <3>1
  <2>3. ASSUME InGame(c), Known(c) PROVE choice[c] \subseteq cards[c]
    BY <2>3 DEF Local, AccountInv, Plays
  <2>4. CASE DrawCard(c)
    <3>1. Goal("OPEN_PACK", NoName, {})
      BY <2>3, <2>4 DEF DrawCard, GoTo, Waiting, InGame, TypeOK, deckVars, GameAction
    <3> QED
      BY <3>1 DEF GameAction
  <2>5. CASE SeeCards(c)
    <3>1. Goal("SEE_CARDS", NoName, {})
      BY <2>3, <2>5 DEF SeeCards, GoTo, Waiting, InGame, TypeOK, deckVars, GameAction
    <3> QED
      BY <3>1 DEF GameAction
  <2>6. CASE ChangeDeck(c)
    <3>1. PICK chosen \in ChooseDeck(choice[c]) :
            choice' = [choice EXCEPT ![c] = chosen] /\ Ask(c, "CHANGE_DECK", NoName, chosen)
      BY <2>6 DEF ChangeDeck
    <3>2. InGame(c)
      BY <2>6 DEF ChangeDeck, InGame
    <3>3. (Known(c) => chosen \subseteq cards[c]) /\ chosen \in SUBSET Card
      BY <2>3, <3>1, <3>2 DEF ChooseDeck, TypeOK
    <3>4. Goal("CHANGE_DECK", NoName, chosen)
      BY <2>6, <3>1, <3>2, <3>3 DEF ChangeDeck, GoTo, Waiting, TypeOK, GameAction
    <3> QED
      BY <3>3, <3>4 DEF GameAction
  <2> QED
    BY <2>1, <2>2, <2>4, <2>5, <2>6
<1>2. Local(c)'
  BY <1>1, AskLocal
<1>3. ASSUME NEW d \in Client, d # c PROVE Local(d)'
  BY <1>1, <1>3, AskOther
<1> QED
  BY <1>2, <1>3

(* A process that ends.                                                    *)
LEMMA CrashLocal ==
  ASSUME TypeOK, \A d \in Client : Local(d), NEW c \in Client, Crash(c)
  PROVE  \A d \in Client : Local(d)'
<1>1. /\ client'[c] = "gone" /\ name'[c] = name[c] /\ asked'[c] = asked[c]
      /\ requests' = requests
      /\ \A d \in Client : SameAccount(d)
      /\ \A r \in replies' : r \in replies /\ r.to # c
      /\ \A d \in Client \ {c} : SameClient(d)
  BY DEF Crash, GoTo, SameClient, SameAccount, serverVars, accounts, restartVars, TypeOK
<1>2. ASSUME NEW i \in DOMAIN requests, NEW x, x = requests[i], Mine(x, c)
      PROVE  Wanted(x, c)'
  <2>1. Wanted(x, c)
    BY <1>2 DEF Local, RequestsInv
  <2> QED
    BY <1>1, <2>1 DEF Wanted, SameAccount, InGame, Known
<1>3. AccountInv(c)' /\ RepliesInv(c)'
  BY <1>1 DEF Local, AccountInv, RepliesInv, InGame, Waiting, SameAccount, Known
<1>4. RequestsInv(c)'
  BY <1>1, <1>2 DEF Local, RequestsInv, Mine, Follows, Wanted, InGame, Known
<1>5. ASSUME NEW d \in Client, d # c PROVE Local(d)'
  BY <1>1, <1>5, StayShifts, Frame
<1> QED
  BY <1>3, <1>4, <1>5 DEF Local

(* A LOGOUT that nobody of the client waits for, except its signal         *)
(* goroutine.                                                              *)
LEMMA InterruptLocal ==
  ASSUME TypeOK, WellFormed, \A d \in Client : Local(d), NEW c \in Client, Interrupt(c)
  PROVE  \A d \in Client : Local(d)'
<1>1. /\ \A d \in Client : SameClient(d)
      /\ \A d \in Client \ {c} : SameAccount(d)
      /\ users' = users /\ cards' = cards /\ deck' = deck /\ forgotten' = forgotten
      /\ c \in interrupted' /\ ~ Known(c)' /\ replies' = replies
  BY DEF Interrupt, SameClient, SameAccount, serverVars, accounts, restartVars, deckVars, Known
<1>2. PICK m \in Request :
        /\ m = [action |-> "LOGOUT", from |-> c, name |-> NoName, cards |-> {}, n |-> 0]
        /\ requests' = Append(requests, m)
  BY MessageType DEF Interrupt, Send, ID
<1>3. /\ m.n = 0 /\ m.action = "LOGOUT" /\ m.from = c /\ m.cards = {}
      /\ asked[c] \in Nat
  BY <1>2 DEF TypeOK
<1>4. client[c] = "login" => asked[c] # 0
  BY DEF Local, AccountInv, Waiting
<1>5. Wanted(m, c)'
  BY <1>1, <1>3, <1>4 DEF Wanted, SameClient, GameAction
<1>6. ASSUME NEW i \in DOMAIN requests, NEW x, x = requests[i], Mine(x, c)
      PROVE  Wanted(x, c)' /\ Follows(x, m)
  <2>1. Wanted(x, c)
    BY <1>6 DEF Local, RequestsInv
  <2> QED
    BY <1>1, <1>3, <2>1 DEF Wanted, SameClient, InGame, Follows, GameAction
<1>7. RequestsInv(c)'
  BY <1>2, <1>5, <1>6, NewRequest DEF Local
<1>8. RepliesInv(c)'
  <2>1. ASSUME NEW r \in replies', r.to = c, NEW i \in DOMAIN requests', Mine(requests'[i], c)
        PROVE  requests'[i].n = 0
    <3>1. /\ Len(requests) \in Nat /\ DOMAIN requests = 1 .. Len(requests)
          /\ DOMAIN requests' = 1 .. Len(requests) + 1
          /\ \A j \in DOMAIN requests : requests'[j] = requests[j]
          /\ requests'[Len(requests) + 1] = m
      BY <1>2, AppendFacts DEF TypeOK
    <3>2. CASE i \in DOMAIN requests
      BY <1>1, <2>1, <3>1, <3>2 DEF Local, RepliesInv
    <3>3. CASE i = Len(requests) + 1
      BY <1>3, <3>1, <3>3
    <3> QED
      BY <3>1, <3>2, <3>3
  <2>2. ASSUME NEW r \in replies', r.to = c
        PROVE  Waiting(c)' /\ \A s \in replies' : s.to = c => s = r
    BY <1>1, <2>2 DEF Local, RepliesInv, Waiting, SameClient
  <2> QED
    BY <1>1, <2>1, <2>2 DEF RepliesInv, Mine
<1>9. AccountInv(c)'
  BY <1>1 DEF Local, AccountInv, InGame, Waiting, SameClient
<1>10. ASSUME NEW d \in Client, d # c PROVE Local(d)'
  <2>1. Shifted(d, 0)
    BY <1>2, <1>3, <1>10, SendShifts DEF Mine
  <2> QED
    BY <1>1, <1>10, <2>1, Frame
<1> QED
  BY <1>7, <1>8, <1>9, <1>10 DEF Local

LEMMA ClientLocal ==
  ASSUME TypeOK, WellFormed, \A d \in Client : Local(d), NEW c \in Client, ClientStep(c)
  PROVE  \A d \in Client : Local(d)'
<1>1. CASE GiveUp(c)
  <2>1. Waiting(c) /\ Proceed(c, FALSE, {}) /\ \A r \in replies' : r \in replies /\ r.to # c
    BY <1>1 DEF GiveUp
  <2>2. Local(c)'
    BY <2>1, ProceedLocal
  <2>3. ASSUME NEW d \in Client, d # c PROVE Local(d)'
    <3>1. SameClient(d) /\ SameAccount(d) /\ requests' = requests
      BY <2>1, <2>3 DEF Proceed, GoTo, SameClient, SameAccount, serverVars, accounts, restartVars, TypeOK
    <3> QED
      BY <2>1, <3>1, StayShifts, Frame
  <2> QED
    BY <2>2, <2>3
<1>2. CASE Beat(c)
  <2> SUFFICES ASSUME NEW d \in Client PROVE Local(d)'
    OBVIOUS
  <2>1. SameClient(d) /\ SameAccount(d) /\ replies' = replies
    BY <1>2 DEF Beat, SameClient, SameAccount, serverVars, accounts, restartVars, clientVars, deckVars
  <2>2. CASE Send("HEARTBEAT", NoID, NoName, {}, 0)
    <3>1. [action |-> "HEARTBEAT", from |-> NoID, name |-> NoName, cards |-> {}, n |-> 0]
            \in Request
      BY MessageType DEF ID
    <3> QED
      BY <2>1, <2>2, <3>1, NoIDAssumption, SendFrame
  <2>3. CASE Send("PING", c, NoName, {}, 0)
    <3>1. [action |-> "PING", from |-> c, name |-> NoName, cards |-> {}, n |-> 0] \in Request
      BY MessageType DEF ID
    <3> QED
      BY <2>1, <2>3, <3>1, SendFrame
  <2> QED
    BY <1>2, <2>2, <2>3 DEF Beat
<1> QED
  BY <1>1, <1>2, AskingLocal, CrashLocal, InterruptLocal DEF ClientStep

(***************************************************************************)
(* Steps of the server.                                                    *)
(***************************************************************************)
(* What waits behind the request in hand.                                  *)

LEMMA Behind ==
  ASSUME TypeOK, WellFormed, NEW c \in Client, RequestsInv(c),
         NEW action \in {"LOGIN", "LOGOUT"} \union GameAction, InHand(action),
         Head(requests).from = c, Finish
  PROVE  /\ Mine(Head(requests), c) /\ Wanted(Head(requests), c) /\ Head(requests).n \in Nat
         /\ \A i \in DOMAIN requests' : Mine(requests'[i], c) =>
              /\ Wanted(requests'[i], c) /\ Follows(Head(requests), requests'[i])
              /\ requests'[i].n \in Nat
<1>1. /\ requests # <<>> /\ requests \in Seq(Request) /\ Head(requests) \in Request
      /\ 1 \in DOMAIN requests /\ Head(requests) = requests[1] /\ Head(requests).action = action
  BY InHandFacts
<1>2. /\ requests' \in Seq(Request)
      /\ \A i \in DOMAIN requests' : i \in Nat /\ i + 1 \in DOMAIN requests /\ i + 1 > 1
                                     /\ requests'[i] = requests[i + 1]
  BY <1>1, TailFacts DEF Finish
<1>3. \A i \in DOMAIN requests' : requests'[i] \in Request
  BY <1>2, LenProperties, ElementOfSeq
<1>4. Mine(Head(requests), c) /\ Wanted(Head(requests), c)
  BY <1>1 DEF Mine, GameAction, RequestsInv
<1>5. ASSUME NEW i \in DOMAIN requests', Mine(requests'[i], c)
      PROVE  Wanted(requests'[i], c) /\ Follows(Head(requests), requests'[i])
  BY <1>1, <1>2, <1>4, <1>5 DEF RequestsInv
<1> QED
  BY <1>1, <1>3, <1>4, <1>5 DEF Request

LEMMA HandledLocal ==
  ASSUME TypeOK, WellFormed, \A d \in Client : Local(d),
         NEW action \in {"LOGIN", "LOGOUT"} \union GameAction, InHand(action), Finish,
         NEW ok \in BOOLEAN, NEW data \in SUBSET Card, Answer(ok, data), UNCHANGED clientVars,
         NEW c \in Client, Head(requests).from = c,
         \A d \in Client \ {c} : SameAccount(d),
         Known(c)' => /\ deck'[c] \subseteq cards'[c] /\ users'[c] \in Name \union {Absent}
                      /\ data \subseteq cards'[c],
         action # "LOGIN" => /\ c \in forgotten' <=> c \in forgotten
                             /\ Known(c) => users'[c] = users[c] /\ cards[c] \subseteq cards'[c],
         ok /\ action = "LOGIN" => users'[c] = Head(requests).name
  PROVE  \A d \in Client : Local(d)'
<1> DEFINE m == Head(requests)
<1>1. /\ m \in Request /\ m.action = action /\ requests # <<>>
      /\ 1 \in DOMAIN requests /\ m = requests[1]
  BY InHandFacts
<1>2. /\ Mine(m, c) /\ Wanted(m, c) /\ m.n \in Nat
      /\ \A i \in DOMAIN requests' : Mine(requests'[i], c) =>
           /\ Wanted(requests'[i], c) /\ Follows(m, requests'[i])
           /\ requests'[i].n \in Nat
  BY Behind DEF Local
<1> HIDE DEF m
<1>3. m.n # 0 => \A r \in replies : r.to # c
  BY <1>1, <1>2 DEF Local, RepliesInv
<1>4. /\ \A d \in Client : SameClient(d)
      /\ interrupted' = interrupted
      /\ Waiting(c)' <=> Waiting(c)
  BY DEF clientVars, deckVars, SameClient, Waiting
<1>a. Waiting(c) => asked[c] # 0
  BY DEF Local, AccountInv
<1>5. \A d \in Client : Shifted(d, 1)
  BY <1>1, FinishShifts
<1>6. GameKept(c)
  <2>1. ASSUME NEW i \in DOMAIN requests', Mine(requests'[i], c),
               requests'[i].action \in GameAction, Known(c)'
        PROVE  users[c] \in Name /\ action # "LOGIN" /\ Known(c)
               /\ (requests'[i].action = "CHANGE_DECK" => requests'[i].cards \subseteq cards[c])
    BY <1>1, <1>2, <1>4, <2>1 DEF Wanted, Follows, Known
  <2> QED
    BY <2>1 DEF GameKept
<1>7. RequestsInv(c)'
  BY <1>4, <1>5, <1>6, RequestsKept DEF Local
<1>8. \A r \in replies' : r \in replies
                          \/ (/\ r = [to |-> c, ok |-> ok, cards |-> data]
                              /\ Waiting(c) /\ asked[c] = m.n)
  BY DEF Answer, m
<1>9. RepliesInv(c)'
  <2>1. CASE \A r \in replies' : r \in replies
    <3>1. ASSUME NEW r \in replies', r.to = c PROVE m.n = 0
      BY <1>1, <1>2, <1>3, <2>1, <3>1 DEF Wanted
    <3>2. ASSUME NEW r \in replies', r.to = c, NEW i \in DOMAIN requests', Mine(requests'[i], c)
          PROVE  requests'[i].n = 0
      BY <1>5, <2>1, <3>2 DEF Shifted, Local, RepliesInv
    <3>3. ASSUME NEW r \in replies', r.to = c
          PROVE  /\ Waiting(c)' /\ ~ Known(c)'
                 /\ \A s \in replies' : s.to = c => s = r
      BY <1>2, <1>4, <2>1, <3>1, <3>3 DEF Local, RepliesInv, Wanted, Known
    <3> QED
      BY <3>2, <3>3 DEF RepliesInv, Mine
  <2>2. CASE m.n # 0
    <3> SUFFICES ASSUME NEW r \in replies', r.to = c
                 PROVE  /\ Waiting(c)'
                        /\ \A i \in DOMAIN requests' :
                             Mine(requests'[i], c) => requests'[i].n = 0
                        /\ \A s \in replies' : s.to = c => s = r
                        /\ Known(c)' => r.cards \subseteq cards'[c]
                        /\ r.ok /\ client'[c] = "login" => users'[c] = name'[c]
      BY DEF RepliesInv, Mine
    <3>1. r = [to |-> c, ok |-> ok, cards |-> data] /\ Waiting(c) /\ asked[c] = m.n
      BY <1>3, <1>8, <2>2
    <3>2. ASSUME NEW i \in DOMAIN requests', Mine(requests'[i], c) PROVE requests'[i].n = 0
      BY <1>2, <3>1, <3>2 DEF Wanted, Follows
    <3>3. ASSUME r.ok, client'[c] = "login" PROVE users'[c] = name'[c]
      BY <1>1, <1>2, <1>4, <3>1, <3>3 DEF Wanted, SameClient, m
    <3>4. \A s \in replies' : s.to = c => s = r
      BY <1>3, <1>8, <2>2, <3>1
    <3> QED
      BY <1>4, <3>1, <3>2, <3>3, <3>4
  <2> QED
    BY <1>8, <1>a, <2>1, <2>2
<1>10. AccountInv(c)'
  <2>1. action = "LOGIN" /\ Known(c)' => ~ InGame(c)
    BY <1>1, <1>2, <1>4 DEF Wanted, Known
  <2>2. InGame(c)' <=> InGame(c)
    BY <1>4 DEF InGame, SameClient
  <2>3. Known(c)' /\ InGame(c) => /\ users'[c] = name[c] /\ userDeck[c] \subseteq cards'[c]
                                  /\ choice[c] \subseteq cards'[c]
    BY <1>4, <2>1 DEF Local, AccountInv, Plays, Known
  <2> QED
    BY <1>4, <2>2, <2>3 DEF Local, AccountInv, Plays, SameClient
<1>11. ASSUME NEW d \in Client, d # c PROVE Local(d)'
  <2>1. \A r \in replies' : r.to = d => r \in replies
    BY <1>8, <1>11
  <2> QED
    BY <1>4, <1>5, <1>11, <2>1, Frame
<1> QED
  BY <1>7, <1>9, <1>10, <1>11 DEF Local

LEMMA LogoutLocal ==
  ASSUME TypeOK, WellFormed, \A d \in Client : Local(d), LogoutUser
  PROVE  \A d \in Client : Local(d)'
<1>0. PICK c \in Client : Head(requests).from = c
  BY InHandFacts DEF LogoutUser
<1>1. /\ c \in Client /\ 1 \in DOMAIN requests /\ Head(requests) = requests[1]
      /\ Head(requests).action = "LOGOUT" /\ requests[1].from = c
  BY <1>0, InHandFacts DEF LogoutUser
<1>2. Mine(requests[1], c) /\ Wanted(requests[1], c) /\ requests' = requests /\ replies' = replies
  BY <1>1 DEF Local, RequestsInv, Mine, LogoutUser
<1>3. /\ \A d \in Client : SameClient(d)
      /\ \A d \in Client \ {c} : SameAccount(d)
      /\ users'[c] = Absent /\ cards'[c] = {} /\ deck'[c] = {}
  BY <1>0, <1>1 DEF LogoutUser, DeleteUser, SameClient, SameAccount, restartVars, clientVars, deckVars
<1>4. \A d \in Client : Shifted(d, 0)
  BY <1>2, StayShifts
<1>5. Known(c) => /\ requests[1].n # 0
                  /\ \A r \in replies' : r.to # c
  BY <1>1, <1>2 DEF Local, RepliesInv, Wanted, Known
<1>k. Known(c)' <=> Known(c)
  BY DEF LogoutUser, restartVars, clientVars, Known
<1>6. ASSUME Known(c), NEW i \in DOMAIN requests, Mine(requests[i], c)
      PROVE  requests[i].action \notin GameAction
  <2>1. i \in Nat /\ (i = 1 \/ 1 < i)
    BY <1>6, LenProperties DEF TypeOK
  <2>2. CASE i = 1
    BY <1>1, <2>2 DEF GameAction
  <2>3. CASE 1 < i
    BY <1>1, <1>2, <1>5, <1>6, <2>3 DEF Local, RequestsInv, Follows
  <2> QED
    BY <2>1, <2>2, <2>3
<1>7. RequestsInv(c)'
  <2>1. GameKept(c)
    BY <1>2, <1>6, <1>k DEF GameKept
  <2> QED
    BY <1>1, <1>3, <1>4, <2>1, RequestsKept DEF Local
<1>8. AccountInv(c)'
  <2>1. Known(c) => ~ InGame(c)
    BY <1>1, <1>2, <1>5 DEF Wanted
  <2> QED
    BY <1>1, <1>3, <1>k, <2>1 DEF Local, AccountInv, SameClient, InGame, Waiting
<1>a. RepliesInv(c)'
  <2>1. Waiting(c)' <=> Waiting(c)
    BY <1>1, <1>3 DEF Waiting, SameClient
  <2> QED
    BY <1>1, <1>2, <1>5, <1>k, <2>1 DEF Local, RepliesInv, Mine
<1>9. ASSUME NEW d \in Client, d # c PROVE Local(d)'
  BY <1>2, <1>3, <1>4, <1>9, Frame
<1> QED
  BY <1>7, <1>8, <1>9, <1>a DEF Local

(* Steps that touch no account, no client and no answer.                   *)
LEMMA IdleLocal ==
  ASSUME TypeOK, \A d \in Client : Local(d), UNCHANGED <<accounts, forgotten, clientVars, replies>>,
         requests' = requests \/ (requests # <<>> /\ Finish)
  PROVE  \A d \in Client : Local(d)'
<1> SUFFICES ASSUME NEW d \in Client PROVE Local(d)'
  OBVIOUS
<1>1. SameClient(d) /\ SameAccount(d)
  BY DEF accounts, clientVars, deckVars, SameClient, SameAccount
<1>2. \E k \in {0, 1} : Shifted(d, k)
  BY StayShifts, FinishShifts
<1> QED
  BY <1>1, <1>2, Frame

LEMMA HandlerLocal ==
  ASSUME TypeOK, WellFormed, \A d \in Client : Local(d), HandlerStep
  PROVE  \A d \in Client : Local(d)'
<1> DEFINE m == Head(requests)
<1>i. interrupted' = interrupted
  BY DEF HandlerStep, HandleLogin, HandleDrawCard, HandleSeeCards, HandleChangeDeck, LogoutUser,
         LogoutActive, HandleHeartbeat, HandlePing, clientVars
<1>0. /\ deck \in [Client -> SUBSET Card] /\ cards \in [Client -> SUBSET Card]
      /\ users \in [Client -> Name \union {NoName, Absent}]
      /\ \A d \in Client : Known(d) => /\ deck[d] \subseteq cards[d]
                                       /\ users[d] \in Name \union {Absent}
  BY DEF TypeOK, Local, AccountInv
<1>1. CASE HandleLogin
  <2>0. PICK c \in Client : m.from = c
    BY <1>1, InHandFacts DEF HandleLogin
  <2>1. m.name \in Name /\ InHand("LOGIN") /\ Finish /\ UNCHANGED clientVars
    BY <1>1, InHandFacts DEF HandleLogin
  <2>2. CASE NameTaken(m.name)
    <3>1. Answer(FALSE, {}) /\ UNCHANGED <<accounts, forgotten>>
      BY <1>1, <2>2 DEF HandleLogin
    <3>2. /\ \A d \in Client \ {c} : SameAccount(d)
          /\ Known(c)' => deck'[c] \subseteq cards'[c] /\ users'[c] \in Name \union {Absent}
      BY <1>i, <1>0, <2>0, <3>1 DEF accounts, SameAccount, Known
    <3>3. PICK ok \in BOOLEAN : ~ ok /\ Answer(ok, {})
      BY <3>1
    <3> QED
      BY <2>0, <2>1, <3>2, <3>3, HandledLocal
  <2>3. CASE ~ NameTaken(m.name)
    <3>1. /\ Answer(TRUE, {Basic})
          /\ users' = [users EXCEPT ![c] = m.name]
          /\ cards' = [cards EXCEPT ![c] = {Basic}]
          /\ deck' = [deck EXCEPT ![c] = {Basic}]
          /\ forgotten' = forgotten \ {c}
      BY <1>1, <2>0, <2>3 DEF HandleLogin
    <3>2. /\ \A d \in Client \ {c} : SameAccount(d)
          /\ users'[c] = m.name /\ cards'[c] = {Basic} /\ deck'[c] = {Basic}
      BY <1>i, <1>0, <2>1, <3>1 DEF SameAccount
    <3>3. /\ deck'[c] \subseteq cards'[c] /\ users'[c] \in Name \union {Absent}
          /\ {Basic} \subseteq cards'[c] /\ {Basic} \in SUBSET Card
      BY <2>1, <3>2, CardAssumption
    <3> QED
      BY <2>0, <2>1, <3>1, <3>2, <3>3, HandledLocal
  <2> QED
    BY <2>2, <2>3
<1>2. CASE HandleDrawCard
  <2>0. PICK c \in Client : m.from = c
    BY <1>2, InHandFacts DEF HandleDrawCard
  <2>1. InHand("OPEN_PACK") /\ Finish /\ UNCHANGED <<users, deck, forgotten, clientVars>>
    BY <1>2 DEF HandleDrawCard, restartVars
  <2>2. PICK ok \in BOOLEAN :
          /\ Answer(ok, {})
          /\ \/ UNCHANGED cards
             \/ \E x \in Card :
                  cards' = [cards EXCEPT ![c] = IF users[c] = Absent THEN @
                                                     ELSE @ \union {x}]
    BY <1>2, <2>0 DEF HandleDrawCard
  <2>3. /\ \A d \in Client \ {c} : SameAccount(d)
        /\ cards[c] \subseteq cards'[c]
        /\ users'[c] = users[c] /\ deck'[c] = deck[c]
    <3>1. CASE UNCHANGED cards
      BY <1>i, <2>1, <3>1 DEF SameAccount
    <3>2. ASSUME NEW S, cards' = [cards EXCEPT ![c] = S], cards[c] \subseteq S
          PROVE  /\ \A d \in Client \ {c} : SameAccount(d)
                 /\ cards[c] \subseteq cards'[c]
      BY <1>i, <1>0, <2>1, <3>2 DEF SameAccount
    <3> QED
      BY <2>1, <2>2, <3>1, <3>2
  <2>4. Known(c)' => deck'[c] \subseteq cards'[c] /\ users'[c] \in Name \union {Absent}
    BY <1>i, <1>0, <2>1, <2>3 DEF Known
  <2> QED
    BY <2>0, <2>1, <2>2, <2>3, <2>4, HandledLocal DEF GameAction
<1>3. CASE HandleSeeCards
  <2>0. PICK c \in Client : m.from = c
    BY <1>3, InHandFacts DEF HandleSeeCards
  <2>1. InHand("SEE_CARDS") /\ Finish /\ UNCHANGED <<accounts, forgotten, clientVars>>
    BY <1>3 DEF HandleSeeCards, restartVars
  <2>2. PICK ok \in BOOLEAN, data \in SUBSET Card : data = cards[c] /\ Answer(ok, data)
    BY <1>0, <1>3, <2>0 DEF HandleSeeCards
  <2>3. /\ \A d \in Client : SameAccount(d)
        /\ users'[c] = users[c] /\ cards[c] \subseteq cards'[c] /\ data \subseteq cards'[c]
        /\ Known(c)' => deck'[c] \subseteq cards'[c] /\ users'[c] \in Name \union {Absent}
    BY <1>i, <1>0, <2>1, <2>2 DEF accounts, SameAccount, Known
  <2> QED
    BY <2>0, <2>1, <2>2, <2>3, HandledLocal DEF GameAction
<1>4. CASE HandleChangeDeck
  <2>0. PICK c \in Client : m.from = c
    BY <1>4, InHandFacts DEF HandleChangeDeck
  <2>1. /\ InHand("CHANGE_DECK") /\ Finish /\ UNCHANGED <<cards, forgotten, clientVars>>
        /\ Answer(TRUE, {}) /\ m.action = "CHANGE_DECK"
    BY <1>4, InHandFacts DEF HandleChangeDeck, restartVars
  <2>2. Known(c) => users[c] \in Name /\ m.cards \subseteq cards[c]
    BY <2>0, <2>1, Behind DEF Local, Wanted, GameAction
  <2>3. Known(c) => users[c] # Absent
    BY <2>2, NameAssumption
  <2>4. /\ users' = [users EXCEPT ![c] = IF @ = Absent THEN NoName ELSE @]
        /\ deck' = [deck EXCEPT ![c] = m.cards]
    BY <1>4, <2>0 DEF HandleChangeDeck
  <2>5. /\ \A d \in Client \ {c} : SameAccount(d)
        /\ deck'[c] = m.cards /\ (Known(c) => users'[c] = users[c])
    BY <1>i, <1>0, <2>1, <2>3, <2>4 DEF SameAccount
  <2>6. /\ Known(c)' => deck'[c] \subseteq cards'[c] /\ users'[c] \in Name \union {Absent}
        /\ cards[c] \subseteq cards'[c]
    BY <1>i, <2>1, <2>2, <2>5 DEF Known
  <2>7. PICK ok \in BOOLEAN : Answer(ok, {})
    BY <2>1
  <2> QED
    BY <2>0, <2>1, <2>5, <2>6, <2>7, HandledLocal DEF GameAction
<1>5. CASE LogoutActive
  <2>0. PICK c \in Client : m.from = c
    BY <1>5, InHandFacts DEF LogoutActive
  <2>1. /\ InHand("LOGOUT") /\ requests # <<>>
        /\ UNCHANGED <<accounts, forgotten, clientVars>>
    BY <1>5, InHandFacts DEF LogoutActive, restartVars
  <2>2. CASE step = "active"
    BY <1>5, <2>1, <2>2, IdleLocal DEF LogoutActive
  <2>3. CASE step # "active"
    <3>1. Finish /\ Answer(TRUE, {}) /\ \A d \in Client : SameAccount(d)
      BY <1>i, <1>5, <2>1, <2>3 DEF LogoutActive, accounts, SameAccount
    <3>2. /\ Known(c)' => deck'[c] \subseteq cards'[c] /\ users'[c] \in Name \union {Absent}
          /\ users'[c] = users[c] /\ cards[c] \subseteq cards'[c]
      BY <1>i, <1>0, <2>1 DEF accounts, Known
    <3>3. PICK ok \in BOOLEAN : Answer(ok, {})
      BY <3>1
    <3> QED
      BY <2>0, <2>1, <3>1, <3>2, <3>3, HandledLocal
  <2> QED
    BY <2>2, <2>3
<1>6. CASE HandleHeartbeat \/ HandlePing
  <2>1. requests # <<>> /\ Finish /\ UNCHANGED <<accounts, forgotten, clientVars, replies>>
    BY <1>6 DEF HandleHeartbeat, HandlePing, InHand, restartVars
  <2> QED
    BY <2>1, IdleLocal
<1> QED
  BY <1>1, <1>2, <1>3, <1>4, <1>5, <1>6, LogoutLocal DEF HandlerStep

LEMMA MonitorLocal ==
  ASSUME TypeOK, OnlyNoIDIsActive, \A d \in Client : Local(d),
         MonitorStep \/ \E id \in ID : FallSilent(id)
  PROVE  /\ \A d \in Client : Local(d)'
         /\ requests' = requests /\ OnlyNoIDIsActive' /\ UNCHANGED accounts
<1>1. requests' = requests /\ UNCHANGED <<forgotten, clientVars, replies>>
  BY DEF MonitorStep, StartRound, LookAt, DropUser, EndRound, FallSilent, restartVars
<1>2. /\ users \in [Client -> Name \union {NoName, Absent}]
      /\ cards \in [Client -> SUBSET Card] /\ deck \in [Client -> SUBSET Card]
      /\ active \in [ID -> {"absent", "active", "waiting"}]
  BY DEF TypeOK
<1>3. UNCHANGED accounts
  <2>1. ASSUME NEW id \in ID, DropUser(id) PROVE UNCHANGED accounts
    <3>1. DeleteUser(NoID)
      BY <2>1 DEF DropUser, OnlyNoIDIsActive
    <3>2. UNCHANGED users
      BY <1>2, <3>1, NoIDAssumption DEF DeleteUser
    <3>3. UNCHANGED cards
      BY <1>2, <3>1, NoIDAssumption DEF DeleteUser
    <3>4. UNCHANGED deck
      BY <1>2, <3>1, NoIDAssumption DEF DeleteUser
    <3> QED
      BY <3>2, <3>3, <3>4 DEF accounts
  <2> QED
    BY <2>1 DEF MonitorStep, StartRound, LookAt, EndRound, FallSilent
<1>4. OnlyNoIDIsActive'
  <2>1. CASE StartRound
    BY <2>1 DEF StartRound, OnlyNoIDIsActive, ID
  <2>2. ASSUME NEW id \in ID, LookAt(id) PROVE OnlyNoIDIsActive'
    <3>1. id = NoID /\ active' = [active EXCEPT ![NoID] = "waiting"] /\ todo' \subseteq todo
      BY <2>2 DEF LookAt, OnlyNoIDIsActive
    <3> QED
      BY <1>2, <3>1, NoIDAssumption DEF OnlyNoIDIsActive
  <2>3. ASSUME NEW id \in ID, DropUser(id) \/ FallSilent(id) PROVE OnlyNoIDIsActive'
    BY <2>3 DEF DropUser, FallSilent, OnlyNoIDIsActive
  <2>4. CASE EndRound
    BY <2>4 DEF EndRound, OnlyNoIDIsActive
  <2> QED
    BY <2>1, <2>2, <2>3, <2>4 DEF MonitorStep
<1> QED
  BY <1>1, <1>3, <1>4, IdleLocal DEF accounts

(***************************************************************************)
(* The other parts of the invariant.                                       *)
(***************************************************************************)
LEMMA AppendWellFormed ==
  ASSUME TypeOK, WellFormed, NEW m \in Request, requests' = Append(requests, m),
         m.action = "HEARTBEAT" <=> m.from = NoID,
         m.action = "LOGIN" => m.name \in Name
  PROVE  WellFormed'
<1>1. /\ Len(requests) \in Nat /\ DOMAIN requests = 1 .. Len(requests)
      /\ DOMAIN requests' = 1 .. Len(requests) + 1
      /\ \A i \in DOMAIN requests : requests'[i] = requests[i]
      /\ requests'[Len(requests) + 1] = m
  BY AppendFacts DEF TypeOK
<1>2. \A i \in DOMAIN requests' : i \in DOMAIN requests \/ i = Len(requests) + 1
  BY <1>1
<1>3. ASSUME NEW i \in DOMAIN requests'
      PROVE  /\ requests'[i].action = "HEARTBEAT" <=> requests'[i].from = NoID
             /\ requests'[i].action = "LOGIN" => requests'[i].name \in Name
  <2>1. CASE i \in DOMAIN requests
    BY <1>1, <2>1 DEF WellFormed
  <2>2. CASE i = Len(requests) + 1
    BY <1>1, <2>2
  <2> QED
    BY <1>2, <2>1, <2>2
<1> QED
  BY <1>3 DEF WellFormed

LEMMA ClientWellFormed ==
  ASSUME TypeOK, WellFormed, NEW c \in Client, ClientStep(c)
  PROVE  WellFormed'
<1>1. ASSUME NEW action \in {"LOGIN", "LOGOUT", "HEARTBEAT", "PING"} \union GameAction, NEW id \in ID,
             NEW typed \in Name \union {NoName}, NEW chosen \in SUBSET Card, NEW n \in Nat,
             requests' = Append(requests, [action |-> action, from |-> id, name |-> typed,
                                           cards |-> chosen, n |-> n]),
             action = "HEARTBEAT" <=> id = NoID, action = "LOGIN" => typed \in Name
      PROVE  WellFormed'
  <2>1. PICK m \in Request : m = [action |-> action, from |-> id, name |-> typed,
                                 cards |-> chosen, n |-> n]
    BY MessageType
  <2> QED
    BY <1>1, <2>1, AppendWellFormed
<1>2. ASSUME NEW action \in {"LOGIN", "LOGOUT"} \union GameAction,
             NEW typed \in Name \union {NoName}, NEW chosen \in SUBSET Card,
             Ask(c, action, typed, chosen), action = "LOGIN" => typed \in Name
      PROVE  WellFormed'
  <2>1. PICK n \in Nat : requests' = Append(requests, [action |-> action, from |-> c,
                                             name |-> typed, cards |-> chosen, n |-> n])
    BY <1>2, MessageType DEF Ask, Send
  <2>2. action # "HEARTBEAT" /\ c # NoID /\ c \in ID
    BY NoIDAssumption DEF GameAction, ID
  <2> QED
    BY <1>1, <1>2, <2>1, <2>2
<1>3. CASE SendLogin(c)
  BY <1>2, <1>3 DEF SendLogin
<1>4. CASE SendLogout(c)
  BY <1>2, <1>4 DEF SendLogout
<1>5. CASE DrawCard(c) \/ SeeCards(c)
  <2>1. PICK action \in GameAction : action # "LOGIN" /\ Ask(c, action, NoName, {})
    BY <1>5 DEF DrawCard, SeeCards, GameAction
  <2>2. {} \in SUBSET Card /\ NoName \in Name \union {NoName}
    OBVIOUS
  <2> QED
    BY <1>2, <2>1, <2>2
<1>6. CASE ChangeDeck(c)
  <2>1. PICK chosen \in ChooseDeck(choice[c]) : Ask(c, "CHANGE_DECK", NoName, chosen)
    BY <1>6 DEF ChangeDeck
  <2>2. chosen \in SUBSET Card
    BY DEF ChooseDeck, TypeOK
  <2> QED
    BY <1>2, <2>1, <2>2 DEF GameAction
<1>7. CASE Beat(c) \/ Interrupt(c)
  <2>1. c \in ID /\ NoID \in ID /\ c # NoID
    BY NoIDAssumption DEF ID
  <2>2. CASE Send("HEARTBEAT", NoID, NoName, {}, 0)
    BY <1>1, <2>1, <2>2 DEF Send
  <2>3. CASE Send("PING", c, NoName, {}, 0)
    BY <1>1, <2>1, <2>3 DEF Send
  <2>4. CASE Send("LOGOUT", c, NoName, {}, 0)
    BY <1>1, <2>1, <2>4 DEF Send
  <2> QED
    BY <1>7, <2>2, <2>3, <2>4 DEF Beat, Interrupt
<1>8. CASE GiveUp(c) \/ Crash(c)
  <2>1. requests' = requests
    BY <1>8 DEF GiveUp, Proceed, Crash
  <2> QED
    BY <2>1 DEF WellFormed
<1> QED
  BY <1>3, <1>4, <1>5, <1>6, <1>7, <1>8 DEF ClientStep

(* Of the server's steps, only HEARTBEATs make an entry active.            *)
LEMMA HandlerRest ==
  ASSUME TypeOK, WellFormed, OnlyNoIDIsActive, HandlerStep
  PROVE  WellFormed' /\ OnlyNoIDIsActive'
<1>1. requests' = requests \/ (requests # <<>> /\ requests' = Tail(requests))
  BY DEF HandlerStep, HandleLogin, HandleDrawCard, HandleSeeCards, HandleChangeDeck, LogoutUser,
         LogoutActive, HandleHeartbeat, HandlePing, Finish, InHand
<1>2. WellFormed'
  <2>1. CASE requests' = requests
    BY <2>1 DEF WellFormed
  <2>2. CASE requests # <<>> /\ requests' = Tail(requests)
    BY <2>2, TailFacts DEF WellFormed, TypeOK
  <2> QED
    BY <1>1, <2>1, <2>2
<1>3. OnlyNoIDIsActive'
  <2>1. active \in [ID -> {"absent", "active", "waiting"}]
    BY DEF TypeOK
  <2>2. CASE LogoutActive
    BY <2>1, <2>2 DEF LogoutActive, OnlyNoIDIsActive, ID
  <2>3. CASE HandleHeartbeat
    <3>1. Head(requests).from = NoID
      BY <2>3, InHandFacts DEF HandleHeartbeat, WellFormed
    <3> QED
      BY <2>1, <2>3, <3>1, NoIDAssumption DEF HandleHeartbeat, OnlyNoIDIsActive
  <2>4. CASE HandlePing
    <3>1. Head(requests).from \in Client
      BY <2>4, InHandFacts DEF HandlePing
    <3>2. UNCHANGED <<active, todo>>
      BY <2>4, <3>1 DEF HandlePing, OnlyNoIDIsActive
    <3> QED
      BY <3>2 DEF OnlyNoIDIsActive
  <2>5. CASE HandleLogin \/ HandleDrawCard \/ HandleSeeCards \/ HandleChangeDeck \/ LogoutUser
    <3>1. UNCHANGED <<active, todo>>
      BY <2>5 DEF HandleLogin, HandleDrawCard, HandleSeeCards, HandleChangeDeck, LogoutUser,
                  monitorVars
    <3> QED
      BY <3>1 DEF OnlyNoIDIsActive
  <2> QED
    BY <2>2, <2>3, <2>4, <2>5 DEF HandlerStep
<1> QED
  BY <1>2, <1>3

LEMMA HandlerNames ==
  ASSUME TypeOK, WellFormed, NamesAreUnique, HandlerStep, \A d \in Client : Local(d)'
  PROVE  NamesAreUnique'
<1>0. users \in [Client -> Name \union {NoName, Absent}]
  BY DEF TypeOK
<1>1. ASSUME \A d \in Client : users'[d] \in {users[d], Absent, NoName} PROVE NamesAreUnique'
  <2>1. \A d \in Client : users'[d] = NoName => d \in forgotten' \union interrupted'
    BY NameAssumption DEF Local, AccountInv, Known
  <2> QED
    BY <1>1, <2>1, NameAssumption DEF NamesAreUnique
<1>2. CASE HandleLogin
  <2>1. PICK c \in Client, typed \in Name :
          Head(requests).from = c /\ Head(requests).name = typed
    BY <1>2, InHandFacts DEF HandleLogin
  <2>2. CASE NameTaken(typed)
    BY <1>1, <1>2, <2>1, <2>2 DEF HandleLogin, accounts
  <2>3. CASE ~ NameTaken(typed)
    <3>1. users' = [users EXCEPT ![c] = typed] /\ \A d \in Client : users[d] # typed
      BY <1>2, <2>1, <2>3 DEF HandleLogin, NameTaken
    <3>2. \A d \in Client : users'[d] = NoName => d \in forgotten' \union interrupted'
      BY NameAssumption DEF Local, AccountInv, Known
    <3> QED
      BY <1>0, <3>1, <3>2 DEF NamesAreUnique
  <2> QED
    BY <2>2, <2>3
<1>3. CASE HandleChangeDeck
  <2>1. PICK c \in Client : Head(requests).from = c
    BY <1>3, InHandFacts DEF HandleChangeDeck
  <2>2. users' = [users EXCEPT ![c] = IF @ = Absent THEN NoName ELSE @]
    BY <1>3, <2>1 DEF HandleChangeDeck
  <2> QED
    BY <1>0, <1>1, <2>2
<1>4. CASE LogoutUser
  BY <1>1, <1>4 DEF LogoutUser, DeleteUser
<1>5. CASE HandleDrawCard \/ HandleSeeCards \/ LogoutActive \/ HandleHeartbeat \/ HandlePing
  <2>1. UNCHANGED users
    BY <1>5 DEF HandleDrawCard, HandleSeeCards, LogoutActive, HandleHeartbeat, HandlePing, accounts
  <2> QED
    BY <1>1, <2>1
<1> QED
  BY <1>2, <1>3, <1>4, <1>5 DEF HandlerStep

LEMMA ClientKeepsServer ==
  ASSUME OnlyNoIDIsActive, NamesAreUnique, NEW c \in Client, ClientStep(c)
  PROVE  OnlyNoIDIsActive' /\ NamesAreUnique'
<1>1. UNCHANGED <<users, forgotten, active, todo>>
  BY DEF ClientStep, SendLogin, SendLogout, DrawCard, SeeCards, ChangeDeck, GiveUp, Beat, Crash,
         Interrupt, Ask, Proceed, serverVars, accounts, monitorVars, restartVars
<1>2. interrupted \subseteq interrupted'
  BY DEF ClientStep, SendLogin, SendLogout, DrawCard, SeeCards, ChangeDeck, GiveUp, Beat, Crash,
         Interrupt, Ask, Proceed, clientVars
<1> QED
  BY <1>1, <1>2 DEF OnlyNoIDIsActive, NamesAreUnique

(* A restart: nothing of the accounts is left, and nothing is asked.       *)
LEMMA RestartIInv ==
  ASSUME TypeOK', \A c \in Client : Local(c), Restart
  PROVE  IInv'
<1>1. requests' = <<>> /\ DOMAIN requests' = {}
  BY DEF Restart
<1>2. \A c \in Client : users'[c] = Absent /\ c \in forgotten' /\ active'[c] = "absent"
  BY DEF Restart, ID
<1>3. WellFormed' /\ OnlyNoIDIsActive' /\ NamesAreUnique'
  BY <1>1, <1>2, NameAssumption DEF Restart, WellFormed, OnlyNoIDIsActive, NamesAreUnique
<1>4. ASSUME NEW c \in Client PROVE Local(c)'
  <2>1. SameClient(c) /\ replies' = replies /\ ~ Known(c)'
    BY <1>2 DEF Restart, SameClient, clientVars, deckVars, Known
  <2>2. RequestsInv(c)'
    BY <1>1 DEF RequestsInv
  <2>3. RepliesInv(c)'
    BY <1>1, <2>1 DEF Local, RepliesInv, Waiting, SameClient
  <2>4. AccountInv(c)'
    BY <2>1 DEF Local, AccountInv, InGame, Waiting, SameClient
  <2> QED
    BY <2>2, <2>3, <2>4 DEF Local
<1> QED
  BY <1>3, <1>4 DEF IInv, Local

(***************************************************************************)
(* The theorems.                                                           *)
(***************************************************************************)
LEMMA InitIInv == Init => IInv
<1> SUFFICES ASSUME Init PROVE IInv
  OBVIOUS
<1>1. requests = <<>> /\ requests \in Seq(Request) /\ DOMAIN requests = {}
  BY EmptySeq, LenProperties DEF Init
<1>2. TypeOK
  BY <1>1, MaxRequestsAssumption, MaxRestartsAssumption DEF Init, TypeOK
<1>3. OnlyNoIDIsActive /\ WellFormed /\ NamesAreUnique
  BY <1>1, NameAssumption DEF Init, OnlyNoIDIsActive, WellFormed, NamesAreUnique, ID
<1>4. ASSUME NEW c \in Client PROVE RequestsInv(c) /\ RepliesInv(c) /\ AccountInv(c)
  <2>1. client[c] = "menu" /\ users[c] = Absent /\ deck[c] = {} /\ replies = {}
    BY DEF Init
  <2> QED
    BY <1>1, <2>1 DEF RequestsInv, RepliesInv, AccountInv, InGame, Waiting
<1> QED
  BY <1>2, <1>3, <1>4 DEF IInv

LEMMA NextIInv == IInv /\ [Next]_vars => IInv'
<1> SUFFICES ASSUME IInv, [Next]_vars PROVE IInv'
  OBVIOUS
<1>0. TypeOK /\ WellFormed /\ OnlyNoIDIsActive /\ NamesAreUnique /\ \A c \in Client : Local(c)
  BY DEF IInv, Local
<1>1. TypeOK'
  BY TypeNext
<1> SUFFICES /\ \A c \in Client : Local(c)'
             /\ WellFormed' /\ OnlyNoIDIsActive' /\ NamesAreUnique'
  BY <1>1 DEF IInv, Local
<1>2. CASE Restart
  BY <1>0, <1>1, <1>2, RestartIInv DEF IInv, Local
<1>3. CASE HandlerStep
  BY <1>0, <1>3, HandlerLocal, HandlerRest, HandlerNames
<1>4. CASE MonitorStep \/ \E id \in ID : FallSilent(id)
  <2>1. /\ \A c \in Client : Local(c)'
        /\ requests' = requests /\ OnlyNoIDIsActive' /\ UNCHANGED accounts
    BY <1>0, <1>4, MonitorLocal
  <2> QED
    <3>1. UNCHANGED forgotten
      BY <1>4 DEF MonitorStep, StartRound, LookAt, DropUser, EndRound, FallSilent, restartVars
    <3>2. UNCHANGED interrupted
      BY <1>4 DEF MonitorStep, StartRound, LookAt, DropUser, EndRound, FallSilent, clientVars
    <3> QED
      BY <1>0, <2>1, <3>1, <3>2 DEF WellFormed, NamesAreUnique, accounts
<1>5. ASSUME NEW c \in Client, ClientStep(c)
      PROVE  /\ \A d \in Client : Local(d)'
             /\ WellFormed' /\ OnlyNoIDIsActive' /\ NamesAreUnique'
  BY <1>0, <1>5, ClientLocal, ClientWellFormed, ClientKeepsServer
<1>6. ASSUME NEW r \in replies, ReceiveReply(r)
      PROVE  /\ \A c \in Client : Local(c)'
             /\ WellFormed' /\ OnlyNoIDIsActive' /\ NamesAreUnique'
  <2>1. UNCHANGED <<requests, users, forgotten, interrupted, active, todo>>
    BY <1>6 DEF ReceiveReply, Proceed, serverVars, accounts, monitorVars, restartVars
  <2>2. \A c \in Client : Local(c)'
    BY <1>0, <1>6, ReceiveLocal
  <2> QED
    BY <1>0, <2>1, <2>2 DEF WellFormed, OnlyNoIDIsActive, NamesAreUnique
<1>7. CASE UNCHANGED vars
  <2>1. /\ UNCHANGED <<requests, users, forgotten, active, todo, accounts, clientVars, replies>>
        /\ UNCHANGED interrupted
    BY <1>7 DEF vars, serverVars, accounts, monitorVars, restartVars, clientVars
  <2> QED
    BY <1>0, <2>1, IdleLocal DEF WellFormed, OnlyNoIDIsActive, NamesAreUnique
<1> QED
  BY <1>2, <1>3, <1>4, <1>5, <1>6, <1>7 DEF Next

(* The inductive invariant.                                                *)
THEOREM Invariance == Spec => []IInv
BY InitIInv, NextIInv, PTL DEF Spec

(* Every variable keeps its type, and a handler that is underway is that   *)
(* of a LOGOUT.                                                            *)
THEOREM TypeCorrect == Spec => []TypeOK
<1>1. IInv => TypeOK
  BY DEF IInv
<1> QED
  BY <1>1, Invariance, PTL

(* HandleLogin never logs two clients in with one name, and nameless       *)
(* entries (HandleChangeDeck) are only of clients the server forgot, or    *)
(* that log out on a signal while the rest of the process goes on.         *)
THEOREM NamesStayUnique == Spec => []NamesAreUnique
<1>1. IInv => NamesAreUnique
  BY DEF IInv
<1> QED
  BY <1>1, Invariance, PTL

(* Whoever is in the game loop of the client is logged in at the server,   *)
(* under the name typed, until the server restarts or a signal makes the   *)
(* client log out: no late LOGOUT and no round of the monitor deletes the  *)
(* account of a player (HandleLogout, DisconnectClient).                   *)
THEOREM PlayersAreLoggedIn == Spec => []InGameIsLoggedIn
<1>1. IInv => InGameIsLoggedIn
  BY DEF IInv, InGameIsLoggedIn, AccountInv, Plays, Known, Kept
<1> QED
  BY <1>1, Invariance, PTL

(* The deck a client plays with and the one the server keeps hold only     *)
(* cards of the account, though neither side compares them.                *)
THEOREM DecksStayOwned == Spec => []DeckIsOwned
<1>1. IInv => DeckIsOwned
  BY DEF IInv, DeckIsOwned, AccountInv, Plays, Known, Kept
<1> QED
  BY <1>1, Invariance, PTL

(***************************************************************************)
(* The two copies of a deck.                                               *)
(***************************************************************************)
(* A step that does not concern c.                                         *)
LEMMA DeckFrame ==
  ASSUME NEW c \in Client, DeckInv(c), SameClient(c), missed'[c] = missed[c], SameAccount(c),
         NEW k \in {0, 1}, Shifted(c, k), \A r \in replies' : r.to = c => r \in replies
  PROVE  DeckInv(c)'
<1>1. ASSUME NEW i \in DOMAIN requests', NEW m, m = requests'[i], Mine(m, c)
      PROVE  Saves(m, c)'
  <2>1. Saves(m, c)
    BY <1>1 DEF Shifted, DeckInv
  <2> QED
    BY <2>1 DEF Saves, SameClient, SameAccount, InGame, Known
<1>2. ASSUME NEW r \in replies', r.to = c PROVE Tells(r, c)'
  <2>1. Tells(r, c)
    BY <1>2 DEF DeckInv
  <2> QED
    BY <2>1 DEF Tells, SameClient, SameAccount, Known
<1>3. Keeps(c)'
  BY DEF DeckInv, Keeps, SameClient, SameAccount, InGame, Known
<1> QED
  BY <1>1, <1>2, <1>3 DEF DeckInv, Mine, Saves, InGame, Known

(* A new message of c, after the old ones.                                 *)
LEMMA DeckNewRequest ==
  ASSUME TypeOK, NEW c \in Client, NEW m \in Request, requests' = Append(requests, m),
         \A i \in DOMAIN requests : \A x : x = requests[i] /\ Mine(x, c) => Saves(x, c)',
         Saves(m, c)'
  PROVE  (\A i \in DOMAIN requests : Mine(requests[i], c) => Saves(requests[i], c))'
<1>1. /\ Len(requests) \in Nat /\ DOMAIN requests = 1 .. Len(requests)
      /\ DOMAIN requests' = 1 .. Len(requests) + 1
      /\ \A i \in DOMAIN requests : requests'[i] = requests[i]
      /\ requests'[Len(requests) + 1] = m
  BY AppendFacts DEF TypeOK
<1>2. ASSUME NEW i \in DOMAIN requests', NEW x, x = requests'[i], Mine(x, c)
      PROVE  Saves(x, c)'
  <2>1. CASE i \in DOMAIN requests
    BY <1>1, <1>2, <2>1
  <2>2. CASE i = Len(requests) + 1
    BY <1>1, <1>2, <2>2
  <2> QED
    BY <1>1, <2>1, <2>2
<1> QED
  BY <1>2 DEF Mine, Saves, InGame, Known

(* What the deck of c looks like to the message that is put behind others. *)
LEMMA AskDeck ==
  ASSUME TypeOK, NEW c \in Client, Local(c), DeckInv(c),
         NEW action \in {"LOGIN", "LOGOUT"} \union GameAction,
         NEW typed \in Name \union {NoName}, NEW chosen \in SUBSET Card,
         Ask(c, action, typed, chosen),
         ~ Waiting(c), client[c] # "gone",
         InGame(c)' => InGame(c),
         client'[c] = "see" => action = "SEE_CARDS",
         IF action = "CHANGE_DECK"
           THEN client'[c] = "deck" /\ choice'[c] = chosen
                /\ (Known(c) /\ chosen = {} => "see" \in missed[c])
           ELSE client'[c] \notin {"choose", "deck"} /\ choice'[c] = choice[c],
         client'[c] \in {"in", "draw", "see", "choose"} => client[c] = "in",
         userDeck'[c] = userDeck[c], missed'[c] = missed[c]
  PROVE  DeckInv(c)'
<1>1. /\ asked[c] \in Nat /\ asked'[c] = asked[c] + 1
      /\ SameAccount(c) /\ replies' = replies
  BY DEF Ask, Send, SameAccount, serverVars, accounts, restartVars, TypeOK
<1>2. PICK m \in Request :
        /\ m = [action |-> action, from |-> c, name |-> typed, cards |-> chosen,
                n |-> asked[c] + 1]
        /\ requests' = Append(requests, m)
  BY MessageType DEF ID, Ask, Send
<1>3. m.n = asked[c] + 1 /\ m.action = action /\ m.cards = chosen
  BY <1>2
<1>4. \A i \in DOMAIN requests : requests[i].n \in Nat
  <2>1. \A i \in DOMAIN requests : requests[i] \in Request
    BY LenProperties, ElementOfSeq DEF TypeOK
  <2> QED
    BY <2>1 DEF Request
<1>5. ASSUME NEW i \in DOMAIN requests, NEW x, x = requests[i], Mine(x, c)
      PROVE  Saves(x, c)'
  <2>1. Saves(x, c) /\ x.n \in Nat /\ x.n <= asked[c]
    BY <1>4, <1>5 DEF DeckInv, Local, RequestsInv, Wanted
  <2>2. x.n # asked'[c]
    BY <1>1, <2>1
  <2>3. client[c] # "deck"
    BY DEF Waiting
  <2> QED
    BY <1>1, <2>1, <2>2, <2>3 DEF Saves, SameAccount, Known
<1>6. Saves(m, c)'
  BY <1>1, <1>3 DEF Saves, SameAccount, Known
<1>7. \A r \in replies' : r.to # c
  BY <1>1, NobodyWaits DEF Local
<1>8. Keeps(c)'
  BY <1>1 DEF DeckInv, Keeps, SameAccount, Known, InGame
<1> QED
  BY <1>2, <1>5, <1>6, <1>7, <1>8, DeckNewRequest DEF DeckInv

(* A message of nobody, or of another client, does not concern c.          *)
LEMMA SendDeck ==
  ASSUME TypeOK, NEW c \in Client, DeckInv(c), SameClient(c), missed'[c] = missed[c],
         SameAccount(c), \A r \in replies' : r.to = c => r \in replies,
         NEW action, NEW id, NEW typed, NEW chosen, NEW n, Send(action, id, typed, chosen, n),
         [action |-> action, from |-> id, name |-> typed, cards |-> chosen, n |-> n] \in Request,
         id # c \/ action = "PING"
  PROVE  DeckInv(c)'
<1>1. PICK m \in Request : requests' = Append(requests, m) /\ ~ Mine(m, c)
  BY DEF Send, Mine
<1>2. Shifted(c, 0)
  BY <1>1, SendShifts
<1> QED
  BY <1>2, DeckFrame

LEMMA AskingDeck ==
  ASSUME TypeOK, \A d \in Client : Local(d) /\ DeckInv(d), NEW c \in Client,
         SendLogin(c) \/ SendLogout(c) \/ DrawCard(c) \/ SeeCards(c) \/ ChangeDeck(c)
  PROVE  \A d \in Client : DeckInv(d)'
<1> DEFINE Asks(action, typed, chosen) ==
      /\ Ask(c, action, typed, chosen)
      /\ action = "LOGIN" => client[c] = "menu" /\ client'[c] = "login"
      /\ action = "LOGOUT" => client[c] = "in" /\ client'[c] = "logout"
      /\ action = "OPEN_PACK" => client[c] = "in" /\ client'[c] = "draw"
      /\ action = "SEE_CARDS" => client[c] = "in" /\ client'[c] = "see"
      /\ IF action = "CHANGE_DECK"
           THEN /\ client[c] = "choose" /\ client'[c] = "deck" /\ choice'[c] = chosen
                /\ chosen = {} => choice[c] = {}
           ELSE choice'[c] = choice[c]
      /\ userDeck'[c] = userDeck[c] /\ missed' = missed
      /\ \A d \in Client \ {c} : SameClient(d)
<1>1. PICK action \in {"LOGIN", "LOGOUT"} \union GameAction, typed \in Name \union {NoName},
           chosen \in SUBSET Card : Asks(action, typed, chosen)
  <2>1. CASE SendLogin(c)
    <3>1. PICK typed \in Name : name' = [name EXCEPT ![c] = typed] /\ Ask(c, "LOGIN", typed, {})
      BY <2>1 DEF SendLogin
    <3>2. Asks("LOGIN", typed, {})
      BY <2>1, <3>1 DEF SendLogin, Ask, GoTo, TypeOK, deckVars, SameClient
    <3> QED
      BY <3>2
  <2>2. CASE SendLogout(c)
    <3>1. Asks("LOGOUT", NoName, {})
      BY <2>2 DEF SendLogout, Ask, GoTo, TypeOK, deckVars, SameClient
    <3> QED
      BY <3>1
  <2>3. CASE DrawCard(c)
    <3>1. Asks("OPEN_PACK", NoName, {})
      BY <2>3 DEF DrawCard, Ask, GoTo, TypeOK, deckVars, SameClient
    <3> QED
      BY <3>1 DEF GameAction
  <2>4. CASE SeeCards(c)
    <3>1. Asks("SEE_CARDS", NoName, {})
      BY <2>4 DEF SeeCards, Ask, GoTo, TypeOK, deckVars, SameClient
    <3> QED
      BY <3>1 DEF GameAction
  <2>5. CASE ChangeDeck(c)
    <3>1. PICK chosen \in ChooseDeck(choice[c]) :
            choice' = [choice EXCEPT ![c] = chosen] /\ Ask(c, "CHANGE_DECK", NoName, chosen)
      BY <2>5 DEF ChangeDeck
    <3>2. chosen \in SUBSET Card /\ (chosen = {} => choice[c] = {})
      <4>1. choice[c] \in SUBSET Card
        BY DEF TypeOK
      <4>2. CASE choice[c] = {}
        BY <3>1, <4>2 DEF ChooseDeck
      <4>3. CASE choice[c] # {}
        <5>1. PICK x \in choice[c] : chosen = {x}
          BY <3>1, <4>3 DEF ChooseDeck
        <5> QED
          BY <4>1, <5>1
      <4> QED
        BY <4>2, <4>3
    <3>3. Asks("CHANGE_DECK", NoName, chosen)
      BY <2>5, <3>1, <3>2 DEF ChangeDeck, Ask, GoTo, TypeOK, SameClient
    <3> QED
      BY <3>2, <3>3 DEF GameAction
  <2> QED
    BY <2>1, <2>2, <2>3, <2>4, <2>5
<1>2. DeckInv(c)'
  <2>1. Local(c) /\ DeckInv(c) /\ Ask(c, action, typed, chosen) /\ missed'[c] = missed[c]
    BY <1>1
  <2>2. /\ ~ Waiting(c) /\ client[c] # "gone" /\ (InGame(c)' => InGame(c))
        /\ client'[c] = "see" => action = "SEE_CARDS"
        /\ client'[c] \in {"in", "draw", "see", "choose"} => client[c] = "in"
        /\ action # "CHANGE_DECK" => client'[c] \notin {"choose", "deck"}
    BY <1>1 DEF GameAction, Waiting, InGame
  <2>3. ASSUME action = "CHANGE_DECK", Known(c), chosen = {} PROVE "see" \in missed[c]
    BY <1>1, <2>1, <2>3 DEF DeckInv, Keeps
  <2> QED
    BY <1>1, <2>1, <2>2, <2>3, AskDeck
<1>3. ASSUME NEW d \in Client, d # c PROVE DeckInv(d)'
  <2>1. [action |-> action, from |-> c, name |-> typed, cards |-> chosen, n |-> asked[c] + 1]
          \in Request
    BY MessageType DEF ID
  <2>2. /\ SameClient(d) /\ SameAccount(d) /\ missed'[d] = missed[d] /\ replies' = replies
        /\ Send(action, c, typed, chosen, asked[c] + 1)
    BY <1>1, <1>3 DEF Ask, SameAccount, serverVars, accounts, restartVars
  <2> QED
    BY <1>3, <2>1, <2>2, SendDeck
<1> QED
  BY <1>2, <1>3

(* What c waited for has ended; an answer is the last thing it heard.      *)
LEMMA ProceedDeck ==
  ASSUME TypeOK, NEW c \in Client, Local(c), DeckInv(c), Waiting(c), NEW ok \in BOOLEAN,
         NEW got \in SUBSET Card, Proceed(c, ok, got), \A r \in replies' : r.to # c,
         IF ok THEN \A i \in DOMAIN requests : Mine(requests[i], c) => requests[i].n = 0
               ELSE client[c] \in {"see", "deck"} => client[c] \in missed'[c],
         client[c] # "logout" => missed[c] \subseteq missed'[c],
         ok /\ Known(c) =>
           /\ client[c] = "login" => deck[c] = got /\ got # {}
           /\ client[c] = "see" => got # {}
           /\ client[c] = "deck" => deck[c] = choice[c]
  PROVE  DeckInv(c)'
<1>1. /\ SameAccount(c) /\ requests' = requests /\ asked'[c] = asked[c]
      /\ client'[c] = After(client[c], ok)
      /\ userDeck'[c] = DeckAfter(c, ok, got)
      /\ choice'[c] = IF client[c] = "see" THEN got ELSE {}
  BY DEF Proceed, SameAccount, serverVars, accounts, restartVars, GoTo, TypeOK
<1>2. /\ client'[c] \in {"in", "menu", "choose"}
      /\ InGame(c)' => client[c] # "logout" /\ (InGame(c) \/ (client[c] = "login" /\ ok))
      /\ client'[c] = "choose" => client[c] = "see"
  <2>1. CASE client[c] = "login"
    BY <1>1, <2>1 DEF After, InGame
  <2>2. CASE client[c] = "logout"
    BY <1>1, <2>2 DEF After, InGame
  <2>3. CASE client[c] \in {"draw", "see", "deck"}
    BY <1>1, <2>3 DEF After, InGame
  <2> QED
    BY <2>1, <2>2, <2>3 DEF Waiting
<1>3. ASSUME NEW i \in DOMAIN requests, NEW x, x = requests[i], Mine(x, c)
      PROVE  Saves(x, c)'
  <2>1. Saves(x, c) /\ (ok => ~ Known(c))
    BY <1>3 DEF DeckInv, Local, RequestsInv, Wanted, Known
  <2>2. ASSUME Known(c), InGame(c)', x.action = "CHANGE_DECK"
        PROVE  "deck" \in missed'[c] /\ (x.cards = {} => "see" \in missed'[c])
    BY <1>2, <2>1, <2>2 DEF Saves
  <2> QED
    BY <1>1, <1>2, <2>2 DEF Saves, SameAccount, Known
<1>4. (\A i \in DOMAIN requests : Mine(requests[i], c) => Saves(requests[i], c))'
  BY <1>1, <1>3 DEF Mine, Saves, InGame, Known
<1>5. Keeps(c)'
  <2> SUFFICES ASSUME Known(c)
               PROVE  /\ InGame(c)' /\ userDeck'[c] # deck[c] => "deck" \in missed'[c]
                      /\ InGame(c)' /\ {} \in {userDeck'[c], deck[c]} => "see" \in missed'[c]
                      /\ client'[c] \in {"choose", "deck"} /\ choice'[c] = {} => "see" \in missed'[c]
    BY <1>1 DEF DeckInv, Keeps, SameAccount, Known, InGame
  <2>1. CASE client[c] = "login"
    BY <1>1, <1>2, <2>1 DEF DeckAfter, InGame
  <2>2. CASE client[c] = "logout"
    BY <1>2, <2>2
  <2>3. CASE client[c] = "draw"
    BY <1>1, <1>2, <2>3 DEF DeckInv, Keeps, DeckAfter, InGame
  <2>4. CASE client[c] = "see"
    BY <1>1, <1>2, <2>4 DEF DeckInv, Keeps, DeckAfter, InGame
  <2>5. CASE client[c] = "deck" /\ ok
    BY <1>1, <1>2, <2>5 DEF DeckInv, Keeps, DeckAfter, InGame
  <2>6. CASE client[c] = "deck" /\ ~ ok
    BY <1>1, <1>2, <2>6 DEF DeckInv, Keeps, DeckAfter, InGame
  <2> QED
    BY <2>1, <2>2, <2>3, <2>4, <2>5, <2>6 DEF Waiting
<1> QED
  BY <1>4, <1>5 DEF DeckInv

LEMMA ReceiveDeck ==
  ASSUME TypeOK, \A c \in Client : Local(c) /\ DeckInv(c), NEW r \in replies, ReceiveReply(r)
  PROVE  \A c \in Client : DeckInv(c)'
<1>1. r.to \in Client /\ r.ok \in BOOLEAN /\ r.cards \in SUBSET Card
  BY DEF TypeOK, Reply
<1>2. PICK c \in Client, ok \in BOOLEAN, got \in SUBSET Card :
        c = r.to /\ ok = r.ok /\ got = r.cards
  BY <1>1
<1>3. /\ Waiting(c)
      /\ \A i \in DOMAIN requests : Mine(requests[i], c) => requests[i].n = 0
      /\ \A s \in replies : s.to = c => s = r
      /\ Tells(r, c)
  BY <1>2 DEF Local, RepliesInv, DeckInv
<1>4. /\ Proceed(c, ok, got) /\ replies' = replies \ {r}
      /\ missed' = [missed EXCEPT ![c] = IF client[c] = "logout" THEN {} ELSE @]
  BY <1>2 DEF ReceiveReply
<1>5. /\ missed'[c] = IF client[c] = "logout" THEN {} ELSE missed[c]
      /\ \A d \in Client \ {c} : missed'[d] = missed[d]
  BY <1>4 DEF TypeOK
<1>6. DeckInv(c)'
  <2>1. CASE ok
    BY <1>2, <1>3, <1>4, <1>5, <2>1, ProceedDeck DEF Tells
  <2>2. CASE ~ ok
    <3>1. client[c] \notin {"see", "deck"}
      BY <1>2, <1>3, <2>2 DEF Tells
    <3> QED
      BY <1>2, <1>3, <1>4, <1>5, <2>2, <3>1, ProceedDeck
  <2> QED
    BY <2>1, <2>2
<1>7. ASSUME NEW d \in Client, d # c PROVE DeckInv(d)'
  <2>1. SameClient(d) /\ SameAccount(d) /\ requests' = requests /\ missed'[d] = missed[d]
    BY <1>4, <1>5, <1>7 DEF Proceed, GoTo, SameClient, SameAccount, serverVars, accounts, restartVars, TypeOK
  <2> QED
    BY <1>4, <2>1, StayShifts, DeckFrame
<1> QED
  BY <1>6, <1>7

LEMMA ClientDeck ==
  ASSUME TypeOK, \A d \in Client : Local(d) /\ DeckInv(d), NEW c \in Client, ClientStep(c)
  PROVE  \A d \in Client : DeckInv(d)'
<1>1. CASE GiveUp(c)
  <2>1. /\ Waiting(c) /\ Proceed(c, FALSE, {}) /\ \A r \in replies' : r \in replies /\ r.to # c
        /\ missed'[c] = IF client[c] = "logout" THEN {}
                        ELSE missed[c] \union ({client[c]} \intersect {"see", "deck"})
        /\ \A d \in Client \ {c} : missed'[d] = missed[d]
    BY <1>1 DEF GiveUp, TypeOK
  <2>2. DeckInv(c)'
    <3>1. PICK ok \in BOOLEAN : ~ ok /\ Proceed(c, ok, {})
      BY <2>1
    <3> QED
      BY <2>1, <3>1, ProceedDeck
  <2>3. ASSUME NEW d \in Client, d # c PROVE DeckInv(d)'
    <3>1. SameClient(d) /\ SameAccount(d) /\ requests' = requests /\ missed'[d] = missed[d]
      BY <2>1, <2>3 DEF Proceed, GoTo, SameClient, SameAccount, serverVars, accounts, restartVars, TypeOK
    <3> QED
      BY <2>1, <3>1, StayShifts, DeckFrame
  <2> QED
    BY <2>2, <2>3
<1>2. CASE Beat(c)
  <2> SUFFICES ASSUME NEW d \in Client PROVE DeckInv(d)'
    OBVIOUS
  <2>1. SameClient(d) /\ SameAccount(d) /\ replies' = replies /\ missed'[d] = missed[d]
    BY <1>2 DEF Beat, SameClient, SameAccount, serverVars, accounts, restartVars, clientVars, deckVars
  <2>2. CASE Send("HEARTBEAT", NoID, NoName, {}, 0)
    <3>1. [action |-> "HEARTBEAT", from |-> NoID, name |-> NoName, cards |-> {}, n |-> 0]
            \in Request
      BY MessageType DEF ID
    <3> QED
      BY <2>1, <2>2, <3>1, NoIDAssumption, SendDeck
  <2>3. CASE Send("PING", c, NoName, {}, 0)
    <3>1. [action |-> "PING", from |-> c, name |-> NoName, cards |-> {}, n |-> 0] \in Request
      BY MessageType DEF ID
    <3> QED
      BY <2>1, <2>3, <3>1, SendDeck
  <2> QED
    BY <1>2, <2>2, <2>3 DEF Beat
<1>3. CASE Crash(c)
  <2>1. /\ client'[c] = "gone" /\ requests' = requests /\ \A d \in Client : SameAccount(d)
        /\ \A r \in replies' : r \in replies /\ r.to # c
        /\ \A d \in Client \ {c} : SameClient(d) /\ missed'[d] = missed[d]
    BY <1>3 DEF Crash, GoTo, SameClient, SameAccount, serverVars, accounts, restartVars, TypeOK
  <2>2. DeckInv(c)'
    BY <2>1 DEF DeckInv, Saves, Keeps, InGame, SameAccount, Known
  <2>3. ASSUME NEW d \in Client, d # c PROVE DeckInv(d)'
    BY <2>1, <2>3, StayShifts, DeckFrame
  <2> QED
    BY <2>2, <2>3
<1>4. CASE Interrupt(c)
  <2>1. /\ \A d \in Client : SameClient(d) /\ missed'[d] = missed[d]
        /\ \A d \in Client \ {c} : SameAccount(d)
        /\ ~ Known(c)' /\ replies' = replies
        /\ Send("LOGOUT", c, NoName, {}, 0)
    BY <1>4 DEF Interrupt, SameClient, SameAccount, serverVars, accounts, restartVars, deckVars,
                Known
  <2>2. PICK m \in Request :
          /\ m = [action |-> "LOGOUT", from |-> c, name |-> NoName, cards |-> {}, n |-> 0]
          /\ requests' = Append(requests, m)
    BY <2>1, MessageType DEF Send, ID
  <2>3. DeckInv(c)'
    <3>1. Saves(m, c)'
      <4>1. m.n = 0 /\ (Waiting(c) => asked[c] # 0)
        BY <2>2 DEF Local, AccountInv
      <4> QED
        BY <2>1, <4>1 DEF Saves, SameClient, Waiting
    <3>2. ASSUME NEW i \in DOMAIN requests, NEW x, x = requests[i], Mine(x, c)
          PROVE  Saves(x, c)'
      BY <2>1, <3>2 DEF DeckInv, Saves, SameClient
    <3>3. ASSUME NEW r \in replies', r.to = c PROVE Tells(r, c)'
      BY <2>1, <3>3 DEF DeckInv, Tells, SameClient
    <3>4. Keeps(c)'
      BY <2>1 DEF Keeps
    <3> QED
      BY <2>2, <3>1, <3>2, <3>3, <3>4, DeckNewRequest DEF DeckInv
  <2>4. ASSUME NEW d \in Client, d # c PROVE DeckInv(d)'
    <3>1. [action |-> "LOGOUT", from |-> c, name |-> NoName, cards |-> {}, n |-> 0] \in Request
      BY MessageType DEF ID
    <3> QED
      BY <2>1, <2>4, <3>1, SendDeck
  <2> QED
    BY <2>3, <2>4
<1> QED
  BY <1>1, <1>2, <1>3, <1>4, AskingDeck DEF ClientStep

(* An answer to c, which waits for just that, says of its deck what it is. *)
Fits(action, ok, data, c) ==
  /\ client[c] = "login" => action = "LOGIN"
  /\ client[c] = "see" => action = "SEE_CARDS"
  /\ client[c] = "deck" => action = "CHANGE_DECK" /\ Head(requests).cards = choice[c]
  => \A r : r = [to |-> c, ok |-> ok, cards |-> data] => Tells(r, c)'

(* A request of c was handled.                                             *)
LEMMA HandledDeck ==
  ASSUME TypeOK, WellFormed, \A d \in Client : Local(d) /\ DeckInv(d),
         NEW action \in {"LOGIN", "LOGOUT"} \union GameAction, InHand(action), Finish,
         NEW ok, NEW data, Answer(ok, data), UNCHANGED clientVars,
         NEW c \in Client, Head(requests).from = c,
         \A d \in Client \ {c} : SameAccount(d),
         action # "LOGIN" => (c \in forgotten' <=> c \in forgotten),
         Keeps(c)',
         Fits(action, ok, data, c)
  PROVE  \A d \in Client : DeckInv(d)'
<1> DEFINE m == Head(requests)
<1>1. m.action = action /\ requests # <<>>
  BY InHandFacts
<1>2. /\ Mine(m, c) /\ Wanted(m, c) /\ Saves(m, c) /\ m.n \in Nat
      /\ \A i \in DOMAIN requests' : Mine(requests'[i], c) =>
           Follows(m, requests'[i]) /\ requests'[i].n \in Nat
  <2>1. 1 \in DOMAIN requests /\ m = requests[1]
    BY InHandFacts
  <2> QED
    BY <2>1, Behind DEF Local, DeckInv
<1> HIDE DEF m
<1>3. /\ \A d \in Client : SameClient(d) /\ missed'[d] = missed[d]
      /\ interrupted' = interrupted /\ (Waiting(c) => asked[c] # 0)
  BY DEF clientVars, deckVars, SameClient, Local, AccountInv
<1>4. \A d \in Client : Shifted(d, 1)
  BY <1>1, FinishShifts
<1>5. \A r \in replies' : r \in replies
                          \/ (/\ r = [to |-> c, ok |-> ok, cards |-> data]
                              /\ Waiting(c) /\ asked[c] = m.n)
  BY DEF Answer, m
<1>6. ASSUME NEW i \in DOMAIN requests', NEW x, x = requests'[i], Mine(x, c)
      PROVE  Saves(x, c)'
  <2>1. Saves(x, c)
    BY <1>4, <1>6 DEF Shifted, DeckInv
  <2>2. Known(c)' /\ InGame(c) => Known(c)
    BY <1>1, <1>2, <1>3 DEF Wanted, Known
  <2> QED
    BY <1>3, <2>1, <2>2 DEF Saves, SameClient, InGame
<1>7. ASSUME NEW r \in replies', r.to = c PROVE Tells(r, c)'
  <2>0. CASE r \in replies
    <3>1. 1 \in DOMAIN requests /\ m = requests[1]
      BY InHandFacts DEF m
    <3>2. m.n = 0 /\ Tells(r, c)
      BY <1>2, <1>7, <2>0, <3>1 DEF Local, RepliesInv, DeckInv
    <3>3. ~ Known(c)'
      BY <1>2, <1>3, <3>2 DEF Wanted, Known
    <3> QED
      BY <1>3, <3>2, <3>3 DEF Tells, SameClient
  <2>1. CASE r \notin replies
    <3>1. /\ r = [to |-> c, ok |-> ok, cards |-> data] /\ Waiting(c) /\ asked[c] = m.n
      BY <1>5, <1>7, <2>1
    <3>2. /\ client[c] = "login" => action = "LOGIN"
          /\ client[c] = "see" => action = "SEE_CARDS"
          /\ client[c] = "deck" => action = "CHANGE_DECK" /\ m.cards = choice[c]
      BY <1>1, <1>2, <3>1 DEF Wanted, Saves
    <3> QED
      BY <3>1, <3>2 DEF m, Fits
  <2> QED
    BY <2>0, <2>1
<1>8. DeckInv(c)'
  BY <1>6, <1>7 DEF DeckInv, Mine, Saves, InGame, Known
<1>9. ASSUME NEW d \in Client, d # c PROVE DeckInv(d)'
  <2>1. \A r \in replies' : r.to = d => r \in replies
    BY <1>5, <1>9
  <2> QED
    BY <1>3, <1>4, <1>9, <2>1, DeckFrame
<1> QED
  BY <1>8, <1>9

(* Steps that touch no account, no client and no answer.                   *)
LEMMA IdleDeck ==
  ASSUME TypeOK, \A d \in Client : DeckInv(d),
         UNCHANGED <<accounts, forgotten, clientVars, replies>>,
         requests' = requests \/ (requests # <<>> /\ Finish)
  PROVE  \A d \in Client : DeckInv(d)'
<1> SUFFICES ASSUME NEW d \in Client PROVE DeckInv(d)'
  OBVIOUS
<1>1. SameClient(d) /\ SameAccount(d) /\ missed'[d] = missed[d]
  BY DEF accounts, clientVars, deckVars, SameClient, SameAccount
<1>2. \E k \in {0, 1} : Shifted(d, k)
  BY StayShifts, FinishShifts
<1> QED
  BY <1>1, <1>2, DeckFrame

LEMMA HandlerDeck ==
  ASSUME TypeOK, WellFormed, \A d \in Client : Local(d) /\ DeckInv(d), HandlerStep
  PROVE  \A d \in Client : DeckInv(d)'
<1> DEFINE m == Head(requests)
<1>i. interrupted' = interrupted
  BY DEF HandlerStep, HandleLogin, HandleDrawCard, HandleSeeCards, HandleChangeDeck, LogoutUser,
         LogoutActive, HandleHeartbeat, HandlePing, clientVars
<1>0. /\ deck \in [Client -> SUBSET Card] /\ cards \in [Client -> SUBSET Card]
      /\ users \in [Client -> Name \union {NoName, Absent}]
  BY DEF TypeOK
<1>w. ASSUME NEW action \in {"LOGIN", "LOGOUT"} \union GameAction, InHand(action),
             NEW c \in Client, m.from = c
      PROVE  Wanted(m, c) /\ Saves(m, c) /\ m.action = action
  <2>1. m.action = action /\ 1 \in DOMAIN requests /\ m = requests[1]
    BY <1>w, InHandFacts
  <2>2. Mine(m, c)
    BY <1>w, <2>1 DEF Mine, GameAction
  <2> QED
    BY <2>1, <2>2 DEF Local, RequestsInv, DeckInv
<1>k. ASSUME NEW c \in Client, UNCHANGED clientVars, deck'[c] = deck[c], users'[c] = users[c],
             cards[c] \subseteq cards'[c], Known(c)' => Known(c)
      PROVE  Keeps(c)'
  <2>1. client' = client /\ missed' = missed /\ choice' = choice /\ userDeck' = userDeck
    BY <1>k DEF clientVars, deckVars
  <2>2. Keeps(c)
    BY DEF DeckInv
  <2> QED
    BY <1>k, <2>1, <2>2 DEF Keeps, InGame, Known
<1>1. CASE HandleLogin
  <2>0. PICK c \in Client : m.from = c
    BY <1>1, InHandFacts DEF HandleLogin
  <2>1. m.name \in Name /\ InHand("LOGIN") /\ Finish /\ UNCHANGED clientVars
    BY <1>1, InHandFacts DEF HandleLogin
  <2>2. Known(c)' => ~ InGame(c)
    BY <1>w, <2>0, <2>1 DEF Wanted, Known, clientVars
  <2>3. (Known(c)' => ~ InGame(c)') /\ client' = client
    BY <2>1, <2>2 DEF InGame, clientVars
  <2>4. CASE NameTaken(m.name)
    <3>1. Answer(FALSE, {}) /\ UNCHANGED <<accounts, forgotten>>
      BY <1>1, <2>4 DEF HandleLogin
    <3>2. \A d \in Client : SameAccount(d)
      BY <1>i, <3>1 DEF accounts, SameAccount
    <3>3. Keeps(c)'
      BY <1>i, <1>k, <2>1, <3>1 DEF accounts, Known
    <3>4. PICK ok : ok = FALSE /\ Answer(ok, {})
      BY <3>1
    <3>5. Fits("LOGIN", ok, {}, c)
      BY <2>3, <3>4 DEF Tells, Fits
    <3> QED
      BY <2>0, <2>1, <3>2, <3>3, <3>4, <3>5, HandledDeck
  <2>5. CASE ~ NameTaken(m.name)
    <3>1. /\ Answer(TRUE, {Basic})
          /\ users' = [users EXCEPT ![c] = m.name]
          /\ cards' = [cards EXCEPT ![c] = {Basic}]
          /\ deck' = [deck EXCEPT ![c] = {Basic}]
          /\ forgotten' = forgotten \ {c}
      BY <1>1, <2>0, <2>5 DEF HandleLogin
    <3>2. /\ \A d \in Client \ {c} : SameAccount(d)
          /\ users'[c] = m.name /\ cards'[c] = {Basic} /\ deck'[c] = {Basic}
      BY <1>i, <1>0, <2>1, <3>1 DEF SameAccount
    <3>3. Keeps(c)'
      BY <2>3, <3>2 DEF Keeps, InGame
    <3>4. Fits("LOGIN", TRUE, {Basic}, c)
      BY <2>3, <3>2 DEF Tells, Fits
    <3> QED
      BY <2>0, <2>1, <3>1, <3>2, <3>3, <3>4, HandledDeck
  <2> QED
    BY <2>4, <2>5
<1>2. CASE HandleDrawCard
  <2>0. PICK c \in Client : m.from = c
    BY <1>2, InHandFacts DEF HandleDrawCard
  <2>1. InHand("OPEN_PACK") /\ Finish /\ UNCHANGED <<users, deck, forgotten, clientVars>>
    BY <1>2 DEF HandleDrawCard, restartVars
  <2>2. PICK ok \in BOOLEAN :
          /\ Answer(ok, {})
          /\ \/ UNCHANGED cards
             \/ \E x \in Card :
                  cards' = [cards EXCEPT ![c] = IF users[c] = Absent THEN @
                                                     ELSE @ \union {x}]
    BY <1>2, <2>0 DEF HandleDrawCard
  <2>3. /\ \A d \in Client \ {c} : SameAccount(d)
        /\ cards[c] \subseteq cards'[c]
        /\ users'[c] = users[c] /\ deck'[c] = deck[c]
    <3>1. CASE UNCHANGED cards
      BY <1>i, <2>1, <3>1 DEF SameAccount
    <3>2. ASSUME NEW S, cards' = [cards EXCEPT ![c] = S], cards[c] \subseteq S
          PROVE  /\ \A d \in Client \ {c} : SameAccount(d)
                 /\ cards[c] \subseteq cards'[c]
      BY <1>i, <1>0, <2>1, <3>2 DEF SameAccount
    <3> QED
      BY <2>1, <2>2, <3>1, <3>2
  <2>4. Keeps(c)'
    BY <1>i, <1>k, <2>1, <2>3 DEF Known
  <2>5. Fits("OPEN_PACK", ok, {}, c)
    BY <2>1 DEF Tells, Fits, clientVars
  <2> QED
    BY <2>0, <2>1, <2>2, <2>3, <2>4, <2>5, HandledDeck DEF GameAction
<1>3. CASE HandleSeeCards
  <2>0. PICK c \in Client : m.from = c
    BY <1>3, InHandFacts DEF HandleSeeCards
  <2>1. InHand("SEE_CARDS") /\ Finish /\ UNCHANGED <<accounts, forgotten, clientVars>>
    BY <1>3 DEF HandleSeeCards, restartVars
  <2>2. PICK ok, data : ok = TRUE /\ data = cards[c] /\ Answer(ok, data)
    BY <1>3, <2>0 DEF HandleSeeCards
  <2>3. \A d \in Client : SameAccount(d)
    BY <1>i, <2>1 DEF accounts, SameAccount
  <2>4. Keeps(c)'
    BY <1>i, <1>k, <2>1 DEF accounts, Known
  <2>5. Known(c) => cards[c] # {}
    <3>1. Known(c) => users[c] \in Name
      BY <1>w, <2>0, <2>1 DEF Wanted, GameAction
    <3> QED
      BY <3>1 DEF DeckInv, Keeps
  <2>6. Fits("SEE_CARDS", ok, data, c)
    BY <2>1, <2>2, <2>5 DEF Tells, Fits, clientVars, Known
  <2> QED
    BY <2>0, <2>1, <2>2, <2>3, <2>4, <2>6, HandledDeck DEF GameAction
<1>4. CASE HandleChangeDeck
  <2>0. PICK c \in Client : m.from = c
    BY <1>4, InHandFacts DEF HandleChangeDeck
  <2>1. /\ InHand("CHANGE_DECK") /\ Finish /\ UNCHANGED <<cards, forgotten, clientVars>>
    BY <1>4 DEF HandleChangeDeck, restartVars
  <2>a. PICK ok : ok = TRUE /\ Answer(ok, {})
    BY <1>4 DEF HandleChangeDeck
  <2>2. /\ Known(c) => users[c] \in Name
        /\ Saves(m, c) /\ m.action = "CHANGE_DECK"
    BY <1>w, <2>0, <2>1 DEF Wanted, GameAction
  <2>3. /\ users' = [users EXCEPT ![c] = IF @ = Absent THEN NoName ELSE @]
        /\ deck' = [deck EXCEPT ![c] = m.cards]
    BY <1>4, <2>0 DEF HandleChangeDeck
  <2>4. /\ \A d \in Client \ {c} : SameAccount(d)
        /\ deck'[c] = m.cards /\ (Known(c) => users'[c] = users[c])
    BY <1>i, <1>0, <2>1, <2>2, <2>3, NameAssumption DEF SameAccount
  <2>5. client' = client /\ missed' = missed /\ choice' = choice /\ userDeck' = userDeck
    BY <2>1 DEF clientVars, deckVars
  <2>6. Keeps(c)'
    <3>1. Keeps(c)
      BY DEF DeckInv
    <3> QED
      BY <1>i, <2>1, <2>2, <2>4, <2>5, <3>1 DEF Keeps, Saves, InGame, Known
  <2>7. Fits("CHANGE_DECK", ok, {}, c)
    BY <2>4, <2>5, <2>a DEF Tells, Fits
  <2> QED
    BY <2>0, <2>1, <2>a, <2>4, <2>6, <2>7, HandledDeck DEF GameAction
<1>5. CASE LogoutUser
  <2>0. PICK c \in Client : m.from = c
    BY <1>5, InHandFacts DEF LogoutUser
  <2>1. InHand("LOGOUT") /\ UNCHANGED <<requests, replies, forgotten, clientVars>>
    BY <1>5 DEF LogoutUser, restartVars
  <2>2. /\ \A d \in Client : SameClient(d) /\ missed'[d] = missed[d]
        /\ \A d \in Client \ {c} : SameAccount(d)
        /\ users'[c] = Absent /\ client' = client
    BY <1>5, <2>0, <2>1 DEF LogoutUser, DeleteUser, SameClient, SameAccount, clientVars, deckVars
  <2>3. /\ Known(c) => ~ InGame(c) /\ \A r \in replies : r.to # c
        /\ Known(c)' <=> Known(c)
    <3>1. 1 \in DOMAIN requests /\ m = requests[1] /\ Mine(m, c)
      BY <2>0, <2>1, InHandFacts DEF Mine
    <3>2. Known(c)' <=> Known(c)
      BY <2>1 DEF Known, clientVars
    <3> QED
      BY <1>w, <2>0, <2>1, <3>1, <3>2 DEF Wanted, Local, RepliesInv, Known
  <2>4. Keeps(c)'
    BY <2>2, <2>3, NameAssumption DEF Keeps, InGame
  <2>r. ASSUME NEW r \in replies, r.to = c PROVE Tells(r, c)'
    BY <2>2, <2>3, <2>r DEF Tells, DeckInv
  <2>5. ASSUME NEW i \in DOMAIN requests, NEW x, x = requests[i], Mine(x, c)
        PROVE  Saves(x, c)'
    BY <2>1, <2>2, <2>3, <2>5 DEF Saves, InGame, DeckInv, SameClient
  <2>6. DeckInv(c)'
    BY <2>1, <2>4, <2>5, <2>r DEF DeckInv, Mine, Saves, InGame, Known
  <2>7. ASSUME NEW d \in Client, d # c PROVE DeckInv(d)'
    BY <2>1, <2>2, <2>7, StayShifts, DeckFrame
  <2> QED
    BY <2>6, <2>7
<1>6. CASE LogoutActive
  <2>0. PICK c \in Client : m.from = c
    BY <1>6, InHandFacts DEF LogoutActive
  <2>1. /\ InHand("LOGOUT") /\ UNCHANGED <<accounts, forgotten, clientVars>>
        /\ UNCHANGED <<requests, replies>> \/ (Finish /\ Answer(TRUE, {}))
    BY <1>6 DEF LogoutActive, restartVars
  <2>2. CASE UNCHANGED <<requests, replies>>
    BY <2>1, <2>2, IdleDeck
  <2>3. CASE Finish /\ Answer(TRUE, {})
    <3>1. \A d \in Client : SameAccount(d)
      BY <1>i, <2>1 DEF accounts, SameAccount
    <3>2. Keeps(c)'
      BY <1>i, <1>k, <2>1 DEF accounts, Known
    <3>a. PICK ok : Answer(ok, {})
      BY <2>3
    <3>3. Fits("LOGOUT", ok, {}, c)
      BY <2>1 DEF Tells, Fits, clientVars
    <3> QED
      BY <2>0, <2>1, <2>3, <3>1, <3>2, <3>a, <3>3, HandledDeck
  <2> QED
    BY <2>1, <2>2, <2>3
<1>7. CASE HandleHeartbeat \/ HandlePing
  <2>1. /\ requests # <<>> /\ Finish
        /\ UNCHANGED <<accounts, forgotten, clientVars, replies>>
    BY <1>7 DEF HandleHeartbeat, HandlePing, InHand, restartVars
  <2> QED
    BY <2>1, IdleDeck
<1> QED
  BY <1>1, <1>2, <1>3, <1>4, <1>5, <1>6, <1>7 DEF HandlerStep

LEMMA NextDeck ==
  IInv /\ (\A c \in Client : DeckInv(c)) /\ [Next]_vars => (\A c \in Client : DeckInv(c))'
<1> SUFFICES ASSUME IInv, \A c \in Client : DeckInv(c), [Next]_vars
             PROVE  \A c \in Client : DeckInv(c)'
  OBVIOUS
<1>0. TypeOK /\ WellFormed /\ OnlyNoIDIsActive /\ \A c \in Client : Local(c) /\ DeckInv(c)
  BY DEF IInv, Local
<1>1. CASE Restart
  <2> SUFFICES ASSUME NEW c \in Client PROVE DeckInv(c)'
    OBVIOUS
  <2>1. /\ DOMAIN requests' = {} /\ replies' = replies /\ ~ Known(c)'
        /\ client' = client
    BY <1>1 DEF Restart, Known, clientVars
  <2>2. \A r \in replies' : r.to = c => Tells(r, c)'
    BY <2>1 DEF DeckInv, Tells
  <2> QED
    BY <2>1, <2>2 DEF DeckInv, Keeps
<1>2. CASE MonitorStep \/ \E id \in ID : FallSilent(id)
  <2>1. UNCHANGED <<requests, accounts>>
    BY <1>0, <1>2, MonitorLocal
  <2>2. UNCHANGED <<forgotten, clientVars, replies>>
    BY <1>2 DEF MonitorStep, StartRound, LookAt, DropUser, EndRound, FallSilent, restartVars
  <2> QED
    BY <1>0, <2>1, <2>2, IdleDeck
<1>3. CASE UNCHANGED vars
  <2>1. UNCHANGED <<requests, accounts, forgotten, clientVars, replies>>
    BY <1>3 DEF vars, serverVars, restartVars
  <2> QED
    BY <1>0, <2>1, IdleDeck
<1> QED
  BY <1>0, <1>1, <1>2, <1>3, HandlerDeck, ClientDeck, ReceiveDeck DEF Next

(* What waiting requests and answers on their way say of a client's deck.  *)
THEOREM DeckInvariance == Spec => [](\A c \in Client : DeckInv(c))
<1>1. Init => \A c \in Client : DeckInv(c)
  <2> SUFFICES ASSUME Init, NEW c \in Client PROVE DeckInv(c)
    OBVIOUS
  <2>1. DOMAIN requests = {}
    BY LenProperties, EmptySeq DEF Init
  <2>2. client[c] = "menu" /\ users[c] = Absent /\ replies = {}
    BY DEF Init
  <2> QED
    BY <2>1, <2>2, NameAssumption DEF DeckInv, Keeps, InGame
<1> QED
  BY <1>1, NextDeck, Invariance, PTL DEF Spec

(* The deck a client plays with is the one the server has of it, and not   *)
(* empty, unless since its login it gave up waiting for the answer to a    *)
(* CHANGE_DECK, or to the SEE_CARDS before it (handleChangeDeck): a        *)
(* CHANGE_DECK given up in an earlier login, or before a restart, does no  *)
(* harm, since HandleLogin makes the account anew.                         *)
THEOREM DecksStayEqual == Spec => []DecksAgree
<1>1. (\A c \in Client : DeckInv(c)) => DecksAgree
  BY DEF DeckInv, Keeps, DecksAgree, Known, Kept
<1> QED
  BY <1>1, DeckInvariance, PTL

=============================================================================
