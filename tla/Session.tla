------------------------------- MODULE Session -------------------------------
(***************************************************************************)
(* Who is logged in at one server, with which cards and deck               *)
(* (server/handlers/handlers.go): the handlers that the server's one NATS  *)
(* callback goroutine runs in the order the requests came                  *)
(* (server/pubSub/pubSub.go), the goroutine of StartHeartbeatMonitor, and  *)
(* the clients' side (client/main.go).  Each client plays with a copy of   *)
(* the deck of its own.                                                    *)
(*                                                                         *)
(* server.Users is under server.Mu, activeClients under mu.  No handler    *)
(* waits inside a section of its own, so each section is one step; the     *)
(* monitor keeps mu over its whole round.  The request in hand is the head *)
(* of requests.                                                            *)
(*                                                                         *)
(* Basic stands for the five cards of HandleLogin, and a deck is told by   *)
(* one card of it, or is empty.  SEE_CARDS and SEE_DECK as such only show  *)
(* what is there; they are left out.                                       *)
(***************************************************************************)
EXTENDS Naturals, Sequences, FiniteSets, SequencesExt

CONSTANTS
  Client,       \* the ids of the client processes
  NoID,         \* the empty ClientID, which startHeartbeat leaves in its requests
  Name,         \* the user names
  NoName,       \* the empty name
  Absent,       \* users[c] when server.Users has no c
  Card,         \* the cards there are
  Basic,        \* those that everyone gets at login
  MaxRequests,  \* bound: MaxRequests[c], requests that c waits for
  Signalled,    \* bound: the clients that a signal may reach
  MaxRestarts,  \* bound: times the server starts again
  MaxPending    \* bound: messages that wait to be handled

ASSUME NoIDAssumption == NoID \notin Client
ASSUME NameAssumption == NoName \notin Name /\ Absent \notin Name \union {NoName}
ASSUME CardAssumption == Basic \in Card
ASSUME MaxRequestsAssumption == MaxRequests \in [Client -> Nat]
ASSUME MaxRestartsAssumption == MaxRestarts \in Nat
ASSUME MaxPendingAssumption == MaxPending \in Nat

VARIABLES
  users,        \* server.Users: the name each client is logged in with
  cards,        \* and its Cards, {} for a client that is absent
  deck,         \* and its Deck
  active,       \* activeClients: "absent", or the entry's State
  silent,       \* silent[id]: is id's LastSeen more than disconnectTimeout ago
  restarts,     \* times the server has started again
  forgotten,    \* clients it has not accepted a LOGIN of since it did
  requests,     \* messages on server.<id>.requests
  step,         \* how far the handler of Head(requests) is
  replies,      \* answers on their way
  mu,           \* who holds mu between its steps: "free" or "monitor"
  monitor,      \* where the monitor is in its round
  todo,         \* the ids of this round the monitor has yet to look at
  client,       \* client[c]: where the process c is
  name,         \* name[c]: the name its user typed last
  asked,        \* asked[c]: requests it has waited for
  interrupted,  \* clients whose signal goroutine logs out, or has
  beating,      \* beating[c]: do the heartbeat and ping goroutines of c run
  userDeck,     \* userDeck[c]: user.Deck of the process c, which it plays with
  choice,       \* choice[c]: the cards it chooses from, then the deck it saves
  missed        \* missed[c]: which answers about its deck c gave up since login

accounts == <<users, cards, deck>>
monitorVars == <<active, silent, mu, monitor, todo>>
restartVars == <<restarts, forgotten>>
serverVars == <<accounts, monitorVars, restartVars, step>>
deckVars == <<userDeck, choice, missed>>
clientVars == <<client, name, asked, interrupted, beating, deckVars>>
vars == <<serverVars, clientVars, requests, replies>>

ID == Client \union {NoID}
Request == [action : {"LOGIN", "LOGOUT", "HEARTBEAT", "PING", "OPEN_PACK", "SEE_CARDS",
                      "CHANGE_DECK"},
            from : ID, name : Name \union {NoName}, cards : SUBSET Card, n : Nat]
Reply == [to : Client, ok : BOOLEAN, cards : SUBSET Card]

Init ==
  /\ users = [c \in Client |-> Absent]
  /\ cards = [c \in Client |-> {}]
  /\ deck = [c \in Client |-> {}]
  /\ active = [id \in ID |-> "absent"]
  /\ silent = [id \in ID |-> FALSE]
  /\ restarts = 0
  /\ forgotten = {}
  /\ requests = <<>>
  /\ step = "start"
  /\ replies = {}
  /\ mu = "free"
  /\ monitor = "asleep"
  /\ todo = {}
  /\ client = [c \in Client |-> "menu"]
  /\ name = [c \in Client |-> NoName]
  /\ asked = [c \in Client |-> 0]
  /\ interrupted = {}
  /\ beating = [c \in Client |-> FALSE]
  /\ userDeck = [c \in Client |-> {}]
  /\ choice = [c \in Client |-> {}]
  /\ missed = [c \in Client |-> {}]

(***************************************************************************)
(* The clients.  A request that is waited for gives up after 5s.           *)
(***************************************************************************)
Send(action, id, typed, chosen, n) ==
  /\ Len(requests) < MaxPending
  /\ requests' = Append(requests,
       [action |-> action, from |-> id, name |-> typed, cards |-> chosen, n |-> n])

Ask(c, action, typed, chosen) ==
  /\ asked[c] < MaxRequests[c]
  /\ asked' = [asked EXCEPT ![c] = @ + 1]
  /\ Send(action, c, typed, chosen, asked[c] + 1)
  /\ UNCHANGED <<serverVars, replies, interrupted>>

GoTo(c, place) == client' = [client EXCEPT ![c] = place]

SendLogin(c) ==
  /\ client[c] = "menu"
  /\ GoTo(c, "login")
  /\ \E typed \in Name :
       /\ name' = [name EXCEPT ![c] = typed]
       /\ Ask(c, "LOGIN", typed, {})
  /\ UNCHANGED <<beating, deckVars>>

SendLogout(c) ==
  /\ client[c] = "in"
  /\ GoTo(c, "logout")
  /\ Ask(c, "LOGOUT", NoName, {})
  /\ UNCHANGED <<name, beating, deckVars>>

DrawCard(c) ==
  /\ client[c] = "in"
  /\ GoTo(c, "draw")
  /\ Ask(c, "OPEN_PACK", NoName, {})
  /\ UNCHANGED <<name, beating, deckVars>>

(* handleChangeDeck: the cards of the account first.                       *)
SeeCards(c) ==
  /\ client[c] = "in"
  /\ GoTo(c, "see")
  /\ Ask(c, "SEE_CARDS", NoName, {})
  /\ UNCHANGED <<name, beating, deckVars>>

(* Mutant: the number the player types is not compared with the list. *)
ChooseAny(shown) == {{x} : x \in Card}
(* choseDeck: cards of the list, or none if there is no list.              *)
ChooseDeck(shown) == IF shown = {} THEN {{}} ELSE {{x} : x \in shown}

(* Then the deck that the player chose is sent.                            *)
ChangeDeck(c) ==
  /\ client[c] = "choose"
  /\ GoTo(c, "deck")
  /\ \E chosen \in ChooseDeck(choice[c]) :
       /\ choice' = [choice EXCEPT ![c] = chosen]
       /\ Ask(c, "CHANGE_DECK", NoName, chosen)
  /\ UNCHANGED <<name, beating, userDeck, missed>>

Waiting(c) == client[c] \in {"login", "logout", "draw", "see", "deck"}

(* Mutant: a refused login goes on to the game as well. *)
AfterAny(place, ok) ==
  CASE place \in {"login", "draw", "deck"} -> "in"
    [] place = "see" -> "choose"
    [] place = "logout" -> "menu"

(* Where a client goes when its request is answered, or is given up.  The  *)
(* logout goes back to the main menu whatever comes of it.                 *)
After(place, ok) ==
  CASE place = "login" -> IF ok THEN "in" ELSE "menu"
    [] place \in {"draw", "deck"} -> "in"
    [] place = "see" -> "choose"
    [] place = "logout" -> "menu"

(* The deck of the account at login; a new one once the server has it;     *)
(* the process forgets its user when the game loop returns.                *)
DeckAfter(c, ok, got) ==
  CASE client[c] = "login" /\ ok -> got
    [] client[c] = "deck" /\ ok -> choice[c]
    [] client[c] = "logout" -> {}
    [] OTHER -> userDeck[c]

(* What the client does once its request has ended.                        *)
Proceed(c, ok, got) ==
  /\ GoTo(c, After(client[c], ok))
  /\ userDeck' = [userDeck EXCEPT ![c] = DeckAfter(c, ok, got)]
  /\ choice' = [choice EXCEPT ![c] = IF client[c] = "see" THEN got ELSE {}]
  /\ UNCHANGED <<serverVars, requests, name, asked, interrupted>>

ReceiveReply(r) ==
  LET c == r.to
  IN /\ replies' = replies \ {r}
     /\ Proceed(c, r.ok, r.cards)
     /\ beating' = [beating EXCEPT ![c] = @ \/ (client[c] = "login" /\ r.ok)]
     /\ missed' = [missed EXCEPT ![c] = IF client[c] = "logout" THEN {} ELSE @]

(* nc.Request unsubscribes: an answer that comes later finds nobody.       *)
GiveUp(c) ==
  /\ Waiting(c)
  /\ replies' = {r \in replies : r.to # c}
  /\ Proceed(c, FALSE, {})
  /\ missed' = [missed EXCEPT ![c] =
       IF client[c] = "logout" THEN {} ELSE @ \union ({client[c]} \intersect {"see", "deck"})]
  /\ UNCHANGED beating

(* startHeartbeat and startPingLoop, which never stop while the process    *)
(* lives.  One such message is under way at a time: the next one would say *)
(* the same.                                                               *)
Beat(c) ==
  /\ beating[c]
  /\ \A i \in DOMAIN requests : requests[i].action \notin {"HEARTBEAT", "PING"}
  /\ Send("HEARTBEAT", NoID, NoName, {}, 0) \/ Send("PING", c, NoName, {}, 0)
  /\ UNCHANGED <<serverVars, replies, clientVars>>

(* The process dies, or its machine, or its connection; after an interrupt *)
(* it is os.Exit, once the logout is answered or given up, at latest.      *)
Crash(c) ==
  /\ client[c] # "gone"
  /\ GoTo(c, "gone")
  /\ beating' = [beating EXCEPT ![c] = FALSE]
  /\ replies' = {r \in replies : r.to # c}
  /\ userDeck' = [userDeck EXCEPT ![c] = {}]
  /\ choice' = [choice EXCEPT ![c] = {}]
  /\ missed' = [missed EXCEPT ![c] = {}]
  /\ UNCHANGED <<serverVars, requests, name, asked, interrupted>>

(* SIGINT or SIGTERM: a goroutine of its own asks for a logout and waits   *)
(* for the answer, up to 5s.  The rest of the process goes on meanwhile,   *)
(* and does not look at that answer.                                       *)
Interrupt(c) ==
  /\ client[c] # "gone"
  /\ c \in Signalled \ interrupted
  /\ interrupted' = interrupted \union {c}
  /\ Send("LOGOUT", c, NoName, {}, 0)
  /\ UNCHANGED <<serverVars, replies, client, name, asked, beating, deckVars>>

(***************************************************************************)
(* The handlers.                                                           *)
(***************************************************************************)
InHand(action) == requests # <<>> /\ Head(requests).action = action

(* Mutant: the next request starts where this one ended. *)
FinishInPlace == requests' = Tail(requests) /\ UNCHANGED step
Finish == requests' = Tail(requests) /\ step' = "start"

(* An answer reaches a client that still waits for it.                     *)
Answer(ok, data) ==
  LET r == Head(requests)
  IN replies' = IF Waiting(r.from) /\ asked[r.from] = r.n
                  THEN replies \union {[to |-> r.from, ok |-> ok, cards |-> data]}
                  ELSE replies

(* Mutant: the name of a client that sends no heartbeat counts as free. *)
NameTakenByActive(typed) == \E c \in Client : users[c] = typed /\ active[c] # "absent"
NameTaken(typed) == \E c \in Client : users[c] = typed

HandleLogin ==
  /\ InHand("LOGIN")
  /\ LET r == Head(requests)
     IN IF NameTaken(r.name)
          THEN Answer(FALSE, {}) /\ UNCHANGED <<accounts, forgotten>>
          ELSE /\ Answer(TRUE, {Basic})
               /\ forgotten' = forgotten \ {r.from}
               /\ users' = [users EXCEPT ![r.from] = r.name]
               /\ cards' = [cards EXCEPT ![r.from] = {Basic}]
               /\ deck' = [deck EXCEPT ![r.from] = {Basic}]
  /\ Finish
  /\ UNCHANGED <<monitorVars, restarts, clientVars>>

(* The card is saved if its player is logged in; nothing is drawn without  *)
(* a leader, or with an empty stock (CardStock).                           *)
HandleDrawCard ==
  /\ InHand("OPEN_PACK")
  /\ LET c == Head(requests).from
     IN \/ /\ Answer(TRUE, {})
           /\ \E x \in Card \ {Basic} :
                cards' = [cards EXCEPT ![c] = IF users[c] = Absent THEN @ ELSE @ \union {x}]
        \/ Answer(FALSE, {}) /\ UNCHANGED cards
  /\ Finish
  /\ UNCHANGED <<users, deck, monitorVars, restartVars, clientVars>>

HandleSeeCards ==
  /\ InHand("SEE_CARDS")
  /\ Answer(TRUE, cards[Head(requests).from])
  /\ Finish
  /\ UNCHANGED <<accounts, monitorVars, restartVars, clientVars>>

(* Mutant: the copy of the map's entry is changed, and not put back. *)
HandleChangeDeckOfCopy ==
  /\ InHand("CHANGE_DECK")
  /\ Answer(TRUE, {})
  /\ Finish
  /\ UNCHANGED <<accounts, monitorVars, restartVars, clientVars>>

(* The deck is not compared with the cards.  The map entry of an unknown   *)
(* client would be made anew, without a name.                              *)
HandleChangeDeck ==
  /\ InHand("CHANGE_DECK")
  /\ LET r == Head(requests)
     IN /\ users' = [users EXCEPT ![r.from] = IF @ = Absent THEN NoName ELSE @]
        /\ deck' = [deck EXCEPT ![r.from] = r.cards]
  /\ Answer(TRUE, {})
  /\ Finish
  /\ UNCHANGED <<cards, monitorVars, restartVars, clientVars>>

(* delete(server.Users, id), for which id need not be there.               *)
DeleteUser(id) ==
  /\ users' = [c \in Client |-> IF c = id THEN Absent ELSE users[c]]
  /\ cards' = [c \in Client |-> IF c = id THEN {} ELSE cards[c]]
  /\ deck' = [c \in Client |-> IF c = id THEN {} ELSE deck[c]]

(* HandleLogout: server.Users, then activeClients, then DisconnectClient,  *)
(* which does both again.                                                  *)
LogoutUser ==
  /\ InHand("LOGOUT")
  /\ step \in {"start", "disconnect"}
  /\ DeleteUser(Head(requests).from)
  /\ step' = IF step = "start" THEN "active" ELSE "disconnected"
  /\ UNCHANGED <<monitorVars, requests, replies, restartVars, clientVars>>

LogoutActive ==
  /\ InHand("LOGOUT")
  /\ step \in {"active", "disconnected"}
  /\ mu = "free"
  /\ active' = [active EXCEPT ![Head(requests).from] = "absent"]
  /\ IF step = "active"
       THEN step' = "disconnect" /\ UNCHANGED <<requests, replies>>
       ELSE Finish /\ Answer(TRUE, {})
  /\ UNCHANGED <<accounts, silent, mu, monitor, todo, restartVars, clientVars>>

HandleHeartbeat ==
  /\ InHand("HEARTBEAT")
  /\ mu = "free"
  /\ active' = [active EXCEPT ![Head(requests).from] = "active"]
  /\ silent' = [silent EXCEPT ![Head(requests).from] = FALSE]
  /\ Finish
  /\ UNCHANGED <<accounts, mu, monitor, todo, replies, restartVars, clientVars>>

(* Mutant: the early return for an unknown client keeps mu. *)
HandlePingLocked ==
  /\ InHand("PING")
  /\ mu = "free"
  /\ mu' = IF active[Head(requests).from] = "absent" THEN "ping" ELSE "free"
  /\ Finish
  /\ UNCHANGED <<accounts, active, silent, monitor, todo, replies, restartVars, clientVars>>

(* A ping refreshes an entry that is there and makes none.                 *)
HandlePing ==
  /\ InHand("PING")
  /\ mu = "free"
  /\ LET id == Head(requests).from
     IN IF active[id] # "absent"
          THEN /\ active' = [active EXCEPT ![id] = "active"]
               /\ silent' = [silent EXCEPT ![id] = FALSE]
          ELSE UNCHANGED <<active, silent>>
  /\ Finish
  /\ UNCHANGED <<accounts, mu, monitor, todo, replies, restartVars, clientVars>>

(***************************************************************************)
(* StartHeartbeatMonitor.                                                  *)
(***************************************************************************)
StartRound ==
  /\ monitor = "asleep"
  /\ mu = "free"
  /\ mu' = "monitor"
  /\ monitor' = "looking"
  /\ todo' = {id \in ID : active[id] # "absent"}
  /\ UNCHANGED <<accounts, active, silent, step, requests, replies, restartVars, clientVars>>

LookAt(id) ==
  /\ monitor = "looking"
  /\ id \in todo
  /\ ~ silent[id]
  /\ active' = [active EXCEPT ![id] = "waiting"]
  /\ todo' = todo \ {id}
  /\ UNCHANGED <<accounts, silent, step, mu, monitor, requests, replies, restartVars, clientVars>>

(* DisconnectClient deletes the user under server.Mu; then it waits for mu,  *)
(* which the monitor holds already: there is no further step of this round. *)
DropUser(id) ==
  /\ monitor = "looking"
  /\ id \in todo
  /\ silent[id]
  /\ DeleteUser(id)
  /\ monitor' = "relocking"
  /\ UNCHANGED <<active, silent, step, mu, todo, requests, replies, restartVars, clientVars>>

EndRound ==
  /\ monitor = "looking"
  /\ todo = {}
  /\ mu' = "free"
  /\ monitor' = "asleep"
  /\ UNCHANGED <<accounts, active, silent, step, todo, requests, replies, restartVars,
                 clientVars>>

(* 30s pass without a message of id.  HEARTBEATs all come under NoID, one  *)
(* every 5s from each client whose goroutines run.                         *)
FallSilent(id) ==
  /\ active[id] # "absent"
  /\ ~ silent[id]
  /\ \A c \in Client : ~ beating[c]
  /\ silent' = [silent EXCEPT ![id] = TRUE]
  /\ UNCHANGED <<accounts, active, step, mu, monitor, todo, requests, replies, restartVars,
                 clientVars>>

(* The process of the server ends and starts again, without the accounts:  *)
(* they, and the requests of its subscription, were in its memory only.    *)
Restart ==
  /\ restarts < MaxRestarts
  /\ restarts' = restarts + 1
  /\ forgotten' = Client
  /\ users' = [c \in Client |-> Absent]
  /\ cards' = [c \in Client |-> {}]
  /\ deck' = [c \in Client |-> {}]
  /\ active' = [id \in ID |-> "absent"]
  /\ silent' = [id \in ID |-> FALSE]
  /\ requests' = <<>>
  /\ step' = "start"
  /\ mu' = "free"
  /\ monitor' = "asleep"
  /\ todo' = {}
  /\ UNCHANGED <<replies, clientVars>>

HandlerStep ==
  \/ HandleLogin
  \/ HandleDrawCard
  \/ HandleSeeCards
  \/ HandleChangeDeck
  \/ LogoutUser
  \/ LogoutActive
  \/ HandleHeartbeat
  \/ HandlePing

MonitorStep ==
  \/ StartRound
  \/ \E id \in ID : LookAt(id) \/ DropUser(id)
  \/ EndRound

ClientStep(c) ==
  \/ SendLogin(c)
  \/ SendLogout(c)
  \/ DrawCard(c)
  \/ SeeCards(c)
  \/ ChangeDeck(c)
  \/ GiveUp(c)
  \/ Beat(c)
  \/ Crash(c)
  \/ Interrupt(c)

Next ==
  \/ HandlerStep
  \/ MonitorStep
  \/ \E c \in Client : ClientStep(c)
  \/ \E r \in replies : ReceiveReply(r)
  \/ \E id \in ID : FallSilent(id)
  \/ Restart

Spec == Init /\ [][Next]_vars

(***************************************************************************)
(* Fairness: the callback goroutine and the monitor run, and the clients   *)
(* with a heartbeat keep sending it.  A handler that waits for mu gets it  *)
(* if it is released again and again; answers that come find their client. *)
(***************************************************************************)
Fairness ==
  /\ SF_vars(HandlerStep)
  /\ WF_vars(MonitorStep)
  /\ \A c \in Client : WF_vars(Beat(c))
  /\ \A c \in Client : WF_vars(\E r \in replies : r.to = c /\ ReceiveReply(r))

FairSpec == Spec /\ Fairness

(***************************************************************************)
(* Properties.                                                             *)
(***************************************************************************)
TypeOK ==
  /\ users \in [Client -> Name \union {NoName, Absent}]
  /\ cards \in [Client -> SUBSET Card] /\ deck \in [Client -> SUBSET Card]
  /\ active \in [ID -> {"absent", "active", "waiting"}]
  /\ silent \in [ID -> BOOLEAN]
  /\ requests \in Seq(Request)
  /\ step \in {"start", "active", "disconnect", "disconnected"}
  /\ replies \subseteq Reply
  /\ mu \in {"free", "monitor"}
  /\ monitor \in {"asleep", "looking", "relocking"}
  /\ monitor # "asleep" <=> mu = "monitor"
  /\ step # "start" => InHand("LOGOUT")
  /\ todo \subseteq ID
  /\ restarts \in 0 .. MaxRestarts /\ forgotten \subseteq Client
  /\ client \in [Client -> {"menu", "login", "in", "draw", "see", "choose", "deck", "logout",
                             "gone"}]
  /\ name \in [Client -> Name \union {NoName}]
  /\ asked \in [Client -> Nat] /\ \A c \in Client : asked[c] <= MaxRequests[c]
  /\ interrupted \subseteq Client
  /\ beating \in [Client -> BOOLEAN]
  /\ userDeck \in [Client -> SUBSET Card] /\ choice \in [Client -> SUBSET Card]
  /\ missed \in [Client -> SUBSET {"see", "deck"}]

(* Two clients are never logged in with one name (the check and the entry  *)
(* of HandleLogin are in one section), and only of a client that the       *)
(* server forgot, or that logs out on a signal while it may still save its *)
(* deck, is there an entry without a name, though requests go on being     *)
(* handled after their client gave them up (HandleChangeDeck makes the     *)
(* entry of an unknown client).                                            *)
NamesAreUnique ==
  \A c, d \in Client :
    /\ users[c] = NoName => c \in forgotten \union interrupted
    /\ users[c] = users[d] /\ users[c] \in Name => c = d

(* The clients that the server still knows as they know themselves. *)
Kept == Client \ (forgotten \union interrupted)

InGame(c) == client[c] \in {"in", "draw", "see", "choose", "deck"}

(* A client in the game loop is logged in, with the name it typed, until   *)
(* the server restarts or a signal makes it log out: no late logout, of    *)
(* itself or by the monitor, removes it (HandleLogout and DisconnectClient *)
(* delete in four separate sections), and after a restart it can log in    *)
(* again as before.                                                        *)
InGameIsLoggedIn == \A c \in Kept : InGame(c) => users[c] = name[c]

(* A client only plays with cards of its account, and only those are in    *)
(* the account's deck, though the server compares neither and a deck of an *)
(* earlier login may be saved late (HandleLogin starts a new account); a   *)
(* restart makes no exception for the logins that come after it.           *)
DeckIsOwned ==
  \A c \in Kept :
    InGame(c) => userDeck[c] \subseteq cards[c] /\ deck[c] \subseteq cards[c]

(* The two copies of a deck are one, and it is not empty, unless since its *)
(* login the client gave up waiting: for the answer to CHANGE_DECK, or for *)
(* the cards to choose from, for which handleChangeDeck saves no cards.    *)
DecksAgree ==
  \A c \in Kept :
    /\ client[c] \in {"in", "draw", "see", "choose"} /\ userDeck[c] # deck[c] => "deck" \in missed[c]
    /\ InGame(c) /\ {} \in {userDeck[c], deck[c]} => "see" \in missed[c]

(* No request is stuck: whenever one waits, the callback goroutine can go  *)
(* on with it, or the monitor has mu and can go on with a round, which is  *)
(* finite.  So it is until the monitor finds a silent client and waits for *)
(* mu itself; HandleHeartbeat and HandlePing, with its early returns, must *)
(* release mu on every path.                                               *)
CallbackCanGoOn ==
  requests # <<>> /\ monitor # "relocking" =>
    ENABLED HandlerStep \/ (mu # "free" /\ ENABLED MonitorStep)

(* A client found inactive is removed from the server's clients.           *)
InactiveIsRemoved ==
  \A id \in ID : silent[id] ~> active[id] = "absent" \/ ~ silent[id]

=============================================================================
