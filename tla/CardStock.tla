----------------------------- MODULE CardStock -----------------------------
(***************************************************************************)
(* Drawing cards (OPEN_PACK in server/handlers/handlers.go, the card       *)
(* commands of server/fsm/fsm.go, server/cards/cards.go).                  *)
(*                                                                         *)
(* Every server fills its stock at random and draws from it when it        *)
(* applies OPEN_PACK, so the replicas hold different cards; the card a     *)
(* player gets is the one the leader drew.  It stays in pendingCards until *)
(* a CLAIM_CARD, proposed once by a goroutine, is applied.                 *)
(*                                                                         *)
(* A card is named by the server that made it and a number: what the uuid  *)
(* stands for.  Its element and type play no part here.  A player's        *)
(* inventory is as its server holds it in memory.                          *)
(***************************************************************************)
EXTENDS RaftLog, SequencesExt

CONSTANTS
  User,       \* the players
  Home,       \* Home[u]: the server u is logged in at
  StockSize,  \* cards made at a time (80)
  MaxDraws    \* bound: OPEN_PACK requests

ASSUME HomeAssumption == Home \in [User -> Server]
ASSUME StockSizeAssumption == StockSize \in Nat \ {0}
ASSUME DrawsAssumption == MaxDraws \in Nat

VARIABLES
  stock,      \* stock[s]: FSM.cardStock of s
  pending,    \* pending[s][r]: FSM.pendingCards of s, NoCard if absent
  made,       \* made[s]: how many cards s has made so far
  saved,      \* saved[s]: the stock and pending cards of the last snapshot
  drawing,    \* drawing[s]: the OPEN_PACK that the NATS callback of s waits for
  claiming,   \* claiming[s]: requests whose claimCard has yet to call Raft.Apply
  inventory,  \* inventory[u]: User.Cards at the server of u
  given,      \* history: the cards that were answered to a request
  draws       \* OPEN_PACK requests so far

fsmVars == <<stock, pending, made, saved>>
serverVars == <<drawing, claiming, inventory, given, draws>>
vars == <<raftVars, fsmVars, serverVars>>

RequestID == 1 .. MaxDraws
Card == Server \X (Nat \ {0})
NoCard == <<>>

OpenPack(r) == [type |-> "OPEN_PACK", request |-> r]
ClaimCard(r) == [type |-> "CLAIM_CARD", request |-> r]
Command == [type : {"OPEN_PACK", "CLAIM_CARD"}, request : RequestID]

(* Mutant: the loop makes one card more. *)
OneCardMore(s, n) == [i \in 1 .. StockSize + 1 |-> <<s, n + i>>]
(* StockSize new cards for s, which has made n.                            *)
GerarEstoque(s, n) == [i \in 1 .. StockSize |-> <<s, n + i>>]

NothingPending == [r \in RequestID |-> NoCard]
NotDrawing == [step |-> "none"]

Init ==
  /\ RaftInit
  /\ stock = [s \in Server |-> GerarEstoque(s, 0)]
  /\ pending = [s \in Server |-> NothingPending]
  /\ made = [s \in Server |-> StockSize]
  /\ saved = [s \in Server |-> [stock |-> <<>>, pending |-> NothingPending]]
  /\ drawing = [s \in Server |-> NotDrawing]
  /\ claiming = [s \in Server |-> {}]
  /\ inventory = [u \in User |-> <<>>]
  /\ given = {}
  /\ draws = 0

(***************************************************************************)
(* HandleDrawCard and LeaderDrawCardHandler.  A server handles one request *)
(* at a time, and waits in it: the leader for Raft.Apply, another server   *)
(* for the leader's HTTP answer.  Without a leader the player gets an      *)
(* error and nothing changes.                                              *)
(***************************************************************************)
HandleDrawCard(u) ==
  /\ draws < MaxDraws
  /\ drawing[Home[u]] = NotDrawing
  /\ leader # NoServer
  /\ Replicate(leader, OpenPack(draws + 1))
  /\ draws' = draws + 1
  /\ drawing' = [drawing EXCEPT ![Home[u]] =
       [step |-> "proposed", user |-> u, request |-> draws + 1,
        to |-> leader, index |-> Len(log) + 1]]
  /\ UNCHANGED <<fsmVars, claiming, inventory, given>>

(* Mutant: only the leader's own draws are claimed. *)
ProcessOwnRequest(s) ==
  /\ drawing[s].step = "drawn"
  /\ drawing' = [drawing EXCEPT ![s].step = "answered"]
  /\ claiming' = IF drawing[s].to = s
                   THEN [claiming EXCEPT ![s] = @ \union {drawing[s].request}]
                   ELSE claiming
  /\ UNCHANGED <<raftVars, fsmVars, inventory, given, draws>>

(* processDrawCardRequest has the card: the leader starts claimCard, and   *)
(* answers.                                                                *)
ProcessDrawCardRequest(s) ==
  /\ drawing[s].step = "drawn"
  /\ drawing' = [drawing EXCEPT ![s].step = "answered"]
  /\ claiming' = [claiming EXCEPT ![drawing[s].to] = @ \union {drawing[s].request}]
  /\ UNCHANGED <<raftVars, fsmVars, inventory, given, draws>>

SaveCardToLocalUser(s) ==
  /\ drawing[s].step = "answered"
  /\ drawing' = [drawing EXCEPT ![s] = NotDrawing]
  /\ inventory' = [inventory EXCEPT ![drawing[s].user] = Append(@, drawing[s].card)]
  /\ UNCHANGED <<raftVars, fsmVars, claiming, given, draws>>

(* The HTTP answer of the leader is lost, and the card with it.            *)
LoseAnswer(s) ==
  /\ drawing[s].step = "answered"
  /\ drawing[s].to # s
  /\ Fault
  /\ drawing' = [drawing EXCEPT ![s] = NotDrawing]
  /\ UNCHANGED <<log, commit, leader, applied, snapshot, fsmVars, claiming, inventory,
                 given, draws>>

ProposeClaim(s) ==
  \E r \in claiming[s] :
    /\ Replicate(s, ClaimCard(r))
    /\ claiming' = [claiming EXCEPT ![s] = @ \ {r}]
    /\ UNCHANGED <<fsmVars, drawing, inventory, given, draws>>

(* claimCard on a server that no longer leads: the error is logged, and    *)
(* the card stays pending.                                                 *)
ClaimRefused(s) ==
  /\ leader # s
  /\ \E r \in claiming[s] : claiming' = [claiming EXCEPT ![s] = @ \ {r}]
  /\ UNCHANGED <<raftVars, fsmVars, drawing, inventory, given, draws>>

(***************************************************************************)
(* FSM.Apply.                                                              *)
(***************************************************************************)
Waits(t, s, i) == drawing[t].step = "proposed" /\ drawing[t].to = s /\ drawing[t].index = i

(* Mutant: the future answers whichever request its server waits for. *)
RespondToAny(s, card) ==
  drawing' = [t \in Server |->
    IF drawing[t].step = "proposed" /\ drawing[t].to = s
      THEN [step |-> "drawn", user |-> drawing[t].user, request |-> drawing[t].request,
            to |-> s, card |-> card]
      ELSE drawing[t]]

(* The future of the entry, if s has one, returns the card.                *)
Respond(s, card) ==
  drawing' = [t \in Server |->
    IF Waits(t, s, applied[s] + 1)
      THEN [step |-> "drawn", user |-> drawing[t].user, request |-> drawing[t].request,
            to |-> s, card |-> card]
      ELSE drawing[t]]

(* An empty stock is filled again first.  A request that has its card      *)
(* already gets the same one.                                              *)
ApplyOpenPack(s) ==
  /\ Advance(s)
  /\ NextEntry(s).type = "OPEN_PACK"
  /\ LET r == NextEntry(s).request
         refill == stock[s] = <<>> /\ pending[s][r] = NoCard
         full == IF refill THEN GerarEstoque(s, made[s]) ELSE stock[s]
     IN IF pending[s][r] # NoCard
          THEN Respond(s, pending[s][r]) /\ UNCHANGED <<stock, pending, made>>
          ELSE /\ Respond(s, Head(full))
               /\ stock' = [stock EXCEPT ![s] = Tail(full)]
               /\ pending' = [pending EXCEPT ![s][r] = Head(full)]
               /\ made' = [made EXCEPT ![s] = IF refill THEN @ + StockSize ELSE @]
  /\ given' = given \union {drawing'[t].card : t \in {t \in Server : drawing'[t].step = "drawn"}}
  /\ UNCHANGED <<saved, claiming, inventory, draws>>

ApplyClaimCard(s) ==
  /\ Advance(s)
  /\ NextEntry(s).type = "CLAIM_CARD"
  /\ pending' = [pending EXCEPT ![s][NextEntry(s).request] = NoCard]
  /\ UNCHANGED <<stock, made, saved, serverVars>>

(***************************************************************************)
(* Changes of leader, snapshots, restarts.                                 *)
(***************************************************************************)
ElectLeader(s) == Elect(s) /\ UNCHANGED <<fsmVars, serverVars>>

CommitEntry == Commit /\ UNCHANGED <<fsmVars, serverVars>>

(* The proposals that were not committed fail, and their players get an    *)
(* error.                                                                  *)
LoseLeadership ==
  /\ StepDown
  /\ drawing' = [t \in Server |->
       IF drawing[t].step = "proposed" /\ drawing[t].index > commit THEN NotDrawing
                                                                    ELSE drawing[t]]
  /\ UNCHANGED <<fsmVars, claiming, inventory, given, draws>>

Snapshot(s) ==
  /\ TakeSnapshot(s)
  /\ saved' = [saved EXCEPT ![s] = [stock |-> stock[s], pending |-> pending[s]]]
  /\ UNCHANGED <<stock, pending, made, serverVars>>

(* Mutant: Restore forgets the pending cards. *)
RestoreStock(s) ==
  IF snapshot[s] = 0
    THEN /\ stock' = [stock EXCEPT ![s] = GerarEstoque(s, made[s])]
         /\ pending' = [pending EXCEPT ![s] = NothingPending]
         /\ made' = [made EXCEPT ![s] = @ + StockSize]
    ELSE /\ stock' = [stock EXCEPT ![s] = saved[s].stock]
         /\ pending' = [pending EXCEPT ![s] = NothingPending]
         /\ UNCHANGED made

(* Mutant: Restore forgets the stock. *)
RestorePending(s) ==
  /\ stock' = [stock EXCEPT ![s] = GerarEstoque(s, made[s])]
  /\ pending' = [pending EXCEPT ![s] = saved[s].pending]
  /\ made' = [made EXCEPT ![s] = @ + StockSize]

(* NewFSM, then Restore if there is a snapshot.                            *)
NewFSM(s) ==
  IF snapshot[s] = 0
    THEN /\ stock' = [stock EXCEPT ![s] = GerarEstoque(s, made[s])]
         /\ pending' = [pending EXCEPT ![s] = NothingPending]
         /\ made' = [made EXCEPT ![s] = @ + StockSize]
    ELSE /\ stock' = [stock EXCEPT ![s] = saved[s].stock]
         /\ pending' = [pending EXCEPT ![s] = saved[s].pending]
         /\ UNCHANGED made

(* A new process: server.Users is empty, and whoever waited for s gets an  *)
(* error.                                                                  *)
Restart(s) ==
  /\ RestartRaft(s)
  /\ NewFSM(s)
  /\ drawing' = [t \in Server |->
       IF t = s \/ (drawing[t].step # "none" /\ drawing[t].to = s) THEN NotDrawing
                                                                ELSE drawing[t]]
  /\ claiming' = [claiming EXCEPT ![s] = {}]
  /\ inventory' = [u \in User |-> IF Home[u] = s THEN <<>> ELSE inventory[u]]
  /\ UNCHANGED <<saved, given, draws>>

ServerStep(s) ==
  \/ ProcessDrawCardRequest(s)
  \/ SaveCardToLocalUser(s)
  \/ LoseAnswer(s)
  \/ ProposeClaim(s)
  \/ ClaimRefused(s)
  \/ ApplyOpenPack(s)
  \/ ApplyClaimCard(s)
  \/ ElectLeader(s)
  \/ Snapshot(s)
  \/ Restart(s)

Next ==
  \/ \E s \in Server : ServerStep(s)
  \/ \E u \in User : HandleDrawCard(u)
  \/ CommitEntry
  \/ LoseLeadership

Spec == Init /\ [][Next]_vars

(***************************************************************************)
(* Properties.                                                             *)
(***************************************************************************)
Drawing ==
  [step : {"proposed"}, user : User, request : RequestID, to : Server, index : 1 .. MaxLog]
    \union [step : {"drawn", "answered"}, user : User, request : RequestID, to : Server,
            card : Card]

TypeOK ==
  /\ log \in Seq(Command) /\ Len(log) <= MaxLog
  /\ commit \in 0 .. Len(log)
  /\ leader \in Server \union {NoServer}
  /\ applied \in [Server -> 0 .. commit]
  /\ snapshot \in [Server -> 0 .. commit]
  /\ faults \in 0 .. MaxFaults
  /\ stock \in [Server -> Seq(Card)]
  /\ \A s \in Server : Len(stock[s]) <= StockSize
  /\ pending \in [Server -> [RequestID -> Card \union {NoCard}]]
  /\ made \in [Server -> Nat]
  /\ saved \in [Server -> [stock : Seq(Card), pending : [RequestID -> Card \union {NoCard}]]]
  /\ drawing \in [Server -> Drawing \union {NotDrawing}]
  /\ claiming \in [Server -> SUBSET RequestID]
  /\ inventory \in [User -> Seq(Card)]
  /\ given \subseteq Card
  /\ draws \in 0 .. MaxDraws

AtDesk(s) ==
  CASE drawing[s].step = "none" -> <<>>
    [] drawing[s].step = "proposed" -> <<drawing[s].user>>
    [] OTHER -> <<drawing[s].user, drawing[s].card>>

D == INSTANCE Dealing WITH
  Player <- User, Desk <- Server, desk <- [s \in Server |-> AtDesk(s)],
  hand <- inventory, taken <- given

(* Cards are dealt as Dealing says: the card of an answer goes to the      *)
(* player that asked, and nobody was ever given it before, not by another  *)
(* leader, whose stock differs, not by a server that started again with an *)
(* older stock and applies the entries after its snapshot once more, and   *)
(* not after a refill (OPEN_PACK in Apply, Snapshot, Restore,              *)
(* GerarEstoque, processDrawCardRequest).                                  *)
IsDealing == D!Spec

(* The cards pending at a server are those that the entries it has applied *)
(* draw and do not claim, also after a restart from a snapshot: so all     *)
(* servers agree on which requests are pending.                            *)
PendingIsUnclaimed ==
  \A s \in Server : \A r \in RequestID :
    pending[s][r] # NoCard <=>
      \E i \in 1 .. applied[s] :
        /\ log[i] = OpenPack(r)
        /\ \A j \in i + 1 .. applied[s] : log[j] # ClaimCard(r)

(* Servers that have applied the same entries have stocks of one size,     *)
(* though of other cards: they refill at the same entry.                   *)
StocksAreAligned ==
  \A s, t \in Server : applied[s] = applied[t] => Len(stock[s]) = Len(stock[t])

(* As long as nothing fails no card stays pending for ever: its draw is    *)
(* being answered, its claim waits for Raft.Apply, or the claim is further *)
(* on in the log (claimCard, which runs once and does not try again).      *)
PendingWillBeClaimed ==
  faults = 0 =>
    \A s \in Server : \A r \in RequestID : pending[s][r] # NoCard =>
      \/ \E t \in Server : drawing[t].step \in {"proposed", "drawn"} /\ drawing[t].request = r
      \/ \E t \in Server : r \in claiming[t]
      \/ \E i \in applied[s] + 1 .. Len(log) : log[i] = ClaimCard(r)

=============================================================================
