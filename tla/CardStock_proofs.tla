------------------------- MODULE CardStock_proofs -------------------------
(***************************************************************************)
(* Theorems about CardStock, for any servers, players, stock size and      *)
(* bounds: types, which cards are pending, and that it implements Dealing. *)
(*                                                                         *)
(* A server that starts again has an older stock, with cards in it that it *)
(* gave before.  It does not give them again, because it draws each for    *)
(* the entry it drew it for the first time, and nobody waits for that one  *)
(* any more.  So the invariant counts the OPEN_PACK entries between what a *)
(* stock stands for and the last one that can have been answered.          *)
(***************************************************************************)
EXTENDS CardStock, RaftLog_proofs, FiniteSetTheorems

USE NoServerAssumption, BoundAssumption, ThresholdAssumption, HomeAssumption,
    StockSizeAssumption, DrawsAssumption

IsPack(cmd) == cmd.type = "OPEN_PACK"
Packs(lg, a, b) == {i \in a + 1 .. b : IsPack(lg[i])}
PackCount(lg, a, b) == Cardinality(Packs(lg, a, b))

(* The entries that somebody waits for at s.                               *)
WaitsAt(t, s) == drawing[t].step = "proposed" /\ drawing[t].to = s
Awaited(s) == {drawing[t].index : t \in {t \in Server : WaitsAt(t, s)}}

(* The cards of the stock stk, which s has after the first "at" entries of *)
(* lg, of which cm are committed: they were made by s, once, and those     *)
(* that were given are for entries nobody waits for.                       *)
Made(s, stk, md) ==
  /\ \A k \in 1 .. Len(stk) : stk[k][1] = s /\ stk[k][2] <= md
  /\ \A j, k \in 1 .. Len(stk) : stk[j] = stk[k] => j = k

Fresh(stk, at, lg, cm, gv, aw) ==
  \A k \in 1 .. Len(stk) : stk[k] \in gv =>
    /\ k <= PackCount(lg, at, cm)
    /\ \A w \in aw : w <= cm => k <= PackCount(lg, at, w - 1)

StocksInv ==
  \A s \in Server :
    /\ Made(s, stock[s], made[s])
    /\ Made(s, saved[s].stock, made[s])
    /\ Fresh(stock[s], applied[s], log, commit, given, Awaited(s))
    /\ Fresh(saved[s].stock, snapshot[s], log, commit, given, Awaited(s))

(* What s drew since its snapshot it drew in order.                        *)
Ahead(stk, old, n) ==
  \A k \in 1 .. Len(stk), j \in 1 .. Len(old) : stk[k] = old[j] => j = k + n
AheadInv ==
  \A s \in Server :
    /\ snapshot[s] <= applied[s]
    /\ Len(saved[s].stock) <= StockSize
    /\ Ahead(stock[s], saved[s].stock, PackCount(log, snapshot[s], applied[s]))

GivenInv ==
  /\ \A c \in given : c[2] <= made[c[1]]
  /\ \A t \in Server : drawing[t].step = "drawn" => drawing[t].card \in given

(* Each request is proposed once.                                          *)
RequestsInv ==
  /\ \A i \in 1 .. Len(log) : IsPack(log[i]) => log[i].request <= draws
  /\ \A i, j \in 1 .. Len(log) : IsPack(log[i]) /\ log[i] = log[j] => i = j

(* A draw waits for an OPEN_PACK of its own that its leader has yet to     *)
(* apply.                                                                  *)
Waiting(t) ==
  /\ drawing[t].index \in 1 .. Len(log)
  /\ IsPack(log[drawing[t].index])
  /\ applied[drawing[t].to] < drawing[t].index
  /\ leader = drawing[t].to \/ drawing[t].index <= commit
WaitingInv ==
  \A t \in Server : drawing[t].step = "proposed" =>
    /\ Waiting(t)
    /\ \A u \in Server :
         drawing[u].step = "proposed" /\ drawing[u].index = drawing[t].index => u = t

Unclaimed(lg, at, r) ==
  \E i \in 1 .. at :
    /\ lg[i] = OpenPack(r)
    /\ \A j \in i + 1 .. at : lg[j] # ClaimCard(r)
PendingInv ==
  \A s \in Server, r \in RequestID :
    /\ pending[s][r] # NoCard <=> Unclaimed(log, applied[s], r)
    /\ saved[s].pending[r] # NoCard <=> Unclaimed(log, snapshot[s], r)

IInv == TypeOK /\ StocksInv /\ AheadInv /\ GivenInv /\ RequestsInv /\ WaitingInv /\ PendingInv

(***************************************************************************)
(* Counting the OPEN_PACK entries.                                         *)
(***************************************************************************)
LEMMA PacksAreFinite ==
  ASSUME NEW lg, NEW a \in Nat, NEW b \in Nat
  PROVE  IsFiniteSet(Packs(lg, a, b)) /\ PackCount(lg, a, b) \in Nat
<1>1. IsFiniteSet(a + 1 .. b)
  BY FS_Interval
<1>2. IsFiniteSet(Packs(lg, a, b))
  BY <1>1, FS_Subset DEF Packs
<1> QED
  BY <1>2, FS_CardinalityType DEF PackCount

LEMMA NoPacks ==
  ASSUME NEW lg, NEW a \in Nat
  PROVE  PackCount(lg, a, a) = 0
<1>1. Packs(lg, a, a) = {}
  BY DEF Packs
<1> QED
  BY <1>1, FS_EmptySet DEF PackCount

LEMMA OnePackMore ==
  ASSUME NEW lg, NEW a \in Nat, NEW b \in Nat, a <= b
  PROVE  PackCount(lg, a, b + 1) = PackCount(lg, a, b) + IF IsPack(lg[b + 1]) THEN 1 ELSE 0
<1>1. Packs(lg, a, b + 1) = Packs(lg, a, b) \union IF IsPack(lg[b + 1]) THEN {b + 1} ELSE {}
  BY DEF Packs
<1>2. b + 1 \notin Packs(lg, a, b)
  BY DEF Packs
<1>3. CASE IsPack(lg[b + 1])
  <2>1. Packs(lg, a, b + 1) = Packs(lg, a, b) \union {b + 1}
    BY <1>1, <1>3
  <2> QED
    BY <1>2, <1>3, <2>1, PacksAreFinite, FS_AddElement DEF PackCount
<1>4. CASE ~ IsPack(lg[b + 1])
  <2>1. Packs(lg, a, b + 1) = Packs(lg, a, b)
    BY <1>1, <1>4
  <2> QED
    BY <1>4, <2>1, PacksAreFinite DEF PackCount
<1> QED
  BY <1>3, <1>4

LEMMA OnePackLess ==
  ASSUME NEW lg, NEW a \in Nat, NEW b \in Nat, a < b
  PROVE  PackCount(lg, a, b) = PackCount(lg, a + 1, b) + IF IsPack(lg[a + 1]) THEN 1 ELSE 0
<1>1. Packs(lg, a, b) = Packs(lg, a + 1, b) \union IF IsPack(lg[a + 1]) THEN {a + 1} ELSE {}
  BY DEF Packs
<1>2. a + 1 \notin Packs(lg, a + 1, b)
  BY DEF Packs
<1>3. IsFiniteSet(Packs(lg, a + 1, b)) /\ PackCount(lg, a + 1, b) \in Nat
  BY PacksAreFinite
<1>4. CASE IsPack(lg[a + 1])
  <2>1. Packs(lg, a, b) = Packs(lg, a + 1, b) \union {a + 1}
    BY <1>1, <1>4
  <2> QED
    BY <1>2, <1>3, <1>4, <2>1, FS_AddElement DEF PackCount
<1>5. CASE ~ IsPack(lg[a + 1])
  <2>1. Packs(lg, a, b) = Packs(lg, a + 1, b)
    BY <1>1, <1>5
  <2> QED
    BY <1>3, <1>5, <2>1 DEF PackCount
<1> QED
  BY <1>4, <1>5

LEMMA MorePacks ==
  ASSUME NEW lg, NEW a \in Nat, NEW b \in Nat, NEW c \in Nat, b <= c
  PROVE  PackCount(lg, a, b) <= PackCount(lg, a, c)
<1>1. Packs(lg, a, b) \subseteq Packs(lg, a, c)
  BY DEF Packs
<1> QED
  BY <1>1, PacksAreFinite, FS_Subset DEF PackCount

LEMMA SamePacks ==
  ASSUME NEW lg, NEW new, NEW a \in Nat, NEW b \in Nat,
         \A i \in 1 .. b : new[i] = lg[i]
  PROVE  PackCount(new, a, b) = PackCount(lg, a, b)
<1>1. Packs(new, a, b) = Packs(lg, a, b)
  BY DEF Packs, IsPack
<1> QED
  BY <1>1 DEF PackCount

LEMMA CardParts ==
  ASSUME NEW c \in Card
  PROVE  c # NoCard /\ c[1] \in Server /\ c[2] \in Nat /\ c[2] >= 1
<1>1. PICK s \in Server, n \in Nat \ {0} : c = <<s, n>>
  BY DEF Card
<1>2. c[1] = s /\ c[2] = n /\ Len(c) = 2
  BY <1>1
<1>3. Len(NoCard) = 0
  BY DEF NoCard
<1> QED
  BY <1>2, <1>3

LEMMA NewStock ==
  ASSUME NEW s \in Server, NEW n \in Nat
  PROVE  /\ GerarEstoque(s, n) \in Seq(Card)
         /\ Len(GerarEstoque(s, n)) = StockSize
         /\ \A k \in 1 .. StockSize : GerarEstoque(s, n)[k] = <<s, n + k>>
<1>1. \A k \in 1 .. StockSize : <<s, n + k>> \in Card
  BY DEF Card
<1>2. GerarEstoque(s, n) \in [1 .. StockSize -> Card]
  BY <1>1 DEF GerarEstoque
<1>3. /\ GerarEstoque(s, n) \in Seq(Card)
      /\ Len(GerarEstoque(s, n)) = StockSize
  BY <1>2
<1> QED
  BY <1>3 DEF GerarEstoque

(***************************************************************************)
(* What the steps do.                                                      *)
(***************************************************************************)
LEMMA Commands ==
  /\ \A r \in RequestID : /\ OpenPack(r) \in Command /\ ClaimCard(r) \in Command
                          /\ IsPack(OpenPack(r)) /\ ~ IsPack(ClaimCard(r))
                          /\ OpenPack(r).request = r /\ ClaimCard(r).request = r
  /\ \A cmd \in Command : /\ cmd.request \in RequestID
                          /\ IsPack(cmd) => cmd = OpenPack(cmd.request)
                          /\ ~ IsPack(cmd) => cmd = ClaimCard(cmd.request)
BY DEF Command, OpenPack, ClaimCard, IsPack

LEMMA NextIsRaftStep ==
  ASSUME TypeOK, [Next]_vars
  PROVE  RaftStep(Command)
<1>1. ASSUME NEW u \in User, HandleDrawCard(u) PROVE RaftStep(Command)
  <2>1. leader \in Server /\ draws + 1 \in RequestID
    BY <1>1 DEF HandleDrawCard, TypeOK, RequestID
  <2> QED
    BY <1>1, <2>1, Commands DEF HandleDrawCard, RaftStep
<1>2. ASSUME NEW s \in Server, ServerStep(s) PROVE RaftStep(Command)
  <2>1. CASE ProposeClaim(s)
    <3>1. PICK r \in claiming[s] : Replicate(s, ClaimCard(r))
      BY <2>1 DEF ProposeClaim
    <3>2. r \in RequestID
      BY <3>1 DEF TypeOK
    <3> QED
      BY <3>1, <3>2, Commands DEF RaftStep
  <2>2. CASE ApplyOpenPack(s) \/ ApplyClaimCard(s) \/ ElectLeader(s) \/ Snapshot(s) \/ Restart(s)
    BY <2>2 DEF ApplyOpenPack, ApplyClaimCard, ElectLeader, Snapshot, Restart, RaftStep
  <2> QED
    BY <1>2, <2>1, <2>2
    DEF ServerStep, ProcessDrawCardRequest, SaveCardToLocalUser, LoseAnswer, ClaimRefused, RaftStep
<1>3. CASE CommitEntry \/ LoseLeadership
  BY <1>3 DEF CommitEntry, LoseLeadership, RaftStep
<1>4. CASE UNCHANGED vars
  BY <1>4 DEF vars, RaftStep
<1> QED
  BY <1>1, <1>2, <1>3, <1>4 DEF Next

(* The parts of the invariant about the log before and after a step.       *)
LEMMA LogKept ==
  ASSUME TypeOK, [Next]_vars
  PROVE  /\ RaftTyped(Command)'
         /\ log \in Seq(Command) /\ Len(log) \in Nat /\ \A i \in 1 .. Len(log) : log[i] \in Command
         /\ log' \in Seq(Command) /\ Len(log') \in Nat
         /\ commit \in Nat /\ commit <= Len(log)
         /\ commit' \in Nat /\ commit' <= Len(log') /\ commit <= commit'
         /\ \A i \in 1 .. commit : log'[i] = log[i]
         /\ \A i \in 1 .. Len(log') :
              \/ i \in 1 .. Len(log) /\ log'[i] = log[i]
              \/ i = Len(log) + 1
<1>1. RaftTyped(Command) /\ RaftStep(Command)
  BY NextIsRaftStep DEF TypeOK, RaftTyped
<1>2. /\ log' \in Seq(Command)
      /\ commit' \in 0 .. Len(log') /\ commit <= commit'
      /\ \A i \in 1 .. commit : log'[i] = log[i]
      /\ \A i \in 1 .. Len(log') :
              \/ i \in 1 .. Len(log) /\ log'[i] = log[i]
              \/ i = Len(log) + 1
  BY <1>1, LogStep
<1>3. RaftTyped(Command)'
  BY <1>1, RaftTypeNext
<1>4. log \in Seq(Command) /\ commit \in 0 .. Len(log)
  BY DEF TypeOK
<1>5. Len(log) \in Nat /\ Len(log') \in Nat /\ \A i \in 1 .. Len(log) : log[i] \in Command
  BY <1>2, <1>4, LenProperties, ElementOfSeq
<1> QED
  BY <1>2, <1>3, <1>4, <1>5

LEMMA AppliedEntry ==
  ASSUME TypeOK, NEW s \in Server, Advance(s)
  PROVE  /\ applied[s] \in Nat /\ snapshot[s] \in Nat
         /\ commit \in Nat /\ applied[s] + 1 \in 1 .. commit /\ applied[s] + 1 \in 1 .. Len(log)
         /\ NextEntry(s) = log[applied[s] + 1] /\ NextEntry(s) \in Command
         /\ applied' = [applied EXCEPT ![s] = applied[s] + 1]
         /\ applied'[s] = applied[s] + 1
         /\ UNCHANGED <<log, commit, leader, snapshot, faults>>
<1>1. /\ applied \in [Server -> 0 .. commit] /\ snapshot \in [Server -> 0 .. commit]
      /\ log \in Seq(Command) /\ commit \in 0 .. Len(log) /\ Len(log) \in Nat
  BY LenProperties DEF TypeOK
<1>2. applied[s] < commit /\ applied' = [applied EXCEPT ![s] = @ + 1]
  BY DEF Advance
<1>3. applied[s] \in 0 .. commit /\ snapshot[s] \in 0 .. commit
  BY <1>1
<1>4. log[applied[s] + 1] \in Command
  BY <1>1, <1>2, <1>3, ElementOfSeq
<1> QED
  BY <1>1, <1>2, <1>3, <1>4 DEF Advance, NextEntry

(* The stock an OPEN_PACK draws from: a request is proposed once, and so   *)
(* has no card yet.                                                        *)
Full(s) == IF stock[s] = <<>> THEN GerarEstoque(s, made[s]) ELSE stock[s]

LEMMA PackDrawn ==
  ASSUME IInv, NEW s \in Server, ApplyOpenPack(s)
  PROVE  LET r == NextEntry(s).request IN
         /\ r \in RequestID /\ NextEntry(s) = OpenPack(r)
         /\ Full(s) \in Seq(Card) /\ Len(Full(s)) \in 1 .. StockSize
         /\ Full(s)[1] \in Card
         /\ Tail(Full(s)) \in Seq(Card) /\ Len(Tail(Full(s))) = Len(Full(s)) - 1
         /\ \A k \in 1 .. Len(Full(s)) - 1 : Tail(Full(s))[k] = Full(s)[k + 1]
         /\ Respond(s, Full(s)[1])
         /\ stock' = [stock EXCEPT ![s] = Tail(Full(s))]
         /\ pending' = [pending EXCEPT ![s][r] = Full(s)[1]]
         /\ made' = [made EXCEPT ![s] = IF stock[s] = <<>> THEN @ + StockSize ELSE @]
         /\ UNCHANGED <<saved, claiming, inventory, draws>>
<1> DEFINE r == NextEntry(s).request
<1>1. /\ Advance(s) /\ IsPack(NextEntry(s))
      /\ stock[s] \in Seq(Card) /\ Len(stock[s]) \in Nat /\ Len(stock[s]) <= StockSize
      /\ made[s] \in Nat
  BY LenProperties DEF ApplyOpenPack, IInv, TypeOK, IsPack
<1>2. /\ NextEntry(s) = log[applied[s] + 1] /\ NextEntry(s) \in Command
      /\ applied[s] \in Nat /\ applied[s] + 1 \in 1 .. Len(log)
  BY <1>1, AppliedEntry DEF IInv
<1>3. r \in RequestID /\ NextEntry(s) = OpenPack(r)
  BY <1>1, <1>2, Commands
<1>4. pending[s][r] = NoCard
  <2>1. ~ Unclaimed(log, applied[s], r)
    <3> SUFFICES ASSUME NEW i \in 1 .. applied[s], log[i] = OpenPack(r) PROVE FALSE
      BY DEF Unclaimed
    <3>1. i \in 1 .. Len(log) /\ log[i] = log[applied[s] + 1] /\ IsPack(log[i])
      <4>1. Len(log) \in Nat
        BY LenProperties DEF IInv, TypeOK
      <4> QED
        BY <1>2, <1>3, <4>1, Commands
    <3> QED
      BY <1>2, <3>1 DEF IInv, RequestsInv
  <2> QED
    BY <1>3, <2>1 DEF IInv, PendingInv
<1>5. Full(s) \in Seq(Card) /\ Len(Full(s)) \in 1 .. StockSize
  <2>1. CASE stock[s] = <<>>
    BY <1>1, <2>1, NewStock DEF Full
  <2>2. CASE stock[s] # <<>>
    BY <1>1, <2>2, EmptySeq DEF Full
  <2> QED
    BY <2>1, <2>2
<1>6. /\ Full(s)[1] = Head(Full(s)) /\ Full(s)[1] \in Card
      /\ Tail(Full(s)) \in Seq(Card) /\ Len(Tail(Full(s))) = Len(Full(s)) - 1
      /\ \A k \in 1 .. Len(Full(s)) - 1 : Tail(Full(s))[k] = Full(s)[k + 1]
  BY <1>5, HeadTailProperties, ElementOfSeq
<1>7. /\ Respond(s, Full(s)[1])
      /\ stock' = [stock EXCEPT ![s] = Tail(Full(s))]
      /\ pending' = [pending EXCEPT ![s][r] = Full(s)[1]]
      /\ made' = [made EXCEPT ![s] = IF stock[s] = <<>> THEN @ + StockSize ELSE @]
      /\ UNCHANGED <<saved, claiming, inventory, draws>>
  BY <1>4, <1>6 DEF ApplyOpenPack, Full
<1> QED
  BY <1>3, <1>5, <1>6, <1>7

(***************************************************************************)
(* Types.                                                                  *)
(***************************************************************************)
StoreTypeOK ==
  /\ stock \in [Server -> Seq(Card)]
  /\ \A s \in Server : Len(stock[s]) <= StockSize
  /\ pending \in [Server -> [RequestID -> Card \union {NoCard}]]
  /\ made \in [Server -> Nat]
  /\ saved \in [Server -> [stock : Seq(Card), pending : [RequestID -> Card \union {NoCard}]]]

LEMMA StoreTypeNext ==
  ASSUME IInv, [Next]_vars
  PROVE  StoreTypeOK'
<1>0. StoreTypeOK /\ \A s \in Server : Len(saved[s].stock) <= StockSize
  BY DEF IInv, TypeOK, StoreTypeOK, AheadInv
<1>1. CASE UNCHANGED fsmVars
  BY <1>0, <1>1 DEF fsmVars, StoreTypeOK
<1>2. ASSUME NEW s \in Server, ApplyOpenPack(s) PROVE StoreTypeOK'
  <2>1. /\ Tail(Full(s)) \in Seq(Card) /\ Len(Tail(Full(s))) <= StockSize
        /\ Full(s)[1] \in Card /\ NextEntry(s).request \in RequestID
        /\ stock' = [stock EXCEPT ![s] = Tail(Full(s))]
        /\ pending' = [pending EXCEPT ![s][NextEntry(s).request] = Full(s)[1]]
        /\ made' = [made EXCEPT ![s] = IF stock[s] = <<>> THEN @ + StockSize ELSE @]
        /\ saved' = saved
    BY <1>2, PackDrawn
  <2> QED
    BY <1>0, <2>1 DEF StoreTypeOK
<1>3. ASSUME NEW s \in Server, ApplyClaimCard(s) PROVE StoreTypeOK'
  BY <1>0, <1>3 DEF ApplyClaimCard, StoreTypeOK
<1>4. ASSUME NEW s \in Server, Snapshot(s) PROVE StoreTypeOK'
  BY <1>0, <1>4 DEF Snapshot, StoreTypeOK
<1>5. ASSUME NEW s \in Server, Restart(s) PROVE StoreTypeOK'
  <2>1. /\ GerarEstoque(s, made[s]) \in Seq(Card)
        /\ Len(GerarEstoque(s, made[s])) <= StockSize
        /\ NothingPending \in [RequestID -> Card \union {NoCard}]
    BY <1>0, NewStock DEF StoreTypeOK, NothingPending
  <2>2. CASE snapshot[s] = 0
    <3>1. /\ stock' = [stock EXCEPT ![s] = GerarEstoque(s, made[s])]
          /\ pending' = [pending EXCEPT ![s] = NothingPending]
          /\ made' = [made EXCEPT ![s] = @ + StockSize]
          /\ UNCHANGED saved
      BY <1>5, <2>2 DEF Restart, NewFSM
    <3>2. made' \in [Server -> Nat]
      BY <1>0, <3>1 DEF StoreTypeOK
    <3> QED
      BY <1>0, <2>1, <3>1, <3>2 DEF StoreTypeOK
  <2>3. CASE snapshot[s] # 0
    <3>1. saved[s] \in [stock : Seq(Card), pending : [RequestID -> Card \union {NoCard}]]
      BY <1>0 DEF StoreTypeOK
    <3>2. /\ stock' = [stock EXCEPT ![s] = saved[s].stock]
          /\ pending' = [pending EXCEPT ![s] = saved[s].pending]
          /\ UNCHANGED <<made, saved>>
      BY <1>5, <2>3 DEF Restart, NewFSM
    <3> QED
      BY <1>0, <3>1, <3>2 DEF StoreTypeOK
  <2> QED
    BY <2>2, <2>3
<1>6. ASSUME NEW s \in Server, ServerStep(s) PROVE StoreTypeOK'
  BY <1>1, <1>2, <1>3, <1>4, <1>5, <1>6
  DEF ServerStep, ProcessDrawCardRequest, SaveCardToLocalUser, LoseAnswer, ProposeClaim,
      ClaimRefused, ElectLeader
<1>7. ASSUME NEW u \in User, HandleDrawCard(u) PROVE StoreTypeOK'
  BY <1>1, <1>7 DEF HandleDrawCard
<1>8. CASE CommitEntry \/ LoseLeadership
  BY <1>1, <1>8 DEF CommitEntry, LoseLeadership
<1>9. CASE UNCHANGED vars
  BY <1>1, <1>9 DEF vars
<1> QED
  BY <1>6, <1>7, <1>8, <1>9 DEF Next

ServerTypeOK ==
  /\ drawing \in [Server -> Drawing \union {NotDrawing}]
  /\ claiming \in [Server -> SUBSET RequestID]
  /\ inventory \in [User -> Seq(Card)]
  /\ given \subseteq Card
  /\ draws \in 0 .. MaxDraws

Proposal == [step : {"proposed"}, user : User, request : RequestID, to : Server,
             index : 1 .. MaxLog]
Answer == [step : {"drawn", "answered"}, user : User, request : RequestID, to : Server,
           card : Card]

(* The three states of a draw.                                             *)
LEMMA DrawingKinds ==
  ASSUME NEW d \in Drawing \union {NotDrawing}
  PROVE  /\ d.step \in {"none", "proposed", "drawn", "answered"}
         /\ d.step = "none" <=> d = NotDrawing
         /\ d.step = "proposed" => d \in Proposal
         /\ d.step \in {"drawn", "answered"} => d \in Answer
BY DEF Drawing, NotDrawing, Proposal, Answer

(* Answering a draw is all that Respond does.                              *)
Answered(d, c) == [step |-> "drawn", user |-> d.user, request |-> d.request,
                   to |-> d.to, card |-> c]

LEMMA Responses ==
  ASSUME IInv, NEW s \in Server, NEW c \in Card, Respond(s, c)
  PROVE  \A t \in Server :
           /\ drawing'[t] = IF Waits(t, s, applied[s] + 1) THEN Answered(drawing[t], c)
                                                           ELSE drawing[t]
           /\ drawing'[t] \in Drawing \union {NotDrawing}
           /\ Waits(t, s, applied[s] + 1) =>
                drawing[t].step = "proposed" /\ drawing'[t].step = "drawn" /\ drawing'[t].card = c
<1> SUFFICES ASSUME NEW t \in Server
             PROVE  /\ drawing'[t] = IF Waits(t, s, applied[s] + 1) THEN Answered(drawing[t], c)
                                                                   ELSE drawing[t]
                    /\ drawing'[t] \in Drawing \union {NotDrawing}
                    /\ Waits(t, s, applied[s] + 1) => /\ drawing[t].step = "proposed"
                                                      /\ drawing'[t].step = "drawn"
                                                      /\ drawing'[t].card = c
  OBVIOUS
<1>1. drawing[t] \in Drawing \union {NotDrawing}
  BY DEF IInv, TypeOK
<1>2. CASE Waits(t, s, applied[s] + 1)
  <2>1. drawing[t].step = "proposed" /\ drawing[t].to = s
    BY <1>2 DEF Waits
  <2>2. drawing[t] \in Proposal
    BY <1>1, <2>1, DrawingKinds
  <2>3. drawing'[t] = Answered(drawing[t], c)
    BY <1>2, <2>1 DEF Respond, Answered
  <2>4. Answered(drawing[t], c) \in Drawing
    BY <2>2 DEF Answered, Proposal, Drawing
  <2> QED
    BY <1>2, <2>1, <2>3, <2>4 DEF Answered
<1>3. CASE ~ Waits(t, s, applied[s] + 1)
  <2>1. drawing'[t] = drawing[t]
    BY <1>3 DEF Respond
  <2> QED
    BY <1>1, <1>3, <2>1
<1> QED
  BY <1>2, <1>3

LEMMA ServerTypeNext ==
  ASSUME IInv, [Next]_vars
  PROVE  ServerTypeOK'
<1>0. ServerTypeOK
  BY DEF IInv, TypeOK, ServerTypeOK
<1>1. CASE UNCHANGED serverVars
  BY <1>0, <1>1 DEF serverVars, ServerTypeOK
<1>2. ASSUME NEW s \in Server, ApplyOpenPack(s) PROVE ServerTypeOK'
  <2>1. /\ Full(s)[1] \in Card /\ Respond(s, Full(s)[1])
        /\ UNCHANGED <<claiming, inventory, draws>>
    BY <1>2, PackDrawn
  <2>2. drawing' = [t \in Server |-> drawing'[t]]
    BY <2>1 DEF Respond
  <2>3. \A t \in Server : drawing'[t] \in Drawing \union {NotDrawing}
    BY <2>1, Responses
  <2>4. drawing' \in [Server -> Drawing \union {NotDrawing}]
    BY <2>2, <2>3
  <2>5. given' \subseteq Card
    <3>1. \A t \in Server : drawing'[t].step = "drawn" => drawing'[t].card \in Card
      BY <2>3, DrawingKinds DEF Answer
    <3>2. given' = given \union {drawing'[t].card : t \in {t \in Server : drawing'[t].step = "drawn"}}
      BY <1>2 DEF ApplyOpenPack
    <3> QED
      BY <1>0, <3>1, <3>2 DEF ServerTypeOK
  <2> QED
    BY <1>0, <2>1, <2>4, <2>5 DEF ServerTypeOK
<1>3. ASSUME NEW s \in Server, ProcessDrawCardRequest(s) PROVE ServerTypeOK'
  <2>1. drawing[s] \in Answer
    BY <1>0, <1>3, DrawingKinds DEF ServerTypeOK, ProcessDrawCardRequest
  <2>2. [drawing[s] EXCEPT !.step = "answered"] \in Answer
    BY <2>1 DEF Answer
  <2>3. drawing' \in [Server -> Drawing \union {NotDrawing}]
    BY <1>0, <1>3, <2>2 DEF ServerTypeOK, ProcessDrawCardRequest, Drawing, Answer
  <2>4. claiming' \in [Server -> SUBSET RequestID]
    BY <1>0, <1>3, <2>1 DEF ServerTypeOK, ProcessDrawCardRequest, Answer
  <2> QED
    BY <1>0, <1>3, <2>3, <2>4 DEF ServerTypeOK, ProcessDrawCardRequest
<1>4. ASSUME NEW s \in Server, SaveCardToLocalUser(s) PROVE ServerTypeOK'
  <2>1. drawing[s] \in Answer
    BY <1>0, <1>4, DrawingKinds DEF ServerTypeOK, SaveCardToLocalUser
  <2>2. drawing[s].user \in User /\ drawing[s].card \in Card
    BY <2>1 DEF Answer
  <2>3. Append(inventory[drawing[s].user], drawing[s].card) \in Seq(Card)
    BY <1>0, <2>2, AppendProperties DEF ServerTypeOK
  <2> QED
    BY <1>0, <1>4, <2>2, <2>3 DEF ServerTypeOK, SaveCardToLocalUser
<1>5. ASSUME NEW s \in Server, LoseAnswer(s) PROVE ServerTypeOK'
  BY <1>0, <1>5 DEF ServerTypeOK, LoseAnswer
<1>6. ASSUME NEW s \in Server, ProposeClaim(s) \/ ClaimRefused(s) PROVE ServerTypeOK'
  BY <1>0, <1>6 DEF ServerTypeOK, ProposeClaim, ClaimRefused
<1>7. ASSUME NEW s \in Server, Restart(s) PROVE ServerTypeOK'
  <2>1. <<>> \in Seq(Card)
    BY EmptySeq
  <2> QED
    BY <1>0, <1>7, <2>1 DEF ServerTypeOK, Restart
<1>8. ASSUME NEW s \in Server, ServerStep(s) PROVE ServerTypeOK'
  BY <1>1, <1>2, <1>3, <1>4, <1>5, <1>6, <1>7, <1>8
  DEF ServerStep, ApplyClaimCard, ElectLeader, Snapshot
<1>9. ASSUME NEW u \in User, HandleDrawCard(u) PROVE ServerTypeOK'
  <2>1. /\ leader \in Server /\ draws + 1 \in RequestID /\ Len(log) + 1 \in 1 .. MaxLog
        /\ draws' \in 0 .. MaxDraws
    <3>1. leader \in Server \union {NoServer} /\ draws \in 0 .. MaxDraws /\ Len(log) \in Nat
      BY LenProperties DEF IInv, TypeOK
    <3> QED
      BY <1>9, <3>1 DEF HandleDrawCard, RequestID, Replicate
  <2>2. [step |-> "proposed", user |-> u, request |-> draws + 1,
         to |-> leader, index |-> Len(log) + 1] \in Drawing
    BY <2>1 DEF Drawing
  <2> QED
    BY <1>0, <1>9, <2>1, <2>2 DEF ServerTypeOK, HandleDrawCard
<1>10. CASE LoseLeadership
  BY <1>0, <1>10 DEF ServerTypeOK, LoseLeadership
<1>11. CASE CommitEntry
  BY <1>1, <1>11 DEF CommitEntry
<1>12. CASE UNCHANGED vars
  BY <1>1, <1>12 DEF vars
<1> QED
  BY <1>8, <1>9, <1>10, <1>11, <1>12 DEF Next

LEMMA TypeNext ==
  ASSUME IInv, [Next]_vars
  PROVE  TypeOK'
<1>1. RaftTyped(Command)'
  BY LogKept DEF IInv
<1> QED
  BY <1>1, StoreTypeNext, ServerTypeNext DEF RaftTyped, StoreTypeOK, ServerTypeOK, TypeOK

(***************************************************************************)
(* Requests, and what is waited for.                                       *)
(***************************************************************************)
LEMMA RequestsNext ==
  ASSUME IInv, [Next]_vars
  PROVE  RequestsInv'
<1>0. /\ log \in Seq(Command) /\ Len(log) \in Nat /\ \A i \in 1 .. Len(log) : log[i] \in Command
      /\ Len(log') \in Nat /\ draws \in Nat
      /\ \A i \in 1 .. Len(log') : (i \in 1 .. Len(log) /\ log'[i] = log[i]) \/ i = Len(log) + 1
  BY LogKept DEF IInv, TypeOK
<1>1. /\ \A i \in 1 .. Len(log) : IsPack(log[i]) => log[i].request <= draws
      /\ \A i, j \in 1 .. Len(log) : IsPack(log[i]) /\ log[i] = log[j] => i = j
  BY DEF IInv, RequestsInv
<1>2. ASSUME draws' = draws,
             \A i \in 1 .. Len(log') : IsPack(log'[i]) => i \in 1 .. Len(log) /\ log'[i] = log[i]
      PROVE  RequestsInv'
  <2>1. \A i \in 1 .. Len(log') : IsPack(log'[i]) => log'[i].request <= draws'
    BY <1>1, <1>2
  <2>2. ASSUME NEW i \in 1 .. Len(log'), NEW j \in 1 .. Len(log'), IsPack(log'[i]),
               log'[i] = log'[j]
        PROVE  i = j
    <3>1. IsPack(log'[j])
      BY <2>2
    <3> QED
      BY <1>1, <1>2, <2>2, <3>1
  <2> QED
    BY <2>1, <2>2 DEF RequestsInv, IsPack
<1>3. ASSUME draws' = draws, Len(log') \in 0 .. Len(log) PROVE RequestsInv'
  BY <1>0, <1>2, <1>3
<1>4. CASE UNCHANGED <<log, draws>>
  BY <1>0, <1>3, <1>4
<1>5. ASSUME NEW s \in Server, ServerStep(s) PROVE RequestsInv'
  <2>1. CASE ProposeClaim(s)
    <3>1. PICK r \in claiming[s] : Replicate(s, ClaimCard(r))
      BY <2>1 DEF ProposeClaim
    <3>2. ClaimCard(r) \in Command /\ ~ IsPack(ClaimCard(r))
      <4>1. r \in RequestID
        BY <3>1 DEF IInv, TypeOK
      <4> QED
        BY <4>1, Commands
    <3>3. log'[Len(log) + 1] = ClaimCard(r)
      BY <1>0, <3>1, <3>2, AppendProperties DEF Replicate
    <3> QED
      BY <1>0, <1>2, <2>1, <3>2, <3>3 DEF ProposeClaim
  <2>2. CASE ElectLeader(s)
    <3>1. PICK kept \in commit .. Len(log) : log' = SubSeq(log, 1, kept)
      BY <2>2 DEF ElectLeader, Elect
    <3>2. Len(log') = kept /\ kept \in 0 .. Len(log)
      <4>1. commit \in Nat
        BY LogKept DEF IInv
      <4>2. kept \in Nat /\ kept <= Len(log)
        BY <1>0, <3>1, <4>1
      <4> QED
        BY <1>0, <3>1, <4>2, SubSeqProperties
    <3> QED
      BY <1>3, <2>2, <3>2 DEF ElectLeader, serverVars
  <2> QED
    BY <1>4, <1>5, <2>1, <2>2
    DEF ServerStep, ProcessDrawCardRequest, SaveCardToLocalUser, LoseAnswer, ClaimRefused,
        ApplyOpenPack, ApplyClaimCard, Advance, Snapshot, TakeSnapshot, Restart, RestartRaft,
        raftVars, serverVars
<1>6. ASSUME NEW u \in User, HandleDrawCard(u) PROVE RequestsInv'
  <2>1. draws + 1 \in RequestID /\ draws' = draws + 1 /\ log' = Append(log, OpenPack(draws + 1))
    BY <1>0, <1>6 DEF HandleDrawCard, Replicate, RequestID
  <2>2. OpenPack(draws + 1) \in Command /\ OpenPack(draws + 1).request = draws + 1
    BY <2>1, Commands
  <2>3. /\ Len(log') = Len(log) + 1 /\ log'[Len(log) + 1] = OpenPack(draws + 1)
        /\ \A i \in 1 .. Len(log) : log'[i] = log[i]
    BY <1>0, <2>1, <2>2, AppendProperties
  <2>4. \A i \in 1 .. Len(log) :
          /\ IsPack(log'[i]) => log'[i].request <= draws /\ log'[i].request \in Nat
          /\ IsPack(log'[i]) => log'[i] # OpenPack(draws + 1)
    <3>1. \A i \in 1 .. Len(log) : log[i].request \in Nat
      BY <1>0, Commands DEF RequestID
    <3> QED
      BY <1>0, <1>1, <2>2, <2>3, <3>1
  <2>5. \A i \in 1 .. Len(log') : IsPack(log'[i]) => log'[i].request <= draws'
    BY <1>0, <2>1, <2>2, <2>3, <2>4
  <2>6. ASSUME NEW i \in 1 .. Len(log'), NEW j \in 1 .. Len(log'), IsPack(log'[i]),
               log'[i] = log'[j]
        PROVE  i = j
    <3>1. IsPack(log'[j])
      BY <2>6
    <3>2. CASE i \in 1 .. Len(log) /\ j \in 1 .. Len(log)
      BY <1>1, <2>3, <2>6, <3>2
    <3>3. CASE i = Len(log) + 1 \/ j = Len(log) + 1
      BY <1>0, <2>3, <2>4, <2>6, <3>1, <3>3
    <3> QED
      BY <1>0, <2>3, <3>2, <3>3
  <2> QED
    BY <2>5, <2>6 DEF RequestsInv, IsPack
<1>7. CASE CommitEntry \/ LoseLeadership
  BY <1>4, <1>7 DEF CommitEntry, Commit, LoseLeadership, StepDown, serverVars
<1>8. CASE UNCHANGED vars
  BY <1>4, <1>8 DEF vars, raftVars, serverVars
<1> QED
  BY <1>5, <1>6, <1>7, <1>8 DEF Next

(* A draw that waits is a new one or waited before.                        *)
LEMMA ProposedBefore ==
  ASSUME IInv, [Next]_vars, NEW t \in Server, drawing'[t].step = "proposed"
  PROVE  \/ drawing'[t] = drawing[t]
         \/ \E u \in User : HandleDrawCard(u) /\ Home[u] = t
<1>0. drawing \in [Server -> Drawing \union {NotDrawing}]
  BY DEF IInv, TypeOK
<1>1. CASE UNCHANGED drawing
  BY <1>1
<1>2. ASSUME NEW s \in Server, ServerStep(s) PROVE drawing'[t] = drawing[t]
  <2>1. CASE ApplyOpenPack(s)
    <3>1. Respond(s, Full(s)[1]) /\ Full(s)[1] \in Card
      BY <2>1, PackDrawn
    <3> QED
      BY <3>1, Responses
  <2>2. CASE ProcessDrawCardRequest(s)
    BY <1>0, <2>2 DEF ProcessDrawCardRequest
  <2>3. CASE SaveCardToLocalUser(s) \/ LoseAnswer(s)
    BY <1>0, <2>3 DEF SaveCardToLocalUser, LoseAnswer, NotDrawing
  <2>4. CASE Restart(s)
    BY <1>0, <2>4 DEF Restart, NotDrawing
  <2> QED
    BY <1>1, <1>2, <2>1, <2>2, <2>3, <2>4
    DEF ServerStep, ProposeClaim, ClaimRefused, ApplyClaimCard, ElectLeader, Snapshot, serverVars
<1>3. ASSUME NEW u \in User, HandleDrawCard(u), Home[u] # t PROVE drawing'[t] = drawing[t]
  BY <1>0, <1>3 DEF HandleDrawCard
<1>4. CASE LoseLeadership
  BY <1>0, <1>4 DEF LoseLeadership, NotDrawing
<1>5. CASE CommitEntry \/ UNCHANGED vars
  BY <1>1, <1>5 DEF CommitEntry, vars, serverVars
<1> QED
  BY <1>2, <1>3, <1>4, <1>5 DEF Next

(* A step of a server starts no draw.                                      *)
LEMMA NoDrawApplies ==
  ASSUME IInv, NEW s \in Server, ServerStep(s), NEW u \in User, HandleDrawCard(u)
  PROVE  FALSE
<1>1. draws \in Nat /\ draws' = draws + 1
  BY DEF HandleDrawCard, IInv, TypeOK
<1>2. draws' = draws
  <2>1. CASE ApplyOpenPack(s)
    BY <2>1 DEF ApplyOpenPack
  <2>2. CASE Restart(s)
    BY <2>2 DEF Restart
  <2> QED
    BY <2>1, <2>2
    DEF ServerStep, ProcessDrawCardRequest, SaveCardToLocalUser, LoseAnswer, ProposeClaim,
        ClaimRefused, ApplyClaimCard, ElectLeader, Snapshot, serverVars
<1> QED
  BY <1>1, <1>2

LEMMA NewDraw ==
  ASSUME IInv, NEW u \in User, HandleDrawCard(u)
  PROVE  /\ Home[u] \in Server /\ leader \in Server /\ leader' = leader
         /\ Len(log) \in Nat /\ Len(log') = Len(log) + 1
         /\ log'[Len(log) + 1] = OpenPack(draws + 1) /\ IsPack(log'[Len(log) + 1])
         /\ drawing[Home[u]] = NotDrawing
         /\ drawing'[Home[u]] = [step |-> "proposed", user |-> u, request |-> draws + 1,
                                 to |-> leader, index |-> Len(log) + 1]
<1>1. /\ draws \in 0 .. MaxDraws /\ log \in Seq(Command) /\ Len(log) \in Nat
      /\ leader \in Server \union {NoServer}
      /\ drawing \in [Server -> Drawing \union {NotDrawing}]
  BY LenProperties DEF IInv, TypeOK
<1>2. OpenPack(draws + 1) \in Command /\ IsPack(OpenPack(draws + 1))
  BY <1>1, Commands DEF HandleDrawCard, RequestID
<1>3. log' = Append(log, OpenPack(draws + 1)) /\ leader' = leader
  BY DEF HandleDrawCard, Replicate
<1>4. Len(log') = Len(log) + 1 /\ log'[Len(log) + 1] = OpenPack(draws + 1)
  BY <1>1, <1>2, <1>3, AppendProperties
<1> QED
  BY <1>1, <1>2, <1>3, <1>4 DEF HandleDrawCard

LEMMA WaitingStays ==
  ASSUME IInv, [Next]_vars, NEW t \in Server, drawing[t].step = "proposed",
         drawing'[t] = drawing[t], applied'[drawing[t].to] < drawing[t].index,
         leader' = leader \/ leader # drawing[t].to \/ drawing[t].index <= commit
  PROVE  Waiting(t)'
<1> DEFINE i == drawing[t].index
<1>1. /\ i \in 1 .. Len(log) /\ IsPack(log[i]) /\ applied[drawing[t].to] < i
      /\ leader = drawing[t].to \/ i <= commit
      /\ drawing'[t].index = i /\ drawing'[t].to = drawing[t].to
      /\ drawing[t].to \in Server
  <2>1. drawing[t] \in Proposal
    BY DrawingKinds DEF IInv, TypeOK
  <2> QED
    BY <2>1 DEF Proposal, IInv, WaitingInv, Waiting
<1>2. /\ Len(log) \in Nat /\ commit \in Nat /\ Len(log') \in Nat
      /\ commit' \in Nat /\ commit' <= Len(log') /\ commit <= commit'
      /\ \A k \in 1 .. commit : log'[k] = log[k]
  BY LogKept DEF IInv
<1>3. RaftTyped(Command) /\ RaftStep(Command)
  BY NextIsRaftStep DEF IInv, TypeOK, RaftTyped
<1> HIDE DEF i
<1>4. i \in 1 .. Len(log') /\ log'[i] = log[i] /\ (leader' = drawing[t].to \/ i <= commit')
  <2>1. CASE i <= commit
    <3>1. i \in 1 .. commit /\ i \in 1 .. Len(log') /\ i <= commit'
      BY <1>1, <1>2, <2>1
    <3> QED
      BY <1>2, <3>1
  <2>2. CASE leader = drawing[t].to /\ leader' = leader
    BY <1>1, <1>3, <2>2, LeaderLog
  <2> QED
    BY <1>1, <2>1, <2>2 DEF i
<1> QED
  BY <1>1, <1>4 DEF Waiting, IsPack, i

LEMMA WaitingNext ==
  ASSUME IInv, [Next]_vars
  PROVE  WaitingInv'
<1>0. /\ drawing \in [Server -> Drawing \union {NotDrawing}]
      /\ applied \in [Server -> 0 .. commit] /\ commit \in Nat
  BY LogKept DEF IInv, TypeOK
<1>1. ASSUME NEW t \in Server, drawing[t].step = "proposed"
      PROVE  /\ Waiting(t) /\ drawing[t].to \in Server /\ drawing[t].index \in Nat
             /\ applied[drawing[t].to] \in Nat
  <2>1. drawing[t] \in Proposal
    BY <1>0, <1>1, DrawingKinds
  <2>2. drawing[t].to \in Server /\ drawing[t].index \in Nat
    BY <2>1 DEF Proposal
  <2>3. applied[drawing[t].to] \in 0 .. commit
    BY <1>0, <2>2
  <2> QED
    BY <1>1, <2>2, <2>3 DEF IInv, WaitingInv
<1>2. ASSUME NEW t \in Server, drawing'[t].step = "proposed", drawing'[t] = drawing[t],
             applied'[drawing[t].to] = applied[drawing[t].to],
             leader' = leader \/ leader # drawing[t].to \/ drawing[t].index <= commit
      PROVE  Waiting(t)'
  <2>1. applied[drawing[t].to] < drawing[t].index
    BY <1>1, <1>2 DEF Waiting
  <2> QED
    BY <1>2, <2>1, WaitingStays
<1>3. ASSUME NEW t \in Server, drawing'[t].step = "proposed" PROVE Waiting(t)'
  <2>1. ASSUME NEW s \in Server, ApplyOpenPack(s) \/ ApplyClaimCard(s) PROVE Waiting(t)'
    <3>1. /\ Advance(s) /\ applied[s] + 1 \in 1 .. Len(log)
          /\ applied' = [applied EXCEPT ![s] = applied[s] + 1] /\ leader' = leader
          /\ NextEntry(s) = log[applied[s] + 1]
      BY <2>1, AppliedEntry DEF ApplyOpenPack, ApplyClaimCard, IInv
    <3>2. drawing'[t] = drawing[t]
      BY <1>3, <2>1, ProposedBefore, NoDrawApplies DEF ServerStep
    <3>3. ASSUME drawing[t].to = s PROVE drawing[t].index # applied[s] + 1
      <4>1. CASE ApplyClaimCard(s)
        <5>1. ~ IsPack(log[applied[s] + 1])
          BY <3>1, <4>1 DEF ApplyClaimCard, IsPack
        <5> QED
          BY <1>1, <1>3, <3>2, <5>1 DEF Waiting
      <4>2. CASE ApplyOpenPack(s)
        <5>1. ~ Waits(t, s, applied[s] + 1)
          BY <1>3, <4>2, PackDrawn, Responses
        <5> QED
          BY <1>3, <3>2, <3>3, <5>1 DEF Waits
      <4> QED
        BY <2>1, <4>1, <4>2
    <3>4. applied'[drawing[t].to] < drawing[t].index
      <4>1. applied[drawing[t].to] < drawing[t].index
        BY <1>1, <1>3, <3>2 DEF Waiting
      <4> QED
        BY <1>0, <1>1, <1>3, <3>1, <3>2, <3>3, <4>1
    <3> QED
      BY <1>3, <3>1, <3>2, <3>4, WaitingStays
  <2>2. ASSUME NEW s \in Server, ServerStep(s) PROVE Waiting(t)'
    <3>0. drawing'[t] = drawing[t]
      BY <1>3, <2>2, ProposedBefore, NoDrawApplies
    <3>1. CASE Restart(s)
      <4>1. drawing[t].to # s /\ drawing'[t] = drawing[t]
        BY <1>0, <1>3, <3>0, <3>1 DEF Restart, NotDrawing
      <4>2. applied'[drawing[t].to] = applied[drawing[t].to] /\ (leader' = leader \/ leader = s)
        BY <1>0, <3>1, <4>1 DEF Restart, RestartRaft
      <4> QED
        BY <1>2, <1>3, <4>1, <4>2
    <3>2. CASE ElectLeader(s)
      <4>1. leader = NoServer /\ UNCHANGED applied
        BY <3>2 DEF ElectLeader, Elect
      <4> QED
        BY <1>1, <1>2, <1>3, <3>0, <4>1
    <3> QED
      BY <1>2, <1>3, <2>1, <2>2, <3>0, <3>1, <3>2
      DEF ServerStep, ProcessDrawCardRequest, SaveCardToLocalUser, LoseAnswer, ProposeClaim,
          Replicate, ClaimRefused, Snapshot, TakeSnapshot, raftVars
  <2>3. ASSUME NEW u \in User, HandleDrawCard(u) PROVE Waiting(t)'
    <3>1. UNCHANGED <<applied, leader, commit>>
      BY <2>3 DEF HandleDrawCard, Replicate
    <3>2. CASE Home[u] = t
      <4>1. /\ drawing'[t].index = Len(log) + 1 /\ drawing'[t].to = leader
            /\ leader \in Server /\ IsPack(log'[Len(log) + 1])
            /\ Len(log) \in Nat /\ Len(log') = Len(log) + 1
        <5>1. drawing'[t] = [step |-> "proposed", user |-> u, request |-> draws + 1,
                             to |-> leader, index |-> Len(log) + 1]
          BY <2>3, <3>2, NewDraw
        <5> QED
          BY <2>3, <5>1, NewDraw
      <4>2. applied'[leader] \in 0 .. commit /\ commit <= Len(log)
        BY <1>0, <3>1, <4>1, LogKept DEF IInv
      <4>3. applied'[leader] < Len(log) + 1
        BY <1>0, <4>1, <4>2
      <4> QED
        BY <3>1, <4>1, <4>3 DEF Waiting, IsPack
    <3>3. CASE Home[u] # t
      BY <1>0, <1>2, <1>3, <2>3, <3>1, <3>3 DEF HandleDrawCard
    <3> QED
      BY <3>2, <3>3
  <2>4. CASE LoseLeadership
    <3>1. drawing'[t] = drawing[t] /\ ~ (drawing[t].index > commit) /\ UNCHANGED applied
      BY <1>0, <1>3, <2>4 DEF LoseLeadership, StepDown, NotDrawing
    <3> QED
      BY <1>0, <1>1, <1>2, <1>3, <3>1
  <2>5. CASE CommitEntry \/ UNCHANGED vars
    BY <1>2, <1>3, <2>5 DEF CommitEntry, Commit, vars, raftVars, serverVars
  <2> QED
    BY <2>2, <2>3, <2>4, <2>5 DEF Next
<1>4. ASSUME NEW t \in Server, NEW u \in Server,
             drawing'[t].step = "proposed", drawing'[u].step = "proposed",
             drawing'[u].index = drawing'[t].index
      PROVE  u = t
  <2>1. CASE drawing'[t] = drawing[t] /\ drawing'[u] = drawing[u]
    BY <1>4, <2>1 DEF IInv, WaitingInv
  <2>2. ASSUME NEW v \in User, HandleDrawCard(v) PROVE u = t
    <3>1. /\ drawing'[Home[v]].index = Len(log) + 1 /\ Len(log) \in Nat
          /\ \A w \in Server : w # Home[v] => drawing'[w] = drawing[w]
      BY <1>0, <2>2, NewDraw DEF HandleDrawCard
    <3>2. \A w \in {t, u} : w # Home[v] => drawing'[w].index \in 1 .. Len(log)
      BY <1>1, <1>4, <3>1 DEF Waiting
    <3> QED
      BY <1>4, <2>1, <3>1, <3>2
  <2> QED
    BY <1>4, <2>1, <2>2, ProposedBefore
<1> QED
  BY <1>3, <1>4 DEF WaitingInv

(***************************************************************************)
(* What is pending is what was drawn and not claimed.                      *)
(***************************************************************************)
LEMMA UnclaimedStays ==
  ASSUME NEW lg, NEW new, NEW at \in Nat, NEW r, \A i \in 1 .. at : new[i] = lg[i]
  PROVE  Unclaimed(new, at, r) <=> Unclaimed(lg, at, r)
BY DEF Unclaimed

LEMMA UnclaimedAfterPack ==
  ASSUME NEW lg, NEW at \in Nat, NEW r \in RequestID, NEW q \in RequestID,
         lg[at + 1] = OpenPack(q)
  PROVE  Unclaimed(lg, at + 1, r) <=> r = q \/ Unclaimed(lg, at, r)
<1>1. /\ OpenPack(q) # ClaimCard(r)
      /\ OpenPack(q) = OpenPack(r) => q = r
  BY Commands
<1>2. CASE r = q
  BY <1>1, <1>2 DEF Unclaimed
<1>3. CASE r # q
  <2>1. ASSUME Unclaimed(lg, at + 1, r) PROVE Unclaimed(lg, at, r)
    <3>1. PICK i \in 1 .. at + 1 : lg[i] = OpenPack(r) /\ \A j \in i + 1 .. at + 1 : lg[j] # ClaimCard(r)
      BY <2>1 DEF Unclaimed
    <3>2. i \in 1 .. at
      BY <1>1, <1>3, <3>1
    <3> QED
      BY <3>1, <3>2 DEF Unclaimed
  <2>2. ASSUME Unclaimed(lg, at, r) PROVE Unclaimed(lg, at + 1, r)
    <3>1. PICK i \in 1 .. at : lg[i] = OpenPack(r) /\ \A j \in i + 1 .. at : lg[j] # ClaimCard(r)
      BY <2>2 DEF Unclaimed
    <3>2. \A j \in i + 1 .. at + 1 : lg[j] # ClaimCard(r)
      BY <1>1, <3>1
    <3> QED
      BY <3>1, <3>2 DEF Unclaimed
  <2> QED
    BY <1>3, <2>1, <2>2
<1> QED
  BY <1>2, <1>3

LEMMA UnclaimedAfterClaim ==
  ASSUME NEW lg, NEW at \in Nat, NEW r \in RequestID, NEW q \in RequestID,
         lg[at + 1] = ClaimCard(q)
  PROVE  Unclaimed(lg, at + 1, r) <=> r # q /\ Unclaimed(lg, at, r)
<1>1. /\ ClaimCard(q) # OpenPack(r)
      /\ ClaimCard(q) = ClaimCard(r) => q = r
  BY Commands
<1>2. ASSUME Unclaimed(lg, at + 1, r) PROVE r # q /\ Unclaimed(lg, at, r)
  <2>1. PICK i \in 1 .. at + 1 : lg[i] = OpenPack(r) /\ \A j \in i + 1 .. at + 1 : lg[j] # ClaimCard(r)
    BY <1>2 DEF Unclaimed
  <2>2. i \in 1 .. at
    BY <1>1, <2>1
  <2>3. r # q
    BY <2>1, <2>2
  <2> QED
    BY <2>1, <2>2, <2>3 DEF Unclaimed
<1>3. ASSUME r # q, Unclaimed(lg, at, r) PROVE Unclaimed(lg, at + 1, r)
  <2>1. PICK i \in 1 .. at : lg[i] = OpenPack(r) /\ \A j \in i + 1 .. at : lg[j] # ClaimCard(r)
    BY <1>3 DEF Unclaimed
  <2>2. \A j \in i + 1 .. at + 1 : lg[j] # ClaimCard(r)
    BY <1>1, <1>3, <2>1
  <2> QED
    BY <2>1, <2>2 DEF Unclaimed
<1> QED
  BY <1>2, <1>3

LEMMA PendingNext ==
  ASSUME IInv, [Next]_vars
  PROVE  PendingInv'
<1>0. /\ pending \in [Server -> [RequestID -> Card \union {NoCard}]]
      /\ saved \in [Server -> [stock : Seq(Card), pending : [RequestID -> Card \union {NoCard}]]]
      /\ applied \in [Server -> 0 .. commit] /\ snapshot \in [Server -> 0 .. commit]
      /\ commit \in Nat /\ \A i \in 1 .. commit : log'[i] = log[i]
  BY LogKept DEF IInv, TypeOK
<1> SUFFICES ASSUME NEW s \in Server, NEW r \in RequestID
             PROVE  /\ pending'[s][r] # NoCard <=> Unclaimed(log', applied'[s], r)
                    /\ saved'[s].pending[r] # NoCard <=> Unclaimed(log', snapshot'[s], r)
  BY DEF PendingInv
<1> DEFINE P == pending'[s][r] # NoCard <=> Unclaimed(log', applied'[s], r)
           S == saved'[s].pending[r] # NoCard <=> Unclaimed(log', snapshot'[s], r)
<1>1. /\ applied[s] \in Nat /\ snapshot[s] \in Nat
      /\ Unclaimed(log', applied[s], r) <=> pending[s][r] # NoCard
      /\ Unclaimed(log', snapshot[s], r) <=> saved[s].pending[r] # NoCard
  <2>1. applied[s] \in 0 .. commit /\ snapshot[s] \in 0 .. commit
    BY <1>0
  <2>2. /\ \A i \in 1 .. applied[s] : log'[i] = log[i]
        /\ \A i \in 1 .. snapshot[s] : log'[i] = log[i]
        /\ applied[s] \in Nat /\ snapshot[s] \in Nat
    BY <1>0, <2>1
  <2>3. /\ Unclaimed(log', applied[s], r) <=> Unclaimed(log, applied[s], r)
        /\ Unclaimed(log', snapshot[s], r) <=> Unclaimed(log, snapshot[s], r)
    BY <2>2, UnclaimedStays
  <2> QED
    BY <2>2, <2>3 DEF IInv, PendingInv
<1>2. ASSUME pending'[s] = pending[s], applied'[s] = applied[s] PROVE P
  BY <1>1, <1>2
<1>3. ASSUME saved'[s] = saved[s], snapshot'[s] = snapshot[s] PROVE S
  BY <1>1, <1>3
<1>4. ASSUME NEW t \in Server, ServerStep(t) PROVE P /\ S
  <2>1. CASE ApplyOpenPack(t)
    <3> DEFINE q == NextEntry(t).request
    <3>1. /\ q \in RequestID /\ NextEntry(t) = OpenPack(q) /\ Full(t)[1] # NoCard
          /\ pending' = [pending EXCEPT ![t][q] = Full(t)[1]] /\ UNCHANGED saved
      BY <2>1, PackDrawn, CardParts
    <3>2. /\ applied' = [applied EXCEPT ![t] = applied[t] + 1] /\ UNCHANGED <<log, snapshot>>
          /\ NextEntry(t) = log[applied[t] + 1]
      BY <2>1, AppliedEntry DEF ApplyOpenPack, IInv
    <3> HIDE DEF q
    <3>3. CASE t = s
      <4>1. Unclaimed(log', applied'[s], r) <=> r = q \/ Unclaimed(log', applied[s], r)
        BY <1>0, <1>1, <3>1, <3>2, <3>3, UnclaimedAfterPack
      <4>2. pending'[s][r] = IF r = q THEN Full(t)[1] ELSE pending[s][r]
        BY <1>0, <3>1, <3>3
      <4> QED
        BY <1>1, <1>3, <3>1, <3>2, <4>1, <4>2
    <3>4. CASE t # s
      BY <1>0, <1>2, <1>3, <3>1, <3>2, <3>4
    <3> QED
      BY <3>3, <3>4
  <2>2. CASE ApplyClaimCard(t)
    <3> DEFINE q == NextEntry(t).request
    <3>1. /\ applied' = [applied EXCEPT ![t] = applied[t] + 1] /\ UNCHANGED <<log, snapshot>>
          /\ NextEntry(t) = log[applied[t] + 1] /\ NextEntry(t) \in Command
          /\ pending' = [pending EXCEPT ![t][q] = NoCard] /\ UNCHANGED saved
      BY <2>2, AppliedEntry DEF ApplyClaimCard, IInv
    <3>2. q \in RequestID /\ log[applied[t] + 1] = ClaimCard(q)
      <4>1. ~ IsPack(NextEntry(t))
        BY <2>2 DEF ApplyClaimCard, IsPack
      <4> QED
        BY <3>1, <4>1, Commands
    <3> HIDE DEF q
    <3>3. CASE t = s
      <4>1. Unclaimed(log', applied'[s], r) <=> r # q /\ Unclaimed(log', applied[s], r)
        BY <1>0, <1>1, <3>1, <3>2, <3>3, UnclaimedAfterClaim
      <4>2. pending'[s][r] = IF r = q THEN NoCard ELSE pending[s][r]
        BY <1>0, <3>1, <3>2, <3>3
      <4> QED
        BY <1>1, <1>3, <3>1, <4>1, <4>2
    <3>4. CASE t # s
      BY <1>0, <1>2, <1>3, <3>1, <3>2, <3>4
    <3> QED
      BY <3>3, <3>4
  <2>3. CASE Snapshot(t)
    <3>1. /\ UNCHANGED <<pending, applied>> /\ snapshot' = [snapshot EXCEPT ![t] = applied[t]]
          /\ saved' = [saved EXCEPT ![t] = [stock |-> stock[t], pending |-> pending[t]]]
      BY <2>3 DEF Snapshot, TakeSnapshot
    <3>2. CASE t = s
      <4>1. saved'[s].pending = pending[s] /\ snapshot'[s] = applied[s]
        BY <1>0, <3>1, <3>2
      <4> QED
        BY <1>1, <1>2, <3>1, <4>1
    <3>3. CASE t # s
      BY <1>0, <1>2, <1>3, <3>1, <3>3
    <3> QED
      BY <3>2, <3>3
  <2>4. CASE Restart(t)
    <3>1. /\ applied' = [applied EXCEPT ![t] = snapshot[t]] /\ UNCHANGED <<snapshot, saved>>
          /\ pending' = [pending EXCEPT ![t] = IF snapshot[t] = 0 THEN NothingPending
                                                                   ELSE saved[t].pending]
      BY <2>4 DEF Restart, RestartRaft, NewFSM
    <3>2. CASE t = s /\ snapshot[t] = 0
      <4>1. ~ Unclaimed(log', 0, r)
        BY DEF Unclaimed
      <4>2. pending'[s][r] = NoCard /\ applied'[s] = 0
        BY <1>0, <3>1, <3>2 DEF NothingPending
      <4> QED
        BY <1>3, <3>1, <4>1, <4>2
    <3>3. CASE t = s /\ snapshot[t] # 0
      <4>1. pending'[s] = saved[s].pending /\ applied'[s] = snapshot[s]
        BY <1>0, <3>1, <3>3
      <4> QED
        BY <1>1, <1>3, <3>1, <4>1
    <3>4. CASE t # s
      BY <1>0, <1>2, <1>3, <3>1, <3>4
    <3> QED
      BY <3>2, <3>3, <3>4
  <2> QED
    BY <1>2, <1>3, <1>4, <2>1, <2>2, <2>3, <2>4
    DEF ServerStep, ProcessDrawCardRequest, SaveCardToLocalUser, LoseAnswer, ProposeClaim,
        Replicate, ClaimRefused, ElectLeader, Elect, raftVars, fsmVars
<1>5. ASSUME NEW u \in User, HandleDrawCard(u) PROVE P /\ S
  BY <1>2, <1>3, <1>5 DEF HandleDrawCard, Replicate, fsmVars
<1>6. CASE CommitEntry \/ LoseLeadership \/ UNCHANGED vars
  BY <1>2, <1>3, <1>6
  DEF CommitEntry, Commit, LoseLeadership, StepDown, vars, raftVars, fsmVars
<1> QED
  BY <1>4, <1>5, <1>6 DEF Next

(***************************************************************************)
(* Stocks.                                                                 *)
(***************************************************************************)
LEMMA NewCards ==
  ASSUME NEW s \in Server, NEW n \in Nat
  PROVE  /\ Made(s, GerarEstoque(s, n), n + StockSize)
         /\ \A k \in 1 .. Len(GerarEstoque(s, n)) :
              GerarEstoque(s, n)[k][1] = s /\ GerarEstoque(s, n)[k][2] > n
<1>1. /\ Len(GerarEstoque(s, n)) = StockSize
      /\ \A k \in 1 .. StockSize : GerarEstoque(s, n)[k] = <<s, n + k>>
  BY NewStock
<1>2. \A k \in 1 .. StockSize : /\ GerarEstoque(s, n)[k][1] = s
                                /\ GerarEstoque(s, n)[k][2] = n + k
  BY <1>1
<1>3. \A j, k \in 1 .. StockSize : GerarEstoque(s, n)[j] = GerarEstoque(s, n)[k] => j = k
  <2>1. \A j, k \in 1 .. StockSize : n + j = n + k => j = k
    OBVIOUS
  <2> QED
    BY <1>2, <2>1
<1> QED
  BY <1>1, <1>2, <1>3 DEF Made

LEMMA MadeTail ==
  ASSUME NEW s \in Server, NEW full \in Seq(Card), Len(full) >= 1, NEW md \in Nat,
         Made(s, full, md)
  PROVE  Made(s, Tail(full), md)
<1>1. /\ Len(full) \in Nat /\ Len(Tail(full)) = Len(full) - 1
      /\ \A k \in 1 .. Len(full) - 1 : Tail(full)[k] = full[k + 1]
  BY HeadTailProperties, EmptySeq, LenProperties
<1> QED
  BY <1>1 DEF Made

LEMMA MadeMore ==
  ASSUME NEW s \in Server, NEW stk \in Seq(Card), NEW md \in Nat, NEW md2 \in Nat, md <= md2,
         Made(s, stk, md)
  PROVE  Made(s, stk, md2)
<1>1. \A k \in 1 .. Len(stk) : stk[k][2] \in Nat
  <2>1. \A k \in 1 .. Len(stk) : stk[k] \in Card
    BY ElementOfSeq
  <2> QED
    BY <2>1, CardParts
<1> QED
  BY <1>1 DEF Made

(* Nothing becomes a card for an entry that somebody waits for unless a    *)
(* card is given.                                                          *)
LEMMA FreshStays ==
  ASSUME NEW stk, NEW at \in Nat, NEW lg, NEW new, NEW cm \in Nat,
         NEW cm2 \in Nat, cm <= cm2, cm2 <= cm + 1,
         \A i \in 1 .. cm : new[i] = lg[i],
         NEW gv, NEW gv2, \A k \in 1 .. Len(stk) : stk[k] \in gv2 => stk[k] \in gv,
         NEW aw \in SUBSET (Nat \ {0}), NEW aw2 \in SUBSET (Nat \ {0}),
         \A w \in aw2 : w \in aw \/ w > cm2,
         Fresh(stk, at, lg, cm, gv, aw)
  PROVE  Fresh(stk, at, new, cm2, gv2, aw2)
<1> SUFFICES ASSUME NEW k \in 1 .. Len(stk), stk[k] \in gv2
             PROVE  /\ k <= PackCount(new, at, cm2)
                    /\ \A w \in aw2 : w <= cm2 => k <= PackCount(new, at, w - 1)
  BY DEF Fresh
<1>1. /\ k <= PackCount(lg, at, cm)
      /\ \A w \in aw : w <= cm => k <= PackCount(lg, at, w - 1)
      /\ k \in Int
  BY DEF Fresh
<1>2. k <= PackCount(new, at, cm) /\ PackCount(new, at, cm) \in Nat
  <2>1. PackCount(new, at, cm) = PackCount(lg, at, cm)
    BY SamePacks
  <2>2. PackCount(new, at, cm) \in Nat
    BY PacksAreFinite
  <2> QED
    BY <1>1, <2>1, <2>2
<1>3. PackCount(new, at, cm) <= PackCount(new, at, cm2) /\ PackCount(new, at, cm2) \in Nat
  <2>1. cm2 \in Nat /\ cm <= cm2
    OBVIOUS
  <2> QED
    BY <2>1, MorePacks, PacksAreFinite
<1>4. ASSUME NEW w \in aw2, w <= cm2 PROVE k <= PackCount(new, at, w - 1)
  <2>1. w \in aw /\ w \in Nat /\ w >= 1 /\ w - 1 \in Nat
    BY <1>4
  <2>2. CASE w <= cm
    <3>1. PackCount(new, at, w - 1) = PackCount(lg, at, w - 1)
      BY <2>1, <2>2, SamePacks
    <3> QED
      BY <1>1, <2>1, <2>2, <3>1
  <2>3. CASE w = cm + 1
    <3>1. w - 1 = cm
      BY <2>1, <2>3
    <3> QED
      BY <1>2, <3>1
  <2> QED
    BY <1>4, <2>1, <2>2, <2>3
<1> QED
  BY <1>1, <1>2, <1>3, <1>4

(* Drawing the first card of a stock for the next entry, which nobody      *)
(* waits for any longer.                                                   *)
LEMMA FreshAfterPack ==
  ASSUME NEW full \in Seq(Card), Len(full) >= 1,
         \A j, k \in 1 .. Len(full) : full[j] = full[k] => j = k,
         NEW at \in Nat, NEW next, next = at + 1,
         NEW lg, NEW cm \in Nat, next <= cm, IsPack(lg[next]),
         NEW gv, NEW gv2, gv2 \subseteq gv \union {full[1]},
         NEW aw, NEW aw2 \in SUBSET Nat,
         \A w \in aw2 : (w \in aw \/ w > cm) /\ w > next,
         Fresh(full, at, lg, cm, gv, aw)
  PROVE  Fresh(Tail(full), next, lg, cm, gv2, aw2)
<1>1. /\ Len(full) \in Nat /\ Len(Tail(full)) = Len(full) - 1
      /\ \A k \in 1 .. Len(full) - 1 : Tail(full)[k] = full[k + 1]
  BY HeadTailProperties, EmptySeq, LenProperties
<1> SUFFICES ASSUME NEW k \in 1 .. Len(full) - 1, full[k + 1] \in gv2
             PROVE  /\ k <= PackCount(lg, at + 1, cm)
                    /\ \A w \in aw2 : w <= cm => k <= PackCount(lg, at + 1, w - 1)
  BY <1>1 DEF Fresh
<1>2. k \in Int /\ k + 1 \in 1 .. Len(full) /\ full[k + 1] # full[1]
  BY <1>1
<1>3. /\ k + 1 <= PackCount(lg, at, cm)
      /\ \A w \in aw : w <= cm => k + 1 <= PackCount(lg, at, w - 1)
  BY <1>2 DEF Fresh
<1>4. ASSUME NEW b \in Nat, at < b, k + 1 <= PackCount(lg, at, b)
      PROVE  k <= PackCount(lg, at + 1, b)
  <2>1. PackCount(lg, at, b) = PackCount(lg, at + 1, b) + 1 /\ PackCount(lg, at + 1, b) \in Nat
    BY <1>4, OnePackLess, PacksAreFinite
  <2> QED
    BY <1>2, <1>4, <2>1
<1>5. ASSUME NEW w \in aw2, w <= cm PROVE k <= PackCount(lg, at + 1, w - 1)
  <2>1. w - 1 \in Nat /\ at < w - 1 /\ w \in aw
    BY <1>5
  <2> QED
    BY <1>3, <1>4, <1>5, <2>1
<1> QED
  BY <1>3, <1>4, <1>5

LEMMA FreshAfterClaim ==
  ASSUME NEW stk, NEW at \in Nat, NEW next, next = at + 1,
         NEW lg, NEW cm \in Nat, next <= cm, ~ IsPack(lg[next]),
         NEW gv, NEW aw \in SUBSET Nat, \A w \in aw : w > next,
         Fresh(stk, at, lg, cm, gv, aw)
  PROVE  Fresh(stk, next, lg, cm, gv, aw)
<1>1. ASSUME NEW b \in Nat, at < b
      PROVE  PackCount(lg, at + 1, b) = PackCount(lg, at, b)
  <2>1. PackCount(lg, at, b) = PackCount(lg, at + 1, b) + 0 /\ PackCount(lg, at + 1, b) \in Nat
    BY <1>1, OnePackLess, PacksAreFinite
  <2> QED
    BY <2>1
<1>2. PackCount(lg, at + 1, cm) = PackCount(lg, at, cm)
  BY <1>1
<1>3. \A w \in aw : PackCount(lg, at + 1, w - 1) = PackCount(lg, at, w - 1)
  <2>1. \A w \in aw : w - 1 \in Nat /\ at < w - 1
    OBVIOUS
  <2> QED
    BY <1>1, <2>1
<1> QED
  BY <1>2, <1>3 DEF Fresh

(* The stock "old" that was saved after "from" entries: the card given for *)
(* the entry "next" is the one that it will draw for it again.             *)
LEMMA FreshOfSaved ==
  ASSUME NEW old, NEW from \in Nat, NEW next \in Nat, NEW lg, NEW cm \in Nat, next <= cm,
         NEW gv, NEW gv2,
         \A j \in 1 .. Len(old) : old[j] \in gv2 => old[j] \in gv \/ j = PackCount(lg, from, next),
         NEW aw, NEW aw2 \in SUBSET Nat,
         \A w \in aw2 : (w \in aw \/ w > cm) /\ w > next,
         Fresh(old, from, lg, cm, gv, aw)
  PROVE  Fresh(old, from, lg, cm, gv2, aw2)
<1> SUFFICES ASSUME NEW k \in 1 .. Len(old), old[k] \in gv2
             PROVE  /\ k <= PackCount(lg, from, cm)
                    /\ \A w \in aw2 : w <= cm => k <= PackCount(lg, from, w - 1)
  BY DEF Fresh
<1>1. CASE old[k] \in gv
  BY <1>1 DEF Fresh
<1>2. CASE k = PackCount(lg, from, next)
  <2>1. ASSUME NEW b \in Nat, next <= b PROVE k <= PackCount(lg, from, b)
    BY <1>2, <2>1, MorePacks
  <2>2. \A w \in aw2 : w - 1 \in Nat /\ next <= w - 1
    OBVIOUS
  <2> QED
    BY <2>1, <2>2
<1> QED
  BY <1>1, <1>2

LEMMA NoneGiven ==
  ASSUME NEW stk, NEW at, NEW lg, NEW cm, NEW gv, NEW aw,
         \A k \in 1 .. Len(stk) : stk[k] \notin gv
  PROVE  Fresh(stk, at, lg, cm, gv, aw)
BY DEF Fresh

(* The stock of an OPEN_PACK, refilled or not.                             *)
LEMMA FullStock ==
  ASSUME IInv, NEW s \in Server, ApplyOpenPack(s)
  PROVE  /\ made[s] \in Nat /\ made'[s] \in Nat /\ made[s] <= made'[s]
         /\ Made(s, Full(s), made'[s])
         /\ Fresh(Full(s), applied[s], log, commit, given, Awaited(s))
         /\ \A k \in 1 .. Len(Full(s)), j \in 1 .. Len(saved[s].stock) :
              Full(s)[k] = saved[s].stock[j] =>
                j = k + PackCount(log, snapshot[s], applied[s])
<1>1. /\ made \in [Server -> Nat] /\ made[s] \in Nat
      /\ made' = [made EXCEPT ![s] = IF stock[s] = <<>> THEN @ + StockSize ELSE @]
      /\ \A c \in given : c \in Card /\ c[2] <= made[c[1]]
      /\ saved[s].stock \in Seq(Card)
  <2>1. saved[s] \in [stock : Seq(Card), pending : [RequestID -> Card \union {NoCard}]]
    BY DEF IInv, TypeOK
  <2> QED
    BY <2>1, PackDrawn DEF IInv, TypeOK, GivenInv
<1>2. CASE stock[s] = <<>>
  <2>1. Full(s) = GerarEstoque(s, made[s]) /\ made'[s] = made[s] + StockSize
    BY <1>1, <1>2 DEF Full
  <2>2. /\ Made(s, Full(s), made'[s])
        /\ \A k \in 1 .. Len(Full(s)) : Full(s)[k][1] = s /\ Full(s)[k][2] > made[s]
    BY <1>1, <2>1, NewCards
  <2>3. \A k \in 1 .. Len(Full(s)) : Full(s)[k] \notin given
    <3>1. \A c \in given : c[1] = s => c[2] \in Nat /\ c[2] <= made[s]
      BY <1>1, CardParts
    <3>2. \A k \in 1 .. Len(Full(s)) : Full(s)[k][2] \in Nat
      <4>1. \A k \in 1 .. Len(Full(s)) : Full(s)[k] \in Card
        BY PackDrawn, ElementOfSeq
      <4> QED
        BY <4>1, CardParts
    <3> QED
      BY <1>1, <2>2, <3>1, <3>2
  <2>4. \A k \in 1 .. Len(Full(s)), j \in 1 .. Len(saved[s].stock) :
          Full(s)[k] # saved[s].stock[j]
    <3>1. \A j \in 1 .. Len(saved[s].stock) :
            saved[s].stock[j][2] \in Nat /\ saved[s].stock[j][2] <= made[s]
      <4>1. \A j \in 1 .. Len(saved[s].stock) : saved[s].stock[j] \in Card
        BY <1>1, ElementOfSeq
      <4> QED
        BY <4>1, CardParts DEF IInv, StocksInv, Made
    <3> QED
      BY <1>1, <2>2, <3>1
  <2>5. Fresh(Full(s), applied[s], log, commit, given, Awaited(s))
    BY <2>3, NoneGiven
  <2>6. made'[s] \in Nat /\ made[s] <= made'[s]
    BY <1>1, <2>1
  <2> QED
    BY <1>1, <2>2, <2>4, <2>5, <2>6
<1>3. CASE stock[s] # <<>>
  <2>1. Full(s) = stock[s] /\ made'[s] = made[s]
    BY <1>1, <1>3 DEF Full
  <2> QED
    BY <1>1, <2>1 DEF IInv, StocksInv, AheadInv, Ahead
<1> QED
  BY <1>2, <1>3

(* Only an OPEN_PACK gives a card, the first of the stock, and only to who *)
(* waits for it.                                                           *)
LEMMA GivenByPack ==
  ASSUME IInv, NEW s \in Server, ApplyOpenPack(s)
  PROVE  /\ given \subseteq given' /\ given' \subseteq given \union {Full(s)[1]}
         /\ \A t \in Server : drawing'[t].step = "drawn" => drawing'[t].card \in given'
         /\ (\E t \in Server : Waits(t, s, applied[s] + 1)) => Full(s)[1] \in given'
         /\ (\A t \in Server : ~ Waits(t, s, applied[s] + 1)) => given' = given
<1>1. given' = given \union {drawing'[t].card : t \in {t \in Server : drawing'[t].step = "drawn"}}
  BY DEF ApplyOpenPack
<1>2. \A t \in Server :
        /\ Waits(t, s, applied[s] + 1) => drawing'[t].step = "drawn" /\ drawing'[t].card = Full(s)[1]
        /\ ~ Waits(t, s, applied[s] + 1) => drawing'[t] = drawing[t]
  BY PackDrawn, Responses
<1>3. \A t \in Server : drawing[t].step = "drawn" => drawing[t].card \in given
  BY DEF IInv, GivenInv
<1>4. \A t \in Server : drawing'[t].step = "drawn" /\ ~ Waits(t, s, applied[s] + 1) =>
        drawing'[t].card \in given
  BY <1>2, <1>3
<1> QED
  BY <1>1, <1>2, <1>4

LEMMA DrawnBefore ==
  ASSUME IInv, [Next]_vars, \A s \in Server : ~ ApplyOpenPack(s),
         NEW t \in Server, drawing'[t].step = "drawn"
  PROVE  drawing'[t] = drawing[t]
<1>0. drawing \in [Server -> Drawing \union {NotDrawing}]
  BY DEF IInv, TypeOK
<1>1. CASE UNCHANGED drawing
  BY <1>1
<1>2. ASSUME NEW s \in Server, ServerStep(s) PROVE drawing'[t] = drawing[t]
  <2>1. CASE ProcessDrawCardRequest(s)
    BY <1>0, <2>1 DEF ProcessDrawCardRequest
  <2>2. CASE SaveCardToLocalUser(s) \/ LoseAnswer(s)
    BY <1>0, <2>2 DEF SaveCardToLocalUser, LoseAnswer, NotDrawing
  <2>3. CASE Restart(s)
    BY <1>0, <2>3 DEF Restart, NotDrawing
  <2> QED
    BY <1>1, <1>2, <2>1, <2>2, <2>3
    DEF ServerStep, ProposeClaim, ClaimRefused, ApplyClaimCard, ElectLeader, Snapshot, serverVars
<1>3. ASSUME NEW u \in User, HandleDrawCard(u) PROVE drawing'[t] = drawing[t]
  BY <1>0, <1>3 DEF HandleDrawCard
<1>4. CASE LoseLeadership
  BY <1>0, <1>4 DEF LoseLeadership, NotDrawing
<1>5. CASE CommitEntry \/ UNCHANGED vars
  BY <1>1, <1>5 DEF CommitEntry, vars, serverVars
<1> QED
  BY <1>2, <1>3, <1>4, <1>5 DEF Next

(* Every step but that of an OPEN_PACK leaves what was given.              *)
LEMMA SameGiven ==
  ASSUME [Next]_vars, \A s \in Server : ~ ApplyOpenPack(s)
  PROVE  given' = given
BY DEF Next, ServerStep, ProcessDrawCardRequest, SaveCardToLocalUser, LoseAnswer, ProposeClaim,
       ClaimRefused, ApplyClaimCard, ElectLeader, Snapshot, Restart, HandleDrawCard, CommitEntry,
       LoseLeadership, vars, serverVars

LEMMA MadeGrows ==
  ASSUME IInv, [Next]_vars
  PROVE  \A s \in Server : made[s] \in Nat /\ made'[s] \in Nat /\ made[s] <= made'[s]
<1>0. made \in [Server -> Nat]
  BY DEF IInv, TypeOK
<1>1. CASE UNCHANGED made
  BY <1>0, <1>1
<1>2. ASSUME NEW s \in Server, made' = [made EXCEPT ![s] = @ + StockSize]
      PROVE  \A t \in Server : made[t] \in Nat /\ made'[t] \in Nat /\ made[t] <= made'[t]
  BY <1>0, <1>2
<1>3. ASSUME NEW s \in Server, ServerStep(s)
      PROVE  \A t \in Server : made[t] \in Nat /\ made'[t] \in Nat /\ made[t] <= made'[t]
  <2>1. CASE ApplyOpenPack(s)
    BY <1>0, <2>1, PackDrawn
  <2>2. CASE Restart(s)
    BY <1>1, <1>2, <2>2 DEF Restart, NewFSM
  <2> QED
    BY <1>1, <1>3, <2>1, <2>2
    DEF ServerStep, ProcessDrawCardRequest, SaveCardToLocalUser, LoseAnswer, ProposeClaim,
        ClaimRefused, ApplyClaimCard, ElectLeader, Snapshot, fsmVars
<1>4. ASSUME NEW u \in User, HandleDrawCard(u) PROVE UNCHANGED made
  BY <1>4 DEF HandleDrawCard, fsmVars
<1>5. CASE CommitEntry \/ LoseLeadership \/ UNCHANGED vars
  BY <1>1, <1>5 DEF CommitEntry, LoseLeadership, vars, fsmVars
<1> QED
  BY <1>1, <1>3, <1>4, <1>5 DEF Next

LEMMA GivenNext ==
  ASSUME IInv, [Next]_vars
  PROVE  GivenInv'
<1>0. /\ \A c \in given : c[1] \in Server /\ c[2] \in Nat /\ c[2] <= made[c[1]]
      /\ \A t \in Server : drawing[t].step = "drawn" => drawing[t].card \in given
  BY CardParts DEF IInv, TypeOK, GivenInv
<1>1. \A c \in given : c[2] <= made'[c[1]]
  BY <1>0, MadeGrows
<1>2. ASSUME NEW s \in Server, ApplyOpenPack(s) PROVE GivenInv'
  <2>1. Full(s)[1][1] = s /\ Full(s)[1][2] <= made'[s]
    BY <1>2, FullStock, PackDrawn DEF Made
  <2> QED
    BY <1>1, <1>2, <2>1, GivenByPack DEF GivenInv
<1>3. CASE \A s \in Server : ~ ApplyOpenPack(s)
  BY <1>0, <1>1, <1>3, SameGiven, DrawnBefore DEF GivenInv
<1> QED
  BY <1>2, <1>3

(* What is awaited at s after a step was awaited before, or is not         *)
(* committed.                                                              *)
LEMMA AwaitedNext ==
  ASSUME IInv, [Next]_vars, NEW s \in Server
  PROVE  /\ Awaited(s) \in SUBSET (Nat \ {0}) /\ Awaited(s)' \in SUBSET (Nat \ {0})
         /\ \A w \in Awaited(s)' : w \in Awaited(s) \/ w > commit'
         /\ \A w \in Awaited(s) : w > applied[s]
<1>0. Len(log) \in Nat /\ commit \in Nat /\ commit <= Len(log)
  BY LogKept DEF IInv
<1>1. \A t \in Server : WaitsAt(t, s) =>
        drawing[t].index \in Nat \ {0} /\ applied[s] < drawing[t].index
  <2> SUFFICES ASSUME NEW t \in Server, drawing[t].step = "proposed", drawing[t].to = s
               PROVE  drawing[t].index \in Nat \ {0} /\ applied[s] < drawing[t].index
    BY DEF WaitsAt
  <2>1. drawing[t] \in Proposal
    BY DrawingKinds DEF IInv, TypeOK
  <2> QED
    BY <2>1 DEF Proposal, IInv, WaitingInv, Waiting
<1>2. ASSUME NEW t \in Server, WaitsAt(t, s)'
      PROVE  /\ drawing'[t].index \in Nat \ {0}
             /\ drawing'[t].index \in Awaited(s) \/ drawing'[t].index > commit'
  <2>1. CASE drawing'[t] = drawing[t]
    <3>1. WaitsAt(t, s)
      BY <1>2, <2>1 DEF WaitsAt
    <3> QED
      BY <1>1, <2>1, <3>1 DEF Awaited
  <2>2. ASSUME NEW u \in User, HandleDrawCard(u), Home[u] = t
        PROVE  drawing'[t].index \in Nat \ {0} /\ drawing'[t].index > commit'
    <3>1. drawing'[t].index = Len(log) + 1
      <4>1. drawing'[t] = [step |-> "proposed", user |-> u, request |-> draws + 1,
                           to |-> leader, index |-> Len(log) + 1]
        BY <2>2, NewDraw
      <4> QED
        BY <4>1
    <3>2. commit' = commit
      BY <2>2 DEF HandleDrawCard, Replicate
    <3> QED
      BY <1>0, <3>1, <3>2
  <2>3. drawing'[t].step = "proposed"
    BY <1>2 DEF WaitsAt
  <2> QED
    BY <2>1, <2>2, <2>3, ProposedBefore
<1> QED
  BY <1>1, <1>2 DEF Awaited

(* What is true of the stocks and the snapshots is of the committed part   *)
(* of the log, which stays.                                                *)
LEMMA AheadNext ==
  ASSUME IInv, [Next]_vars
  PROVE  AheadInv'
<1>0. /\ stock \in [Server -> Seq(Card)]
      /\ saved \in [Server -> [stock : Seq(Card), pending : [RequestID -> Card \union {NoCard}]]]
      /\ applied \in [Server -> 0 .. commit] /\ snapshot \in [Server -> 0 .. commit]
      /\ made \in [Server -> Nat]
      /\ commit \in Nat /\ \A i \in 1 .. commit : log'[i] = log[i]
  BY LogKept DEF IInv, TypeOK
<1> SUFFICES ASSUME NEW s \in Server
             PROVE  /\ snapshot'[s] <= applied'[s]
                    /\ Len(saved'[s].stock) <= StockSize
                    /\ Ahead(stock'[s], saved'[s].stock,
                             PackCount(log', snapshot'[s], applied'[s]))
  BY DEF AheadInv
<1> DEFINE G == /\ snapshot'[s] <= applied'[s]
                /\ Len(saved'[s].stock) <= StockSize
                /\ Ahead(stock'[s], saved'[s].stock,
                         PackCount(log', snapshot'[s], applied'[s]))
<1>1. /\ applied[s] \in Nat /\ snapshot[s] \in Nat /\ snapshot[s] <= applied[s]
      /\ saved[s].stock \in Seq(Card) /\ Len(saved[s].stock) \in Nat
      /\ Len(saved[s].stock) <= StockSize
      /\ stock[s] \in Seq(Card) /\ Len(stock[s]) \in Nat /\ Len(stock[s]) <= StockSize
      /\ Ahead(stock[s], saved[s].stock, PackCount(log, snapshot[s], applied[s]))
      /\ Made(s, stock[s], made[s]) /\ Made(s, saved[s].stock, made[s])
      /\ made[s] \in Nat
  <2>1. /\ applied[s] \in 0 .. commit /\ snapshot[s] \in 0 .. commit
        /\ saved[s] \in [stock : Seq(Card), pending : [RequestID -> Card \union {NoCard}]]
    BY <1>0
  <2>2. Len(stock[s]) <= StockSize
    BY DEF IInv, TypeOK
  <2>3. /\ saved[s].stock \in Seq(Card) /\ Len(saved[s].stock) \in Nat
        /\ stock[s] \in Seq(Card) /\ Len(stock[s]) \in Nat
    BY <1>0, <2>1, LenProperties
  <2> QED
    BY <1>0, <2>1, <2>2, <2>3 DEF IInv, StocksInv, AheadInv
<1>2. PackCount(log', snapshot[s], applied[s]) = PackCount(log, snapshot[s], applied[s])
  <2>1. applied[s] \in 0 .. commit
    BY <1>0
  <2>2. \A i \in 1 .. applied[s] : log'[i] = log[i]
    BY <1>0, <2>1
  <2> QED
    BY <1>1, <2>2, SamePacks
<1>3. ASSUME stock'[s] = stock[s], saved'[s] = saved[s],
             applied'[s] = applied[s], snapshot'[s] = snapshot[s]
      PROVE  G
  BY <1>1, <1>2, <1>3
<1>4. ASSUME NEW t \in Server, ServerStep(t) PROVE G
  <2>1. CASE ApplyOpenPack(t)
    <3>1. /\ applied' = [applied EXCEPT ![t] = applied[t] + 1] /\ UNCHANGED <<log, snapshot, saved>>
          /\ NextEntry(t) = log[applied[t] + 1] /\ IsPack(log[applied[t] + 1])
          /\ stock' = [stock EXCEPT ![t] = Tail(Full(t))]
      BY <2>1, AppliedEntry, PackDrawn DEF ApplyOpenPack, IInv, IsPack
    <3>2. CASE t = s
      <4>1. /\ applied'[s] = applied[s] + 1 /\ stock'[s] = Tail(Full(s))
            /\ snapshot'[s] = snapshot[s] /\ saved'[s] = saved[s]
        BY <1>0, <3>1, <3>2
      <4>2. PackCount(log, snapshot[s], applied[s] + 1)
              = PackCount(log, snapshot[s], applied[s]) + 1
        BY <1>1, <3>1, <3>2, OnePackMore
      <4>3. PackCount(log, snapshot[s], applied[s]) \in Nat
        BY <1>1, PacksAreFinite
      <4>4. /\ Len(Full(s)) \in Nat /\ Len(Tail(Full(s))) = Len(Full(s)) - 1
            /\ \A k \in 1 .. Len(Full(s)) - 1 : Tail(Full(s))[k] = Full(s)[k + 1]
            /\ \A k \in 1 .. Len(Full(s)), j \in 1 .. Len(saved[s].stock) :
                 Full(s)[k] = saved[s].stock[j] =>
                   j = k + PackCount(log, snapshot[s], applied[s])
        BY <2>1, <3>2, PackDrawn, FullStock
      <4> DEFINE n == PackCount(log, snapshot[s], applied[s])
      <4>5. ASSUME NEW k \in 1 .. Len(Tail(Full(s))), NEW j \in 1 .. Len(saved[s].stock),
                   Tail(Full(s))[k] = saved[s].stock[j]
            PROVE  j = k + (n + 1)
        <5>1. k + 1 \in 1 .. Len(Full(s)) /\ Full(s)[k + 1] = saved[s].stock[j] /\ k \in Int
          BY <4>4, <4>5
        <5>2. j = (k + 1) + n
          BY <4>4, <5>1
        <5> QED
          BY <4>3, <5>1, <5>2
      <4>6. Ahead(stock'[s], saved'[s].stock, n + 1)
        BY <4>1, <4>5 DEF Ahead
      <4>7. PackCount(log', snapshot'[s], applied'[s]) = n + 1
        BY <3>1, <4>1, <4>2
      <4>8. snapshot'[s] <= applied'[s] /\ Len(saved'[s].stock) <= StockSize
        BY <1>1, <4>1
      <4> QED
        BY <4>6, <4>7, <4>8
    <3>3. CASE t # s
      BY <1>0, <1>3, <3>1, <3>3
    <3> QED
      BY <3>2, <3>3
  <2>2. CASE ApplyClaimCard(t)
    <3>1. /\ applied' = [applied EXCEPT ![t] = applied[t] + 1]
          /\ UNCHANGED <<log, snapshot, saved, stock>>
          /\ ~ IsPack(log[applied[t] + 1])
      BY <2>2, AppliedEntry DEF ApplyClaimCard, IInv, IsPack
    <3>2. CASE t = s
      <4>1. PackCount(log, snapshot[s], applied[s] + 1)
              = PackCount(log, snapshot[s], applied[s]) + 0
        BY <1>1, <3>1, <3>2, OnePackMore
      <4>2. PackCount(log, snapshot[s], applied[s]) \in Nat
        BY <1>1, PacksAreFinite
      <4>3. applied'[s] = applied[s] + 1
        BY <1>0, <3>1, <3>2
      <4>4. PackCount(log', snapshot'[s], applied'[s]) = PackCount(log, snapshot[s], applied[s])
        BY <3>1, <4>1, <4>2, <4>3
      <4>5. snapshot'[s] <= applied'[s]
        BY <1>1, <3>1, <4>3
      <4> QED
        BY <1>1, <3>1, <4>4, <4>5
    <3>3. CASE t # s
      BY <1>0, <1>3, <3>1, <3>3
    <3> QED
      BY <3>2, <3>3
  <2>3. CASE Snapshot(t)
    <3>1. /\ UNCHANGED <<log, applied, stock>> /\ snapshot' = [snapshot EXCEPT ![t] = applied[t]]
          /\ saved' = [saved EXCEPT ![t] = [stock |-> stock[t], pending |-> pending[t]]]
      BY <2>3 DEF Snapshot, TakeSnapshot
    <3>2. CASE t = s
      <4>1. saved'[s].stock = stock[s] /\ snapshot'[s] = applied[s]
        BY <1>0, <3>1, <3>2
      <4>2. PackCount(log', snapshot'[s], applied'[s]) = 0
        BY <1>1, <3>1, <4>1, NoPacks
      <4>3. Ahead(stock[s], stock[s], 0)
        BY <1>1 DEF Ahead, Made
      <4> QED
        BY <1>1, <3>1, <4>1, <4>2, <4>3
    <3>3. CASE t # s
      BY <1>0, <1>3, <3>1, <3>3
    <3> QED
      BY <3>2, <3>3
  <2>4. CASE Restart(t)
    <3>1. /\ applied' = [applied EXCEPT ![t] = snapshot[t]] /\ UNCHANGED <<log, snapshot, saved>>
          /\ stock' = [stock EXCEPT ![t] = IF snapshot[t] = 0 THEN GerarEstoque(t, made[t])
                                                               ELSE saved[t].stock]
      BY <2>4 DEF Restart, RestartRaft, NewFSM
    <3>2. CASE t = s
      <4>1. /\ applied'[s] = snapshot[s]
            /\ stock'[s] = IF snapshot[s] = 0 THEN GerarEstoque(s, made[s]) ELSE saved[s].stock
        BY <1>0, <3>1, <3>2
      <4>2. PackCount(log', snapshot'[s], applied'[s]) = 0
        BY <1>1, <3>1, <4>1, NoPacks
      <4>3. Ahead(saved[s].stock, saved[s].stock, 0)
        BY <1>1 DEF Ahead, Made
      <4>4. Ahead(GerarEstoque(s, made[s]), saved[s].stock, 0)
        <5>1. \A k \in 1 .. Len(GerarEstoque(s, made[s])) : GerarEstoque(s, made[s])[k][2] > made[s]
          BY <1>1, NewCards
        <5>2. \A j \in 1 .. Len(saved[s].stock) :
                saved[s].stock[j][2] \in Nat /\ saved[s].stock[j][2] <= made[s]
          <6>1. \A j \in 1 .. Len(saved[s].stock) : saved[s].stock[j] \in Card
            BY <1>1, ElementOfSeq
          <6> QED
            BY <1>1, <6>1, CardParts DEF Made
        <5>3. \A k \in 1 .. Len(GerarEstoque(s, made[s])), j \in 1 .. Len(saved[s].stock) :
                GerarEstoque(s, made[s])[k] # saved[s].stock[j]
          BY <1>1, <5>1, <5>2
        <5> QED
          BY <5>3 DEF Ahead
      <4>5. snapshot'[s] <= applied'[s] /\ Len(saved'[s].stock) <= StockSize
        BY <1>1, <3>1, <4>1
      <4>6. Ahead(stock'[s], saved'[s].stock, 0)
        BY <3>1, <4>1, <4>3, <4>4
      <4> QED
        BY <4>2, <4>5, <4>6
    <3>3. CASE t # s
      BY <1>0, <1>3, <3>1, <3>3
    <3> QED
      BY <3>2, <3>3
  <2> QED
    BY <1>3, <1>4, <2>1, <2>2, <2>3, <2>4
    DEF ServerStep, ProcessDrawCardRequest, SaveCardToLocalUser, LoseAnswer, ProposeClaim,
        Replicate, ClaimRefused, ElectLeader, Elect, raftVars, fsmVars
<1>5. ASSUME NEW u \in User, HandleDrawCard(u) PROVE G
  BY <1>3, <1>5 DEF HandleDrawCard, Replicate, fsmVars
<1>6. CASE CommitEntry \/ LoseLeadership \/ UNCHANGED vars
  BY <1>3, <1>6
  DEF CommitEntry, Commit, LoseLeadership, StepDown, vars, raftVars, fsmVars
<1> QED
  BY <1>4, <1>5, <1>6 DEF Next

(* What is awaited at s after a step is not yet applied.                   *)
LEMMA AwaitedAfter ==
  ASSUME IInv, [Next]_vars, NEW s \in Server
  PROVE  \A w \in Awaited(s)' : w > applied'[s]
<1>1. /\ commit' \in Nat /\ applied'[s] \in 0 .. commit' /\ WaitingInv'
      /\ drawing' \in [Server -> Drawing \union {NotDrawing}]
  BY LogKept, WaitingNext, ServerTypeNext DEF IInv, RaftTyped, ServerTypeOK
<1> SUFFICES ASSUME NEW t \in Server, drawing'[t].step = "proposed", drawing'[t].to = s
             PROVE  drawing'[t].index > applied'[s]
  BY DEF Awaited, WaitsAt
<1>2. drawing'[t] \in Proposal
  BY <1>1, DrawingKinds
<1> QED
  BY <1>1, <1>2 DEF Proposal, WaitingInv, Waiting

(* A stock that does not change stays as it is, while no card of it is     *)
(* given.                                                                  *)
LEMMA KeptFresh ==
  ASSUME IInv, [Next]_vars, NEW s \in Server, NEW stk \in Seq(Card), NEW at \in Nat,
         Made(s, stk, made[s]), Fresh(stk, at, log, commit, given, Awaited(s)),
         \A k \in 1 .. Len(stk) : stk[k] \in given' => stk[k] \in given
  PROVE  Made(s, stk, made'[s]) /\ Fresh(stk, at, log', commit', given', Awaited(s)')
<1>1. /\ commit \in Nat /\ commit' \in Nat /\ commit <= commit' /\ commit' <= commit + 1
      /\ \A i \in 1 .. commit : log'[i] = log[i]
  <2>1. RaftStep(Command)
    BY NextIsRaftStep DEF IInv
  <2>2. commit' \in {commit, commit + 1}
    BY <2>1 DEF RaftStep, raftVars, Replicate, Elect, Advance, TakeSnapshot, RestartRaft, Commit,
                StepDown
  <2> QED
    BY <2>2, LogKept DEF IInv
<1>2. /\ Awaited(s) \in SUBSET (Nat \ {0}) /\ Awaited(s)' \in SUBSET (Nat \ {0})
      /\ \A w \in Awaited(s)' : w \in Awaited(s) \/ w > commit'
  BY AwaitedNext
<1>3. Fresh(stk, at, log', commit', given', Awaited(s)')
  BY <1>1, <1>2, FreshStays
<1> QED
  BY <1>3, MadeGrows, MadeMore

LEMMA StocksNext ==
  ASSUME IInv, [Next]_vars
  PROVE  StocksInv'
<1>0. /\ stock \in [Server -> Seq(Card)]
      /\ saved \in [Server -> [stock : Seq(Card), pending : [RequestID -> Card \union {NoCard}]]]
      /\ applied \in [Server -> 0 .. commit] /\ snapshot \in [Server -> 0 .. commit]
      /\ made \in [Server -> Nat] /\ commit \in Nat
  BY LogKept DEF IInv, TypeOK
<1> DEFINE G(s) == /\ Made(s, stock'[s], made'[s])
                   /\ Made(s, saved'[s].stock, made'[s])
                   /\ Fresh(stock'[s], applied'[s], log', commit', given', Awaited(s)')
                   /\ Fresh(saved'[s].stock, snapshot'[s], log', commit', given', Awaited(s)')
<1> SUFFICES ASSUME NEW s \in Server PROVE G(s)
  BY DEF StocksInv
<1>1. /\ applied[s] \in Nat /\ snapshot[s] \in Nat /\ snapshot[s] <= applied[s]
      /\ stock[s] \in Seq(Card) /\ saved[s].stock \in Seq(Card) /\ made[s] \in Nat
      /\ Made(s, stock[s], made[s]) /\ Made(s, saved[s].stock, made[s])
      /\ Fresh(stock[s], applied[s], log, commit, given, Awaited(s))
      /\ Fresh(saved[s].stock, snapshot[s], log, commit, given, Awaited(s))
  <2>1. /\ applied[s] \in 0 .. commit /\ snapshot[s] \in 0 .. commit
        /\ saved[s] \in [stock : Seq(Card), pending : [RequestID -> Card \union {NoCard}]]
    BY <1>0
  <2> QED
    BY <1>0, <2>1 DEF IInv, StocksInv, AheadInv
<1>2. ASSUME \A c \in Card : c[1] = s /\ c \in given' => c \in given
      PROVE  /\ Made(s, stock[s], made'[s]) /\ Made(s, saved[s].stock, made'[s])
             /\ Fresh(stock[s], applied[s], log', commit', given', Awaited(s)')
             /\ Fresh(saved[s].stock, snapshot[s], log', commit', given', Awaited(s)')
  <2>1. /\ \A k \in 1 .. Len(stock[s]) : stock[s][k] \in given' => stock[s][k] \in given
        /\ \A k \in 1 .. Len(saved[s].stock) :
             saved[s].stock[k] \in given' => saved[s].stock[k] \in given
    BY <1>1, <1>2, ElementOfSeq DEF Made
  <2> QED
    BY <1>1, <2>1, KeptFresh
<1>3. ASSUME \A c \in Card : c[1] = s /\ c \in given' => c \in given,
             stock'[s] = stock[s], saved'[s] = saved[s],
             applied'[s] = applied[s], snapshot'[s] = snapshot[s]
      PROVE  G(s)
  BY <1>2, <1>3
<1>4. ASSUME NEW t \in Server, ApplyOpenPack(t) PROVE G(s)
  <2>1. /\ applied' = [applied EXCEPT ![t] = applied[t] + 1]
        /\ UNCHANGED <<log, commit, snapshot, saved>>
        /\ IsPack(log[applied[t] + 1]) /\ applied[t] + 1 \in 1 .. commit
        /\ stock' = [stock EXCEPT ![t] = Tail(Full(t))]
        /\ Full(t) \in Seq(Card) /\ Len(Full(t)) \in 1 .. StockSize /\ Full(t)[1] \in Card
        /\ given' \subseteq given \union {Full(t)[1]}
    BY <1>4, AppliedEntry, PackDrawn, GivenByPack DEF ApplyOpenPack, IInv, IsPack
  <2>2. /\ made'[t] \in Nat /\ Made(t, Full(t), made'[t])
        /\ Fresh(Full(t), applied[t], log, commit, given, Awaited(t))
        /\ \A k \in 1 .. Len(Full(t)), j \in 1 .. Len(saved[t].stock) :
              Full(t)[k] = saved[t].stock[j] =>
                j = k + PackCount(log, snapshot[t], applied[t])
    BY <1>4, FullStock
  <2>3. CASE t # s
    <3>1. Full(t)[1][1] = t
      BY <2>1, <2>2 DEF Made
    <3>2. \A c \in Card : c[1] = s /\ c \in given' => c \in given
      BY <2>1, <2>3, <3>1
    <3> QED
      BY <1>0, <1>3, <2>1, <2>3, <3>2
  <2>4. CASE t = s
    <3>1. /\ applied'[s] = applied[s] + 1 /\ stock'[s] = Tail(Full(s))
          /\ saved'[s] = saved[s] /\ snapshot'[s] = snapshot[s]
      BY <1>0, <2>1, <2>4
    <3>2. /\ Awaited(s)' \in SUBSET Nat
          /\ \A w \in Awaited(s)' : (w \in Awaited(s) \/ w > commit) /\ w > applied'[s]
          /\ applied'[s] <= commit /\ IsPack(log[applied'[s]])
      BY <1>0, <2>1, <2>4, <3>1, AwaitedNext, AwaitedAfter
    <3>3. Made(s, Tail(Full(s)), made'[s])
      BY <2>1, <2>2, <2>4, MadeTail
    <3>4. Made(s, saved[s].stock, made'[s])
      BY <1>1, MadeGrows, MadeMore
    <3>5. Fresh(Tail(Full(s)), applied'[s], log, commit, given', Awaited(s)')
      <4>1. \A j, k \in 1 .. Len(Full(s)) : Full(s)[j] = Full(s)[k] => j = k
        BY <2>2, <2>4 DEF Made
      <4>2. /\ Full(s) \in Seq(Card) /\ Len(Full(s)) >= 1
            /\ given' \subseteq given \union {Full(s)[1]}
            /\ Fresh(Full(s), applied[s], log, commit, given, Awaited(s))
        BY <2>1, <2>2, <2>4
      <4> QED
        BY <1>0, <1>1, <3>1, <3>2, <4>1, <4>2, FreshAfterPack
    <3>6. Fresh(saved[s].stock, snapshot[s], log, commit, given', Awaited(s)')
      <4>1. PackCount(log, snapshot[s], applied'[s]) = 1 + PackCount(log, snapshot[s], applied[s])
        <5>1. PackCount(log, snapshot[s], applied[s] + 1)
                = PackCount(log, snapshot[s], applied[s]) + 1
          BY <1>1, <2>1, <2>4, OnePackMore
        <5>2. PackCount(log, snapshot[s], applied[s]) \in Nat
          BY <1>1, PacksAreFinite
        <5> QED
          BY <3>1, <5>1, <5>2
      <4>2. \A j \in 1 .. Len(saved[s].stock) : saved[s].stock[j] = Full(s)[1] =>
              j = PackCount(log, snapshot[s], applied'[s])
        BY <2>1, <2>2, <2>4, <4>1
      <4>3. \A j \in 1 .. Len(saved[s].stock) : saved[s].stock[j] \in given' =>
              saved[s].stock[j] \in given \/ j = PackCount(log, snapshot[s], applied'[s])
        BY <2>1, <2>4, <4>2
      <4>4. /\ snapshot[s] \in Nat /\ applied'[s] \in Nat /\ commit \in Nat
            /\ Fresh(saved[s].stock, snapshot[s], log, commit, given, Awaited(s))
        BY <1>0, <1>1, <3>1
      <4> QED
        BY <3>2, <4>3, <4>4, FreshOfSaved
    <3> QED
      BY <2>1, <3>1, <3>3, <3>4, <3>5, <3>6
  <2> QED
    BY <2>3, <2>4
<1>5. ASSUME \A t \in Server : ~ ApplyOpenPack(t) PROVE given' = given
  BY <1>5, SameGiven
<1>6. ASSUME NEW t \in Server, ServerStep(t), \A u \in Server : ~ ApplyOpenPack(u) PROVE G(s)
  <2>0. /\ given' = given
        /\ Made(s, stock[s], made'[s]) /\ Made(s, saved[s].stock, made'[s])
        /\ Fresh(stock[s], applied[s], log', commit', given', Awaited(s)')
        /\ Fresh(saved[s].stock, snapshot[s], log', commit', given', Awaited(s)')
    BY <1>2, <1>5, <1>6
  <2>1. CASE ApplyClaimCard(t)
    <3>1. /\ applied' = [applied EXCEPT ![t] = applied[t] + 1]
          /\ UNCHANGED <<log, commit, snapshot, saved, stock>>
          /\ ~ IsPack(log[applied[t] + 1]) /\ applied[t] + 1 \in 1 .. commit
      BY <2>1, AppliedEntry DEF ApplyClaimCard, IInv, IsPack
    <3>2. CASE t = s
      <4>1. applied'[s] = applied[s] + 1
        BY <1>0, <3>1, <3>2
      <4>2. /\ Awaited(s)' \in SUBSET Nat /\ \A w \in Awaited(s)' : w > applied'[s]
            /\ applied'[s] <= commit' /\ commit' \in Nat /\ ~ IsPack(log'[applied'[s]])
        BY <1>0, <3>1, <3>2, <4>1, AwaitedNext, AwaitedAfter DEF IsPack
      <4>3. Fresh(stock[s], applied'[s], log', commit', given', Awaited(s)')
        BY <1>1, <2>0, <4>1, <4>2, FreshAfterClaim
      <4> QED
        BY <2>0, <3>1, <4>1, <4>3
    <3>3. CASE t # s
      BY <1>0, <1>3, <2>0, <3>1, <3>3
    <3> QED
      BY <3>2, <3>3
  <2>2. CASE Snapshot(t)
    <3>1. /\ UNCHANGED <<applied, stock>> /\ snapshot' = [snapshot EXCEPT ![t] = applied[t]]
          /\ saved' = [saved EXCEPT ![t] = [stock |-> stock[t], pending |-> pending[t]]]
      BY <2>2 DEF Snapshot, TakeSnapshot
    <3>2. CASE t = s
      <4>1. saved'[s].stock = stock[s] /\ snapshot'[s] = applied[s]
        BY <1>0, <3>1, <3>2
      <4> QED
        BY <2>0, <3>1, <4>1
    <3>3. CASE t # s
      BY <1>0, <1>3, <2>0, <3>1, <3>3
    <3> QED
      BY <3>2, <3>3
  <2>3. CASE Restart(t)
    <3>1. /\ applied' = [applied EXCEPT ![t] = snapshot[t]] /\ UNCHANGED <<snapshot, saved>>
          /\ stock' = [stock EXCEPT ![t] = IF snapshot[t] = 0 THEN GerarEstoque(t, made[t])
                                                               ELSE saved[t].stock]
          /\ snapshot[t] = 0 => made' = [made EXCEPT ![t] = made[t] + StockSize]
      BY <2>3 DEF Restart, RestartRaft, NewFSM
    <3>2. CASE t = s /\ snapshot[s] # 0
      <4>1. applied'[s] = snapshot[s] /\ stock'[s] = saved[s].stock
        BY <1>0, <3>1, <3>2
      <4> QED
        BY <2>0, <3>1, <4>1
    <3>3. CASE t = s /\ snapshot[s] = 0
      <4>1. /\ applied'[s] = snapshot[s] /\ stock'[s] = GerarEstoque(s, made[s])
            /\ made'[s] = made[s] + StockSize
        BY <1>0, <3>1, <3>3
      <4>2. /\ Made(s, stock'[s], made'[s])
            /\ \A k \in 1 .. Len(stock'[s]) : stock'[s][k][1] = s /\ stock'[s][k][2] > made[s]
        BY <1>1, <4>1, NewCards
      <4>3. \A c \in given : c[1] = s => c[2] \in Nat /\ c[2] <= made[s]
        BY CardParts DEF IInv, GivenInv, TypeOK
      <4>4. \A k \in 1 .. Len(stock'[s]) : stock'[s][k] \notin given'
        BY <1>1, <2>0, <4>2, <4>3
      <4>5. Fresh(stock'[s], applied'[s], log', commit', given', Awaited(s)')
        BY <4>4, NoneGiven
      <4> QED
        BY <2>0, <3>1, <4>2, <4>5
    <3>4. CASE t # s
      BY <1>0, <1>3, <2>0, <3>1, <3>4
    <3> QED
      BY <3>2, <3>3, <3>4
  <2> QED
    BY <1>3, <1>6, <2>0, <2>1, <2>2, <2>3
    DEF ServerStep, ProcessDrawCardRequest, SaveCardToLocalUser, LoseAnswer, ProposeClaim,
        Replicate, ClaimRefused, ElectLeader, Elect, raftVars, fsmVars
<1>7. ASSUME NEW u \in User, HandleDrawCard(u), \A t \in Server : ~ ApplyOpenPack(t) PROVE G(s)
  BY <1>3, <1>5, <1>7 DEF HandleDrawCard, Replicate, fsmVars
<1>8. ASSUME CommitEntry \/ LoseLeadership \/ UNCHANGED vars,
             \A t \in Server : ~ ApplyOpenPack(t)
      PROVE  G(s)
  BY <1>3, <1>5, <1>8
  DEF CommitEntry, Commit, LoseLeadership, StepDown, vars, raftVars, fsmVars
<1> QED
  BY <1>4, <1>6, <1>7, <1>8 DEF Next

(***************************************************************************)
(* The invariant.                                                          *)
(***************************************************************************)
LEMMA InvInit ==
  ASSUME Init
  PROVE  IInv
<1>1. /\ log = <<>> /\ Len(log) = 0 /\ log \in Seq(Command) /\ commit = 0 /\ faults = 0
      /\ leader = NoServer /\ given = {} /\ draws = 0
      /\ applied = [s \in Server |-> 0] /\ snapshot = [s \in Server |-> 0]
      /\ claiming = [s \in Server |-> {}] /\ inventory = [u \in User |-> <<>>]
  BY EmptySeq DEF Init, RaftInit
<1>2. \A s \in Server : /\ stock[s] = GerarEstoque(s, 0) /\ made[s] = StockSize
                        /\ saved[s].stock = <<>> /\ saved[s].pending = NothingPending
                        /\ pending[s] = NothingPending
                        /\ drawing[s] = NotDrawing /\ drawing[s].step = "none"
  BY DEF Init, NotDrawing
<1>3. ASSUME NEW s \in Server
      PROVE  /\ stock[s] \in Seq(Card) /\ Len(stock[s]) = StockSize
             /\ Made(s, stock[s], StockSize)
  <2>1. Made(s, GerarEstoque(s, 0), 0 + StockSize) /\ 0 + StockSize = StockSize
    BY NewCards
  <2>2. GerarEstoque(s, 0) \in Seq(Card) /\ Len(GerarEstoque(s, 0)) = StockSize
    BY NewStock
  <2>3. stock[s] = GerarEstoque(s, 0)
    BY <1>2
  <2> QED
    BY <2>1, <2>2, <2>3
<1>4. NothingPending \in [RequestID -> Card \union {NoCard}]
  BY DEF NothingPending
<1>5. <<>> \in Seq(Card) /\ Len(<<>>) = 0
  BY EmptySeq
<1>6. TypeOK
  <2>1. RaftTyped(Command)
    BY <1>1 DEF RaftTyped
  <2>2. StoreTypeOK
    <3>1. stock \in [Server -> Seq(Card)] /\ made \in [Server -> Nat]
      BY <1>3, NewStock DEF Init
    <3>2. pending \in [Server -> [RequestID -> Card \union {NoCard}]]
      BY <1>4 DEF Init
    <3>3. saved \in [Server -> [stock : Seq(Card), pending : [RequestID -> Card \union {NoCard}]]]
      BY <1>4, <1>5 DEF Init
    <3> QED
      BY <1>3, <3>1, <3>2, <3>3 DEF StoreTypeOK
  <2>3. ServerTypeOK
    BY <1>1, <1>5 DEF Init, ServerTypeOK
  <2> QED
    BY <2>1, <2>2, <2>3 DEF TypeOK, RaftTyped, StoreTypeOK, ServerTypeOK
<1>7. ASSUME NEW s \in Server
      PROVE  Len(saved[s].stock) = 0 /\ 1 .. Len(saved[s].stock) = {}
  <2>1. saved[s].stock = <<>>
    BY <1>2
  <2>2. 1 .. 0 = {}
    OBVIOUS
  <2> QED
    BY <1>5, <2>1, <2>2
<1>8. StocksInv /\ AheadInv
  <2>1. \A s \in Server : Made(s, saved[s].stock, made[s])
    BY <1>7 DEF Made
  <2>2. ASSUME NEW s \in Server
        PROVE  /\ Fresh(stock[s], applied[s], log, commit, given, Awaited(s))
               /\ Fresh(saved[s].stock, snapshot[s], log, commit, given, Awaited(s))
    BY <1>1 DEF Fresh
  <2>3. \A s \in Server : \A n : Ahead(stock[s], saved[s].stock, n)
    BY <1>7 DEF Ahead
  <2>4. ASSUME NEW s \in Server PROVE snapshot[s] <= applied[s] /\ Len(saved[s].stock) <= StockSize
    BY <1>1, <1>7
  <2> QED
    BY <1>2, <1>3, <2>1, <2>2, <2>3, <2>4 DEF StocksInv, AheadInv
<1>9. GivenInv /\ RequestsInv /\ WaitingInv
  BY <1>1, <1>2 DEF GivenInv, RequestsInv, WaitingInv
<1>10. PendingInv
  BY <1>1, <1>2 DEF PendingInv, NothingPending, Unclaimed
<1> QED
  BY <1>6, <1>8, <1>9, <1>10 DEF IInv

LEMMA InvNext == IInv /\ [Next]_vars => IInv'
BY TypeNext, StocksNext, AheadNext, GivenNext, RequestsNext, WaitingNext, PendingNext DEF IInv

THEOREM Invariance == Spec => []IInv
<1>1. Init => IInv
  BY InvInit
<1> QED
  BY <1>1, InvNext, PTL DEF Spec

(* Every variable keeps its type.                                          *)
THEOREM TypeCorrect == Spec => []TypeOK
<1>1. IInv => TypeOK
  BY DEF IInv
<1> QED
  BY <1>1, Invariance, PTL

(* A card is pending at a server if and only if the entries the server has *)
(* applied draw it and do not claim it (Apply, Snapshot and Restore).      *)
THEOREM PendingStaysUnclaimed == Spec => []PendingIsUnclaimed
<1>1. IInv => PendingIsUnclaimed
  BY DEF IInv, PendingInv, Unclaimed, PendingIsUnclaimed
<1> QED
  BY <1>1, Invariance, PTL

(***************************************************************************)
(* Dealing.                                                                *)
(***************************************************************************)
(* What Dealing sees of a draw.                                            *)
Shown(d) ==
  CASE d.step = "none" -> <<>>
    [] d.step = "proposed" -> <<d.user>>
    [] OTHER -> <<d.user, d.card>>

LEMMA ShownParts ==
  ASSUME NEW d \in Drawing \union {NotDrawing}
  PROVE  /\ d.step = "none" => Shown(d) = <<>>
         /\ d.step = "proposed" => Shown(d) = <<d.user>>
         /\ d.step \in {"drawn", "answered"} => Shown(d) = <<d.user, d.card>>
BY DrawingKinds DEF Shown

LEMMA DeskShown ==
  /\ \A s : AtDesk(s) = Shown(drawing[s])
  /\ [s \in Server |-> AtDesk(s)] = [s \in Server |-> Shown(drawing[s])]
  /\ [s \in Server |-> AtDesk(s)]' = [s \in Server |-> Shown(drawing'[s])]
BY DEF AtDesk, Shown

(* The card of an OPEN_PACK that somebody waits for was not given before:  *)
(* no entry that draws lies between it and what was applied.               *)
LEMMA NewCardDrawn ==
  ASSUME IInv, NEW s \in Server, ApplyOpenPack(s), NEW t \in Server, Waits(t, s, applied[s] + 1)
  PROVE  Full(s)[1] \notin given
<1> SUFFICES ASSUME Full(s)[1] \in given PROVE FALSE
  OBVIOUS
<1>1. applied[s] + 1 \in Awaited(s)
  BY DEF Waits, WaitsAt, Awaited
<1>2. applied[s] \in Nat /\ applied[s] + 1 \in 1 .. commit /\ commit \in Nat
  BY AppliedEntry DEF ApplyOpenPack, IInv
<1>3. 1 \in 1 .. Len(Full(s)) /\ Fresh(Full(s), applied[s], log, commit, given, Awaited(s))
  BY PackDrawn, FullStock
<1>4. 1 <= PackCount(log, applied[s], (applied[s] + 1) - 1)
  BY <1>1, <1>2, <1>3 DEF Fresh
<1>5. (applied[s] + 1) - 1 = applied[s]
  BY <1>2
<1> QED
  BY <1>2, <1>4, <1>5, NoPacks

LEMMA DealingStep ==
  ASSUME IInv, [Next]_vars
  PROVE  [D!Next]_(D!vars)
<1> DEFINE desk == [s \in Server |-> Shown(drawing[s])]
           desk2 == [s \in Server |-> Shown(drawing'[s])]
<1>0. /\ drawing \in [Server -> Drawing \union {NotDrawing}]
      /\ drawing' \in [Server -> Drawing \union {NotDrawing}]
      /\ inventory = [u \in User |-> inventory[u]]
  BY ServerTypeNext DEF IInv, TypeOK, ServerTypeOK
<1>1. ASSUME UNCHANGED <<inventory, given>>, desk2 = desk PROVE UNCHANGED D!vars
  BY <1>1, DeskShown DEF D!vars
<1>2. CASE UNCHANGED <<drawing, inventory, given>>
  BY <1>1, <1>2
<1>3. ASSUME NEW u \in User, HandleDrawCard(u) PROVE D!Next
  <2>1. /\ Home[u] \in Server /\ desk[Home[u]] = <<>> /\ Shown(drawing'[Home[u]]) = <<u>>
        /\ \A t \in Server : t # Home[u] => drawing'[t] = drawing[t]
    BY <1>0, <1>3, NewDraw DEF HandleDrawCard, Shown, NotDrawing
  <2>2. desk2 = [desk EXCEPT ![Home[u]] = <<u>>]
    BY <2>1
  <2>3. D!Ask(Home[u], u)
    BY <1>3, <2>1, <2>2, DeskShown DEF D!Ask, HandleDrawCard
  <2> QED
    BY <2>1, <2>3 DEF D!Next
<1>4. ASSUME NEW s \in Server, ApplyOpenPack(s) PROVE D!Next \/ UNCHANGED D!vars
  <2>1. Full(s)[1] \in Card /\ Respond(s, Full(s)[1]) /\ UNCHANGED inventory
    BY <1>4, PackDrawn
  <2>2. ASSUME NEW t \in Server, Waits(t, s, applied[s] + 1) PROVE D!Next
    <3>1. \A v \in Server : Waits(v, s, applied[s] + 1) => v = t
      BY <2>2 DEF Waits, IInv, WaitingInv
    <3>2. /\ drawing[t].step = "proposed"
          /\ drawing'[t] = Answered(drawing[t], Full(s)[1])
          /\ \A v \in Server : v # t => drawing'[v] = drawing[v]
      BY <2>1, <2>2, <3>1, Responses
    <3>3. desk[t] = <<drawing[t].user>> /\ desk2[t] = <<drawing[t].user, Full(s)[1]>>
      BY <3>2 DEF Shown, Answered
    <3>4. desk2 = [desk EXCEPT ![t] = Append(@, Full(s)[1])] /\ Len(desk[t]) = 1
      <4>1. ASSUME NEW S, NEW u \in S, NEW c \in S
            PROVE  Append(<<u>>, c) = <<u, c>> /\ Len(<<u>>) = 1
        <5>1. <<u>> \in Seq(S) /\ <<u, c>> \in Seq(S) /\ Len(<<u>>) = 1 /\ Len(<<u, c>>) = 2
          OBVIOUS
        <5>2. /\ Append(<<u>>, c) \in Seq(S) /\ Len(Append(<<u>>, c)) = 2
              /\ Append(<<u>>, c)[1] = u /\ Append(<<u>>, c)[2] = c
          BY <5>1, AppendProperties
        <5>3. \A i \in 1 .. 2 : Append(<<u>>, c)[i] = <<u, c>>[i]
          BY <5>2
        <5> QED
          BY <5>1, <5>2, <5>3, SeqEqual
      <4>2. Append(desk[t], Full(s)[1]) = desk2[t] /\ Len(desk[t]) = 1
        <5>1. drawing[t].user \in User \union Card /\ Full(s)[1] \in User \union Card
          BY <1>0, <2>1, <3>2, DrawingKinds DEF Proposal
        <5>2. Append(<<drawing[t].user>>, Full(s)[1]) = <<drawing[t].user, Full(s)[1]>>
          BY <4>1, <5>1
        <5> QED
          BY <3>3, <5>2
      <4> QED
        BY <3>2, <4>2
    <3>5. given' = given \union {Full(s)[1]} /\ Full(s)[1] \in given' \ given
      BY <1>4, <2>2, GivenByPack, NewCardDrawn
    <3>6. D!Draw(t)
      BY <2>1, <3>4, <3>5, DeskShown DEF D!Draw
    <3> QED
      BY <3>6 DEF D!Next
  <2>3. CASE \A t \in Server : ~ Waits(t, s, applied[s] + 1)
    <3>1. given' = given /\ \A t \in Server : drawing'[t] = drawing[t]
      BY <1>4, <2>1, <2>3, GivenByPack, Responses
    <3> QED
      BY <1>1, <2>1, <3>1
  <2> QED
    BY <2>2, <2>3
<1>5. ASSUME NEW s \in Server, ProcessDrawCardRequest(s) PROVE UNCHANGED D!vars
  <2>1. drawing[s] \in Answer /\ drawing[s].step = "drawn"
    BY <1>0, <1>5, DrawingKinds DEF ProcessDrawCardRequest
  <2>2. Shown(drawing'[s]) = Shown(drawing[s])
    BY <1>0, <1>5, <2>1 DEF ProcessDrawCardRequest, Answer, Shown
  <2>3. \A t \in Server : Shown(drawing'[t]) = Shown(drawing[t])
    BY <1>0, <1>5, <2>2 DEF ProcessDrawCardRequest
  <2> QED
    BY <1>1, <1>5, <2>3 DEF ProcessDrawCardRequest
<1>6. ASSUME NEW s \in Server, SaveCardToLocalUser(s) PROVE D!Next
  <2>1. desk[s] = <<drawing[s].user, drawing[s].card>> /\ Shown(drawing'[s]) = <<>>
    BY <1>0, <1>6, ShownParts DEF SaveCardToLocalUser, NotDrawing, Shown
  <2>2. desk2 = [desk EXCEPT ![s] = <<>>]
    BY <1>0, <1>6, <2>1 DEF SaveCardToLocalUser
  <2>3. Len(desk[s]) = 2 /\ desk[s][1] = drawing[s].user /\ desk[s][2] = drawing[s].card
    BY <2>1
  <2>4. inventory' = [inventory EXCEPT ![desk[s][1]] = Append(@, desk[s][2])] /\ given' = given
    BY <1>6, <2>3 DEF SaveCardToLocalUser
  <2>5. D!HandOver(s)
    BY <2>2, <2>3, <2>4, DeskShown DEF D!HandOver
  <2> QED
    BY <2>5 DEF D!Next
<1>7. ASSUME NEW desks \in SUBSET Server, NEW players \in SUBSET User, UNCHANGED given,
             \A t \in Server : drawing'[t] = IF t \in desks THEN NotDrawing ELSE drawing[t],
             inventory' = [u \in User |-> IF u \in players THEN <<>> ELSE inventory[u]]
      PROVE  D!Next
  <2>1. Shown(NotDrawing) = <<>>
    BY DEF Shown, NotDrawing
  <2>2. desk2 = [t \in Server |-> IF t \in desks THEN <<>> ELSE desk[t]]
    BY <1>7, <2>1
  <2>3. D!Fail(desks, players)
    BY <1>7, <2>2, DeskShown DEF D!Fail
  <2> QED
    BY <2>3 DEF D!Next
<1>8. ASSUME NEW s \in Server, LoseAnswer(s) PROVE D!Next
  <2>1. \A t \in Server : drawing'[t] = IF t \in {s} THEN NotDrawing ELSE drawing[t]
    BY <1>0, <1>8 DEF LoseAnswer
  <2>2. /\ UNCHANGED given
        /\ inventory' = [u \in User |-> IF u \in {} THEN <<>> ELSE inventory[u]]
    BY <1>0, <1>8 DEF LoseAnswer
  <2>3. {s} \in SUBSET Server /\ {} \in SUBSET User
    OBVIOUS
  <2> QED
    BY <1>7, <2>1, <2>2, <2>3
<1>9. ASSUME NEW s \in Server, Restart(s) PROVE D!Next
  <2> DEFINE lost == {t \in Server : t = s \/ (drawing[t].step # "none" /\ drawing[t].to = s)}
             away == {u \in User : Home[u] = s}
  <2>1. \A t \in Server : drawing'[t] = IF t \in lost THEN NotDrawing ELSE drawing[t]
    BY <1>9 DEF Restart
  <2>2. /\ UNCHANGED given
        /\ inventory' = [u \in User |-> IF u \in away THEN <<>> ELSE inventory[u]]
    BY <1>9 DEF Restart
  <2>3. lost \in SUBSET Server /\ away \in SUBSET User
    OBVIOUS
  <2> QED
    BY <1>7, <2>1, <2>2, <2>3
<1>10. CASE LoseLeadership
  <2> DEFINE lost == {t \in Server : drawing[t].step = "proposed" /\ drawing[t].index > commit}
  <2>1. \A t \in Server : drawing'[t] = IF t \in lost THEN NotDrawing ELSE drawing[t]
    BY <1>10 DEF LoseLeadership
  <2>2. /\ UNCHANGED given
        /\ inventory' = [u \in User |-> IF u \in {} THEN <<>> ELSE inventory[u]]
    BY <1>0, <1>10 DEF LoseLeadership
  <2>3. lost \in SUBSET Server /\ {} \in SUBSET User
    OBVIOUS
  <2> QED
    BY <1>7, <2>1, <2>2, <2>3
<1>11. ASSUME NEW s \in Server, ServerStep(s) PROVE [D!Next]_(D!vars)
  BY <1>1, <1>2, <1>4, <1>5, <1>6, <1>8, <1>9, <1>11
  DEF ServerStep, ProposeClaim, ClaimRefused, ApplyClaimCard, ElectLeader, Snapshot, serverVars
<1>12. CASE CommitEntry \/ UNCHANGED vars
  BY <1>2, <1>12 DEF CommitEntry, vars, serverVars
<1> QED
  BY <1>3, <1>10, <1>11, <1>12 DEF Next

(* OPEN_PACK, with its log, its stocks that differ, its snapshots and its  *)
(* claims, deals cards as Dealing says: no card is ever given twice.       *)
THEOREM CardsAreDealt == Spec => IsDealing
<1>1. Init => D!Init
  BY DEF Init, D!Init, AtDesk, NotDrawing
<1>2. IInv /\ [Next]_vars => [D!Next]_(D!vars)
  BY DealingStep
<1> QED
  BY <1>1, <1>2, Invariance, PTL DEF Spec, IsDealing, D!Spec

(***************************************************************************)
(* The size of a stock.                                                    *)
(***************************************************************************)
(* A stock of n cards has seen p draws and some refills.                   *)
Size(n, p) ==
  /\ n \in 0 .. StockSize
  /\ n = StockSize <=> p = 0
  /\ \E k \in Nat : n + p = k * StockSize

SizeInv ==
  \A s \in Server :
    /\ Size(Len(stock[s]), PackCount(log, 0, applied[s]))
    /\ snapshot[s] # 0 => Size(Len(saved[s].stock), PackCount(log, 0, snapshot[s]))

LEMMA FullSize == Size(StockSize, 0)
<1>1. StockSize + 0 = 1 * StockSize
  OBVIOUS
<1> QED
  BY <1>1 DEF Size

LEMMA SizeAfterPack ==
  ASSUME NEW n, NEW p \in Nat, Size(n, p)
  PROVE  Size((IF n = 0 THEN StockSize ELSE n) - 1, p + 1)
<1>1. PICK k \in Nat : n + p = k * StockSize
  BY DEF Size
<1>2. n \in 0 .. StockSize
  BY DEF Size
<1>3. CASE n = 0
  <2>1. (k + 1) * StockSize = k * StockSize + StockSize /\ k + 1 \in Nat
    OBVIOUS
  <2>2. (StockSize - 1) + (p + 1) = (k + 1) * StockSize
    BY <1>1, <1>3, <2>1
  <2> QED
    BY <1>3, <2>1, <2>2 DEF Size
<1>4. CASE n # 0
  <2>1. (n - 1) + (p + 1) = k * StockSize
    BY <1>1, <1>2
  <2> QED
    BY <1>2, <1>4, <2>1 DEF Size
<1> QED
  BY <1>3, <1>4

LEMMA OneSize ==
  ASSUME NEW n, NEW m, NEW p \in Nat, Size(n, p), Size(m, p)
  PROVE  n = m
<1>1. PICK k \in Nat : n + p = k * StockSize
  BY DEF Size
<1>2. PICK j \in Nat : m + p = j * StockSize
  BY DEF Size
<1>3. n \in 0 .. StockSize /\ m \in 0 .. StockSize
  BY DEF Size
<1>4. ASSUME NEW a \in Nat, NEW b \in Nat, a < b PROVE b * StockSize >= a * StockSize + StockSize
  <2>1. PICK d \in Nat : b = a + 1 + d
    <3>1. b - a - 1 \in Nat /\ b = a + 1 + (b - a - 1)
      BY <1>4
    <3> QED
      BY <3>1
  <2>2. b * StockSize = a * StockSize + StockSize + d * StockSize
    BY <2>1
  <2>3. d * StockSize >= 0 /\ a * StockSize \in Nat
    OBVIOUS
  <2> QED
    BY <2>2, <2>3
<1>5. CASE p = 0
  BY <1>5 DEF Size
<1>6. CASE p # 0
  <2>1. n < StockSize /\ m < StockSize
    BY <1>3, <1>6 DEF Size
  <2>2. ~ (k < j) /\ ~ (j < k)
    <3>1. k * StockSize \in Nat /\ j * StockSize \in Nat
      OBVIOUS
    <3> QED
      BY <1>1, <1>2, <1>3, <1>4, <2>1, <3>1
  <2>3. k = j
    BY <2>2
  <2> QED
    BY <1>1, <1>2, <1>3, <2>3
<1> QED
  BY <1>5, <1>6

LEMMA SizeNext ==
  ASSUME IInv, SizeInv, [Next]_vars
  PROVE  SizeInv'
<1>0. /\ stock \in [Server -> Seq(Card)]
      /\ saved \in [Server -> [stock : Seq(Card), pending : [RequestID -> Card \union {NoCard}]]]
      /\ applied \in [Server -> 0 .. commit] /\ snapshot \in [Server -> 0 .. commit]
      /\ commit \in Nat /\ \A i \in 1 .. commit : log'[i] = log[i]
  BY LogKept DEF IInv, TypeOK
<1> DEFINE G(s) ==
      /\ Size(Len(stock'[s]), PackCount(log', 0, applied'[s]))
      /\ snapshot'[s] # 0 => Size(Len(saved'[s].stock), PackCount(log', 0, snapshot'[s]))
<1> SUFFICES ASSUME NEW s \in Server PROVE G(s)
  BY DEF SizeInv
<1>1. /\ applied[s] \in Nat /\ snapshot[s] \in Nat
      /\ Size(Len(stock[s]), PackCount(log', 0, applied[s]))
      /\ snapshot[s] # 0 => Size(Len(saved[s].stock), PackCount(log', 0, snapshot[s]))
  <2>1. applied[s] \in 0 .. commit /\ snapshot[s] \in 0 .. commit
    BY <1>0
  <2>2. /\ applied[s] \in Nat /\ snapshot[s] \in Nat
        /\ \A i \in 1 .. applied[s] : log'[i] = log[i]
        /\ \A i \in 1 .. snapshot[s] : log'[i] = log[i]
    BY <1>0, <2>1
  <2>3. PackCount(log', 0, applied[s]) = PackCount(log, 0, applied[s])
    BY <2>2, SamePacks
  <2>4. PackCount(log', 0, snapshot[s]) = PackCount(log, 0, snapshot[s])
    BY <2>2, SamePacks
  <2> QED
    BY <2>2, <2>3, <2>4 DEF SizeInv
<1>2. ASSUME stock'[s] = stock[s], saved'[s] = saved[s],
             applied'[s] = applied[s], snapshot'[s] = snapshot[s]
      PROVE  G(s)
  BY <1>1, <1>2
<1>3. ASSUME NEW t \in Server, ServerStep(t) PROVE G(s)
  <2>1. CASE ApplyOpenPack(t)
    <3>1. /\ applied' = [applied EXCEPT ![t] = applied[t] + 1] /\ UNCHANGED <<log, snapshot, saved>>
          /\ IsPack(log[applied[t] + 1])
          /\ stock' = [stock EXCEPT ![t] = Tail(Full(t))]
          /\ Len(Tail(Full(t))) = Len(Full(t)) - 1
      BY <2>1, AppliedEntry, PackDrawn DEF ApplyOpenPack, IInv, IsPack
    <3>2. CASE t = s
      <4>1. applied'[s] = applied[s] + 1 /\ stock'[s] = Tail(Full(s))
        BY <1>0, <3>1, <3>2
      <4>2. PackCount(log', 0, applied[s] + 1) = PackCount(log', 0, applied[s]) + 1
        BY <1>1, <3>1, <3>2, OnePackMore
      <4>3. PackCount(log', 0, applied[s]) \in Nat
        BY <1>1, PacksAreFinite
      <4>4. Len(stock'[s]) = (IF Len(stock[s]) = 0 THEN StockSize ELSE Len(stock[s])) - 1
        <5>1. Len(Full(s)) = IF Len(stock[s]) = 0 THEN StockSize ELSE Len(stock[s])
          <6>1. stock[s] \in Seq(Card) /\ (stock[s] = <<>> <=> Len(stock[s]) = 0)
            BY <1>0, EmptySeq
          <6>2. Len(GerarEstoque(s, made[s])) = StockSize
            BY NewStock DEF IInv, TypeOK
          <6> QED
            BY <6>1, <6>2 DEF Full
        <5> QED
          BY <3>1, <3>2, <4>1, <5>1
      <4>5. Size(Len(stock'[s]), PackCount(log', 0, applied'[s]))
        BY <1>1, <4>1, <4>2, <4>3, <4>4, SizeAfterPack
      <4> QED
        BY <1>1, <3>1, <4>5
    <3>3. CASE t # s
      BY <1>0, <1>2, <3>1, <3>3
    <3> QED
      BY <3>2, <3>3
  <2>2. CASE ApplyClaimCard(t)
    <3>1. /\ applied' = [applied EXCEPT ![t] = applied[t] + 1]
          /\ UNCHANGED <<log, snapshot, saved, stock>>
          /\ ~ IsPack(log[applied[t] + 1])
      BY <2>2, AppliedEntry DEF ApplyClaimCard, IInv, IsPack
    <3>2. CASE t = s
      <4>1. PackCount(log', 0, applied[s] + 1) = PackCount(log', 0, applied[s]) + 0
        BY <1>1, <3>1, <3>2, OnePackMore
      <4>2. PackCount(log', 0, applied[s]) \in Nat
        BY <1>1, PacksAreFinite
      <4>3. applied'[s] = applied[s] + 1
        BY <1>0, <3>1, <3>2
      <4>4. PackCount(log', 0, applied'[s]) = PackCount(log', 0, applied[s])
        BY <4>1, <4>2, <4>3
      <4> QED
        BY <1>1, <3>1, <4>4
    <3>3. CASE t # s
      BY <1>0, <1>2, <3>1, <3>3
    <3> QED
      BY <3>2, <3>3
  <2>3. CASE Snapshot(t)
    <3>1. /\ UNCHANGED <<applied, stock>> /\ snapshot' = [snapshot EXCEPT ![t] = applied[t]]
          /\ saved' = [saved EXCEPT ![t] = [stock |-> stock[t], pending |-> pending[t]]]
      BY <2>3 DEF Snapshot, TakeSnapshot
    <3>2. CASE t = s
      <4>1. saved'[s].stock = stock[s] /\ snapshot'[s] = applied[s]
        BY <1>0, <3>1, <3>2
      <4> QED
        BY <1>1, <3>1, <4>1
    <3>3. CASE t # s
      BY <1>0, <1>2, <3>1, <3>3
    <3> QED
      BY <3>2, <3>3
  <2>4. CASE Restart(t)
    <3>1. /\ applied' = [applied EXCEPT ![t] = snapshot[t]] /\ UNCHANGED <<snapshot, saved>>
          /\ stock' = [stock EXCEPT ![t] = IF snapshot[t] = 0 THEN GerarEstoque(t, made[t])
                                                               ELSE saved[t].stock]
      BY <2>4 DEF Restart, RestartRaft, NewFSM
    <3>2. CASE t = s /\ snapshot[s] # 0
      <4>1. applied'[s] = snapshot[s] /\ stock'[s] = saved[s].stock
        BY <1>0, <3>1, <3>2
      <4> QED
        BY <1>1, <3>1, <3>2, <4>1
    <3>3. CASE t = s /\ snapshot[s] = 0
      <4>1. applied'[s] = 0 /\ snapshot'[s] = 0 /\ stock'[s] = GerarEstoque(s, made[s])
        BY <1>0, <3>1, <3>3
      <4>2. Len(stock'[s]) = StockSize
        BY <4>1, NewStock DEF IInv, TypeOK
      <4>3. PackCount(log', 0, applied'[s]) = 0
        BY <4>1, NoPacks
      <4> QED
        BY <4>1, <4>2, <4>3, FullSize
    <3>4. CASE t # s
      BY <1>0, <1>2, <3>1, <3>4
    <3> QED
      BY <3>2, <3>3, <3>4
  <2> QED
    BY <1>2, <1>3, <2>1, <2>2, <2>3, <2>4
    DEF ServerStep, ProcessDrawCardRequest, SaveCardToLocalUser, LoseAnswer, ProposeClaim,
        Replicate, ClaimRefused, ElectLeader, Elect, raftVars, fsmVars
<1>4. ASSUME NEW u \in User, HandleDrawCard(u) PROVE G(s)
  BY <1>2, <1>4 DEF HandleDrawCard, Replicate, fsmVars
<1>5. CASE CommitEntry \/ LoseLeadership \/ UNCHANGED vars
  BY <1>2, <1>5
  DEF CommitEntry, Commit, LoseLeadership, StepDown, vars, raftVars, fsmVars
<1> QED
  BY <1>3, <1>4, <1>5 DEF Next

(* Servers that have applied as much have as many cards left: a stock is   *)
(* refilled at the same entry everywhere, with or without a restart.       *)
THEOREM StocksStayAligned == Spec => []StocksAreAligned
<1>1. Init => SizeInv
  <2> SUFFICES ASSUME Init, NEW s \in Server
               PROVE  /\ Size(Len(stock[s]), PackCount(log, 0, applied[s]))
                      /\ snapshot[s] = 0
    BY DEF SizeInv
  <2>1. stock[s] = GerarEstoque(s, 0) /\ applied[s] = 0 /\ snapshot[s] = 0
    BY DEF Init, RaftInit
  <2>2. Len(stock[s]) = StockSize
    BY <2>1, NewStock
  <2>3. PackCount(log, 0, applied[s]) = 0
    BY <2>1, NoPacks
  <2> QED
    BY <2>1, <2>2, <2>3, FullSize
<1>2. IInv /\ SizeInv /\ [Next]_vars => SizeInv'
  BY SizeNext
<1>3. IInv /\ SizeInv => StocksAreAligned
  <2> SUFFICES ASSUME IInv, SizeInv, NEW s \in Server, NEW t \in Server, applied[s] = applied[t]
               PROVE  Len(stock[s]) = Len(stock[t])
    BY DEF StocksAreAligned
  <2>1. applied[s] \in Nat
    <3>1. applied[s] \in 0 .. commit /\ commit \in 0 .. Len(log) /\ Len(log) \in Nat
      BY LenProperties DEF IInv, TypeOK
    <3> QED
      BY <3>1
  <2>2. PackCount(log, 0, applied[s]) \in Nat
    BY <2>1, PacksAreFinite
  <2>3. /\ Size(Len(stock[s]), PackCount(log, 0, applied[s]))
        /\ Size(Len(stock[t]), PackCount(log, 0, applied[s]))
    BY DEF SizeInv
  <2> QED
    BY <2>2, <2>3, OneSize
<1> QED
  BY <1>1, <1>2, <1>3, Invariance, PTL DEF Spec

(***************************************************************************)
(* Claims.                                                                 *)
(***************************************************************************)
(* The claim of the OPEN_PACK at i of lg, for the request r, is under way  *)
(* or made.                                                                *)
ClaimUnderWay(lg, i, r) ==
  \/ \E t \in Server : drawing[t].step \in {"proposed", "drawn"} /\ drawing[t].request = r
  \/ \E t \in Server : r \in claiming[t]
  \/ \E j \in i + 1 .. Len(lg) : lg[j] = ClaimCard(r)

(* While nothing fails the first leader stays, and does all the work.      *)
ClaimsInv ==
  faults = 0 =>
    /\ leader = NoServer => log = <<>>
    /\ \A t \in Server : drawing[t].step # "none" => drawing[t].to = leader
    /\ \A t \in Server : claiming[t] # {} => t = leader
    /\ \A i \in 1 .. Len(log), r \in RequestID :
         log[i] = OpenPack(r) => ClaimUnderWay(log, i, r)

LEMMA ClaimsNext ==
  ASSUME IInv, ClaimsInv, [Next]_vars
  PROVE  ClaimsInv'
<1> DEFINE
      W(i, r) ==
        \/ \E t \in Server : drawing'[t].step \in {"proposed", "drawn"} /\ drawing'[t].request = r
        \/ \E t \in Server : r \in claiming'[t]
        \/ \E j \in i + 1 .. Len(log') : log'[j] = ClaimCard(r)
      L == leader' = NoServer => log' = <<>>
      Dr == \A t \in Server : drawing'[t].step # "none" => drawing'[t].to = leader'
      Cl == \A t \in Server : claiming'[t] # {} => t = leader'
      Un == \A i \in 1 .. Len(log'), r \in RequestID : log'[i] = OpenPack(r) => W(i, r)
<1> SUFFICES ASSUME faults' = 0 PROVE L /\ Dr /\ Cl /\ Un
  BY DEF ClaimsInv, ClaimUnderWay, OpenPack, ClaimCard
<1>0. /\ faults \in Nat /\ leader \in Server \union {NoServer}
      /\ drawing \in [Server -> Drawing \union {NotDrawing}]
      /\ claiming \in [Server -> SUBSET RequestID]
      /\ log \in Seq(Command) /\ Len(log) \in Nat
      /\ RaftStep(Command)
  BY LenProperties, NextIsRaftStep DEF IInv, TypeOK
<1>1. faults = 0 /\ ~ Fault
  BY <1>0 DEF RaftStep, raftVars, Replicate, Elect, Advance, TakeSnapshot, RestartRaft, Commit,
              StepDown, Fault
<1>2. /\ leader = NoServer => log = <<>>
      /\ \A t \in Server : drawing[t].step # "none" => drawing[t].to = leader
      /\ \A t \in Server : claiming[t] # {} => t = leader
      /\ \A i \in 1 .. Len(log), r \in RequestID :
           log[i] = OpenPack(r) => ClaimUnderWay(log, i, r)
  BY <1>1 DEF ClaimsInv
<1>3. ASSUME UNCHANGED <<log, leader, drawing, claiming>> PROVE L /\ Dr /\ Cl /\ Un
  BY <1>2, <1>3 DEF ClaimUnderWay
<1>4. ASSUME NEW s \in Server, ApplyOpenPack(s) PROVE L /\ Dr /\ Cl /\ Un
  <2>1. UNCHANGED <<log, leader, claiming>> /\ Respond(s, Full(s)[1]) /\ Full(s)[1] \in Card
    BY <1>4, PackDrawn, AppliedEntry DEF ApplyOpenPack, IInv
  <2>2. ASSUME NEW t \in Server
        PROVE  /\ drawing'[t].step # "none" => drawing[t].step # "none" /\ drawing'[t].to = drawing[t].to
               /\ drawing[t].step \in {"proposed", "drawn"} =>
                    /\ drawing'[t].step \in {"proposed", "drawn"}
                    /\ drawing'[t].request = drawing[t].request
    <3>1. CASE Waits(t, s, applied[s] + 1)
      <4>1. drawing[t].step = "proposed" /\ drawing'[t] = Answered(drawing[t], Full(s)[1])
        BY <1>4, <2>1, <3>1, Responses
      <4>2. /\ drawing'[t].step = "drawn" /\ drawing'[t].to = drawing[t].to
            /\ drawing'[t].request = drawing[t].request
        BY <4>1 DEF Answered
      <4> QED
        BY <4>1, <4>2
    <3>2. CASE ~ Waits(t, s, applied[s] + 1)
      <4>1. drawing'[t] = drawing[t]
        BY <1>4, <2>1, <3>2, Responses
      <4> QED
        BY <4>1
    <3> QED
      BY <3>1, <3>2
  <2> QED
    BY <1>2, <2>1, <2>2 DEF ClaimUnderWay
<1>5. ASSUME NEW s \in Server, ProcessDrawCardRequest(s) PROVE L /\ Dr /\ Cl /\ Un
  <2>1. drawing[s] \in Answer /\ drawing[s].step = "drawn" /\ drawing[s].to = leader
    BY <1>0, <1>2, <1>5, DrawingKinds DEF ProcessDrawCardRequest
  <2>2. leader \in Server /\ drawing[s].request \in RequestID
    BY <2>1 DEF Answer
  <2>3. /\ UNCHANGED <<log, leader>>
        /\ claiming' = [claiming EXCEPT ![leader] = @ \union {drawing[s].request}]
        /\ drawing'[s].to = leader
        /\ \A t \in Server : t # s => drawing'[t] = drawing[t]
    BY <1>0, <1>5, <2>1 DEF ProcessDrawCardRequest, raftVars, Answer
  <2>4. Dr /\ Cl /\ L
    BY <1>0, <1>2, <2>2, <2>3
  <2>5. ASSUME NEW i \in 1 .. Len(log), NEW r \in RequestID, log[i] = OpenPack(r) PROVE W(i, r)
    <3>1. ClaimUnderWay(log, i, r)
      BY <1>2, <2>5
    <3>2. \A t \in Server : r \in claiming[t] => r \in claiming'[t]
      BY <1>0, <2>2, <2>3
    <3>3. drawing[s].request \in claiming'[leader]
      BY <1>0, <2>2, <2>3
    <3> QED
      BY <2>2, <2>3, <3>1, <3>2, <3>3 DEF ClaimUnderWay
  <2> QED
    BY <2>3, <2>4, <2>5
<1>6. ASSUME NEW s \in Server, SaveCardToLocalUser(s) PROVE L /\ Dr /\ Cl /\ Un
  <2>1. /\ UNCHANGED <<log, leader, claiming>> /\ drawing'[s].step = "none"
        /\ drawing[s].step = "answered"
        /\ \A t \in Server : t # s => drawing'[t] = drawing[t]
    BY <1>0, <1>6 DEF SaveCardToLocalUser, raftVars, NotDrawing
  <2> QED
    BY <1>2, <2>1 DEF ClaimUnderWay
<1>7. ASSUME NEW s \in Server, ProposeClaim(s) PROVE L /\ Dr /\ Cl /\ Un
  <2>1. PICK q \in claiming[s] :
          /\ Replicate(s, ClaimCard(q))
          /\ claiming' = [claiming EXCEPT ![s] = @ \ {q}] /\ UNCHANGED drawing
    BY <1>7 DEF ProposeClaim
  <2>2. q \in RequestID /\ ClaimCard(q) \in Command /\ ~ IsPack(ClaimCard(q))
    BY <1>0, <2>1, Commands
  <2>3. /\ leader' = leader /\ leader = s /\ Len(log') = Len(log) + 1
        /\ log'[Len(log) + 1] = ClaimCard(q)
        /\ \A i \in 1 .. Len(log) : log'[i] = log[i]
    BY <1>0, <2>1, <2>2, AppendProperties DEF Replicate
  <2>4. L /\ Dr /\ Cl
    BY <1>0, <1>2, <2>1, <2>3, NoServerAssumption
  <2>5. ASSUME NEW i \in 1 .. Len(log'), NEW r \in RequestID, log'[i] = OpenPack(r) PROVE W(i, r)
    <3>1. i \in 1 .. Len(log) /\ log[i] = OpenPack(r)
      BY <1>0, <2>2, <2>3, <2>5, Commands
    <3>2. ClaimUnderWay(log, i, r)
      BY <1>2, <3>1
    <3>3. \A t \in Server : r \in claiming[t] => r \in claiming'[t] \/ r = q
      BY <1>0, <2>1
    <3>4. Len(log) + 1 \in i + 1 .. Len(log')
      BY <1>0, <2>3, <3>1
    <3>5. \A j \in i + 1 .. Len(log) : j \in i + 1 .. Len(log') /\ log'[j] = log[j]
      BY <1>0, <2>3, <3>1
    <3> QED
      BY <2>1, <2>3, <3>2, <3>3, <3>4, <3>5 DEF ClaimUnderWay
  <2> QED
    BY <2>4, <2>5
<1>8. ASSUME NEW s \in Server, ElectLeader(s) PROVE L /\ Dr /\ Cl /\ Un
  <2>1. /\ leader = NoServer /\ log = <<>> /\ leader' = s
        /\ UNCHANGED <<drawing, claiming>>
        /\ \E kept \in commit .. Len(log) : log' = SubSeq(log, 1, kept)
    BY <1>2, <1>8 DEF ElectLeader, Elect, serverVars
  <2>2. Len(log') = 0
    <3>1. PICK kept \in commit .. Len(log) : log' = SubSeq(log, 1, kept)
      BY <2>1
    <3>2. kept = 0
      <4>1. Len(log) = 0 /\ commit \in 0 .. Len(log)
        BY <1>0, <2>1, EmptySeq DEF IInv, TypeOK
      <4> QED
        BY <3>1, <4>1
    <3> QED
      BY <1>0, <3>1, <3>2, SubSeqProperties
  <2>3. \A t \in Server : drawing[t].step = "none" /\ claiming[t] = {}
    <3> SUFFICES ASSUME NEW t \in Server, drawing[t].step # "none" PROVE FALSE
      BY <1>2, <2>1, NoServerAssumption
    <3>1. drawing[t] \in Proposal \union Answer
      BY <1>0, DrawingKinds
    <3>2. drawing[t].to \in Server
      BY <3>1 DEF Proposal, Answer
    <3> QED
      BY <1>2, <2>1, <3>2, NoServerAssumption
  <2> QED
    BY <2>1, <2>2, <2>3, NoServerAssumption
<1>9. ASSUME NEW s \in Server, ServerStep(s) PROVE L /\ Dr /\ Cl /\ Un
  <2>1. ~ LoseAnswer(s) /\ ~ Restart(s)
    BY <1>1 DEF LoseAnswer, Restart, RestartRaft
  <2>2. ~ ClaimRefused(s)
    BY <1>2 DEF ClaimRefused
  <2> QED
    BY <1>3, <1>4, <1>5, <1>6, <1>7, <1>8, <1>9, <2>1, <2>2
    DEF ServerStep, ApplyClaimCard, Advance, Snapshot, TakeSnapshot, serverVars
<1>10. ASSUME NEW u \in User, HandleDrawCard(u) PROVE L /\ Dr /\ Cl /\ Un
  <2>1. /\ Home[u] \in Server /\ leader \in Server /\ leader' = leader
        /\ Len(log') = Len(log) + 1 /\ log'[Len(log) + 1] = OpenPack(draws + 1)
        /\ drawing[Home[u]].step = "none"
        /\ drawing'[Home[u]].step = "proposed" /\ drawing'[Home[u]].to = leader
        /\ drawing'[Home[u]].request = draws + 1
        /\ \A t \in Server : t # Home[u] => drawing'[t] = drawing[t]
        /\ claiming' = claiming /\ draws + 1 \in RequestID
        /\ \A i \in 1 .. Len(log) : log'[i] = log[i]
    <3>1. draws + 1 \in RequestID /\ log' = Append(log, OpenPack(draws + 1))
      BY <1>10 DEF HandleDrawCard, Replicate, RequestID, IInv, TypeOK
    <3>2. \A i \in 1 .. Len(log) : log'[i] = log[i]
      BY <1>0, <3>1, Commands, AppendProperties
    <3>3. drawing'[Home[u]] = [step |-> "proposed", user |-> u, request |-> draws + 1,
                               to |-> leader, index |-> Len(log) + 1]
      BY <1>10, NewDraw
    <3>4. /\ drawing'[Home[u]].step = "proposed" /\ drawing'[Home[u]].to = leader
          /\ drawing'[Home[u]].request = draws + 1
      BY <3>3
    <3>5. drawing[Home[u]].step = "none"
      <4>1. drawing[Home[u]] = NotDrawing
        BY <1>10 DEF HandleDrawCard
      <4> QED
        BY <4>1 DEF NotDrawing
    <3>6. Home[u] \in Server /\ (\A t \in Server : t # Home[u] => drawing'[t] = drawing[t])
      BY <1>0, <1>10, NewDraw DEF HandleDrawCard
    <3> QED
      BY <1>10, <3>1, <3>2, <3>4, <3>5, <3>6, NewDraw DEF HandleDrawCard
  <2>2. L /\ Dr /\ Cl
    BY <1>2, <2>1, NoServerAssumption
  <2>3. ASSUME NEW i \in 1 .. Len(log'), NEW r \in RequestID, log'[i] = OpenPack(r) PROVE W(i, r)
    <3>1. CASE i \in 1 .. Len(log)
      <4>1. ClaimUnderWay(log, i, r)
        BY <1>2, <2>1, <2>3, <3>1
      <4>2. \A j \in i + 1 .. Len(log) : j \in i + 1 .. Len(log') /\ log'[j] = log[j]
        BY <1>0, <2>1, <3>1
      <4> QED
        BY <2>1, <4>1, <4>2 DEF ClaimUnderWay
    <3>2. CASE i = Len(log) + 1
      <4>1. r = draws + 1
        BY <2>1, <2>3, <3>2, Commands
      <4> QED
        BY <2>1, <4>1
    <3> QED
      BY <1>0, <2>1, <3>1, <3>2
  <2> QED
    BY <2>2, <2>3
<1>11. ~ LoseLeadership
  BY <1>1 DEF LoseLeadership, StepDown
<1>12. CASE CommitEntry \/ UNCHANGED vars
  BY <1>3, <1>12 DEF CommitEntry, Commit, vars, raftVars, serverVars
<1> QED
  BY <1>9, <1>10, <1>11, <1>12 DEF Next

(* While nothing fails, a pending card has its claim ahead of it.          *)
THEOREM PendingKeepsItsClaim == Spec => []PendingWillBeClaimed
<1>1. Init => ClaimsInv
  BY EmptySeq DEF Init, RaftInit, ClaimsInv, NotDrawing
<1>2. IInv /\ ClaimsInv /\ [Next]_vars => ClaimsInv'
  BY ClaimsNext
<1>3. IInv /\ ClaimsInv => PendingWillBeClaimed
  <2> SUFFICES ASSUME IInv, ClaimsInv, faults = 0, NEW s \in Server, NEW r \in RequestID,
                      pending[s][r] # NoCard
               PROVE  \/ \E t \in Server : /\ drawing[t].step \in {"proposed", "drawn"}
                                          /\ drawing[t].request = r
                      \/ \E t \in Server : r \in claiming[t]
                      \/ \E i \in applied[s] + 1 .. Len(log) : log[i] = ClaimCard(r)
    BY DEF PendingWillBeClaimed
  <2>1. PICK i \in 1 .. applied[s] :
          log[i] = OpenPack(r) /\ \A j \in i + 1 .. applied[s] : log[j] # ClaimCard(r)
    BY DEF IInv, PendingInv, Unclaimed
  <2>2. applied[s] \in Nat /\ applied[s] <= Len(log) /\ Len(log) \in Nat
    <3>1. applied[s] \in 0 .. commit /\ commit \in 0 .. Len(log) /\ Len(log) \in Nat
      BY LenProperties DEF IInv, TypeOK
    <3> QED
      BY <3>1
  <2>3. ClaimUnderWay(log, i, r)
    BY <2>1, <2>2 DEF ClaimsInv
  <2>4. \A j \in i + 1 .. Len(log) : log[j] = ClaimCard(r) => j \in applied[s] + 1 .. Len(log)
    BY <2>1, <2>2
  <2> QED
    BY <2>3, <2>4 DEF ClaimUnderWay
<1> QED
  BY <1>1, <1>2, <1>3, Invariance, PTL DEF Spec

=============================================================================
