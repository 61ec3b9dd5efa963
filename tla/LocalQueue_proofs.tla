-------------------------- MODULE LocalQueue_proofs --------------------------
(***************************************************************************)
(* The local queue of a server pairs its players as Pairing says, first    *)
(* come, first served, for any number of players and requests.             *)
(***************************************************************************)
EXTENDS LocalQueue, TLAPS, SequenceTheorems

(* Entries come in the order of their numbers and leave from the head, so  *)
(* the queue always holds the last ones: entries 1 to Gone have left.      *)
Gone == Len(entered) - Len(localQueue)

QueueIsSuffix ==
  /\ Len(localQueue) <= Len(entered)
  /\ \A i \in 1 .. Len(localQueue) : localQueue[i] = Gone + i

(* While SendToGlobalQueue runs, the head is sent but still in the queue.  *)
SentUpTo == IF monitor = "posting" THEN Gone + 1 ELSE Gone

(* What is sent has left the queue, or is its head; what is in a room has  *)
(* left it, and is not sent.                                               *)
LeftIsGone ==
  /\ \A e \in Sent : e \in 1 .. SentUpTo
  /\ monitor = "posting" => Gone + 1 \in Sent
  /\ \A room \in rooms : room # {} /\ \A e \in room : e \in 1 .. Gone /\ e \notin Sent

(* A client that still asks has not given up that request.                 *)
AskingIsOpen == \A u \in User : client[u] = "asking" => timeouts[u] < asked[u]

(* Only a sweep finds entries that are due, and sends no other.            *)
DueInSweep ==
  /\ monitor \notin {"sweep", "posting"} => due = 0
  /\ monitor = "posting" => due > 0

IInv == TypeOK /\ QueueIsSuffix /\ LeftIsGone /\ AskingIsOpen /\ DueInSweep

(***************************************************************************)
(* What leaves and what stays when MatchLocalQueue has paired the queue.   *)
(***************************************************************************)
LEMMA HalfOf ==
  ASSUME NEW n \in Nat
  PROVE  n \div 2 \in Nat /\ 2 * (n \div 2) <= n
OBVIOUS

LEMMA TailLength ==
  ASSUME NEW p \in Nat, NEW n \in Nat, 2 * p <= n
  PROVE  (IF 2 * p + 1 <= n THEN n - (2 * p + 1) + 1 ELSE 0) = n - 2 * p
<1>1. CASE 2 * p + 1 <= n
  BY <1>1
<1>2. CASE ~ (2 * p + 1 <= n)
  <2>1. 2 * p = n
    BY <1>2
  <2> QED
    BY <1>2, <2>1
<1> QED
  BY <1>1, <1>2

LEMMA EvenOrOdd ==
  ASSUME NEW n \in Nat
  PROVE  (\E k \in Nat : n = 2 * k) \/ \E k \in Nat : n = 2 * k + 1
<1>1. n \div 2 \in Nat /\ (n = 2 * (n \div 2) \/ n = 2 * (n \div 2) + 1)
  OBVIOUS
<1> QED
  BY <1>1

LEMMA Interval ==
  ASSUME NEW p \in Nat, NEW n \in Nat, 2 * p <= n, NEW i \in 1 .. n - 2 * p
  PROVE  2 * p + i \in 1 .. n
OBVIOUS

LEMMA PairInterval ==
  ASSUME NEW p \in Nat, NEW g \in Nat, NEW i \in 1 .. p
  PROVE  /\ g + 2 * i - 1 \in 1 .. g + 2 * p /\ g + 2 * i - 1 \notin 1 .. g
         /\ g + 2 * i \in 1 .. g + 2 * p /\ g + 2 * i \notin 1 .. g
OBVIOUS

LEMMA RequestParts ==
  /\ \A q \in Request : /\ q.user \in User /\ q.n \in Nat
                        /\ q.n \in 1 .. MaxRequests[q.user]
                        /\ q = [user |-> q.user, n |-> q.n]
  /\ \A u \in User, n \in Nat :
       n \in 1 .. MaxRequests[u] => [user |-> u, n |-> n] \in Request
BY MaxRequestsAssumption DEF Request

(* The request in hand, once there is one.                                 *)
LEMMA InHand ==
  ASSUME TypeOK, handler # Idle
  PROVE  handler \in [step : {"append", "list"}, request : Request] /\ handler.request \in Request
BY DEF TypeOK

LEMMA Queue ==
  ASSUME IInv
  PROVE  /\ entered \in Seq(Request) /\ Len(entered) \in Nat /\ Entry = 1 .. Len(entered)
         /\ localQueue \in Seq(Entry) /\ Len(localQueue) \in Nat
         /\ DOMAIN localQueue = 1 .. Len(localQueue)
         /\ Gone \in Nat /\ Gone + Len(localQueue) = Len(entered)
         /\ \A i \in 1 .. Len(localQueue) : localQueue[i] = Gone + i /\ localQueue[i] \in Entry
<1>1. /\ entered \in Seq(Request) /\ Len(entered) \in Nat /\ DOMAIN entered = 1 .. Len(entered)
      /\ localQueue \in Seq(Entry) /\ Len(localQueue) \in Nat
      /\ DOMAIN localQueue = 1 .. Len(localQueue)
      /\ \A i \in 1 .. Len(localQueue) : localQueue[i] \in Entry
  BY LenProperties, ElementOfSeq DEF IInv, TypeOK
<1> QED
  BY <1>1 DEF IInv, QueueIsSuffix, Gone, Entry

(* Those without an opponent are the last of the queue, and are in order.  *)
LEMMA WhoStays ==
  ASSUME IInv
  PROVE  /\ PairCount \in Nat /\ 2 * PairCount <= Len(localQueue)
         /\ Unmatched \in Seq(Entry)
         /\ Len(Unmatched) = Len(localQueue) - 2 * PairCount
         /\ \A i \in 1 .. Len(Unmatched) : Unmatched[i] = localQueue[2 * PairCount + i]
<1> DEFINE m == 2 * PairCount + 1
           n == Len(localQueue)
<1>1. PairCount \in Nat /\ 2 * PairCount <= n /\ n \in Nat
  BY Queue, HalfOf DEF PairCount
<1>2. m \in Int /\ n \in Int /\ \A i \in m .. n : localQueue[i] \in Entry
  BY <1>1, Queue
<1>3. /\ SubSeq(localQueue, m, n) \in Seq(Entry)
      /\ Len(SubSeq(localQueue, m, n)) = IF m <= n THEN n - m + 1 ELSE 0
      /\ \A i \in 1 .. n - m + 1 : SubSeq(localQueue, m, n)[i] = localQueue[m + i - 1]
  <2> HIDE DEF m, n
  <2> QED
    BY <1>2, SubSeqProperties
<1>4. Unmatched = SubSeq(localQueue, m, n)
  BY DEF Unmatched
<1>5. Len(Unmatched) = n - 2 * PairCount
  <2>1. (IF m <= n THEN n - m + 1 ELSE 0) = n - 2 * PairCount
    BY <1>1, TailLength
  <2> QED
    BY <2>1, <1>3, <1>4
<1>6. ASSUME NEW i \in 1 .. Len(Unmatched) PROVE Unmatched[i] = localQueue[2 * PairCount + i]
  <2>1. i \in 1 .. n - m + 1 /\ m + i - 1 = 2 * PairCount + i
    BY <1>1, <1>5
  <2> QED
    BY <2>1, <1>3, <1>4
<1> QED
  BY <1>1, <1>3, <1>4, <1>5, <1>6

(* The others have left.                                                   *)
LEMMA WhoIsGone ==
  ASSUME IInv, MatchLocalQueue
  PROVE  Gone' = Gone + 2 * PairCount /\ UNCHANGED entered
<1>1. Len(localQueue') = Len(localQueue) - 2 * PairCount /\ UNCHANGED entered
  BY WhoStays DEF MatchLocalQueue
<1>2. Gone' = Len(entered) - (Len(localQueue) - 2 * PairCount)
  BY <1>1 DEF Gone
<1>3. Gone = Len(entered) - Len(localQueue)
  BY DEF Gone
<1> QED
  BY <1>1, <1>2, <1>3, WhoStays, Queue

(* Pair number i holds two consecutive entries, of the first ones.         *)
LEMMA WhoLeaves ==
  ASSUME IInv, NEW i \in 1 .. PairCount
  PROVE  /\ localQueue[2 * i - 1] = Gone + 2 * i - 1 /\ localQueue[2 * i] = Gone + 2 * i
         /\ Gone + 2 * i <= Gone + 2 * PairCount
         /\ localQueue[2 * i - 1] \in Entry /\ localQueue[2 * i] \in Entry
<1>1. 2 * i - 1 \in 1 .. Len(localQueue) /\ 2 * i \in 1 .. Len(localQueue) /\ i <= PairCount
  BY Queue, WhoStays
<1>2. /\ localQueue[2 * i - 1] = Gone + (2 * i - 1) /\ localQueue[2 * i - 1] \in Entry
      /\ localQueue[2 * i] = Gone + 2 * i /\ localQueue[2 * i] \in Entry
  BY <1>1, Queue
<1> QED
  BY <1>1, <1>2, Queue, WhoStays

LEMMA NewRoomsOf ==
  ASSUME IInv, NEW room \in NewRooms
  PROVE  \E i \in 1 .. PairCount : room = {Gone + 2 * i - 1, Gone + 2 * i}
<1>1. PICK i \in 1 .. PairCount : room = {localQueue[2 * i - 1], localQueue[2 * i]}
  BY DEF NewRooms
<1> QED
  BY <1>1, WhoLeaves

(***************************************************************************)
(* The initial state.                                                      *)
(***************************************************************************)
LEMMA InitIInv == Init => IInv
<1> SUFFICES ASSUME Init PROVE IInv
  OBVIOUS
<1>1. entered = <<>> /\ localQueue = <<>> /\ requests = <<>>
      /\ Len(entered) = 0 /\ Len(localQueue) = 0
  BY DEF Init
<1>2. localQueue \in Seq(Entry) /\ entered \in Seq(Request) /\ requests \in Seq(Request)
  BY <1>1
<1>3. TypeOK
  <2>1. due \in 0 .. Len(localQueue)
    BY <1>1 DEF Init
  <2>2. /\ client \in [User -> {"menu", "asking", "waiting", "playing"}]
        /\ asked \in [User -> Nat] /\ timeouts \in [User -> Nat]
        /\ heard \in [User -> rooms \union GlobalRoom \union {{}}]
    BY DEF Init
  <2>3. ASSUME NEW u \in User
        PROVE  timeouts[u] <= asked[u] /\ asked[u] <= MaxRequests[u]
    <3>1. timeouts[u] = 0 /\ asked[u] = 0
      BY DEF Init
    <3>2. MaxRequests[u] \in Nat
      BY MaxRequestsAssumption
    <3> QED
      BY <3>1, <3>2
  <2> QED
    BY <1>2, <2>1, <2>2, <2>3 DEF Init, TypeOK
<1> QED
  BY <1>1, <1>3 DEF Init, IInv, QueueIsSuffix, LeftIsGone, AskingIsOpen, DueInSweep, Gone, Sent

(***************************************************************************)
(* The steps: first the types.                                             *)
(***************************************************************************)
LEMMA TypeNext == IInv /\ [Next]_vars => TypeOK'
<1> SUFFICES ASSUME IInv, [Next]_vars PROVE TypeOK'
  OBVIOUS
<1> USE MaxRequestsAssumption
<1>0. TypeOK
  BY DEF IInv
<1>17. UNCHANGED serverVars => UNCHANGED <<Entry, GlobalRoom>>
  BY DEF serverVars, Entry, GlobalRoom
<1>1. ASSUME NEW u \in User, AskToJoin(u) PROVE TypeOK'
  <2>1. [user |-> u, n |-> asked[u] + 1] \in Request
    <3>1. asked[u] + 1 \in 1 .. MaxRequests[u]
      BY <1>0, <1>1 DEF TypeOK, AskToJoin
    <3> QED
      BY <3>1, RequestParts
  <2>2. requests' \in Seq(Request)
    BY <1>0, <1>1, <2>1 DEF TypeOK, AskToJoin
  <2> QED
    BY <1>0, <1>1, <1>17, <2>2 DEF TypeOK, AskToJoin, serverVars
<1>2. ASSUME NEW u \in User, GiveUpAsking(u) PROVE TypeOK'
  BY <1>0, <1>2, <1>17 DEF TypeOK, GiveUpAsking, serverVars, IInv, AskingIsOpen
<1>3. ASSUME NEW r \in replies, ReceiveReply(r) PROVE TypeOK'
  BY <1>0, <1>3, RequestParts DEF TypeOK, ReceiveReply, serverVars, Entry, GlobalRoom
<1>4. ASSUME NEW a \in announced, HearMatch(a) PROVE TypeOK'
  BY <1>0, <1>4 DEF TypeOK, HearMatch, serverVars, Entry, GlobalRoom
<1>5. ASSUME NEW u \in User, TakeUpMatch(u) PROVE TypeOK'
  BY <1>0, <1>5 DEF TypeOK, TakeUpMatch, serverVars, Entry, GlobalRoom
<1>6. ASSUME NEW u \in User, EndGame(u) PROVE TypeOK'
  BY <1>0, <1>6 DEF TypeOK, EndGame, serverVars, Entry, GlobalRoom
<1>7. CASE ReceiveRequest
  BY <1>0, <1>7, HeadTailProperties DEF TypeOK, ReceiveRequest, clientVars, Entry, GlobalRoom
<1>8. CASE AppendEntry
  <2>1. handler \in [step : {"append", "list"}, request : Request] /\ handler.request \in Request
    <3>1. handler # Idle
      BY <1>0, <1>8 DEF AppendEntry, Idle, TypeOK
    <3> QED
      BY <1>0, <3>1, InHand
  <2>2. /\ entered' \in Seq(Request) /\ Len(entered') = Len(entered) + 1
        /\ Entry' = 1 .. Len(entered) + 1
    BY <1>8, <2>1, Queue, AppendProperties, LenProperties DEF AppendEntry, Entry
  <2>3. Entry \subseteq Entry' /\ Len(entered) + 1 \in Entry'
    BY <2>2, Queue
  <2>4. localQueue \in Seq(Entry')
    BY <2>3, Queue, SeqMonotonic
  <2>5. /\ localQueue' \in Seq(Entry') /\ Len(localQueue') = Len(localQueue) + 1
    BY <1>8, <2>3, <2>4, AppendProperties DEF AppendEntry
  <2>6. due' \in 0 .. Len(localQueue')
    BY <1>0, <1>8, <2>5, Queue DEF AppendEntry, TypeOK
  <2>7. handler' \in [step : {"append", "list"}, request : Request]
    BY <1>8, <2>1 DEF AppendEntry
  <2>8. handedOver' \subseteq Entry' /\ dropped' \subseteq Entry' /\ rooms' \subseteq SUBSET Entry'
    BY <1>0, <1>8, <2>3 DEF AppendEntry, TypeOK
  <2> QED
    BY <1>0, <1>8, <2>2, <2>5, <2>6, <2>7, <2>8 DEF TypeOK, AppendEntry, clientVars, GlobalRoom
<1>9. CASE ListLocalQueue
  <2>1. handler.request \in Request
    BY <1>0, <1>9, InHand DEF ListLocalQueue, Idle
  <2>2. UNCHANGED <<Entry, GlobalRoom>>
    BY <1>9 DEF ListLocalQueue, Entry, GlobalRoom
  <2> QED
    BY <1>0, <1>9, <2>1, <2>2 DEF TypeOK, ListLocalQueue, clientVars
<1>10. CASE StartSweep
  BY <1>0, <1>10, Queue DEF TypeOK, StartSweep, MayBeDue, clientVars, Entry, GlobalRoom
<1>11. ASSUME NEW taken \in BOOLEAN, SendToGlobalQueue(taken) PROVE TypeOK'
  <2>1. localQueue \in Seq(Entry) /\ localQueue # <<>>
    BY <1>0, <1>11, Queue DEF TypeOK, SendToGlobalQueue
  <2>2. Head(localQueue) \in Entry /\ Entry' = Entry
    BY <1>11, <2>1, HeadTailProperties DEF SendToGlobalQueue, Entry
  <2>3. handedOver' \subseteq Entry /\ dropped' \subseteq Entry /\ handedOver \subseteq handedOver'
    BY <1>0, <1>11, <2>2 DEF TypeOK, SendToGlobalQueue
  <2>4. GlobalRoom \subseteq GlobalRoom'
    BY <2>3 DEF GlobalRoom
  <2>5. /\ announced' \subseteq [to : User, room : rooms' \union GlobalRoom']
        /\ heard' \in [User -> rooms' \union GlobalRoom' \union {{}}]
    BY <1>0, <1>11, <2>4 DEF TypeOK, SendToGlobalQueue, clientVars
  <2> QED
    BY <1>0, <1>11, <2>2, <2>3, <2>5 DEF TypeOK, SendToGlobalQueue, clientVars
<1>16. CASE RemoveHead
  <2>1. /\ Len(localQueue') = Len(localQueue) - 1 /\ localQueue' \in Seq(Entry)
        /\ due' \in 0 .. Len(localQueue')
    <3>1. due > 0 /\ due' = due - 1 /\ due \in 0 .. Len(localQueue)
      BY <1>0, <1>16 DEF RemoveHead, IInv, DueInSweep, TypeOK
    <3>2. Len(localQueue) > 0 /\ localQueue # <<>>
      BY <3>1, Queue
    <3>3. Len(localQueue') = Len(localQueue) - 1 /\ localQueue' \in Seq(Entry)
      BY <1>16, <3>2, Queue, HeadTailProperties DEF RemoveHead
    <3> QED
      BY <3>1, <3>3, Queue
  <2>2. Entry' = Entry
    BY <1>16 DEF RemoveHead, Entry
  <2> QED
    BY <1>0, <1>16, <2>1, <2>2 DEF TypeOK, RemoveHead, clientVars, GlobalRoom
<1>12. CASE EndSweep
  BY <1>0, <1>12 DEF TypeOK, EndSweep, clientVars, Entry, GlobalRoom
<1>13. CASE MatchLocalQueue
  <2>1. Entry' = Entry /\ localQueue' \in Seq(Entry)
    BY <1>13, WhoStays DEF MatchLocalQueue, Entry
  <2>2. due' \in 0 .. Len(localQueue')
    BY <1>13, WhoStays, Queue DEF MatchLocalQueue, IInv, DueInSweep
  <2>3. \A room \in NewRooms : room \subseteq Entry
    BY WhoLeaves DEF NewRooms
  <2>4. announced' \subseteq [to : User, room : rooms' \union GlobalRoom']
    <3>1. ASSUME NEW room \in NewRooms, NEW e \in room
          PROVE  [to |-> entered[e].user, room |-> room] \in [to : User, room : rooms']
      BY <1>13, <2>3, <3>1, ElementOfSeq, Queue, RequestParts DEF MatchLocalQueue
    <3>2. announced \subseteq [to : User, room : rooms' \union GlobalRoom']
      BY <1>0, <1>13 DEF TypeOK, MatchLocalQueue, GlobalRoom
    <3> QED
      BY <1>13, <3>1, <3>2 DEF MatchLocalQueue
  <2> QED
    BY <1>0, <1>13, <2>1, <2>2, <2>3, <2>4 DEF TypeOK, MatchLocalQueue, clientVars, GlobalRoom
<1>14. ASSUME NEW e \in handedOver, GlobalMatch(e) PROVE TypeOK'
  <2>1. entered[e].user \in User /\ {e} \in GlobalRoom
    <3>1. entered[e] \in Request
      BY <1>0, ElementOfSeq, Queue DEF TypeOK
    <3> QED
      BY <3>1, RequestParts DEF GlobalRoom
  <2>2. UNCHANGED <<Entry, GlobalRoom>>
    BY <1>14 DEF GlobalMatch, serverVars, Entry, GlobalRoom
  <2> QED
    <3>1. announced' \subseteq [to : User, room : rooms' \union GlobalRoom']
      <4>1. [to |-> entered[e].user, room |-> {e}] \in [to : User, room : rooms \union GlobalRoom]
        BY <2>1
      <4>2. announced' = announced \union {[to |-> entered[e].user, room |-> {e}]}
        BY <1>14 DEF GlobalMatch
      <4>3. UNCHANGED rooms
        BY <1>14 DEF GlobalMatch, serverVars
      <4> QED
        BY <1>0, <2>2, <4>1, <4>2, <4>3 DEF TypeOK
    <3> QED
      BY <1>0, <1>14, <2>2, <3>1 DEF TypeOK, GlobalMatch, serverVars, clientVars
<1>15. CASE UNCHANGED vars
  BY <1>0, <1>15 DEF TypeOK, vars, serverVars, clientVars, Entry, GlobalRoom
<1> QED
  BY <1>1, <1>2, <1>3, <1>4, <1>5, <1>6, <1>7, <1>8, <1>9, <1>10, <1>11, <1>12, <1>13,
     <1>14, <1>15, <1>16 DEF Next, HandlerStep, MonitorStep, ClientStep, Send

(* SendToGlobalQueue takes the first entry, whose number is the next one.  *)
LEMMA SendTakesNext ==
  ASSUME IInv, NEW taken \in BOOLEAN, SendToGlobalQueue(taken)
  PROVE  /\ Head(localQueue) = Gone + 1 /\ Gone + 1 <= Len(entered)
         /\ Sent' = Sent \union {Gone + 1}
         /\ UNCHANGED <<entered, localQueue, rooms, Gone>>
         /\ SentUpTo = Gone /\ SentUpTo' = Gone + 1
<1>1. Len(localQueue) > 0 /\ localQueue # <<>>
  BY Queue DEF IInv, TypeOK, SendToGlobalQueue
<1>2. Head(localQueue) = Gone + 1 /\ Gone + 1 <= Len(entered)
  BY <1>1, Queue, HeadTailProperties
<1>3. Sent' = Sent \union {Head(localQueue)}
  BY DEF SendToGlobalQueue, Sent
<1>4. UNCHANGED <<entered, localQueue, rooms, Gone>>
  BY DEF SendToGlobalQueue, Gone
<1> QED
  BY <1>2, <1>3, <1>4 DEF SendToGlobalQueue, SentUpTo

(* RemoveHead drops it from the queue.                                     *)
LEMMA RemoveHeadGone ==
  ASSUME IInv, RemoveHead
  PROVE  /\ Len(localQueue') = Len(localQueue) - 1
         /\ \A i \in 1 .. Len(localQueue') : localQueue'[i] = localQueue[i + 1]
         /\ Gone + 1 <= Len(entered) /\ Gone' = Gone + 1
         /\ UNCHANGED <<entered, Sent, rooms, SentUpTo>>
<1>1. Len(localQueue) > 0 /\ localQueue # <<>>
  BY Queue DEF IInv, TypeOK, RemoveHead, DueInSweep
<1>2. /\ Len(localQueue') = Len(localQueue) - 1
      /\ \A i \in 1 .. Len(localQueue') : localQueue'[i] = localQueue[i + 1]
  BY <1>1, Queue, HeadTailProperties DEF RemoveHead
<1>3. UNCHANGED <<entered, Sent, rooms>>
  BY DEF RemoveHead, Sent
<1>4. Gone' = Len(entered) - (Len(localQueue) - 1)
  BY <1>2, <1>3 DEF Gone
<1>5. Gone = Len(entered) - Len(localQueue)
  BY DEF Gone
<1>6. Gone' = Gone + 1 /\ Gone + 1 <= Len(entered)
  BY <1>1, <1>4, <1>5, Queue
<1> QED
  BY <1>2, <1>3, <1>6 DEF RemoveHead, SentUpTo

(* Only AppendEntry, RemoveHead and MatchLocalQueue change the queue, at   *)
(* its ends; each changes what has left accordingly.                       *)
LEMMA QueueNext ==
  IInv /\ [Next]_vars => QueueIsSuffix' /\ LeftIsGone' /\ DueInSweep'
<1> SUFFICES ASSUME IInv, [Next]_vars PROVE QueueIsSuffix' /\ LeftIsGone' /\ DueInSweep'
  OBVIOUS
<1>0. QueueIsSuffix /\ LeftIsGone /\ DueInSweep /\ due \in Nat
  BY Queue DEF IInv, TypeOK
<1>1. CASE UNCHANGED <<entered, localQueue, handedOver, dropped, rooms, due, monitor>>
  BY <1>0, <1>1 DEF QueueIsSuffix, LeftIsGone, DueInSweep, Gone, Sent, SentUpTo
<1>2. ASSUME NEW u \in User, ClientStep(u) PROVE UNCHANGED serverVars
  BY <1>2 DEF ClientStep, AskToJoin, GiveUpAsking, TakeUpMatch, EndGame
<1>3. ASSUME \/ \E r \in replies : ReceiveReply(r)
             \/ \E a \in announced : HearMatch(a)
             \/ \E e \in handedOver : GlobalMatch(e)
             \/ UNCHANGED vars
      PROVE  UNCHANGED serverVars
  BY <1>3 DEF ReceiveReply, HearMatch, GlobalMatch, vars
<1>4. ASSUME UNCHANGED serverVars
      PROVE  UNCHANGED <<entered, localQueue, handedOver, dropped, rooms, due, monitor>>
  BY <1>4 DEF serverVars
<1>5. CASE ReceiveRequest
  BY <1>1, <1>5 DEF ReceiveRequest
<1>6. CASE ListLocalQueue
  BY <1>1, <1>6 DEF ListLocalQueue
<1>7. CASE AppendEntry
  <2>1. handler.request \in Request
    BY <1>7, InHand DEF IInv, AppendEntry, Idle
  <2>2. Len(entered') = Len(entered) + 1
    BY <1>7, <2>1, Queue, AppendProperties DEF AppendEntry
  <2>3. localQueue \in Seq(Nat)
    BY Queue, SeqMonotonic
  <2>4. /\ Len(localQueue') = Len(localQueue) + 1
        /\ \A i \in 1 .. Len(localQueue) : localQueue'[i] = localQueue[i]
        /\ localQueue'[Len(localQueue) + 1] = Len(entered) + 1
    BY <1>7, <2>3, Queue, AppendProperties DEF AppendEntry
  <2>5. Gone' = Gone
    BY <2>2, <2>4, Queue DEF Gone
  <2>6. QueueIsSuffix'
    <3>1. Len(localQueue') <= Len(entered')
      BY <2>2, <2>4, Queue
    <3>2. ASSUME NEW i \in 1 .. Len(localQueue') PROVE localQueue'[i] = Gone + i
      <4>1. CASE i = Len(localQueue) + 1
        BY <4>1, <2>4, Queue
      <4>2. CASE i \in 1 .. Len(localQueue)
        BY <4>2, <2>4, Queue
      <4> QED
        BY <3>2, <4>1, <4>2, <2>4, Queue
    <3> QED
      BY <3>1, <3>2, <2>5 DEF QueueIsSuffix
  <2> QED
    BY <1>0, <1>7, <2>5, <2>6 DEF AppendEntry, LeftIsGone, DueInSweep, Sent, SentUpTo
<1>8. CASE StartSweep
  BY <1>0, <1>8 DEF StartSweep, QueueIsSuffix, LeftIsGone, DueInSweep, Gone, Sent, SentUpTo
<1>9. CASE EndSweep
  BY <1>0, <1>9 DEF EndSweep, QueueIsSuffix, LeftIsGone, DueInSweep, Gone, Sent, SentUpTo
<1>10. ASSUME NEW taken \in BOOLEAN, SendToGlobalQueue(taken)
       PROVE  QueueIsSuffix' /\ LeftIsGone' /\ DueInSweep'
  <2>1. /\ Sent' = Sent \union {Gone + 1} /\ UNCHANGED <<entered, localQueue, rooms, Gone>>
        /\ SentUpTo = Gone /\ SentUpTo' = Gone + 1
    BY <1>10, SendTakesNext
  <2>2. QueueIsSuffix'
    BY <1>0, <2>1 DEF QueueIsSuffix
  <2>3. LeftIsGone'
    <3>1. Gone + 1 \in 1 .. Gone + 1 /\ \A e \in 1 .. Gone : e \in 1 .. Gone + 1 /\ e # Gone + 1
      BY Queue
    <3> QED
      BY <1>0, <2>1, <3>1 DEF LeftIsGone
  <2>4. DueInSweep'
    BY <1>10 DEF SendToGlobalQueue, DueInSweep
  <2> QED
    BY <2>2, <2>3, <2>4
<1>12. CASE RemoveHead
  <2>1. /\ Len(localQueue') = Len(localQueue) - 1 /\ Gone' = Gone + 1
        /\ \A i \in 1 .. Len(localQueue') : localQueue'[i] = localQueue[i + 1]
        /\ UNCHANGED <<entered, Sent, rooms, SentUpTo>>
    BY <1>12, RemoveHeadGone
  <2>2. QueueIsSuffix'
    <3>1. ASSUME NEW i \in 1 .. Len(localQueue') PROVE localQueue'[i] = Gone + 1 + i
      <4>1. i + 1 \in 1 .. Len(localQueue)
        BY <3>1, <2>1, Queue
      <4> QED
        BY <3>1, <4>1, <2>1, Queue
    <3> QED
      BY <3>1, <2>1, Queue DEF QueueIsSuffix
  <2>3. LeftIsGone'
    <3>1. \A e \in 1 .. Gone : e \in 1 .. Gone + 1
      BY Queue
    <3> QED
      BY <1>0, <1>12, <2>1, <3>1 DEF LeftIsGone, RemoveHead
  <2> QED
    BY <1>12, <2>2, <2>3 DEF RemoveHead, DueInSweep
<1>11. CASE MatchLocalQueue
  <2>1. Gone' = Gone + 2 * PairCount /\ Len(entered') = Len(entered)
    BY <1>11, WhoIsGone
  <2>2. QueueIsSuffix'
    <3>1. ASSUME NEW i \in 1 .. Len(localQueue') PROVE localQueue'[i] = Gone' + i
      <4>1. localQueue'[i] = localQueue[2 * PairCount + i]
        BY <1>11, <3>1, WhoStays DEF MatchLocalQueue
      <4>2. 2 * PairCount + i \in 1 .. Len(localQueue)
        <5>1. i \in 1 .. Len(localQueue) - 2 * PairCount
          BY <1>11, <3>1, WhoStays DEF MatchLocalQueue
        <5> QED
          BY <5>1, WhoStays, Queue, Interval
      <4> QED
        BY <4>1, <4>2, <2>1, Queue, WhoStays
    <3>2. Len(localQueue') <= Len(entered')
      BY <1>11, <2>1, WhoStays, Queue DEF MatchLocalQueue
    <3> QED
      BY <3>1, <3>2 DEF QueueIsSuffix
  <2>4. SentUpTo = Gone /\ SentUpTo' = Gone' /\ Sent' = Sent /\ monitor' # "posting"
    BY <1>11 DEF MatchLocalQueue, SentUpTo, Sent
  <2>3. LeftIsGone'
    <3>1. \A e \in 1 .. Gone : e \in 1 .. Gone'
      BY <2>1, Queue, WhoStays
    <3>2. ASSUME NEW room \in NewRooms
          PROVE  room # {} /\ \A e \in room : e \in 1 .. Gone' /\ e \notin Sent
      <4>1. PICK i \in 1 .. PairCount : room = {Gone + 2 * i - 1, Gone + 2 * i}
        BY NewRoomsOf
      <4>2. /\ Gone + 2 * i - 1 \in 1 .. Gone' /\ Gone + 2 * i - 1 \notin 1 .. Gone
            /\ Gone + 2 * i \in 1 .. Gone' /\ Gone + 2 * i \notin 1 .. Gone
        BY <2>1, Queue, WhoStays, PairInterval
      <4> QED
        BY <1>0, <2>4, <4>1, <4>2 DEF LeftIsGone
    <3> QED
      BY <1>0, <1>11, <2>4, <3>1, <3>2 DEF LeftIsGone, MatchLocalQueue
  <2> QED
    BY <1>11, <2>2, <2>3, <1>0 DEF MatchLocalQueue, DueInSweep
<1> QED
  BY <1>1, <1>2, <1>3, <1>4, <1>5, <1>6, <1>7, <1>8, <1>9, <1>10, <1>11, <1>12
     DEF Next, HandlerStep, MonitorStep, Send

LEMMA AskingNext == IInv /\ [Next]_vars => AskingIsOpen'
<1> SUFFICES ASSUME IInv, [Next]_vars PROVE AskingIsOpen'
  OBVIOUS
<1>0. TypeOK /\ AskingIsOpen
  BY DEF IInv
<1>1. ASSUME NEW u \in User, ClientStep(u) PROVE AskingIsOpen'
  <2> USE <1>0 DEF TypeOK, AskingIsOpen
  <2>1. CASE AskToJoin(u)
    BY <2>1 DEF AskToJoin
  <2>2. CASE GiveUpAsking(u)
    BY <2>2 DEF GiveUpAsking
  <2>3. CASE TakeUpMatch(u)
    BY <2>3 DEF TakeUpMatch
  <2>4. CASE EndGame(u)
    BY <2>4 DEF EndGame
  <2> QED
    BY <1>1, <2>1, <2>2, <2>3, <2>4 DEF ClientStep
<1>2. ASSUME NEW r \in replies, ReceiveReply(r) PROVE AskingIsOpen'
  BY <1>0, <1>2 DEF ReceiveReply, TypeOK, AskingIsOpen
<1>3. ASSUME UNCHANGED <<client, asked, timeouts>> PROVE AskingIsOpen'
  BY <1>0, <1>3 DEF AskingIsOpen
<1>4. ASSUME \/ HandlerStep \/ MonitorStep \/ UNCHANGED vars
             \/ \E a \in announced : HearMatch(a)
             \/ \E e \in handedOver : GlobalMatch(e)
      PROVE  UNCHANGED <<client, asked, timeouts>>
  BY <1>4 DEF HandlerStep, ReceiveRequest, AppendEntry, ListLocalQueue, MonitorStep, StartSweep,
     Send, SendToGlobalQueue, RemoveHead, EndSweep, MatchLocalQueue, HearMatch, GlobalMatch, vars, clientVars
<1> QED
  BY <1>1, <1>2, <1>3, <1>4 DEF Next

(* The invariant holds in every state.                                     *)
THEOREM Invariance == Spec => []IInv
<1>1. IInv /\ [Next]_vars => IInv'
  BY TypeNext, QueueNext, AskingNext DEF IInv
<1> QED
  BY InitIInv, <1>1, PTL DEF Spec

(* Every variable keeps its type; nobody gives up more requests than it    *)
(* made (client/game/queue.go), and a sweep never counts past the end of   *)
(* LocalQueue (MonitorLocalQueue).                                         *)
THEOREM TypeCorrect == Spec => []TypeOK
BY Invariance, PTL DEF IInv

(* The queue is in order of arrival, and all that left came before all     *)
(* that are still there (HandleJoinQueue, MonitorLocalQueue,               *)
(* MatchLocalQueue).                                                       *)
THEOREM ServedInOrder == Spec => []FirstComeFirstServed
<1>1. ASSUME IInv PROVE FirstComeFirstServed
  <2>1. \A i, j \in DOMAIN localQueue : i < j => localQueue[i] < localQueue[j]
    BY <1>1, Queue
  <2>2. ASSUME NEW i \in DOMAIN localQueue, NEW e \in 1 .. localQueue[i], ~ InQueue(e)
        PROVE  e < localQueue[1]
    <3>1. e > Gone => e - Gone \in DOMAIN localQueue /\ localQueue[e - Gone] = e
      BY <1>1, <2>2, Queue
    <3> QED
      BY <1>1, <2>2, <3>1, Queue DEF InQueue
  <2> QED
    BY <2>1, <2>2 DEF FirstComeFirstServed
<1> QED
  BY Invariance, <1>1, PTL

(***************************************************************************)
(* The local queue pairs as Pairing says.                                  *)
(***************************************************************************)
LEMMA WhoWaits ==
  ASSUME IInv
  PROVE  /\ Waiting = SentUpTo + 1 .. Len(entered)
         /\ SentUpTo \in Nat /\ Gone <= SentUpTo
         /\ \A e \in Waiting : e \in Entry /\ e \notin Sent /\ e \notin 1 .. Gone
<1>0. /\ LeftIsGone /\ SentUpTo \in Nat /\ Gone <= SentUpTo
      /\ SentUpTo = Gone \/ (SentUpTo = Gone + 1 /\ Gone + 1 \in Sent)
  BY Queue DEF SentUpTo, IInv, LeftIsGone
<1>1. ASSUME NEW e \in SentUpTo + 1 .. Len(entered) PROVE e \in Waiting
  <2>1. e - Gone \in 1 .. Len(localQueue) /\ Gone + (e - Gone) = e
    BY <1>0, <1>1, Queue
  <2>2. e - Gone \in DOMAIN localQueue /\ localQueue[e - Gone] = e /\ e \in Entry
    BY <2>1, Queue
  <2>3. e \notin Sent
    <3>1. e \notin 1 .. SentUpTo
      BY <1>0, <1>1, Queue
    <3> QED
      BY <1>0, <3>1 DEF LeftIsGone
  <2> QED
    BY <2>2, <2>3 DEF InQueue, Waiting
<1>2. ASSUME NEW e \in Waiting PROVE e \in SentUpTo + 1 .. Len(entered)
  <2>1. PICK i \in DOMAIN localQueue : localQueue[i] = e
    BY <1>2 DEF InQueue, Waiting
  <2>2. e \in Gone + 1 .. Len(entered) /\ e \notin Sent
    BY <1>2, <2>1, Queue DEF Waiting
  <2> QED
    BY <1>0, <2>2, Queue
<1>3. \A e \in Waiting : e \in Entry /\ e \notin Sent /\ e \notin 1 .. Gone
  <2>1. \A e \in SentUpTo + 1 .. Len(entered) : e \notin 1 .. Gone
    BY <1>0, Queue
  <2> QED
    BY <2>1, <1>2 DEF Waiting
<1> QED
  BY <1>0, <1>1, <1>2, <1>3

LEMMA WhoWaitsNext ==
  IInv' => Waiting' = SentUpTo' + 1 .. Len(entered')
<1>1. IInv => Waiting = SentUpTo + 1 .. Len(entered)
  BY WhoWaits
<1>2. IInv' => (Waiting = SentUpTo + 1 .. Len(entered))'
  BY <1>1, PTL
<1> QED
  BY <1>2

(* Rooms that are made of those that wait are new ones.                    *)
LEMMA RoomsAreNew ==
  ASSUME IInv, NEW room, room \subseteq Waiting, room # {}
  PROVE  room \notin rooms
BY WhoWaits DEF IInv, LeftIsGone

(* The pairs that MatchLocalQueue makes are disjoint, two of those that    *)
(* wait, and all that leave.                                               *)
LEMMA PairsAreRooms ==
  ASSUME IInv, monitor = "match"
  PROVE  /\ \A room \in NewRooms :
              room \subseteq Waiting /\ \E e, f \in Waiting : room = {e, f}
         /\ \A r1, r2 \in NewRooms : r1 # r2 => r1 \intersect r2 = {}
         /\ UNION NewRooms = Gone + 1 .. Gone + 2 * PairCount
<1>1. /\ Gone \in Nat /\ PairCount \in Nat /\ Len(entered) \in Nat
      /\ Gone + 2 * PairCount <= Len(entered) /\ SentUpTo = Gone
  BY Queue, WhoStays DEF SentUpTo
<1>2. ASSUME NEW room \in NewRooms
      PROVE  room \subseteq Waiting /\ \E e, f \in Waiting : room = {e, f}
  <2>1. PICK i \in 1 .. PairCount : room = {Gone + 2 * i - 1, Gone + 2 * i}
    BY NewRoomsOf
  <2>2. /\ Gone + 2 * i - 1 \in Gone + 1 .. Len(entered)
        /\ Gone + 2 * i \in Gone + 1 .. Len(entered)
    BY <1>1
  <2> QED
    BY <1>1, <2>1, <2>2, WhoWaits
<1>3. ASSUME NEW r1 \in NewRooms, NEW r2 \in NewRooms, r1 # r2 PROVE r1 \intersect r2 = {}
  <2>1. PICK i \in 1 .. PairCount : r1 = {Gone + 2 * i - 1, Gone + 2 * i}
    BY NewRoomsOf
  <2>2. PICK j \in 1 .. PairCount : r2 = {Gone + 2 * j - 1, Gone + 2 * j}
    BY NewRoomsOf
  <2>3. i # j
    BY <1>3, <2>1, <2>2
  <2>4. /\ Gone + 2 * i - 1 # Gone + 2 * j - 1 /\ Gone + 2 * i # Gone + 2 * j
        /\ Gone + 2 * i - 1 # Gone + 2 * j /\ Gone + 2 * i # Gone + 2 * j - 1
    BY <1>1, <2>3
  <2> QED
    BY <2>1, <2>2, <2>4
<1>4. ASSUME NEW e \in UNION NewRooms PROVE e \in Gone + 1 .. Gone + 2 * PairCount
  <2>1. PICK i \in 1 .. PairCount : e \in {Gone + 2 * i - 1, Gone + 2 * i}
    BY <1>4, NewRoomsOf
  <2> QED
    BY <1>1, <2>1
<1>5. ASSUME NEW e \in Gone + 1 .. Gone + 2 * PairCount PROVE e \in UNION NewRooms
  <2>1. PICK i \in 1 .. PairCount : e = Gone + 2 * i - 1 \/ e = Gone + 2 * i
    <3>1. CASE \E k \in Nat : e - Gone = 2 * k
      BY <1>1, <3>1
    <3>2. CASE \E k \in Nat : e - Gone = 2 * k + 1
      <4>1. PICK k \in Nat : e - Gone = 2 * k + 1
        BY <3>2
      <4>2. k + 1 \in 1 .. PairCount /\ e = Gone + 2 * (k + 1) - 1
        BY <1>1, <4>1
      <4> QED
        BY <4>2
    <3>3. e - Gone \in Nat
      BY <1>1
    <3> QED
      BY <3>1, <3>2, <3>3, EvenOrOdd
  <2>2. {localQueue[2 * i - 1], localQueue[2 * i]} \in NewRooms
    BY DEF NewRooms
  <2> QED
    BY <2>1, <2>2, WhoLeaves
<1> QED
  BY <1>2, <1>3, <1>4, <1>5

(* Every step of the server is one of Pairing, or leaves the queue as it   *)
(* is.                                                                     *)
LEMMA StepPairs == IInv /\ IInv' /\ [Next]_vars => [P!Next]_(P!vars)
<1> SUFFICES ASSUME IInv, IInv', [Next]_vars PROVE P!Next \/ UNCHANGED P!vars
  OBVIOUS
<1>0. Waiting' = SentUpTo' + 1 .. Len(entered')
  BY WhoWaitsNext
<1>1. CASE UNCHANGED <<entered, localQueue, handedOver, dropped, rooms>>
  BY <1>1 DEF P!vars, Waiting, InQueue, Entry, Sent
<1>2. ASSUME \/ \E u \in User : ClientStep(u)
             \/ \E r \in replies : ReceiveReply(r)
             \/ \E a \in announced : HearMatch(a)
             \/ \E e \in handedOver : GlobalMatch(e)
             \/ ReceiveRequest \/ ListLocalQueue \/ StartSweep \/ EndSweep
             \/ UNCHANGED vars
      PROVE  UNCHANGED <<entered, localQueue, handedOver, dropped, rooms>>
  BY <1>2 DEF ClientStep, AskToJoin, GiveUpAsking, TakeUpMatch, EndGame, ReceiveReply,
     HearMatch, GlobalMatch, ReceiveRequest, ListLocalQueue, StartSweep, EndSweep, vars, serverVars
<1>3. CASE AppendEntry
  <2>1. handler.request \in Request
    BY <1>3, InHand DEF IInv, AppendEntry, Idle
  <2>2. SentUpTo' = SentUpTo /\ Len(entered') = Len(entered) + 1
    <3>1. Len(entered') = Len(entered) + 1
      BY <1>3, <2>1, Queue, AppendProperties DEF AppendEntry
    <3>2. localQueue \in Seq(Nat)
      BY Queue, SeqMonotonic
    <3>3. Len(localQueue') = Len(localQueue) + 1
      BY <1>3, <3>2, Queue, AppendProperties DEF AppendEntry
    <3>4. Gone' = Gone
      BY <3>1, <3>3, Queue DEF Gone
    <3> QED
      BY <1>3, <3>1, <3>4 DEF SentUpTo, AppendEntry
  <2>3. Waiting' = Waiting \union {Len(entered) + 1}
    <3>1. Waiting = SentUpTo + 1 .. Len(entered) /\ SentUpTo \in Nat /\ SentUpTo <= Len(entered)
      <4>1. SentUpTo <= Len(entered)
        BY Queue DEF SentUpTo, IInv, DueInSweep, TypeOK
      <4> QED
        BY <4>1, WhoWaits
    <3> QED
      BY <1>0, <2>2, <3>1, Queue
  <2>4. P!Enter(handler.request)
    BY <1>3, <2>3 DEF P!Enter, AppendEntry, Sent
  <2> QED
    BY <2>1, <2>4 DEF P!Next
<1>4. ASSUME NEW taken \in BOOLEAN, SendToGlobalQueue(taken) PROVE P!Next
  <2>1. /\ Gone + 1 <= Len(entered) /\ Sent' = Sent \union {Gone + 1}
        /\ UNCHANGED <<entered, rooms>> /\ SentUpTo = Gone /\ SentUpTo' = Gone + 1
    BY <1>4, SendTakesNext
  <2>2. Gone + 1 \in Waiting /\ Waiting' = Waiting \ {Gone + 1}
    BY <1>0, <2>1, WhoWaits, Queue
  <2>3. P!SendAway(Gone + 1)
    BY <2>1, <2>2 DEF P!SendAway
  <2> QED
    BY <2>2, <2>3 DEF P!Next
<1>5. CASE RemoveHead
  <2>1. UNCHANGED <<entered, Sent, rooms, SentUpTo>>
    BY <1>5, RemoveHeadGone
  <2> QED
    BY <1>0, <2>1, WhoWaits DEF P!vars
<1>6. CASE MatchLocalQueue
  <2>1. /\ Gone' = Gone + 2 * PairCount /\ UNCHANGED <<entered, Sent>>
        /\ rooms' = rooms \union NewRooms /\ monitor = "match"
        /\ SentUpTo = Gone /\ SentUpTo' = Gone'
    BY <1>6, WhoIsGone DEF MatchLocalQueue, Sent, SentUpTo
  <2>2. rooms' \ rooms = NewRooms
    <3>1. \A room \in NewRooms : room \notin rooms
      BY <2>1, PairsAreRooms, RoomsAreNew
    <3> QED
      BY <2>1, <3>1
  <2>3. Waiting' = Waiting \ UNION NewRooms
    <3>1. Waiting' = Gone + 2 * PairCount + 1 .. Len(entered)
      BY <1>0, <2>1
    <3>2. \A e : e \in Gone + 2 * PairCount + 1 .. Len(entered) <=>
             e \in Gone + 1 .. Len(entered) /\ e \notin Gone + 1 .. Gone + 2 * PairCount
      BY Queue, WhoStays
    <3>3. UNION NewRooms = Gone + 1 .. Gone + 2 * PairCount
      BY <2>1, PairsAreRooms
    <3> QED
      BY <2>1, <3>1, <3>2, <3>3, WhoWaits
  <2>4. CASE NewRooms = {}
    <3>1. Waiting' = Waiting /\ rooms' = rooms
      BY <2>1, <2>3, <2>4
    <3> QED
      BY <2>1, <3>1 DEF P!vars
  <2>5. CASE NewRooms # {}
    <3>1. P!Match
      BY <2>1, <2>2, <2>3, <2>5, PairsAreRooms DEF P!Match
    <3> QED
      BY <3>1 DEF P!Next
  <2> QED
    BY <2>4, <2>5
<1> QED
  BY <1>1, <1>2, <1>3, <1>4, <1>5, <1>6 DEF Next, HandlerStep, MonitorStep, Send

(* LocalQueue implements Pairing: for any number of players and requests   *)
(* an entry is in one room of two at most, or leaves the queue by          *)
(* SendToGlobalQueue, and never both (MonitorLocalQueue, MatchLocalQueue). *)
THEOREM QueuePairs == Spec => IsPairing
<1>1. Init => P!Init
  BY DEF Init, P!Init, Waiting, Entry, Sent
<1> QED
  BY <1>1, Invariance, StepPairs, PTL DEF Spec, IsPairing, P!Spec

(***************************************************************************)
(* Where the request of a player is, while it is undisturbed.              *)
(***************************************************************************)
Latest(u) == [user |-> u, n |-> asked[u]]

Asks(u) == \E i \in DOMAIN requests : requests[i].user = u
Handled(u) == handler # Idle /\ handler.request.user = u
Entered(u) == \E e \in Entry : entered[e] = Latest(u)
Queued(u) == \E e \in Waiting : entered[e].user = u
Answered(u) == \E r \in replies : r.user = u
LocalTo(u) == {m \in announced : m.to = u /\ m.room \in rooms}
Announced(u) == \E m \in LocalTo(u) : TRUE

(* There is one of each, and what is under way is the last request of u.   *)
OneOfEach(u) ==
  /\ \A i, j \in DOMAIN requests : requests[i].user = u /\ requests[j].user = u => i = j
  /\ \A i \in DOMAIN requests : requests[i].user = u => requests[i].n = asked[u]
  /\ Handled(u) => handler.request.n = asked[u]
  /\ \A r \in replies : r.user = u => r.n = asked[u]
  /\ \A e, f \in Waiting : entered[e].user = u /\ entered[f].user = u => e = f
  /\ \A m, o \in LocalTo(u) : m = o

(* The last request makes one entry, and that is the one which waits, or   *)
(* is in the room that u is told of or has heard of.                       *)
OfLastRequest(u) ==
  /\ \A e \in Entry : entered[e].user = u => entered[e].n <= asked[u]
  /\ \A e \in Waiting : entered[e].user = u => entered[e].n = asked[u]
  /\ \A e, f \in Entry : entered[e] = Latest(u) /\ entered[f] = Latest(u) => e = f
  /\ \A m \in LocalTo(u) : \E e \in m.room : entered[e] = Latest(u)
  /\ client[u] \in {"asking", "waiting"} /\ heard[u] # {} =>
       \E e \in heard[u] : entered[e] = Latest(u)

(* The request is in one place, and so is the entry it makes; the client   *)
(* still asks while the request is under way, and listens while the entry  *)
(* or its announcement is.                                                 *)
InOnePlace(u) ==
  /\ Asks(u) => ~ Handled(u) /\ ~ Answered(u) /\ ~ Entered(u) /\ heard[u] = {}
  /\ Handled(u) => ~ Answered(u)
  /\ Handled(u) /\ handler.step = "append" => ~ Entered(u) /\ heard[u] = {}
  /\ Queued(u) => ~ Announced(u)
  /\ Asks(u) \/ Handled(u) \/ Answered(u) => client[u] = "asking"
  /\ Queued(u) \/ Announced(u) => client[u] \in {"asking", "waiting"} /\ heard[u] = {}
  /\ client[u] = "menu" => heard[u] = {}

Tidy(u) == OneOfEach(u) /\ OfLastRequest(u) /\ InOnePlace(u)
TidyInv == \A u \in User : Undisturbed(u) => Tidy(u)

(* Rooms of the cluster hold nothing that waits here, or is in a room made *)
(* here.                                                                   *)
LEMMA GlobalApart ==
  ASSUME IInv, NEW e \in handedOver
  PROVE  e \in Entry /\ e \notin Waiting /\ {e} \notin rooms /\ \A room \in rooms : e \notin room
BY WhoWaits DEF IInv, TypeOK, LeftIsGone, Sent

LEMMA RoomsHold ==
  ASSUME IInv, NEW room \in rooms \union GlobalRoom \union {{}}
  PROVE  /\ room \subseteq Entry
         /\ room \in rooms \/ room = {} \/ \E x \in handedOver : room = {x}
<1>1. CASE room \in rooms
  BY <1>1 DEF IInv, TypeOK
<1>2. CASE room \in GlobalRoom
  <2>1. PICK x \in handedOver : room = {x}
    BY <1>2 DEF GlobalRoom
  <2> QED
    BY <2>1, GlobalApart
<1>3. CASE room = {}
  BY <1>3
<1> QED
  BY <1>1, <1>2, <1>3

LEMMA EntryIs ==
  ASSUME IInv, NEW u \in User, NEW e \in Entry
  PROVE  /\ entered[e] \in Request /\ entered[e].user \in User /\ entered[e].n \in Nat
         /\ entered[e] = Latest(u) <=> entered[e].user = u /\ entered[e].n = asked[u]
<1>1. entered[e] \in Request
  BY Queue, ElementOfSeq
<1> QED
  BY <1>1, RequestParts DEF Latest

(* What is queued or announced was entered, by the last request.           *)
LEMMA WhatIsEntered ==
  ASSUME IInv, NEW u \in User, Tidy(u)
  PROVE  /\ \A e \in Waiting : entered[e].user = u => entered[e] = Latest(u)
         /\ Queued(u) \/ Announced(u) => Entered(u)
         /\ \A e \in handedOver : entered[e] = Latest(u) => ~ Queued(u) /\ ~ Announced(u)
<1>1. \A e \in Waiting : e \in Entry
  BY WhoWaits
<1>2. \A m \in LocalTo(u) : m.room \in rooms /\ \A e \in m.room : e \in Entry
  BY DEF LocalTo, IInv, TypeOK
<1>3. ASSUME NEW e \in Waiting, entered[e].user = u PROVE entered[e] = Latest(u)
  BY <1>1, <1>3, EntryIs DEF Tidy, OfLastRequest
<1>4. Queued(u) => Entered(u)
  BY <1>1, <1>3 DEF Queued, Entered
<1>5. Announced(u) => Entered(u)
  BY <1>2 DEF Announced, Entered, Tidy, OfLastRequest
<1>6. ASSUME NEW e \in handedOver, entered[e] = Latest(u) PROVE ~ Queued(u) /\ ~ Announced(u)
  <2>1. ~ Queued(u)
    BY <1>1, <1>3, <1>6, GlobalApart DEF Queued, Tidy, OfLastRequest
  <2>2. ~ Announced(u)
    BY <1>2, <1>6, GlobalApart DEF Announced, Tidy, OfLastRequest
  <2> QED
    BY <2>1, <2>2
<1> QED
  BY <1>3, <1>4, <1>5, <1>6

(* Steps that do not touch the player, its request or its entries.         *)
LEMMA TidyFrame ==
  ASSUME NEW u \in User, Tidy(u),
         UNCHANGED <<requests, handler, entered, replies>>,
         client'[u] = client[u], asked'[u] = asked[u], heard'[u] = heard[u],
         Waiting' \subseteq Waiting, LocalTo(u)' \subseteq LocalTo(u)
  PROVE  Tidy(u)'
<1>1. UNCHANGED <<Asks(u), Handled(u), Answered(u), Entered(u), Latest(u), Entry>>
  BY DEF Asks, Handled, Answered, Entered, Latest, Entry
<1>2. (Queued(u)' => Queued(u)) /\ (Announced(u)' => Announced(u))
  BY DEF Queued, Announced
<1>3. OneOfEach(u)'
  BY <1>1 DEF Tidy, OneOfEach
<1>4. OfLastRequest(u)'
  BY <1>1 DEF Tidy, OfLastRequest
<1>5. InOnePlace(u)'
  BY <1>1, <1>2 DEF Tidy, InOnePlace
<1> QED
  BY <1>3, <1>4, <1>5 DEF Tidy

LEMMA WaitingFrame ==
  ASSUME UNCHANGED <<entered, localQueue, handedOver, dropped>>
  PROVE  UNCHANGED <<Waiting, Entry, GlobalRoom>>
BY DEF Waiting, Entry, InQueue, Sent, GlobalRoom

LEMMA TidyAsk ==
  ASSUME IInv, NEW u \in User, Tidy(u), NEW v \in User, AskToJoin(v)
  PROVE  Tidy(u)'
<1> DEFINE new == [user |-> v, n |-> asked[v] + 1]
<1>0. TypeOK /\ DOMAIN requests = 1 .. Len(requests) /\ Len(requests) \in Nat
  BY LenProperties DEF IInv, TypeOK
<1>1. /\ requests' = Append(requests, new) /\ new \in Request
      /\ UNCHANGED <<handler, entered, Entry, Waiting, replies, announced, rooms, heard>>
      /\ client' = [client EXCEPT ![v] = "asking"] /\ client[v] = "menu"
      /\ asked' = [asked EXCEPT ![v] = @ + 1]
  <2>1. asked[v] + 1 \in 1 .. MaxRequests[v]
    BY <1>0, MaxRequestsAssumption DEF AskToJoin, TypeOK
  <2>2. new \in Request
    BY <2>1, RequestParts
  <2> QED
    BY <2>2, WaitingFrame DEF AskToJoin, serverVars
<1>2. /\ DOMAIN requests' = 1 .. Len(requests) + 1
      /\ \A i \in 1 .. Len(requests) : requests'[i] = requests[i]
      /\ requests'[Len(requests) + 1] = new
  BY <1>0, <1>1, AppendProperties, LenProperties DEF TypeOK
<1>3. UNCHANGED <<Handled(u), Answered(u), Queued(u), LocalTo(u), Announced(u)>>
  BY <1>1 DEF Handled, Answered, Queued, LocalTo, Announced
<1>4. CASE v = u
  <2>1. /\ client[u] = "menu" /\ heard[u] = {} /\ heard'[u] = {} /\ client'[u] = "asking"
        /\ asked[u] \in Nat /\ asked'[u] = asked[u] + 1
    BY <1>0, <1>1, <1>4 DEF Tidy, InOnePlace, TypeOK
  <2>2. ~ Asks(u) /\ ~ Handled(u) /\ ~ Answered(u) /\ ~ Queued(u) /\ ~ Announced(u)
    BY <2>1 DEF Tidy, InOnePlace
  <2>3. \A i \in DOMAIN requests' : requests'[i].user = u => i = Len(requests) + 1
    BY <1>0, <1>2, <2>2 DEF Asks
  <2>4. \A e \in Entry : entered[e].user = u => entered[e].n <= asked[u] /\ entered[e].n \in Nat
    BY EntryIs DEF Tidy, OfLastRequest
  <2>5. \A e \in Entry : entered[e] # Latest(u)'
    <3>1. ASSUME NEW e \in Entry, entered[e] = Latest(u)' PROVE FALSE
      <4>1. entered[e].user = u /\ entered[e].n = asked[u] + 1
        BY <2>1, <3>1 DEF Latest
      <4> QED
        BY <2>1, <2>4, <4>1
    <3> QED
      BY <3>1
  <2>6. OneOfEach(u)'
    <3>1. \A i \in DOMAIN requests' : requests'[i].user = u => requests'[i].n = asked'[u]
      BY <1>2, <1>4, <2>1, <2>3
    <3>2. \A e, f \in Waiting' : entered'[e].user = u /\ entered'[f].user = u => e = f
      BY <1>1, <2>2 DEF Queued
    <3> QED
      BY <1>1, <1>3, <2>2, <2>3, <3>1, <3>2 DEF OneOfEach, Announced, Answered
  <2>7. OfLastRequest(u)'
    <3>1. \A e \in Entry : entered[e].user = u => entered[e].n <= asked'[u]
      BY <2>1, <2>4
    <3>2. \A e \in Waiting : entered[e].user # u
      BY <2>2 DEF Queued
    <3> QED
      BY <1>1, <1>3, <2>1, <2>2, <2>5, <3>1, <3>2 DEF OfLastRequest, Announced
  <2>8. InOnePlace(u)'
    BY <1>1, <1>3, <2>1, <2>2, <2>5 DEF InOnePlace, Entered
  <2> QED
    BY <2>6, <2>7, <2>8 DEF Tidy
<1>5. CASE v # u
  <2>1. client'[u] = client[u] /\ asked'[u] = asked[u]
    BY <1>0, <1>1, <1>5 DEF TypeOK
  <2>2. \A i \in DOMAIN requests' : requests'[i].user = u =>
          i \in DOMAIN requests /\ requests'[i] = requests[i]
    BY <1>0, <1>2, <1>5
  <2>3. (Asks(u)' => Asks(u)) /\ UNCHANGED <<Latest(u), Entered(u)>>
    BY <1>1, <2>1, <2>2 DEF Asks, Latest, Entered
  <2>4. OneOfEach(u)'
    BY <1>1, <1>3, <2>1, <2>2 DEF Tidy, OneOfEach
  <2>5. OfLastRequest(u)'
    BY <1>1, <1>3, <2>1, <2>3 DEF Tidy, OfLastRequest
  <2>6. InOnePlace(u)'
    BY <1>1, <1>3, <2>1, <2>3 DEF Tidy, InOnePlace
  <2> QED
    BY <2>4, <2>5, <2>6 DEF Tidy
<1> QED
  BY <1>4, <1>5

LEMMA TidyReply ==
  ASSUME IInv, NEW u \in User, Tidy(u), NEW r \in replies, ReceiveReply(r)
  PROVE  Tidy(u)'
<1>1. /\ UNCHANGED <<requests, handler, entered, Entry, Waiting, announced, rooms, heard, asked>>
      /\ replies' = replies \ {r} /\ TypeOK
  BY WaitingFrame DEF ReceiveReply, serverVars, IInv
<1>2. UNCHANGED <<Asks(u), Handled(u), Entered(u), Queued(u), LocalTo(u), Announced(u), Latest(u)>>
  BY <1>1 DEF Asks, Handled, Entered, Queued, LocalTo, Announced, Latest
<1>3. CASE r.user = u
  <2>1. Answered(u)
    BY <1>3 DEF Answered
  <2>2. client[u] = "asking" /\ r.n = asked[u] /\ ~ Asks(u) /\ ~ Handled(u)
    BY <1>3, <2>1 DEF Tidy, OneOfEach, InOnePlace
  <2>3. client'[u] = "waiting"
    BY <1>1, <1>3, <2>2 DEF ReceiveReply, TypeOK
  <2>4. ~ Answered(u)'
    <3>1. ASSUME NEW o \in replies, o.user = u PROVE o = r
      <4>1. o.n = r.n /\ o.user = r.user
        BY <1>3, <2>2, <3>1 DEF Tidy, OneOfEach
      <4>2. o \in Request /\ r \in Request
        BY <1>1, <3>1 DEF TypeOK
      <4> QED
        BY <4>1, <4>2, RequestParts
    <3> QED
      BY <1>1, <3>1 DEF Answered
  <2>5. OneOfEach(u)'
    BY <1>1, <1>2 DEF Tidy, OneOfEach
  <2>6. OfLastRequest(u)'
    BY <1>1, <1>2, <2>2 DEF Tidy, OfLastRequest
  <2>7. InOnePlace(u)'
    BY <1>1, <1>2, <2>2, <2>3, <2>4 DEF Tidy, InOnePlace
  <2> QED
    BY <2>5, <2>6, <2>7 DEF Tidy
<1>4. CASE r.user # u
  <2>1. client'[u] = client[u]
    BY <1>1, <1>4 DEF ReceiveReply, TypeOK
  <2>2. UNCHANGED Answered(u)
    BY <1>1, <1>4 DEF Answered
  <2>3. OneOfEach(u)'
    BY <1>1, <1>2 DEF Tidy, OneOfEach
  <2>4. OfLastRequest(u)'
    BY <1>1, <1>2, <2>1 DEF Tidy, OfLastRequest
  <2>5. InOnePlace(u)'
    BY <1>1, <1>2, <2>1, <2>2 DEF Tidy, InOnePlace
  <2> QED
    BY <2>3, <2>4, <2>5 DEF Tidy
<1> QED
  BY <1>3, <1>4

(* What an undisturbed player hears is of its last request.                *)
LEMMA TidyHear ==
  ASSUME IInv, NEW u \in User, Tidy(u), u \notin fooled', NEW a \in announced, HearMatch(a)
  PROVE  Tidy(u)'
<1>1. /\ UNCHANGED <<requests, handler, entered, Entry, Waiting, rooms, replies, client, asked>>
      /\ announced' = announced \ {a} /\ TypeOK
  BY WaitingFrame DEF HearMatch, serverVars, IInv
<1>2. LocalTo(u)' \subseteq LocalTo(u) \ {a}
  BY <1>1 DEF LocalTo
<1>3. CASE a.to # u \/ ~ Listening(u)
  <2>1. heard'[u] = heard[u]
    BY <1>1, <1>3 DEF HearMatch, TypeOK
  <2> QED
    BY <1>1, <1>2, <2>1, TidyFrame
<1>4. CASE a.to = u /\ Listening(u)
  <2>1. heard'[u] = a.room /\ OfLatest(a) /\ client[u] \in {"asking", "waiting"}
    BY <1>1, <1>4 DEF HearMatch, TypeOK, Listening
  <2>2. PICK e \in a.room : entered[e] = Latest(u)
    BY <1>4, <2>1 DEF OfLatest, Latest
  <2>3. e \in Entry /\ (a.room \in rooms \/ \E x \in handedOver : a.room = {x})
    <3>1. a.room \in rooms \union GlobalRoom /\ \A room \in rooms : room \subseteq Entry
      BY <1>1 DEF TypeOK
    <3>2. CASE a.room \in rooms
      BY <2>2, <3>1, <3>2
    <3>3. CASE a.room \in GlobalRoom
      BY <2>2, <3>3, GlobalApart DEF GlobalRoom
    <3> QED
      BY <3>1, <3>2, <3>3
  <2>4. Entered(u) /\ UNCHANGED <<Asks(u), Handled(u), Answered(u), Entered(u), Queued(u), Latest(u)>>
    BY <1>1, <2>2, <2>3 DEF Asks, Handled, Answered, Entered, Queued, Latest
  <2>5. ~ Queued(u) /\ ~ Announced(u)'
    <3>1. CASE a.room \in rooms
      <4>1. a \in LocalTo(u)
        BY <1>4, <3>1 DEF LocalTo
      <4>2. Announced(u) /\ \A m \in LocalTo(u) : m = a
        BY <4>1 DEF Announced, Tidy, OneOfEach
      <4> QED
        BY <1>2, <4>2 DEF Announced, Tidy, InOnePlace
    <3>2. CASE \E x \in handedOver : a.room = {x}
      <4>1. ~ Queued(u) /\ ~ Announced(u)
        BY <2>2, <3>2, WhatIsEntered
      <4> QED
        BY <1>2, <4>1 DEF Announced
    <3> QED
      BY <2>3, <3>1, <3>2
  <2>6. OneOfEach(u)'
    BY <1>1, <1>2, <2>4 DEF Tidy, OneOfEach
  <2>7. OfLastRequest(u)'
    BY <1>1, <1>2, <2>1, <2>2, <2>4 DEF Tidy, OfLastRequest
  <2>8. InOnePlace(u)'
    BY <1>1, <2>1, <2>4, <2>5 DEF Tidy, InOnePlace
  <2> QED
    BY <2>6, <2>7, <2>8 DEF Tidy
<1> QED
  BY <1>3, <1>4

LEMMA TidyPlay ==
  ASSUME IInv, NEW u \in User, Tidy(u), NEW v \in User, TakeUpMatch(v) \/ EndGame(v)
  PROVE  Tidy(u)'
<1>1. UNCHANGED <<requests, handler, entered, Entry, Waiting, rooms, replies, announced, asked>> /\ TypeOK
  BY WaitingFrame DEF TakeUpMatch, EndGame, serverVars, IInv
<1>2. UNCHANGED LocalTo(u)
  BY <1>1 DEF LocalTo
<1>3. CASE v = u
  <2>1. ~ Queued(u) /\ ~ Announced(u) /\ ~ Asks(u) /\ ~ Handled(u) /\ ~ Answered(u)
    BY <1>3 DEF Tidy, InOnePlace, TakeUpMatch, EndGame
  <2>2. UNCHANGED <<Asks(u), Handled(u), Answered(u), Entered(u), Queued(u), Announced(u), Latest(u)>>
    BY <1>1, <1>2 DEF Asks, Handled, Answered, Entered, Queued, Announced, Latest
  <2>3. client'[u] = "playing" \/ (client'[u] = "menu" /\ heard'[u] = {})
    BY <1>1, <1>3 DEF TakeUpMatch, EndGame, TypeOK
  <2>4. OneOfEach(u)'
    BY <1>1, <1>2, <2>2 DEF Tidy, OneOfEach
  <2>5. OfLastRequest(u)'
    BY <1>1, <1>2, <2>2, <2>3 DEF Tidy, OfLastRequest
  <2>6. InOnePlace(u)'
    BY <1>1, <2>1, <2>2, <2>3 DEF InOnePlace
  <2> QED
    BY <2>4, <2>5, <2>6 DEF Tidy
<1>4. CASE v # u
  <2>1. client'[u] = client[u] /\ heard'[u] = heard[u]
    BY <1>1, <1>4 DEF TakeUpMatch, EndGame, TypeOK
  <2> QED
    BY <1>1, <1>2, <2>1, TidyFrame
<1> QED
  BY <1>3, <1>4

LEMMA TidyReceive ==
  ASSUME IInv, NEW u \in User, Tidy(u), ReceiveRequest
  PROVE  Tidy(u)'
<1>1. /\ handler = Idle /\ requests # <<>>
      /\ handler' = [step |-> "append", request |-> Head(requests)] /\ handler' # Idle
      /\ requests' = Tail(requests)
      /\ UNCHANGED <<entered, Entry, Waiting, rooms, replies, announced, client, asked, heard>>
  BY WaitingFrame DEF ReceiveRequest, clientVars, Idle
<1>2. /\ Head(requests) = requests[1] /\ 1 \in DOMAIN requests
      /\ DOMAIN requests' = 1 .. Len(requests) - 1
      /\ \A i \in DOMAIN requests' : requests'[i] = requests[i + 1] /\ i + 1 \in DOMAIN requests
  BY <1>1, HeadTailProperties, LenProperties, EmptySeq DEF TypeOK, IInv
<1>3. handler'.request = requests[1] /\ handler'.step = "append"
  BY <1>1, <1>2
<1>4. /\ Asks(u)' => Asks(u) /\ requests[1].user # u
      /\ \A i, j \in DOMAIN requests' : requests'[i].user = u /\ requests'[j].user = u => i = j
      /\ \A i \in DOMAIN requests' : requests'[i].user = u => requests'[i].n = asked[u]
  <2>1. Len(requests) \in Nat
    BY LenProperties DEF IInv, TypeOK
  <2>2. \A i \in DOMAIN requests' : i + 1 # 1 /\ i \in Int
    BY <1>2, <2>1
  <2>3. \A i, j \in DOMAIN requests' : i + 1 = j + 1 => i = j
    BY <2>2
  <2> QED
    BY <1>2, <2>2, <2>3 DEF Tidy, OneOfEach, Asks
<1>5. Handled(u)' <=> requests[1].user = u
  BY <1>1, <1>3 DEF Handled
<1>6. requests[1].user = u => Asks(u) /\ requests[1].n = asked[u]
  BY <1>2 DEF Asks, Tidy, OneOfEach
<1>7. UNCHANGED <<Answered(u), Entered(u), Queued(u), LocalTo(u), Announced(u), Latest(u)>>
  BY <1>1 DEF Answered, Entered, Queued, LocalTo, Announced, Latest
<1>8. OneOfEach(u)'
  BY <1>1, <1>3, <1>4, <1>5, <1>6, <1>7 DEF Tidy, OneOfEach
<1>9. OfLastRequest(u)'
  BY <1>1, <1>7 DEF Tidy, OfLastRequest
<1>10. InOnePlace(u)'
  BY <1>1, <1>3, <1>4, <1>5, <1>6, <1>7 DEF Tidy, InOnePlace
<1> QED
  BY <1>8, <1>9, <1>10 DEF Tidy

(* AppendEntry adds one entry, which waits.                                *)
LEMMA AppendWaits ==
  ASSUME IInv, IInv', AppendEntry
  PROVE  LET new == Len(entered) + 1 IN
         /\ handler.request \in Request /\ new \notin Entry
         /\ Entry' = Entry \union {new} /\ Waiting' = Waiting \union {new}
         /\ entered'[new] = handler.request
         /\ \A e \in Entry : entered'[e] = entered[e]
<1> DEFINE new == Len(entered) + 1
<1>1. handler.request \in Request
  BY InHand DEF IInv, AppendEntry, Idle
<1>2. /\ Len(entered') = new /\ entered'[new] = handler.request
      /\ \A e \in 1 .. Len(entered) : entered'[e] = entered[e]
      /\ Entry' = 1 .. new
  BY <1>1, Queue, AppendProperties, LenProperties DEF AppendEntry, Entry
<1>3. Entry = 1 .. Len(entered) /\ Len(entered) \in Nat
  BY Queue
<1>4. SentUpTo' = SentUpTo
  <2>1. localQueue \in Seq(Nat)
    BY Queue, SeqMonotonic
  <2>2. Len(localQueue') = Len(localQueue) + 1
    BY <2>1, Queue, AppendProperties DEF AppendEntry
  <2>3. Gone' = Gone
    BY <1>2, <2>2, Queue DEF Gone
  <2> QED
    BY <2>3 DEF SentUpTo, AppendEntry
<1>5. Waiting' = Waiting \union {new}
  <2>1. Waiting = SentUpTo + 1 .. Len(entered) /\ SentUpTo \in Nat /\ SentUpTo <= Len(entered)
    <3>1. SentUpTo <= Len(entered)
      BY Queue DEF SentUpTo, IInv, DueInSweep, TypeOK
    <3> QED
      BY <3>1, WhoWaits
  <2> QED
    BY <1>2, <1>3, <1>4, <2>1, WhoWaitsNext
<1> QED
  BY <1>1, <1>2, <1>3, <1>5

LEMMA TidyAppend ==
  ASSUME IInv, IInv', NEW u \in User, Tidy(u), AppendEntry
  PROVE  Tidy(u)'
<1> DEFINE new == Len(entered) + 1
<1>1. /\ handler.step = "append" /\ handler # Idle
      /\ handler'.step = "list" /\ handler' # Idle /\ handler'.request = handler.request
      /\ UNCHANGED <<requests, replies, rooms, announced, client, asked, heard>>
  <2>1. handler # Idle
    BY DEF AppendEntry, Idle
  <2>2. handler \in [step : {"append", "list"}, request : Request]
    BY <2>1, InHand DEF IInv
  <2> QED
    BY <2>1, <2>2 DEF AppendEntry, clientVars, Idle
<1>2. /\ handler.request \in Request /\ new \notin Entry
      /\ Entry' = Entry \union {new} /\ Waiting' = Waiting \union {new}
      /\ entered'[new] = handler.request
      /\ \A e \in Entry : entered'[e] = entered[e]
  BY AppendWaits
<1>3. \A e \in Waiting : e \in Entry
  BY WhoWaits
<1>4. /\ UNCHANGED <<Asks(u), Handled(u), Answered(u), LocalTo(u), Announced(u), Latest(u)>>
      /\ Handled(u) <=> handler.request.user = u
  BY <1>1 DEF Asks, Handled, Answered, LocalTo, Announced, Latest
<1>5. handler.request.user = u => handler.request = Latest(u) /\ handler.request.n = asked[u]
  BY <1>2, <1>4, RequestParts DEF Tidy, OneOfEach, Latest
<1>6. handler.request = Latest(u) => Handled(u)
  BY <1>4 DEF Latest
<1>7. Handled(u) => ~ Entered(u) /\ ~ Queued(u) /\ ~ Announced(u) /\ heard[u] = {} /\ client[u] = "asking"
  BY <1>1, WhatIsEntered DEF Tidy, InOnePlace
<1>8. /\ Entered(u)' <=> Entered(u) \/ Handled(u)
      /\ Queued(u)' <=> Queued(u) \/ Handled(u)
  BY <1>2, <1>3, <1>4, <1>5, <1>6 DEF Entered, Queued
<1>9. OneOfEach(u)'
  <2>1. ASSUME NEW e \in Waiting', NEW f \in Waiting', entered'[e].user = u, entered'[f].user = u
        PROVE  e = f
    <3>1. CASE Handled(u)
      BY <1>2, <1>3, <1>7, <2>1, <3>1 DEF Queued
    <3>2. CASE ~ Handled(u)
      BY <1>2, <1>3, <1>4, <2>1, <3>2 DEF Tidy, OneOfEach
    <3> QED
      BY <3>1, <3>2
  <2> QED
    BY <1>1, <1>4, <2>1 DEF Tidy, OneOfEach
<1>10. OfLastRequest(u)'
  <2>1. asked[u] \in Nat
    BY DEF IInv, TypeOK
  <2>2. \A e \in Entry' : entered'[e].user = u => entered'[e].n <= asked[u]
    BY <1>2, <1>5, <2>1 DEF Tidy, OfLastRequest
  <2>3. \A e \in Waiting' : entered'[e].user = u => entered'[e].n = asked[u]
    BY <1>2, <1>3, <1>5 DEF Tidy, OfLastRequest
  <2>4. \A e, f \in Entry' : entered'[e] = Latest(u) /\ entered'[f] = Latest(u) => e = f
    <3>1. CASE Handled(u)
      BY <1>2, <1>7, <3>1 DEF Entered
    <3>2. CASE ~ Handled(u)
      BY <1>2, <1>6, <3>2 DEF Tidy, OfLastRequest
    <3> QED
      BY <3>1, <3>2
  <2>5. \A m \in LocalTo(u) : \A e \in m.room : e \in Entry
    BY DEF LocalTo, IInv, TypeOK
  <2>6. \A e \in heard[u] : e \in Entry
    <3>1. heard[u] \in rooms \union GlobalRoom \union {{}}
      BY DEF IInv, TypeOK
    <3> QED
      BY <3>1, RoomsHold
  <2> QED
    BY <1>1, <1>2, <1>4, <2>2, <2>3, <2>4, <2>5, <2>6 DEF Tidy, OfLastRequest
<1>11. InOnePlace(u)'
  BY <1>1, <1>4, <1>7, <1>8 DEF Tidy, InOnePlace
<1> QED
  BY <1>9, <1>10, <1>11 DEF Tidy

LEMMA TidyList ==
  ASSUME IInv, NEW u \in User, Tidy(u), ListLocalQueue
  PROVE  Tidy(u)'
<1>1. /\ handler.step = "list" /\ handler # Idle /\ handler' = Idle
      /\ replies' = replies \union {handler.request}
      /\ UNCHANGED <<requests, entered, Entry, Waiting, rooms, announced, client, asked, heard>>
  BY WaitingFrame DEF ListLocalQueue, clientVars, Idle
<1>2. /\ UNCHANGED <<Asks(u), Entered(u), Queued(u), LocalTo(u), Announced(u), Latest(u)>>
      /\ ~ Handled(u)'
      /\ Answered(u)' <=> Answered(u) \/ Handled(u)
  BY <1>1 DEF Asks, Entered, Queued, LocalTo, Announced, Latest, Handled, Answered
<1>3. OneOfEach(u)'
  BY <1>1, <1>2 DEF Tidy, OneOfEach, Handled
<1>4. OfLastRequest(u)'
  BY <1>1, <1>2 DEF Tidy, OfLastRequest
<1>5. InOnePlace(u)'
  BY <1>1, <1>2 DEF Tidy, InOnePlace
<1> QED
  BY <1>3, <1>4, <1>5 DEF Tidy

(* The rooms that MatchLocalQueue makes are told to those that waited.     *)
LEMMA TidyMatch ==
  ASSUME IInv, IInv', NEW u \in User, Tidy(u), MatchLocalQueue
  PROVE  Tidy(u)'
<1> DEFINE left == UNION NewRooms
           new == {[to |-> u, room |-> room] : room \in {r \in NewRooms : \E e \in r : entered[e].user = u}}
<1>1. /\ UNCHANGED <<requests, handler, entered, replies, client, asked, heard, Entry, Sent>>
      /\ announced' = announced \union
           UNION {{[to |-> entered[e].user, room |-> room] : e \in room} : room \in NewRooms}
      /\ rooms' = rooms \union NewRooms /\ monitor = "match" /\ monitor' = "idle"
  BY DEF MatchLocalQueue, clientVars, Entry, Sent
<1>2. /\ \A room \in NewRooms : room \subseteq Waiting /\ room # {}
      /\ \A r1, r2 \in NewRooms : r1 # r2 => r1 \intersect r2 = {}
      /\ left = Gone + 1 .. Gone + 2 * PairCount
  <2>1. \A room \in NewRooms : room # {}
    BY NewRoomsOf
  <2> QED
    BY <1>1, <2>1, PairsAreRooms
<1>3. left \subseteq Waiting /\ Waiting' \subseteq Waiting \ left
  <2>1. SentUpTo = Gone /\ SentUpTo' = Gone' /\ Gone' = Gone + 2 * PairCount /\ Len(entered') = Len(entered)
    BY <1>1, WhoIsGone DEF SentUpTo
  <2>2. Waiting' = Gone' + 1 .. Len(entered)
    BY <2>1, WhoWaitsNext
  <2> QED
    BY <1>2, <2>1, <2>2, WhoWaits, WhoStays, Queue
<1>4. LocalTo(u)' = LocalTo(u) \union new
  <2>1. ASSUME NEW m \in announced PROVE m.room \in rooms' => m.room \in rooms
    <3>1. m.room \in rooms \union GlobalRoom
      BY DEF IInv, TypeOK
    <3>2. ASSUME NEW x \in handedOver, m.room = {x} PROVE m.room \notin NewRooms
      BY <1>2, <3>2, GlobalApart
    <3>3. m.room \in NewRooms => m.room # {}
      BY <1>2
    <3> QED
      BY <1>1, <3>1, <3>2, <3>3, RoomsHold
  <2>2. ASSUME NEW m \in LocalTo(u)' PROVE m \in LocalTo(u) \union new
    <3>1. CASE m \in announced
      BY <2>1, <2>2, <3>1 DEF LocalTo
    <3>2. CASE m \notin announced
      <4>1. m \in UNION {{[to |-> entered[e].user, room |-> room] : e \in room} : room \in NewRooms}
        BY <1>1, <2>2, <3>2 DEF LocalTo
      <4>2. PICK room \in NewRooms : \E e \in room : m = [to |-> entered[e].user, room |-> room]
        BY <4>1
      <4> QED
        BY <2>2, <4>2 DEF LocalTo
    <3> QED
      BY <3>1, <3>2
  <2>3. ASSUME NEW m \in new PROVE m \in LocalTo(u)'
    <3>1. PICK room \in NewRooms : m = [to |-> u, room |-> room] /\ \E e \in room : entered[e].user = u
      BY <2>3
    <3>2. m \in UNION {{[to |-> entered[e].user, room |-> r] : e \in r} : r \in NewRooms}
      BY <3>1
    <3> QED
      BY <1>1, <3>1, <3>2 DEF LocalTo
  <2>4. LocalTo(u) \subseteq LocalTo(u)'
    BY <1>1 DEF LocalTo
  <2> QED
    BY <2>2, <2>3, <2>4
<1>5. \A e \in left : entered[e].user = u => entered[e] = Latest(u) /\ Queued(u)
  BY <1>3, WhatIsEntered DEF Queued
<1>6. CASE new = {}
  <2>1. LocalTo(u)' \subseteq LocalTo(u) /\ Waiting' \subseteq Waiting
    BY <1>3, <1>4, <1>6
  <2> QED
    BY <1>1, <2>1, TidyFrame
<1>7. CASE new # {}
  <2>1. PICK room \in NewRooms : [to |-> u, room |-> room] \in new /\ \E e \in room : entered[e].user = u
    BY <1>7
  <2>2. PICK e \in room : entered[e].user = u
    BY <2>1
  <2>3. Queued(u) /\ ~ Announced(u) /\ Entered(u)
    BY <1>5, <2>1, <2>2, WhatIsEntered DEF Tidy, InOnePlace
  <2>4. \A f \in Waiting : entered[f].user = u => f = e
    BY <1>2, <2>1, <2>2 DEF Tidy, OneOfEach
  <2>5. new = {[to |-> u, room |-> room]}
    <3>1. ASSUME NEW r \in NewRooms, \E f \in r : entered[f].user = u PROVE r = room
      BY <1>2, <2>1, <2>2, <2>4, <3>1
    <3> QED
      BY <2>1, <3>1
  <2>6. LocalTo(u)' = {[to |-> u, room |-> room]} /\ ~ Queued(u)'
    <3>1. LocalTo(u) = {}
      BY <2>3 DEF Announced
    <3>2. ~ Queued(u)'
      BY <1>1, <1>3, <2>1, <2>2, <2>4 DEF Queued
    <3> QED
      BY <1>4, <2>5, <3>1, <3>2
  <2>7. UNCHANGED <<Asks(u), Handled(u), Answered(u), Entered(u), Latest(u)>>
    BY <1>1 DEF Asks, Handled, Answered, Entered, Latest
  <2>8. OneOfEach(u)'
    BY <1>1, <1>3, <2>6, <2>7 DEF Tidy, OneOfEach
  <2>9. OfLastRequest(u)'
    BY <1>1, <1>3, <1>5, <2>1, <2>2, <2>6, <2>7 DEF Tidy, OfLastRequest
  <2>10. InOnePlace(u)'
    BY <1>1, <2>3, <2>6, <2>7 DEF Tidy, InOnePlace
  <2> QED
    BY <2>8, <2>9, <2>10 DEF Tidy
<1> QED
  BY <1>6, <1>7

(* What disturbs a player cannot be undone.                                *)
LEMMA StaysDisturbed ==
  ASSUME IInv, [Next]_vars, NEW u \in User, Undisturbed(u)'
  PROVE  Undisturbed(u) /\ \A v \in User : GiveUpAsking(v) => v # u
<1>1. timeouts \in [User -> Nat] /\ fooled \subseteq User
  BY DEF IInv, TypeOK
<1>2. ASSUME NEW v \in User, GiveUpAsking(v) PROVE Undisturbed(u) /\ v # u
  BY <1>1, <1>2 DEF GiveUpAsking, Undisturbed
<1>3. ASSUME NEW a \in announced, HearMatch(a) PROVE Undisturbed(u)
  BY <1>1, <1>3 DEF HearMatch, Undisturbed
<1>4. ASSUME UNCHANGED <<timeouts, fooled>> PROVE Undisturbed(u)
  BY <1>4 DEF Undisturbed
<1> QED
  BY <1>2, <1>3, <1>4 DEF Next, HandlerStep, ReceiveRequest, AppendEntry, ListLocalQueue,
     MonitorStep, StartSweep, Send, SendToGlobalQueue, RemoveHead, EndSweep, MatchLocalQueue,
     GlobalMatch, ClientStep, AskToJoin, TakeUpMatch, EndGame, ReceiveReply, vars, clientVars

LEMMA TidyNext ==
  ASSUME IInv, IInv', TidyInv, [Next]_vars
  PROVE  TidyInv'
<1> SUFFICES ASSUME NEW u \in User, Undisturbed(u)' PROVE Tidy(u)'
  BY DEF TidyInv
<1>1. /\ Tidy(u) /\ u \notin fooled' /\ TypeOK
      /\ \A v \in User : GiveUpAsking(v) => v # u
  BY StaysDisturbed DEF TidyInv, Undisturbed, IInv
<1>2. ASSUME NEW v \in User, GiveUpAsking(v) PROVE Tidy(u)'
  <2>1. /\ UNCHANGED <<requests, handler, entered, replies, Waiting, rooms, announced, asked>>
        /\ client'[u] = client[u] /\ heard'[u] = heard[u]
    BY <1>1, <1>2, WaitingFrame DEF GiveUpAsking, serverVars, TypeOK
  <2>2. UNCHANGED LocalTo(u)
    BY <2>1 DEF LocalTo
  <2> QED
    BY <1>1, <2>1, <2>2, TidyFrame
<1>3. CASE StartSweep \/ EndSweep \/ UNCHANGED vars
  <2>1. UNCHANGED <<requests, handler, entered, replies, Waiting, rooms, announced, client, asked, heard>>
    BY <1>3, WaitingFrame DEF StartSweep, EndSweep, vars, serverVars, clientVars
  <2>2. UNCHANGED LocalTo(u)
    BY <2>1 DEF LocalTo
  <2> QED
    BY <1>1, <2>1, <2>2, TidyFrame
<1>4. ASSUME NEW taken \in BOOLEAN, SendToGlobalQueue(taken) PROVE Tidy(u)'
  <2>1. UNCHANGED <<requests, handler, entered, replies, rooms, announced, client, asked, heard>>
    BY <1>4 DEF SendToGlobalQueue, clientVars
  <2>2. Waiting' \subseteq Waiting
    <3>1. Sent' = Sent \union {Gone + 1} /\ UNCHANGED <<entered, localQueue>>
      BY <1>4, SendTakesNext
    <3> QED
      BY <3>1 DEF Waiting, Entry, InQueue
  <2>3. UNCHANGED LocalTo(u)
    BY <2>1 DEF LocalTo
  <2> QED
    BY <1>1, <2>1, <2>2, <2>3, TidyFrame
<1>5. CASE RemoveHead
  <2>1. UNCHANGED <<requests, handler, entered, replies, rooms, announced, client, asked, heard>>
    BY <1>5 DEF RemoveHead, clientVars
  <2>2. Waiting' = Waiting
    BY <1>5, RemoveHeadGone, WhoWaits, WhoWaitsNext
  <2>3. UNCHANGED LocalTo(u)
    BY <2>1 DEF LocalTo
  <2> QED
    BY <1>1, <2>1, <2>2, <2>3, TidyFrame
<1>6. ASSUME NEW e \in handedOver, GlobalMatch(e) PROVE Tidy(u)'
  <2>1. /\ UNCHANGED <<requests, handler, entered, replies, Waiting, rooms, client, asked, heard>>
        /\ announced' = announced \union {[to |-> entered[e].user, room |-> {e}]}
    BY <1>6, WaitingFrame DEF GlobalMatch, serverVars, clientVars
  <2>2. LocalTo(u)' \subseteq LocalTo(u)
    BY <2>1, GlobalApart DEF LocalTo
  <2> QED
    BY <1>1, <2>1, <2>2, TidyFrame
<1> QED
  BY <1>1, <1>2, <1>3, <1>4, <1>5, <1>6, TidyAsk, TidyReply, TidyHear, TidyPlay, TidyReceive,
     TidyAppend, TidyList, TidyMatch
     DEF Next, HandlerStep, MonitorStep, Send, ClientStep

(* Whoever is paired with itself had two entries, which takes a mishap.    *)
LEMMA SelfMatchNext ==
  ASSUME IInv, IInv', TidyInv, SelfMatchNeedsMishap, [Next]_vars
  PROVE  SelfMatchNeedsMishap'
<1>1. \A e \in Entry : entered[e].user \in User /\ entered'[e] = entered[e]
  <2>1. \A e \in Entry : entered[e].user \in User
    BY Queue, ElementOfSeq, RequestParts
  <2>2. CASE AppendEntry
    BY <2>1, <2>2, AppendWaits
  <2>3. CASE UNCHANGED entered
    BY <2>1, <2>3
  <2> QED
    BY <2>2, <2>3 DEF Next, HandlerStep, ReceiveRequest, ListLocalQueue,
       MonitorStep, StartSweep, Send, SendToGlobalQueue, RemoveHead, EndSweep, MatchLocalQueue,
       HearMatch, GlobalMatch, ClientStep, AskToJoin, GiveUpAsking, TakeUpMatch, EndGame,
       ReceiveReply, vars, serverVars
<1>2. \A room \in rooms' : room \in rooms \/ (room \in NewRooms /\ monitor = "match")
  BY DEF Next, HandlerStep, ReceiveRequest, AppendEntry, ListLocalQueue,
       MonitorStep, StartSweep, Send, SendToGlobalQueue, RemoveHead, EndSweep, MatchLocalQueue,
       HearMatch, GlobalMatch, ClientStep, AskToJoin, GiveUpAsking, TakeUpMatch, EndGame,
       ReceiveReply, vars, serverVars
<1> SUFFICES ASSUME NEW room \in rooms', NEW e \in room, NEW f \in room, e # f,
                    (entered[e].user = entered[f].user)', Undisturbed(entered[e].user)'
             PROVE  FALSE
  BY DEF SelfMatchNeedsMishap
<1>3. e \in Entry /\ f \in Entry
  <2>1. CASE room \in rooms
    BY <2>1 DEF IInv, TypeOK
  <2>2. CASE room \in NewRooms /\ monitor = "match"
    BY <2>2, PairsAreRooms, WhoWaits
  <2> QED
    BY <1>2, <2>1, <2>2
<1>4. PICK v \in User : v = entered[e].user /\ v = entered[f].user
  BY <1>1, <1>3
<1>5. Undisturbed(v)
  <2>1. entered'[e].user = v
    BY <1>1, <1>3, <1>4
  <2>2. Undisturbed(v)'
    BY <2>1 DEF Undisturbed
  <2> QED
    BY <2>2, StaysDisturbed
<1>6. CASE room \in rooms
  BY <1>4, <1>5, <1>6 DEF SelfMatchNeedsMishap
<1>7. CASE room \in NewRooms /\ monitor = "match"
  <2>1. e \in Waiting /\ f \in Waiting
    BY <1>7, PairsAreRooms
  <2> QED
    BY <1>4, <1>5, <2>1 DEF TidyInv, Tidy, OneOfEach
<1> QED
  BY <1>2, <1>6, <1>7

(* The invariant holds in every state.                                     *)
THEOREM TidyInvariance == Spec => [](IInv /\ TidyInv /\ SelfMatchNeedsMishap)
<1>1. Init => TidyInv /\ SelfMatchNeedsMishap
  BY DEF Init, TidyInv, Tidy, OneOfEach, OfLastRequest, InOnePlace, Asks, Handled, Queued, Answered,
     Announced, LocalTo, Entered, Waiting, Entry, SelfMatchNeedsMishap
<1>2. IInv /\ IInv' /\ TidyInv /\ SelfMatchNeedsMishap /\ [Next]_vars
        => TidyInv' /\ SelfMatchNeedsMishap'
  BY TidyNext, SelfMatchNext
<1> QED
  BY Invariance, <1>1, <1>2, PTL DEF Spec

(* Only a player that gave up a JOIN_QUEUE, which HandleJoinQueue handles  *)
(* all the same, or that took up a late GLOBAL_MATCH of an earlier entry,  *)
(* can be in a local room with itself (MatchLocalQueue).                   *)
THEOREM SelfMatchOnlyAfterMishap == Spec => []SelfMatchNeedsMishap
BY TidyInvariance, PTL

(* An undisturbed player has no request, entry, answer or MATCH under way  *)
(* here when it plays or is at the menu (HandleJoinQueue, MatchLocalQueue, *)
(* client/game/queue.go).                                                  *)
THEOREM NothingStaysBehind == Spec => []NothingIsLeftBehind
<1>1. ASSUME IInv, TidyInv PROVE NothingIsLeftBehind
  <2> SUFFICES ASSUME NEW u \in User, Undisturbed(u), client[u] \in {"menu", "playing"}
               PROVE  ~ Live(u)
    BY DEF NothingIsLeftBehind
  <2>1. InOnePlace(u)
    BY <1>1 DEF TidyInv, Tidy
  <2>2. ~ Asks(u) /\ ~ Handled(u) /\ ~ Answered(u) /\ ~ Queued(u) /\ ~ Announced(u)
    BY <2>1 DEF InOnePlace
  <2> QED
    BY <2>2 DEF Live, Asks, Handled, Queued, Answered, Announced, LocalTo
<1> QED
  BY TidyInvariance, <1>1, PTL

(* The MATCH of an undisturbed player finds it listening, and without      *)
(* another, and so does the first GLOBAL_MATCH of the entry it waits for   *)
(* (client/main.go starts the listeners before it sends JOIN_QUEUE).       *)
THEOREM MatchesAreHeard == Spec => MatchIsHeard
<1>1. ASSUME IInv, TidyInv, [Next]_vars
      PROVE  \A m \in announced \ announced' :
               /\ Undisturbed(m.to)'
               /\ \/ m.room \in rooms
                  \/ OfLatest(m) /\ client[m.to] \in {"asking", "waiting"}
               => heard'[m.to] = m.room
  <2> SUFFICES ASSUME NEW m \in announced \ announced', Undisturbed(m.to)',
                      \/ m.room \in rooms
                      \/ OfLatest(m) /\ client[m.to] \in {"asking", "waiting"}
               PROVE  heard'[m.to] = m.room
    OBVIOUS
  <2> DEFINE u == m.to
  <2>1. HearMatch(m)
    BY <1>1 DEF Next, HandlerStep, ReceiveRequest, AppendEntry, ListLocalQueue,
       MonitorStep, StartSweep, Send, SendToGlobalQueue, RemoveHead, EndSweep, MatchLocalQueue,
       HearMatch, GlobalMatch, ClientStep, AskToJoin, GiveUpAsking, TakeUpMatch, EndGame,
       ReceiveReply, vars
  <2>2. /\ u \in User /\ heard \in [User -> rooms \union GlobalRoom \union {{}}]
        /\ m.room \in rooms \union GlobalRoom
    BY <1>1 DEF IInv, TypeOK
  <2>3. Tidy(u)
    BY <1>1, <2>2, StaysDisturbed DEF TidyInv
  <2>4. CASE m.room \in rooms
    <3>1. m \in LocalTo(u)
      BY <2>4 DEF LocalTo
    <3>2. client[u] \in {"asking", "waiting"} /\ heard[u] = {}
      BY <2>3, <3>1 DEF Tidy, InOnePlace, Announced
    <3> QED
      BY <2>1, <2>2, <3>2 DEF HearMatch, Listening
  <2>5. CASE m.room \notin rooms
    <3>1. client[u] \in {"asking", "waiting"}
      BY <2>5
    <3>2. CASE heard[u] = {}
      BY <2>1, <2>2, <3>1, <3>2 DEF HearMatch, Listening
    <3>3. CASE heard[u] # {}
      <4>1. PICK x \in handedOver : m.room = {x} /\ entered[x] = Latest(u)
        BY <2>2, <2>5 DEF GlobalRoom, OfLatest, Latest
      <4>2. PICK e \in heard[u] : entered[e] = Latest(u)
        BY <2>3, <3>1, <3>3 DEF Tidy, OfLastRequest
      <4>3. /\ e \in Entry /\ x \in Entry
            /\ heard[u] \in rooms \/ \E y \in handedOver : heard[u] = {y}
        <5>1. heard[u] \in rooms \union GlobalRoom \union {{}}
          BY <2>2
        <5>2. \A y \in handedOver : y \in Entry
          BY <1>1, GlobalApart
        <5> QED
          BY <1>1, <4>2, <5>1, <5>2, RoomsHold
      <4>4. e = x
        BY <2>3, <4>1, <4>2, <4>3 DEF Tidy, OfLastRequest
      <4>5. heard[u] = {x}
        BY <1>1, <4>2, <4>3, <4>4, GlobalApart
      <4> QED
        BY <2>1, <3>3, <4>1, <4>5 DEF HearMatch, Listening
    <3> QED
      BY <3>2, <3>3
  <2> QED
    BY <2>4, <2>5
<1> QED
  BY TidyInvariance, <1>1, PTL DEF Spec, MatchIsHeard

=============================================================================
