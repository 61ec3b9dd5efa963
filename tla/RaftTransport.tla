---------------------------- MODULE RaftTransport ----------------------------
(***************************************************************************)
(* server/transport.go: Raft's calls to one server, as HTTP requests.  A   *)
(* caller waits in sendRPC for at most 10s.  At the server each request    *)
(* has a goroutine, HandleRaftRequest, which waits for the Raft main loop  *)
(* to take the call from rpcChan, then for the answer on a channel of its  *)
(* own; it never looks whether its caller is still there.                  *)
(*                                                                         *)
(* The main loop is hashicorp/raft's.  It may block for good: on an FSM    *)
(* that does not return from Apply.  SetHeartbeatHandler does nothing, so  *)
(* heartbeats wait in rpcChan with the entries.                            *)
(***************************************************************************)
EXTENDS Naturals

CONSTANTS
  Caller,     \* the goroutines of the other servers' Raft that call this one
  MaxCalls    \* bound: calls of one goroutine

ASSUME MaxCallsAssumption == MaxCalls \in Nat

VARIABLES
  count,      \* count[g]: calls g has made so far
  outcome,    \* outcome[g]: what became of the last of them
  result,     \* <<c, a>>: the call c returned the answer of a
  handler,    \* handler[c]: where the request of c is
  respChan,   \* respChan[c]: what is in the channel that c's handler made
  responses,  \* HTTP responses on their way
  inHand,     \* the call the main loop has taken, if any
  running,    \* does the main loop run
  executed    \* executed[c]: how often the main loop handled c

callerVars == <<count, outcome, result>>
serverVars == <<handler, respChan, inHand, running, executed>>
vars == <<callerVars, serverVars, responses>>

Rpc == Caller \X (1 .. MaxCalls)
Last(g) == <<g, count[g]>>
Response == [to : Rpc, ok : BOOLEAN, answer : Rpc]

Init ==
  /\ count = [g \in Caller |-> 0]
  /\ outcome = [g \in Caller |-> "none"]
  /\ result = {}
  /\ handler = [c \in Rpc |-> "none"]
  /\ respChan = [c \in Rpc |-> {}]
  /\ responses = {}
  /\ inHand = {}
  /\ running = TRUE
  /\ executed = [c \in Rpc |-> 0]

(***************************************************************************)
(* The callers.                                                            *)
(***************************************************************************)
Begin(g, what) ==
  /\ outcome[g] # "waiting"
  /\ count[g] < MaxCalls
  /\ count' = [count EXCEPT ![g] = @ + 1]
  /\ outcome' = [outcome EXCEPT ![g] = what]
  /\ UNCHANGED <<result, respChan, responses, inHand, running, executed>>

(* AppendEntries, RequestVote and TimeoutNow.                              *)
SendRPC(g) ==
  /\ Begin(g, "waiting")
  /\ handler' = [handler EXCEPT ![<<g, count[g] + 1>>] = "sent"]

(* Not implemented: an error without a request.                            *)
InstallSnapshot(g) ==
  /\ Begin(g, "refused")
  /\ UNCHANGED handler

(* Mutant: a call that timed out is sent again in place. *)
ReturnErrorOrResend(g) ==
  /\ outcome[g] = "waiting"
  /\ handler' = [handler EXCEPT ![Last(g)] = IF @ = "ended" THEN "sent" ELSE @]
  /\ UNCHANGED <<callerVars, respChan, inHand, running, executed, responses>>

(* client.Do returns an error: 10s are over, or the connection is lost.    *)
ReturnError(g) ==
  /\ outcome[g] = "waiting"
  /\ outcome' = [outcome EXCEPT ![g] = "unknown"]
  /\ responses' = {r \in responses : r.to # Last(g)}
  /\ UNCHANGED <<count, result, serverVars>>

ReadResponse(r) ==
  LET g == r.to[1]
  IN /\ r \in responses
     /\ r.to = Last(g) /\ outcome[g] = "waiting"
     /\ responses' = responses \ {r}
     /\ IF r.ok
          THEN /\ outcome' = [outcome EXCEPT ![g] = "answered"]
               /\ result' = result \union {<<r.to, r.answer>>}
          ELSE /\ outcome' = [outcome EXCEPT ![g] = "refused"]
               /\ UNCHANGED result
     /\ UNCHANGED <<count, serverVars>>

(***************************************************************************)
(* HandleRaftRequest.                                                      *)
(***************************************************************************)
(* What the handler of c writes reaches a caller that still waits for it.  *)
Write(c, responded) ==
  responses' = IF outcome[c[1]] = "waiting" /\ c = Last(c[1])
                 THEN responses \union {responded}
                 ELSE responses

Refusal(c) == [to |-> c, ok |-> FALSE, answer |-> c]

MoveTo(c, place) == handler' = [handler EXCEPT ![c] = place]

(* The channel that the handler of c puts into raft.RPC and waits on.      *)
(* Mutant: one channel for all handlers of the transport.                  *)
SharedRespChan(c) == CHOOSE d \in Rpc : TRUE
RespChan(c) == c

(* The request arrives: the handler goes to rpcChan with it, or refuses    *)
(* what it cannot decode.  Or it does not arrive.                          *)
Arrive(c) ==
  /\ handler[c] = "sent"
  /\ \/ MoveTo(c, "offering") /\ UNCHANGED responses
     \/ MoveTo(c, "ended") /\ Write(c, Refusal(c))
     \/ MoveTo(c, "ended") /\ UNCHANGED responses
  /\ UNCHANGED <<callerVars, respChan, inHand, running, executed>>

(* Mutant: no answer once the caller has gone. *)
RespondIfAwaited(c) ==
  /\ outcome[c[1]] = "waiting" /\ c = Last(c[1])
  /\ handler[c] = "waiting"
  /\ \E a \in respChan[RespChan(c)] : Write(c, [to |-> c, ok |-> TRUE, answer |-> a])
  /\ MoveTo(c, "ended")
  /\ respChan' = [respChan EXCEPT ![RespChan(c)] = {}]
  /\ UNCHANGED <<callerVars, inHand, running, executed>>

(* The answer, or the error the main loop answered with or that encoding   *)
(* the answer met.                                                         *)
Respond(c) ==
  /\ handler[c] = "waiting"
  /\ \E a \in respChan[RespChan(c)] :
       \/ Write(c, [to |-> c, ok |-> TRUE, answer |-> a])
       \/ Write(c, Refusal(c))
  /\ MoveTo(c, "ended")
  /\ respChan' = [respChan EXCEPT ![RespChan(c)] = {}]
  /\ UNCHANGED <<callerVars, inHand, running, executed>>

(***************************************************************************)
(* The main loop of Raft, and the process.                                 *)
(***************************************************************************)
(* Mutant: the loop takes a call before it is done with another. *)
TakeMore(c) ==
  /\ running
  /\ handler[c] = "offering"
  /\ MoveTo(c, "waiting")
  /\ inHand' = inHand \union {c}
  /\ UNCHANGED <<callerVars, respChan, responses, running, executed>>

Take(c) ==
  /\ running /\ inHand = {}
  /\ handler[c] = "offering"
  /\ MoveTo(c, "waiting")
  /\ inHand' = {c}
  /\ UNCHANGED <<callerVars, respChan, responses, running, executed>>

Handle ==
  /\ \E c \in inHand :
       /\ executed' = [executed EXCEPT ![c] = @ + 1]
       /\ respChan' = [respChan EXCEPT ![RespChan(c)] = @ \union {c}]
  /\ inHand' = {}
  /\ UNCHANGED <<callerVars, handler, responses, running>>

Block ==
  /\ running
  /\ running' = FALSE
  /\ inHand' = {}
  /\ UNCHANGED <<callerVars, handler, respChan, responses, executed>>

(* The process dies, with its handlers and their channels, and starts anew. *)
Restart ==
  /\ handler' = [c \in Rpc |-> IF handler[c] \in {"offering", "waiting"} THEN "ended" ELSE handler[c]]
  /\ respChan' = [c \in Rpc |-> {}]
  /\ inHand' = {}
  /\ running' = TRUE
  /\ UNCHANGED <<callerVars, responses, executed>>

CallerStep(g) == SendRPC(g) \/ InstallSnapshot(g) \/ ReturnError(g)
HandlerStep(c) == Arrive(c) \/ Respond(c)
LoopStep == Handle \/ \E c \in Rpc : Take(c)

Next ==
  \/ \E g \in Caller : CallerStep(g)
  \/ \E r \in responses : ReadResponse(r)
  \/ \E c \in Rpc : HandlerStep(c)
  \/ LoopStep
  \/ Block
  \/ Restart

Spec == Init /\ [][Next]_vars

(***************************************************************************)
(* Fairness: requests arrive or are lost, the handlers' goroutines run,    *)
(* and so does the main loop until it blocks.                              *)
(***************************************************************************)
FairSpec == Spec /\ WF_vars(LoopStep) /\ \A c \in Rpc : WF_vars(HandlerStep(c))

(***************************************************************************)
(* Properties.                                                             *)
(***************************************************************************)
TypeOK ==
  /\ count \in [Caller -> 0 .. MaxCalls]
  /\ outcome \in [Caller -> {"none", "waiting", "answered", "refused", "unknown"}]
  /\ result \subseteq Rpc \X Rpc
  /\ handler \in [Rpc -> {"none", "sent", "offering", "waiting", "ended"}]
  /\ respChan \in [Rpc -> SUBSET Rpc]
  /\ responses \subseteq Response
  /\ inHand \subseteq Rpc
  /\ \A c, d \in inHand : c = d
  /\ running \in BOOLEAN
  /\ executed \in [Rpc -> Nat]

(* A call that may yet be executed: on its way, at rpcChan, or in hand.    *)
Open == {c \in Rpc : handler[c] \in {"sent", "offering"} \/ c \in inHand}

RC == INSTANCE RemoteCall WITH open <- Open

(* Calls are remote calls (RemoteCall): each executed at most once, though *)
(* callers give up and call again while handlers of theirs still wait;     *)
(* answers reach the call they answer, though all go through one rpcChan;  *)
(* an HTTP error (HandleRaftRequest) leaves nothing to be executed later.  *)
IsRemoteCall == RC!Spec

(* No handler is left behind: given up by its caller or not, it ends, as   *)
(* long as the main loop has not blocked (HandleRaftRequest waits on two   *)
(* channels without a timeout).                                            *)
HandlersEnd ==
  \A c \in Rpc :
    handler[c] \in {"sent", "offering", "waiting"} ~> handler[c] = "ended" \/ ~ running

=============================================================================
