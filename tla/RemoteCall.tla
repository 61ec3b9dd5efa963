----------------------------- MODULE RemoteCall -----------------------------
(***************************************************************************)
(* What hashicorp/raft may count on when it calls another server through   *)
(* server/transport.go: a call is executed there at most once, an answer   *)
(* is the call's own, and a refusal is final.  A call that failed in any   *)
(* other way says nothing: it may have been executed, and it may still be, *)
(* after the caller went on to its next one.                               *)
(***************************************************************************)
EXTENDS Naturals

CONSTANTS
  Caller,     \* the goroutines of the other servers' Raft that call this one
  MaxCalls    \* bound: calls of one goroutine

VARIABLES
  count,      \* count[g]: calls g has made so far
  outcome,    \* outcome[g]: what became of the last of them
  result,     \* <<c, a>>: the call c returned the answer of a
  open,       \* calls that may yet be executed
  executed    \* executed[c]: how often c was executed

vars == <<count, outcome, result, open, executed>>

Rpc == Caller \X (1 .. MaxCalls)
Last(g) == <<g, count[g]>>

Init ==
  /\ count = [g \in Caller |-> 0]
  /\ outcome = [g \in Caller |-> "none"]
  /\ result = {}
  /\ open = {}
  /\ executed = [c \in Rpc |-> 0]

Begin(g) ==
  /\ outcome[g] # "waiting"
  /\ count[g] < MaxCalls
  /\ count' = [count EXCEPT ![g] = @ + 1]
  /\ UNCHANGED <<result, executed>>

Invoke(g) ==
  /\ Begin(g)
  /\ outcome' = [outcome EXCEPT ![g] = "waiting"]
  /\ open' = open \union {<<g, count[g] + 1>>}

InvokeInVain(g) ==
  /\ Begin(g)
  /\ outcome' = [outcome EXCEPT ![g] = "refused"]
  /\ UNCHANGED open

Execute(c) ==
  /\ c \in open
  /\ open' = open \ {c}
  /\ executed' = [executed EXCEPT ![c] = @ + 1]
  /\ UNCHANGED <<count, outcome, result>>

Lose(lost) ==
  /\ open' = open \ lost
  /\ UNCHANGED <<count, outcome, result, executed>>

Return(g, what) ==
  /\ outcome[g] = "waiting"
  /\ outcome' = [outcome EXCEPT ![g] = what]
  /\ UNCHANGED <<count, open, executed>>

Answer(g) ==
  /\ Return(g, "answered")
  /\ executed[Last(g)] = 1
  /\ result' = result \union {<<Last(g), Last(g)>>}

Refuse(g) ==
  /\ Return(g, "refused")
  /\ Last(g) \notin open
  /\ UNCHANGED result

Fail(g) ==
  /\ Return(g, "unknown")
  /\ UNCHANGED result

Next ==
  \/ \E g \in Caller : Invoke(g) \/ InvokeInVain(g) \/ Answer(g) \/ Refuse(g) \/ Fail(g)
  \/ \E c \in Rpc : Execute(c)
  \/ \E lost \in SUBSET Rpc : Lose(lost)

Spec == Init /\ [][Next]_vars

=============================================================================
