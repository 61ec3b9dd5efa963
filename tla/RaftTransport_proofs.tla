------------------------ MODULE RaftTransport_proofs ------------------------
(***************************************************************************)
(* Calls over server/transport.go are remote calls, whatever the number of *)
(* goroutines that call and of their calls: RaftTransport implements       *)
(* RemoteCall.                                                             *)
(***************************************************************************)
EXTENDS RaftTransport, TLAPS

(* A call is executed once at most because it is only while its handler    *)
(* has not ended, and only before its own channel holds the answer; what a *)
(* channel or a response holds belongs to the call it is for.              *)
NotYetHandled ==
  \A c \in Rpc :
    /\ handler[c] \in {"none", "sent", "offering"} \/ c \in inHand =>
         executed[c] = 0 /\ respChan[c] = {}
    /\ c \in inHand => handler[c] = "waiting"
    /\ handler[c] # "none" => c[2] <= count[c[1]]

AnswerIsOwn ==
  /\ \A c \in Rpc : \A a \in respChan[c] : a = c /\ executed[c] = 1
  /\ \A r \in responses :
       handler[r.to] = "ended" /\ (r.ok => r.answer = r.to /\ executed[r.to] = 1)

IInv == TypeOK /\ NotYetHandled /\ AnswerIsOwn

(* The call that a goroutine makes next, or made last, is a call.          *)
LEMMA CallOf ==
  ASSUME TypeOK, NEW g \in Caller
  PROVE  /\ count[g] \in 0 .. MaxCalls
         /\ count[g] # 0 => Last(g) \in Rpc
         /\ count[g] < MaxCalls => <<g, count[g] + 1>> \in Rpc
BY MaxCallsAssumption DEF TypeOK, Rpc, Last

(* Types are kept by every step.                                           *)
LEMMA TypeNext == TypeOK /\ [Next]_vars => TypeOK'
<1> SUFFICES ASSUME TypeOK, [Next]_vars PROVE TypeOK'
  OBVIOUS
<1> USE MaxCallsAssumption
<1>1. ASSUME NEW g \in Caller, SendRPC(g) PROVE TypeOK'
  BY <1>1, CallOf DEF TypeOK, SendRPC, Begin
<1>2. ASSUME NEW g \in Caller, InstallSnapshot(g) PROVE TypeOK'
  BY <1>2 DEF TypeOK, InstallSnapshot, Begin
<1>3. ASSUME NEW g \in Caller, ReturnError(g) PROVE TypeOK'
  BY <1>3 DEF TypeOK, ReturnError, serverVars
<1>4. ASSUME NEW r \in responses, ReadResponse(r) PROVE TypeOK'
  BY <1>4 DEF TypeOK, ReadResponse, serverVars, Response, Rpc
<1>5. ASSUME NEW c \in Rpc, NEW place \in {"offering", "ended", "waiting"}, MoveTo(c, place)
      PROVE  handler' \in [Rpc -> {"none", "sent", "offering", "waiting", "ended"}]
  BY <1>5 DEF TypeOK, MoveTo
<1>6. ASSUME NEW c \in Rpc, NEW w \in Response, Write(c, w) PROVE responses' \subseteq Response
  BY <1>6 DEF TypeOK, Write
<1>7. \A c \in Rpc : Refusal(c) \in Response
  BY DEF Refusal, Response
<1>8. ASSUME NEW c \in Rpc, Arrive(c) PROVE TypeOK'
  <2>1. responses' \subseteq Response
    BY <1>8, <1>6, <1>7 DEF Arrive, TypeOK
  <2>2. handler' \in [Rpc -> {"none", "sent", "offering", "waiting", "ended"}]
    BY <1>8, <1>5 DEF Arrive
  <2> QED
    BY <1>8, <2>1, <2>2 DEF Arrive, TypeOK, callerVars
<1>9. ASSUME NEW c \in Rpc, Respond(c) PROVE TypeOK'
  <2>1. PICK a \in respChan[c] :
          Write(c, [to |-> c, ok |-> TRUE, answer |-> a]) \/ Write(c, Refusal(c))
    BY <1>9 DEF Respond, RespChan
  <2>2. [to |-> c, ok |-> TRUE, answer |-> a] \in Response
    BY <2>1 DEF TypeOK, Response
  <2>3. responses' \subseteq Response
    BY <2>1, <2>2, <1>6, <1>7
  <2>4. handler' \in [Rpc -> {"none", "sent", "offering", "waiting", "ended"}]
    BY <1>9, <1>5 DEF Respond
  <2> QED
    BY <1>9, <2>3, <2>4 DEF Respond, RespChan, TypeOK, callerVars
<1>10. ASSUME NEW c \in Rpc, Take(c) PROVE TypeOK'
  <2>1. handler' \in [Rpc -> {"none", "sent", "offering", "waiting", "ended"}]
    BY <1>10, <1>5 DEF Take
  <2> QED
    BY <1>10, <2>1 DEF Take, TypeOK, callerVars
<1>11. ASSUME Handle PROVE TypeOK'
  BY <1>11 DEF Handle, RespChan, TypeOK, callerVars
<1>12. CASE Block
  BY <1>12 DEF Block, TypeOK, callerVars
<1>13. CASE Restart
  BY <1>13 DEF Restart, TypeOK, callerVars
<1>14. CASE UNCHANGED vars
  BY <1>14 DEF vars, callerVars, serverVars, TypeOK
<1> QED
  BY <1>1, <1>2, <1>3, <1>4, <1>8, <1>9, <1>10, <1>11, <1>12, <1>13, <1>14
     DEF Next, CallerStep, HandlerStep, LoopStep

(* Initially there is nothing to be handled.                               *)
LEMMA InitIInv == Init => IInv
BY MaxCallsAssumption DEF Init, IInv, TypeOK, NotYetHandled, AnswerIsOwn, Rpc

(* A call is handled before its handler ends, and once.                    *)
LEMMA NotYetHandledNext == IInv /\ [Next]_vars => NotYetHandled'
<1> SUFFICES ASSUME IInv, [Next]_vars PROVE NotYetHandled'
  OBVIOUS
<1>0. /\ \A c \in Rpc : c[1] \in Caller /\ c[2] \in 1 .. MaxCalls /\ c = <<c[1], c[2]>>
      /\ \A g \in Caller : count[g] \in Nat
  BY MaxCallsAssumption DEF Rpc, IInv, TypeOK
<1> USE <1>0 DEF IInv, NotYetHandled
<1>1. ASSUME NEW g \in Caller, SendRPC(g) \/ InstallSnapshot(g) PROVE NotYetHandled'
  <2> SUFFICES ASSUME NEW d \in Rpc
               PROVE  /\ handler'[d] \in {"none", "sent", "offering"} \/ d \in inHand' =>
                           executed'[d] = 0 /\ respChan'[d] = {}
                      /\ d \in inHand' => handler'[d] = "waiting"
                      /\ handler'[d] # "none" => d[2] <= count'[d[1]]
    OBVIOUS
  <2>1. d = <<d[1], d[2]>> /\ d[1] \in Caller /\ d[2] \in Nat
    BY <1>0
  <2>2. /\ count' = [count EXCEPT ![g] = @ + 1]
        /\ count[g] < MaxCalls
        /\ UNCHANGED <<respChan, inHand, executed>>
    BY <1>1 DEF SendRPC, InstallSnapshot, Begin
  <2>3. handler[d] # "none" => d[2] <= count'[d[1]]
    BY <2>1, <2>2 DEF TypeOK
  <2>4. CASE UNCHANGED handler
    BY <2>2, <2>3, <2>4
  <2>5. CASE handler' = [handler EXCEPT ![<<g, count[g] + 1>>] = "sent"]
    <3>1. CASE d = <<g, count[g] + 1>>
      <4>1. handler[d] = "none"
        BY <2>1, <3>1
      <4>2. d[1] = g /\ d[2] = count[g] + 1
        BY <3>1
      <4> QED
        BY <2>1, <2>2, <2>5, <3>1, <4>1, <4>2 DEF TypeOK
    <3>2. CASE d # <<g, count[g] + 1>>
      BY <2>2, <2>3, <2>5, <3>2 DEF TypeOK
    <3> QED
      BY <3>1, <3>2
  <2> QED
    BY <1>1, <2>4, <2>5 DEF SendRPC, InstallSnapshot
<1>2. ASSUME NEW g \in Caller, ReturnError(g) PROVE NotYetHandled'
  BY <1>2 DEF ReturnError, serverVars
<1>3. ASSUME NEW r \in responses, ReadResponse(r) PROVE NotYetHandled'
  BY <1>3 DEF ReadResponse, serverVars
<1>4. ASSUME NEW d \in Rpc, Arrive(d) PROVE NotYetHandled'
  BY <1>4 DEF Arrive, MoveTo, callerVars, TypeOK
<1>5. ASSUME NEW d \in Rpc, Respond(d) PROVE NotYetHandled'
  BY <1>5 DEF Respond, RespChan, MoveTo, callerVars, TypeOK, AnswerIsOwn
<1>6. ASSUME NEW d \in Rpc, Take(d) PROVE NotYetHandled'
  BY <1>6 DEF Take, MoveTo, callerVars, TypeOK
<1>7. ASSUME Handle PROVE NotYetHandled'
  BY <1>7 DEF Handle, RespChan, callerVars, TypeOK
<1>8. CASE Block
  BY <1>8 DEF Block, callerVars
<1>9. CASE Restart
  BY <1>9 DEF Restart, callerVars, TypeOK
<1>10. CASE UNCHANGED vars
  BY <1>10 DEF vars, callerVars, serverVars
<1> QED
  BY <1>1, <1>2, <1>3, <1>4, <1>5, <1>6, <1>7, <1>8, <1>9, <1>10
     DEF Next, CallerStep, HandlerStep, LoopStep

(* Channels and responses hold the answer of the call they are for.        *)
LEMMA AnswerIsOwnNext == IInv /\ [Next]_vars => AnswerIsOwn'
<1> SUFFICES ASSUME IInv, [Next]_vars PROVE AnswerIsOwn'
  OBVIOUS
<1> USE DEF IInv, AnswerIsOwn
<1>0. \A r \in responses : r.to \in Rpc
  BY DEF TypeOK, Response
<1>1. ASSUME NEW g \in Caller, SendRPC(g) PROVE AnswerIsOwn'
  <2>1. <<g, count[g] + 1>> \in Rpc /\ handler[<<g, count[g] + 1>>] = "none"
    BY <1>1, CallOf, MaxCallsAssumption DEF SendRPC, Begin, NotYetHandled, TypeOK
  <2> QED
    BY <1>0, <1>1, <2>1 DEF SendRPC, Begin, TypeOK
<1>2. ASSUME NEW g \in Caller, InstallSnapshot(g) \/ ReturnError(g) PROVE AnswerIsOwn'
  BY <1>2 DEF InstallSnapshot, Begin, ReturnError, serverVars
<1>3. ASSUME NEW r \in responses, ReadResponse(r) PROVE AnswerIsOwn'
  BY <1>3 DEF ReadResponse, serverVars
<1>4. ASSUME NEW c \in Rpc, Arrive(c) PROVE AnswerIsOwn'
  <2>1. \A r \in responses' : r \in responses \/ (r = Refusal(c) /\ handler'[c] = "ended")
    BY <1>4 DEF Arrive, Write, MoveTo, TypeOK
  <2>2. \A d \in Rpc : handler[d] = "ended" => handler'[d] = "ended"
    BY <1>4 DEF Arrive, MoveTo, TypeOK
  <2> QED
    BY <1>0, <1>4, <2>1, <2>2 DEF Arrive, Refusal
<1>5. ASSUME NEW c \in Rpc, Respond(c) PROVE AnswerIsOwn'
  <2>1. PICK a \in respChan[c] :
          Write(c, [to |-> c, ok |-> TRUE, answer |-> a]) \/ Write(c, Refusal(c))
    BY <1>5 DEF Respond, RespChan
  <2>2. a = c /\ executed[c] = 1
    BY <2>1
  <2>3. \A r \in responses' :
          r \in responses \/ r = [to |-> c, ok |-> TRUE, answer |-> c] \/ r = Refusal(c)
    BY <2>1, <2>2 DEF Write
  <2>4. \A d \in Rpc : handler[d] = "ended" \/ d = c => handler'[d] = "ended"
    BY <1>5 DEF Respond, MoveTo, TypeOK
  <2>5. executed' = executed /\ \A d \in Rpc : respChan'[d] \subseteq respChan[d]
    BY <1>5 DEF Respond, RespChan, TypeOK
  <2>6. \A r \in responses' :
          handler'[r.to] = "ended" /\ (r.ok => r.answer = r.to /\ executed'[r.to] = 1)
    BY <1>0, <2>2, <2>3, <2>4, <2>5 DEF Refusal
  <2> QED
    BY <2>5, <2>6
<1>6. ASSUME NEW c \in Rpc, Take(c) PROVE AnswerIsOwn'
  BY <1>0, <1>6 DEF Take, MoveTo, TypeOK
<1>7. ASSUME Handle PROVE AnswerIsOwn'
  <2>1. PICK c \in inHand :
          /\ executed' = [executed EXCEPT ![c] = @ + 1]
          /\ respChan' = [respChan EXCEPT ![c] = @ \union {c}]
    BY <1>7 DEF Handle, RespChan
  <2>2. c \in Rpc /\ executed[c] = 0 /\ respChan[c] = {} /\ handler[c] = "waiting"
    BY <2>1 DEF TypeOK, NotYetHandled
  <2> QED
    BY <1>0, <1>7, <2>1, <2>2 DEF Handle, TypeOK
<1>8. CASE Block
  BY <1>8 DEF Block
<1>9. CASE Restart
  BY <1>0, <1>9 DEF Restart, TypeOK
<1>10. CASE UNCHANGED vars
  BY <1>10 DEF vars, serverVars
<1> QED
  BY <1>1, <1>2, <1>3, <1>4, <1>5, <1>6, <1>7, <1>8, <1>9, <1>10
     DEF Next, CallerStep, HandlerStep, LoopStep

(***************************************************************************)
(* The invariant, and the refinement.                                      *)
(***************************************************************************)
(* The inductive invariant: types, and the two parts above.                *)
THEOREM Invariance == Spec => []IInv
<1>1. IInv /\ [Next]_vars => IInv'
  BY TypeNext, NotYetHandledNext, AnswerIsOwnNext DEF IInv
<1> QED
  BY InitIInv, <1>1, PTL DEF Spec

(* Every variable keeps its type and the main loop one call in hand,       *)
(* for any callers and any number of calls.                                *)
THEOREM TypeCorrect == Spec => []TypeOK
<1>1. IInv => TypeOK
  BY DEF IInv
<1> QED
  BY Invariance, <1>1, PTL

(* Every step of the transport is a step of a remote call, or none.        *)
LEMMA StepRefines == IInv /\ [Next]_vars => [RC!Next]_RC!vars
<1> SUFFICES ASSUME IInv, [Next]_vars PROVE [RC!Next]_RC!vars
  OBVIOUS
<1> USE DEF IInv
<1>1. ASSUME NEW g \in Caller, SendRPC(g) PROVE RC!Invoke(g)
  <2>1. <<g, count[g] + 1>> \in Rpc
    BY <1>1, CallOf DEF SendRPC, Begin
  <2>2. Open' = Open \union {<<g, count[g] + 1>>}
    BY <1>1, <2>1 DEF SendRPC, Begin, Open, TypeOK
  <2> QED
    BY <1>1, <2>2 DEF SendRPC, Begin, RC!Invoke, RC!Begin
<1>2. ASSUME NEW g \in Caller, InstallSnapshot(g) PROVE RC!InvokeInVain(g)
  BY <1>2 DEF InstallSnapshot, Begin, Open, RC!InvokeInVain, RC!Begin
<1>3. ASSUME NEW g \in Caller, ReturnError(g) PROVE RC!Fail(g)
  BY <1>3 DEF ReturnError, serverVars, Open, RC!Fail, RC!Return
<1>4. ASSUME NEW r \in responses, ReadResponse(r)
      PROVE  RC!Answer(r.to[1]) \/ RC!Refuse(r.to[1])
  <2>1. /\ r.to \in Rpc /\ handler[r.to] = "ended"
        /\ r.ok => r.answer = r.to /\ executed[r.to] = 1
    BY DEF AnswerIsOwn, TypeOK, Response
  <2>2. r.to \notin Open
    BY <2>1 DEF Open, NotYetHandled
  <2>3. Open' = Open /\ executed' = executed
    BY <1>4 DEF ReadResponse, serverVars, Open
  <2>4. CASE r.ok
    BY <1>4, <2>1, <2>3, <2>4 DEF ReadResponse, Last, RC!Answer, RC!Return, RC!Last
  <2>5. CASE ~ r.ok
    BY <1>4, <2>2, <2>3, <2>5 DEF ReadResponse, Last, RC!Refuse, RC!Return, RC!Last
  <2> QED
    BY <2>4, <2>5
<1>5. ASSUME NEW c \in Rpc, Arrive(c) PROVE RC!Lose({c}) \/ UNCHANGED RC!vars
  <2>1. Open' = Open \/ Open' = Open \ {c}
    BY <1>5 DEF Arrive, MoveTo, Open, TypeOK, NotYetHandled
  <2> QED
    BY <1>5, <2>1 DEF Arrive, callerVars, RC!Lose, RC!vars
<1>6. ASSUME NEW c \in Rpc, Respond(c) PROVE UNCHANGED RC!vars
  <2>1. Open' = Open
    BY <1>6 DEF Respond, MoveTo, Open, TypeOK
  <2> QED
    BY <1>6, <2>1 DEF Respond, callerVars, RC!vars
<1>7. ASSUME NEW c \in Rpc, Take(c) PROVE UNCHANGED RC!vars
  <2>1. Open' = Open
    BY <1>7 DEF Take, MoveTo, Open, TypeOK
  <2> QED
    BY <1>7, <2>1 DEF Take, callerVars, RC!vars
<1>8. ASSUME Handle PROVE \E c \in Rpc : RC!Execute(c)
  <2>1. PICK c \in inHand : executed' = [executed EXCEPT ![c] = @ + 1]
    BY <1>8 DEF Handle
  <2>2. c \in Rpc /\ inHand = {c} /\ handler[c] = "waiting"
    BY DEF TypeOK, NotYetHandled
  <2>3. c \in Open /\ Open' = Open \ {c}
    BY <1>8, <2>2 DEF Handle, Open
  <2>4. RC!Execute(c)
    BY <1>8, <2>1, <2>3 DEF Handle, callerVars, RC!Execute
  <2> QED
    BY <2>2, <2>4
<1>9. CASE Block
  <2>1. Open' = Open \ inHand
    BY <1>9 DEF Block, Open, NotYetHandled
  <2>2. inHand \in SUBSET Rpc
    BY DEF TypeOK
  <2>3. RC!Lose(inHand)
    BY <1>9, <2>1 DEF Block, callerVars, RC!Lose
  <2> QED
    BY <2>2, <2>3 DEF RC!Next, RC!Rpc, Rpc
<1>10. CASE Restart
  <2> DEFINE lost == {c \in Rpc : handler[c] \in {"offering", "waiting"}}
  <2>1. Open' = Open \ lost
    BY <1>10 DEF Restart, Open, TypeOK, NotYetHandled
  <2>2. RC!Lose(lost)
    BY <1>10, <2>1 DEF Restart, callerVars, RC!Lose
  <2> QED
    BY <2>2 DEF RC!Next, RC!Rpc, Rpc
<1>11. CASE UNCHANGED vars
  BY <1>11 DEF vars, callerVars, serverVars, RC!vars, Open
<1>12. \A r \in responses : ReadResponse(r) => r.to[1] \in Caller
  BY DEF TypeOK, Response, Rpc
<1> QED
  BY <1>1, <1>2, <1>3, <1>4, <1>5, <1>6, <1>7, <1>8, <1>9, <1>10, <1>11, <1>12
     DEF Next, CallerStep, HandlerStep, LoopStep, RC!Next, RC!Rpc, Rpc

(* Calls over HTTP are remote calls, executed at most once and answered    *)
(* with their own answer, for any callers and any number of calls.         *)
THEOREM CallsAreRemoteCalls == Spec => IsRemoteCall
<1>1. Init => RC!Init
  BY DEF Init, Open, RC!Init, RC!Rpc, Rpc
<1>2. IInv /\ [Next]_vars => [RC!Next]_RC!vars
  BY StepRefines
<1> QED
  BY <1>1, <1>2, Invariance, PTL DEF Spec, IsRemoteCall, RC!Spec

=============================================================================
