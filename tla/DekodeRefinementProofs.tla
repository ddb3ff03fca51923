---------------------- MODULE DekodeRefinementProofs ----------------------
(***************************************************************************)
(* Proof that DekodeSession implements the abstract SessionCalls, for      *)
(* every value of the constants.                                           *)
(***************************************************************************)
EXTENDS DekodeSessionProofs

(* What the refinement needs beyond IInv: a blocked thread waits on a call *)
(* that has not ended, no two threads wait on the same call, and a request *)
(* has been executed exactly when it has a reply.                         *)
WaitInv ==
    /\ \A t \in Threads : waiting[t] # 0 => result[waiting[t]] = "pending"
    /\ \A t, u \in Threads : t # u /\ waiting[t] # 0 => waiting[t] # waiting[u]
    /\ \A i \in ReqIds : served[i] = 0 <=> reply[i] = "none"

RInv == IInv /\ WaitInv

(* A call put on the wire by an idle thread keeps WaitInv: its id lies    *)
(* past every id a thread waits on, and nothing has touched it yet.        *)
LEMMA SendWait ==
  ASSUME IInv, WaitInv, NEW t \in Threads, NEW r \in Request,
         Idle(t), Len(reqs) < MaxRpc, SendAndBlock(t, r),
         UNCHANGED <<served, reply, result>>
  PROVE  WaitInv'
<1> USE ConstantsAssumption
<1> DEFINE n == Len(reqs) + 1
<1>1. Len(reqs) \in Nat /\ n \in ReqIds
  BY DEF IInv, TypeOK, ReqIds
<1>2. waiting' = [waiting EXCEPT ![t] = n]
  BY DEF SendAndBlock, NextId
<1>3. result[n] = "pending"
  BY <1>1 DEF IInv
<1>4. waiting \in [Threads -> 0..MaxRpc] /\ \A u \in Threads : waiting[u] <= Len(reqs)
  BY DEF IInv, TypeOK
<1>5. waiting[t] = 0
  BY DEF Idle
<1>6. (\A u \in Threads : waiting[u] # 0 => result[waiting[u]] = "pending")'
  BY <1>2, <1>3, <1>4 DEF WaitInv
<1>7. (\A u, v \in Threads : u # v /\ waiting[u] # 0 => waiting[u] # waiting[v])'
  BY <1>1, <1>2, <1>4 DEF WaitInv
<1>8. QED
  BY <1>6, <1>7 DEF WaitInv

(* A call of thread t ending (Return, Cancel, Fail) keeps WaitInv: no     *)
(* other thread waits on it.                                               *)
LEMMA EndWait ==
  ASSUME IInv, WaitInv, NEW t \in Threads, NEW o,
         waiting[t] # 0,
         result' = [result EXCEPT ![waiting[t]] = o],
         waiting' = [waiting EXCEPT ![t] = 0],
         UNCHANGED <<served, reply>>
  PROVE  WaitInv'
<1>1. waiting \in [Threads -> 0..MaxRpc]
  BY DEF IInv, TypeOK
<1>2. result \in [ReqIds -> Outcomes \cup {"pending"}]
  BY DEF IInv, TypeOK
<1>3. QED
  BY <1>1, <1>2 DEF WaitInv

(* Every action keeps WaitInv.                                             *)
LEMMA NextWaitInv == IInv /\ WaitInv /\ [Next]_vars => WaitInv'
<1> SUFFICES ASSUME IInv, WaitInv, [Next]_vars PROVE WaitInv'
  OBVIOUS
<1> USE ConstantsAssumption
<1>1. ASSUME NEW t \in Threads, NEW c \in Channels, NEW tok \in Tokens,
             connect(t, c, tok)
      PROVE WaitInv'
  <2>1. [op |-> "Connect", ch |-> c, arg |-> tok] \in Request
    BY DEF Request, Ops
  <2>2. QED
    BY <1>1, <2>1, SendWait DEF connect
<1>2. ASSUME NEW t \in Threads, NEW s \in sessions, NEW op \in RpcOps,
             Call(t, s, op)
      PROVE WaitInv'
  <2>1. s \in Session
    BY DEF IInv, TypeOK
  <2> DEFINE r == [op |-> op, ch |-> s.ch, arg |-> s.sid]
  <2>2. r \in Request
    BY <2>1 DEF Session, Request, Ops
  <2>3. CASE chan[s.ch] = "open" /\ SendAndBlock(t, r) /\ UNCHANGED result
    BY <1>2, <2>2, <2>3, SendWait DEF Call
  <2>4. CASE /\ chan[s.ch] = "closed"
             /\ reqs' = Append(reqs, r)
             /\ result' = [result EXCEPT ![NextId] = "CLOSED"]
             /\ UNCHANGED <<wire, waiting>>
    <3>1. Len(reqs) \in Nat /\ \A u \in Threads : waiting[u] <= Len(reqs)
      BY DEF IInv, TypeOK
    <3>2. waiting \in [Threads -> 0..MaxRpc]
      BY DEF IInv, TypeOK
    <3>3. result \in [ReqIds -> Outcomes \cup {"pending"}]
      BY DEF IInv, TypeOK
    <3>4. UNCHANGED <<served, reply>>
      BY <1>2 DEF Call
    <3>5. QED
      BY <2>4, <3>1, <3>2, <3>3, <3>4 DEF WaitInv, NextId
  <2>5. QED
    BY <1>2, <2>3, <2>4 DEF Call
<1>3. ASSUME NEW t \in Threads, NEW c \in Channels, OpenChannel(t, c)
      PROVE WaitInv'
  BY <1>3 DEF OpenChannel, WaitInv
<1>4. ASSUME NEW t \in Threads, NEW c \in Channels, close(t, c)
      PROVE WaitInv'
  BY <1>4 DEF close, WaitInv
<1>5. ASSUME NEW t \in Threads, NEW c \in Channels, NEW sid \in SessionIds,
             NewSession(t, c, sid)
      PROVE WaitInv'
  BY <1>5 DEF NewSession, WaitInv
<1>6. ASSUME NEW t \in Threads, Return(t) PROVE WaitInv'
  BY <1>6, EndWait DEF Return
<1>7. ASSUME NEW t \in Threads, Cancel(t) PROVE WaitInv'
  BY <1>7, EndWait DEF Cancel
<1>8. ASSUME NEW t \in Threads, Fail(t) PROVE WaitInv'
  BY <1>8, EndWait DEF Fail
<1>9. ASSUME NEW i \in ReqIds, Serve(i) PROVE WaitInv'
  <2>1. served[i] = 0 /\ served \in [ReqIds -> Nat]
    BY <1>9 DEF Serve, IInv, TypeOK
  <2>2. ServerReply(reqs[i]) # "none"
    BY DEF ServerReply
  <2>3. reply \in [ReqIds -> ServerOutcomes \cup {"none"}]
    BY DEF IInv, TypeOK
  <2>4. QED
    BY <1>9, <2>1, <2>2, <2>3 DEF Serve, WaitInv
<1>10. ASSUME NEW i \in ReqIds, Lose(i) PROVE WaitInv'
  BY <1>10 DEF Lose, WaitInv
<1>11. CASE UNCHANGED vars
  BY <1>11 DEF vars, WaitInv
<1>12. QED
  BY <1>1, <1>2, <1>3, <1>4, <1>5, <1>6, <1>7, <1>8, <1>9, <1>10, <1>11
  DEF Next

(* In every reachable state of the session, besides IInv: each thread    *)
(* blocked in a session method (context, submit, ...) on its gRPC stub    *)
(* waits on its own call, one that has not yet ended, and a request has   *)
(* been served exactly when it has a reply.  The inductive invariant the   *)
(* refinement proof rests on.                                              *)
LEMMA RInvInvariant == Spec => []RInv
<1>1. Init => WaitInv
  BY DEF Init, WaitInv
<1>2. RInv /\ [Next]_vars => RInv'
  BY NextIInv, NextWaitInv DEF RInv
<1>3. QED
  BY <1>1, <1>2, InitIInv, PTL DEF Spec, RInv

(* The abstract variables under the refinement mapping.                  *)
absVars == <<Len(reqs), served, reply, result>>

(* Every step of DekodeSession is a step of SessionCalls or leaves the     *)
(* abstract state alone.                                                   *)
LEMMA RefineStep == RInv /\ [Next]_vars => [Abstract!Next]_absVars
<1> SUFFICES ASSUME RInv, [Next]_vars PROVE [Abstract!Next]_absVars
  OBVIOUS
<1> USE ConstantsAssumption
<1>0. reqs \in Seq(Request) /\ Len(reqs) \in Nat
  BY DEF RInv, IInv, TypeOK
<1>1. ASSUME NEW t \in Threads, NEW c \in Channels, NEW tok \in Tokens,
             connect(t, c, tok)
      PROVE Abstract!Issue
  BY <1>0, <1>1 DEF connect, SendAndBlock, Abstract!Issue
<1>2. ASSUME NEW t \in Threads, NEW s \in sessions, NEW op \in RpcOps,
             Call(t, s, op)
      PROVE Abstract!Next
  <2> DEFINE r == [op |-> op, ch |-> s.ch, arg |-> s.sid]
  <2>1. CASE chan[s.ch] = "open" /\ SendAndBlock(t, r) /\ UNCHANGED result
    <3>1. Abstract!Issue
      BY <1>0, <1>2, <2>1 DEF Call, SendAndBlock, Abstract!Issue
    <3>2. QED
      BY <3>1 DEF Abstract!Next
  <2>2. CASE /\ chan[s.ch] = "closed"
             /\ reqs' = Append(reqs, r)
             /\ result' = [result EXCEPT ![NextId] = "CLOSED"]
             /\ UNCHANGED <<wire, waiting>>
    <3>1. "CLOSED" \in Outcomes \ ServerOutcomes
      BY DEF Outcomes, ServerOutcomes
    <3>2. Abstract!IssueRefused("CLOSED")
      BY <1>0, <1>2, <2>2 DEF Call, NextId, Abstract!IssueRefused
    <3>3. QED
      BY <3>1, <3>2 DEF Abstract!Next
  <2>3. QED
    BY <1>2, <2>1, <2>2 DEF Call
<1>3. ASSUME NEW t \in Threads, Return(t) PROVE Abstract!Next
  <2> DEFINE i == waiting[t]
  <2>1. i \in ReqIds /\ i <= Len(reqs)
    BY <1>3 DEF Return, RInv, IInv, TypeOK, ReqIds
  <2>2. result[i] = "pending"
    BY <1>3 DEF Return, RInv, WaitInv
  <2>3. served[i] = 1
    <3>1. served[i] # 0
      BY <1>3, <2>1 DEF Return, RInv, WaitInv
    <3>2. served[i] \in Nat /\ served[i] <= 1
      BY <2>1 DEF RInv, IInv, TypeOK, ResultFaithful
    <3>3. QED
      BY <3>1, <3>2
  <2>4. reply[i] \in ServerOutcomes
    BY <1>3, <2>1 DEF Return, RInv, IInv, TypeOK
  <2>5. Abstract!Complete(i, reply[i])
    BY <1>3, <2>1, <2>2, <2>3 DEF Return, Abstract!Complete
  <2>6. QED
    BY <2>1, <2>4, <2>5 DEF Abstract!Next, Abstract!Calls, ReqIds
<1>4. ASSUME NEW t \in Threads, NEW e \in Outcomes \ ServerOutcomes,
             waiting[t] # 0,
             result' = [result EXCEPT ![waiting[t]] = e],
             UNCHANGED <<reqs, served, reply>>
      PROVE Abstract!Next
  <2> DEFINE i == waiting[t]
  <2>1. i \in ReqIds /\ i <= Len(reqs)
    BY <1>4 DEF RInv, IInv, TypeOK, ReqIds
  <2>2. result[i] = "pending"
    BY <1>4 DEF RInv, WaitInv
  <2>3. Abstract!Complete(i, e)
    BY <1>4, <2>1, <2>2 DEF Abstract!Complete
  <2>4. QED
    BY <1>4, <2>1, <2>3 DEF Abstract!Next, Abstract!Calls, ReqIds
<1>5. ASSUME NEW i \in ReqIds, Serve(i) PROVE Abstract!Next
  <2>1. i <= Len(reqs) /\ served[i] = 0
    BY <1>5 DEF Serve, RInv, IInv
  <2>2. served \in [ReqIds -> Nat]
    BY DEF RInv, IInv, TypeOK
  <2>3. ServerReply(reqs[i]) \in ServerOutcomes
    BY DEF ServerReply, ServerOutcomes
  <2>4. Abstract!Execute(i, ServerReply(reqs[i]))
    BY <1>5, <2>1, <2>2 DEF Serve, Abstract!Execute
  <2>5. QED
    BY <2>3, <2>4 DEF Abstract!Next, Abstract!Calls, ReqIds
<1>6. QED
  <2>1. CASE \E t \in Threads : Cancel(t)
    <3>1. PICK t \in Threads : Cancel(t)
      BY <2>1
    <3>2. "CANCELLED" \in Outcomes \ ServerOutcomes
      BY DEF Outcomes, ServerOutcomes
    <3>3. QED
      BY <3>1, <3>2, <1>4 DEF Cancel
  <2>2. CASE \E t \in Threads : Fail(t)
    <3>1. PICK t \in Threads : Fail(t)
      BY <2>2
    <3>2. "UNAVAILABLE" \in Outcomes \ ServerOutcomes
      BY DEF Outcomes, ServerOutcomes
    <3>3. QED
      BY <3>1, <3>2, <1>4 DEF Fail
  <2>3. CASE \E t \in Threads, c \in Channels, tok \in Tokens : connect(t, c, tok)
    BY <2>3, <1>1 DEF Abstract!Next
  <2>4. CASE \E t \in Threads, s \in sessions, op \in RpcOps : Call(t, s, op)
    BY <2>4, <1>2
  <2>5. CASE \E t \in Threads : Return(t)
    BY <2>5, <1>3
  <2>6. CASE \E i \in ReqIds : Serve(i)
    BY <2>6, <1>5
  <2>7. CASE \/ \E t \in Threads, c \in Channels : OpenChannel(t, c) \/ close(t, c)
             \/ \E t \in Threads, c \in Channels, sid \in SessionIds : NewSession(t, c, sid)
             \/ \E i \in ReqIds : Lose(i)
             \/ UNCHANGED vars
    BY <2>7 DEF OpenChannel, close, NewSession, Lose, vars, absVars
  <2>8. QED
    BY <2>1, <2>2, <2>3, <2>4, <2>5, <2>6, <2>7 DEF Next

(* DekodeSession implements SessionCalls: whatever threads, closes, lost   *)
(* requests and connection failures do, each call is executed at most     *)
(* once by the server and ends at most once, with an error or with the    *)
(* server's answer to that call.                                           *)
THEOREM Refinement == Spec => ImplementsSessionCalls
<1>1. Init => Abstract!Init
  BY DEF Init, Abstract!Init, Abstract!Calls, ReqIds
<1>2. QED
  BY <1>1, RInvInvariant, RefineStep, PTL
  DEF Spec, ImplementsSessionCalls, Abstract!Spec, absVars

=============================================================================
