----------------------- MODULE DekodeSessionProofs -----------------------
(***************************************************************************)
(* Proofs about DekodeSession for every value of the constants: the type   *)
(* invariant and ResultFaithful (each request executed at most once, and   *)
(* the server answer a call returns is the one given to that request).     *)
(***************************************************************************)
EXTENDS DekodeSession, TLAPS

(* ResultFaithful is not inductive: a Serve step could overwrite the reply *)
(* of a request whose call has already returned, and a new request could   *)
(* reuse an id that already has a reply.  IInv adds what rules this out:   *)
(* ids past the end of the log are untouched, a request still on the wire *)
(* has not been executed, answered or returned, and a blocked thread waits *)
(* on an id of the log.                                                    *)
IInv ==
    /\ TypeOK
    /\ wire \subseteq 1..Len(reqs)
    /\ \A t \in Threads : waiting[t] <= Len(reqs)
    /\ \A i \in ReqIds : i > Len(reqs) =>
          served[i] = 0 /\ reply[i] = "none" /\ result[i] = "pending"
    /\ \A i \in wire :
          served[i] = 0 /\ reply[i] = "none" /\ result[i] \notin ServerOutcomes
    /\ ResultFaithful

(* Init establishes IInv: the log is empty and nothing has happened.       *)
LEMMA InitIInv == Init => IInv
BY ConstantsAssumption
DEF Init, IInv, TypeOK, ResultFaithful, ReqIds, Outcomes, ServerOutcomes

(* Putting a new request on the wire keeps IInv: the new id is the first   *)
(* one past the log, which nothing has touched yet.                        *)
LEMMA SendStep ==
  ASSUME IInv, NEW t \in Threads, NEW r \in Request,
         Len(reqs) < MaxRpc,
         SendAndBlock(t, r),
         UNCHANGED <<served, reply, result>>,
         chan' \in [Channels -> {"unused", "open", "closed"}],
         sessions' \subseteq Session,
         held' \subseteq Channels
  PROVE  IInv'
<1> USE ConstantsAssumption
<1> DEFINE n == Len(reqs) + 1
<1>1. reqs \in Seq(Request) /\ Len(reqs) \in Nat
  BY DEF IInv, TypeOK
<1>2. reqs' \in Seq(Request) /\ Len(reqs') = n
  BY <1>1 DEF SendAndBlock
<1>12. Len(reqs) \in Nat /\ Len(reqs') = Len(reqs) + 1
  BY <1>1, <1>2
<1>13. served' = served /\ reply' = reply /\ result' = result
  OBVIOUS
<1>3. n \in ReqIds
  BY <1>1 DEF ReqIds
<1>4. wire' = wire \cup {n} /\ waiting' = [waiting EXCEPT ![t] = n]
  BY DEF SendAndBlock, NextId
<1>5. TypeOK'
  <2>1. served' = served /\ reply' = reply /\ result' = result
    OBVIOUS
  <2>2. waiting' \in [Threads -> 0..MaxRpc]
    BY <1>3, <1>4 DEF IInv, TypeOK, ReqIds
  <2>3. wire' \subseteq ReqIds
    BY <1>3, <1>4 DEF IInv, TypeOK
  <2>4. QED
    BY <1>2, <2>1, <2>2, <2>3 DEF IInv, TypeOK
<1>6. (wire \subseteq 1..Len(reqs))'
  <2>1. wire \subseteq 1..Len(reqs)
    BY DEF IInv
  <2>2. wire' \subseteq 1..(Len(reqs) + 1)
    <3>1. /\ Len(reqs) + 1 \in 1..(Len(reqs) + 1)
          /\ 1..Len(reqs) \subseteq 1..(Len(reqs) + 1)
      BY <1>12
    <3>2. QED
      BY <2>1, <3>1, <1>4, Zenon
  <2>3. wire' \subseteq 1..Len(reqs')
    BY <2>2, <1>12
  <2>4. QED
    BY <2>3
<1>7. (\A u \in Threads : waiting[u] <= Len(reqs))'
  <2>1. \A u \in Threads : waiting[u] <= Len(reqs)
    BY DEF IInv
  <2>2. waiting \in [Threads -> 0..MaxRpc]
    BY DEF IInv, TypeOK
  <2>3. QED
    BY <2>1, <2>2, <1>12, <1>4
<1>8. (\A i \in ReqIds : i > Len(reqs) =>
          served[i] = 0 /\ reply[i] = "none" /\ result[i] = "pending")'
  <2>1. \A i \in ReqIds : i > Len(reqs) =>
          served[i] = 0 /\ reply[i] = "none" /\ result[i] = "pending"
    BY DEF IInv
  <2>2. ASSUME NEW j \in ReqIds, j > Len(reqs')
        PROVE  served'[j] = 0 /\ reply'[j] = "none" /\ result'[j] = "pending"
    <3>1. j > Len(reqs)
      BY <2>2, <1>12 DEF ReqIds
    <3>2. QED
      BY <2>1, <3>1, <1>13
  <2>3. QED
    BY <2>2
<1>9. (\A i \in wire :
          served[i] = 0 /\ reply[i] = "none" /\ result[i] \notin ServerOutcomes)'
  <2>1. \A i \in wire :
          served[i] = 0 /\ reply[i] = "none" /\ result[i] \notin ServerOutcomes
    BY DEF IInv
  <2>2. served[n] = 0 /\ reply[n] = "none" /\ result[n] = "pending"
    BY <1>1, <1>3 DEF IInv
  <2>3. QED
    BY <2>1, <2>2, <1>4 DEF ServerOutcomes
<1>10. ResultFaithful'
  BY DEF IInv, ResultFaithful
<1>11. QED
  BY <1>5, <1>6, <1>7, <1>8, <1>9, <1>10 DEF IInv

(* Every action keeps IInv; one step per action of Next.                   *)
LEMMA NextIInv == IInv /\ [Next]_vars => IInv'
<1> SUFFICES ASSUME IInv, [Next]_vars PROVE IInv'
  OBVIOUS
<1> USE ConstantsAssumption
<1>1. ASSUME NEW t \in Threads, NEW c \in Channels, NEW tok \in Tokens,
             connect(t, c, tok)
      PROVE IInv'
  <2>1. [op |-> "Connect", ch |-> c, arg |-> tok] \in Request
    BY DEF Request, Ops
  <2>2. chan' \in [Channels -> {"unused", "open", "closed"}]
    BY <1>1 DEF connect, IInv, TypeOK
  <2>3. QED
    BY <1>1, <2>1, <2>2, SendStep DEF connect, IInv, TypeOK
<1>2. ASSUME NEW t \in Threads, NEW s \in sessions, NEW op \in RpcOps,
             Call(t, s, op)
      PROVE IInv'
  <2>1. s \in Session
    BY DEF IInv, TypeOK
  <2> DEFINE r == [op |-> op, ch |-> s.ch, arg |-> s.sid]
  <2>2. r \in Request
    BY <2>1 DEF Session, Request, Ops
  <2>3. CASE chan[s.ch] = "open" /\ SendAndBlock(t, r) /\ UNCHANGED result
    BY <1>2, <2>2, <2>3, SendStep DEF Call, IInv, TypeOK
  <2>4. CASE /\ chan[s.ch] = "closed"
             /\ reqs' = Append(reqs, r)
             /\ result' = [result EXCEPT ![NextId] = "CLOSED"]
             /\ UNCHANGED <<wire, waiting>>
    BY <1>2, <2>2, <2>4 DEF Call, Idle, NextId, IInv, TypeOK,
                            ResultFaithful, ReqIds, Outcomes, ServerOutcomes
  <2>5. QED
    BY <1>2, <2>3, <2>4 DEF Call
<1>3. ASSUME NEW t \in Threads, NEW c \in Channels, OpenChannel(t, c)
      PROVE IInv'
  BY <1>3 DEF OpenChannel, IInv, TypeOK, ResultFaithful
<1>4. ASSUME NEW t \in Threads, NEW c \in Channels, close(t, c)
      PROVE IInv'
  BY <1>4 DEF close, IInv, TypeOK, ResultFaithful
<1>5. ASSUME NEW t \in Threads, NEW c \in Channels, NEW sid \in SessionIds,
             NewSession(t, c, sid)
      PROVE IInv'
  BY <1>5 DEF NewSession, IInv, TypeOK, ResultFaithful, Session
<1>6. ASSUME NEW t \in Threads, Return(t) PROVE IInv'
  <2> DEFINE i == waiting[t]
             c == reqs[i].ch
  <2>1. i \in 1..Len(reqs)
    <3>1. waiting \in [Threads -> 0..MaxRpc] /\ waiting[t] <= Len(reqs)
      BY DEF IInv, TypeOK
    <3>2. QED
      BY <1>6, <3>1 DEF Return
  <2>2. reqs[i] \in Request
    BY <2>1 DEF IInv, TypeOK
  <2>3. c \in Channels
    BY <2>2 DEF Request
  <2>4. reply[i] \in ServerOutcomes
    BY <1>6, <2>1 DEF Return, IInv, TypeOK, ReqIds
  <2>5. i \notin wire
    BY <1>6 DEF Return, IInv
  <2>6. /\ result' = [result EXCEPT ![i] = reply[i]]
        /\ waiting' = [waiting EXCEPT ![t] = 0]
        /\ sessions' \subseteq sessions \cup {[ch |-> c, sid |-> MOCK_SESSION]}
        /\ UNCHANGED <<chan, held, reqs, wire, served, reply>>
    BY <1>6 DEF Return
  <2>7. [ch |-> c, sid |-> MOCK_SESSION] \in Session
    BY <2>3 DEF Session
  <2>8. TypeOK'
    BY <2>1, <2>4, <2>6, <2>7 DEF IInv, TypeOK, ReqIds, Outcomes
  <2>9. QED
    BY <2>1, <2>4, <2>5, <2>6, <2>8 DEF IInv, ResultFaithful, ReqIds
<1>7. ASSUME NEW t \in Threads, Cancel(t) PROVE IInv'
  BY <1>7 DEF Cancel, IInv, TypeOK, ResultFaithful, ReqIds, Outcomes,
              ServerOutcomes
<1>8. ASSUME NEW t \in Threads, Fail(t) PROVE IInv'
  BY <1>8 DEF Fail, IInv, TypeOK, ResultFaithful, ReqIds, Outcomes,
              ServerOutcomes
<1>9. ASSUME NEW i \in ReqIds, Serve(i) PROVE IInv'
  <2>1. reqs[i] \in Request /\ served[i] = 0 /\ result[i] \notin ServerOutcomes
    BY <1>9 DEF Serve, IInv, TypeOK
  <2>2. ServerReply(reqs[i]) \in ServerOutcomes
    BY DEF ServerReply, ServerOutcomes
  <2>3. QED
    BY <1>9, <2>1, <2>2 DEF Serve, IInv, TypeOK, ResultFaithful, ReqIds
<1>10. ASSUME NEW i \in ReqIds, Lose(i) PROVE IInv'
  BY <1>10 DEF Lose, IInv, TypeOK, ResultFaithful
<1>11. CASE UNCHANGED vars
  BY <1>11 DEF vars, IInv, TypeOK, ResultFaithful
<1>12. QED
  BY <1>1, <1>2, <1>3, <1>4, <1>5, <1>6, <1>7, <1>8, <1>9, <1>10, <1>11
  DEF Next

(* IInv is an invariant of the specification.                             *)
LEMMA IInvInvariant == Spec => []IInv
BY InitIInv, NextIInv, PTL DEF Spec

(* Type correctness: every variable keeps the type TypeOK gives it.        *)
THEOREM TypeCorrect == Spec => []TypeOK
BY IInvInvariant, PTL DEF IInv

(* The server executes each request at most once, and a server answer     *)
(* returned by a call is the answer to that very request (ResultFaithful), *)
(* for any number of threads, channels, sessions and RPCs.                 *)
THEOREM ResultFaithfulHolds == Spec => []ResultFaithful
BY IInvInvariant, PTL DEF IInv

=============================================================================
