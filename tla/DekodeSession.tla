--------------------------- MODULE DekodeSession ---------------------------
(***************************************************************************)
(* The client side of the Dekode Agent Protocol SDK (dekode/client.py,     *)
(* dekode/session.py) together with the server it talks to (the           *)
(* FakeAgentServicer of tests/conftest.py) and the gRPC channel between    *)
(* them.                                                                   *)
(*                                                                         *)
(* A DekodeSession object wraps one gRPC channel and a server-assigned     *)
(* session_id; every operation builds a request carrying that id and       *)
(* blocks on the channel until the server answers or the transport fails.  *)
(* Several caller threads may share sessions (grpc channels are            *)
(* thread-safe and the session holds no lock), so a close() on one thread  *)
(* can race an RPC in flight on another.                                   *)
(*                                                                         *)
(* Data is abstracted away: a request is its operation, its channel and    *)
(* the one argument the server inspects (the auth token of a Connect, the  *)
(* session_id of every other RPC).  Request ids are the positions in       *)
(* reqs, the log of every RPC the client has issued.                       *)
(***************************************************************************)
EXTENDS Naturals, Sequences

CONSTANTS
    Threads,       \* caller threads sharing the client objects
    Channels,      \* grpc.Channel objects the program may create
    Tokens,        \* auth tokens a DekodeClient may be built with
    VALID_TOKEN,   \* FakeAgentServicer.VALID_TOKEN
    SessionIds,    \* session ids a DekodeSession may be constructed with
    MOCK_SESSION,  \* FakeAgentServicer._MOCK_SESSION, the id Connect assigns
    ServerOps,     \* the RPCs the servicer implements (the others: UNIMPLEMENTED)
    MaxRpc         \* bound on the number of RPCs issued in a behaviour

(* The session RPCs of DekodeSession and the one RPC of DekodeClient.      *)
RpcOps == {"Context", "Submit", "FileRead", "FileWrite", "GetSessionStatus"}
Ops == RpcOps \cup {"Connect"}

ASSUME ConstantsAssumption ==
    /\ Threads # {} /\ Channels # {}
    /\ VALID_TOKEN \in Tokens
    /\ MOCK_SESSION \in SessionIds
    /\ ServerOps \subseteq Ops
    /\ MaxRpc \in Nat \ {0}

(* What a call can end in.  The first four are answers of the server, the *)
(* others are raised by the grpc runtime on the client side:               *)
(* CANCELLED when the channel is closed under an RPC in flight, UNAVAILABLE *)
(* when the connection fails, CLOSED for the ValueError of an RPC invoked  *)
(* on an already closed channel.                                           *)
ServerOutcomes == {"OK", "UNAUTHENTICATED", "NOT_FOUND", "UNIMPLEMENTED"}
Outcomes == ServerOutcomes \cup {"CANCELLED", "UNAVAILABLE", "CLOSED"}

ReqIds == 1..MaxRpc
Request == [op : Ops, ch : Channels, arg : Tokens \cup SessionIds]
(* A DekodeSession object: its _channel and its session_id.  Two objects   *)
(* with the same channel and id behave alike, so a set of them suffices.   *)
Session == [ch : Channels, sid : SessionIds]

VARIABLES
    chan,     \* chan[c]: lifecycle of channel c: "unused", "open", "closed"
    sessions, \* the DekodeSession objects built so far
    held,     \* channels the caller references directly (not via a session)
    reqs,     \* log of every RPC issued; a request id is a position in it
    wire,     \* requests sent and neither executed by the server nor lost
    served,   \* served[i]: number of times the server executed request i
    reply,    \* reply[i]: the server's answer to request i, or "none"
    result,   \* result[i]: what the caller's call i returned or raised
    waiting   \* waiting[t]: the request thread t is blocked on, 0 if none

vars == <<chan, sessions, held, reqs, wire, served, reply, result, waiting>>

TypeOK ==
    /\ chan \in [Channels -> {"unused", "open", "closed"}]
    /\ sessions \subseteq Session
    /\ held \subseteq Channels
    /\ reqs \in Seq(Request) /\ Len(reqs) <= MaxRpc
    /\ wire \subseteq ReqIds
    /\ served \in [ReqIds -> Nat]
    /\ reply \in [ReqIds -> ServerOutcomes \cup {"none"}]
    /\ result \in [ReqIds -> Outcomes \cup {"pending"}]
    /\ waiting \in [Threads -> 0..MaxRpc]

Init ==
    /\ chan = [c \in Channels |-> "unused"]
    /\ sessions = {}
    /\ held = {}
    /\ reqs = <<>>
    /\ wire = {}
    /\ served = [i \in ReqIds |-> 0]
    /\ reply = [i \in ReqIds |-> "none"]
    /\ result = [i \in ReqIds |-> "pending"]
    /\ waiting = [t \in Threads |-> 0]

-----------------------------------------------------------------------------
(* Helpers.                                                                *)

Idle(t) == waiting[t] = 0
NextId == Len(reqs) + 1

(* Put a new request on the wire and block thread t on its answer.  Every  *)
(* stub call of the SDK passes no timeout, so the thread waits until the   *)
(* answer, a cancellation or a connection failure.                         *)
SendAndBlockOffByOne(t, r) ==
    /\ reqs' = Append(reqs, r)
    /\ wire' = wire \cup {Len(reqs)}
    /\ waiting' = [waiting EXCEPT ![t] = Len(reqs)]

SendAndBlock(t, r) ==
    /\ reqs' = Append(reqs, r)
    /\ wire' = wire \cup {NextId}
    /\ waiting' = [waiting EXCEPT ![t] = NextId]

(* FakeAgentServicer: Connect aborts with UNAUTHENTICATED unless the token *)
(* is VALID_TOKEN; every session RPC aborts with NOT_FOUND unless it       *)
(* carries _MOCK_SESSION.  An RPC the servicer does not override is        *)
(* answered UNIMPLEMENTED by the generated base servicer.                  *)
ServerReply(r) ==
    IF r.op \notin ServerOps THEN "UNIMPLEMENTED"
    ELSE IF r.op = "Connect"
    THEN IF r.arg = VALID_TOKEN THEN "OK" ELSE "UNAUTHENTICATED"
    ELSE IF r.arg = MOCK_SESSION THEN "OK" ELSE "NOT_FOUND"

-----------------------------------------------------------------------------
(* Operations of the caller.                                               *)

(* DekodeClient.connect: create a fresh channel, then block on the Connect *)
(* RPC.  The DekodeSession is only built once the answer is in (Return).  *)
connect(t, c, tok) ==
    /\ Idle(t)
    /\ chan[c] = "unused"
    /\ Len(reqs) < MaxRpc
    /\ chan' = [chan EXCEPT ![c] = "open"]
    /\ SendAndBlock(t, [op |-> "Connect", ch |-> c, arg |-> tok])
    /\ UNCHANGED <<sessions, held, served, reply, result>>

(* DekodeSession.context / submit / file_read / file_write /              *)
(* session_status: build a request with self.session_id and call the stub. *)
(* On a closed channel grpc raises ValueError at once and nothing is sent. *)
Call(t, s, op) ==
    LET r == [op |-> op, ch |-> s.ch, arg |-> s.sid]
    IN /\ Idle(t)
       /\ Len(reqs) < MaxRpc
       /\ \/ /\ chan[s.ch] = "open"
             /\ SendAndBlock(t, r)
             /\ UNCHANGED result
          \/ /\ chan[s.ch] = "closed"
             /\ reqs' = Append(reqs, r)
             /\ result' = [result EXCEPT ![NextId] = "CLOSED"]
             /\ UNCHANGED <<wire, waiting>>
       /\ UNCHANGED <<chan, sessions, held, served, reply>>

(* grpc.insecure_channel called by the caller itself, as the tests do      *)
(* before building a DekodeSession by hand.                                *)
OpenChannel(t, c) ==
    /\ Idle(t)
    /\ chan[c] = "unused"
    /\ chan' = [chan EXCEPT ![c] = "open"]
    /\ held' = held \cup {c}
    /\ UNCHANGED <<sessions, reqs, wire, served, reply, result, waiting>>

(* DekodeSession.__init__ over a channel the caller holds, with any id.    *)
NewSession(t, c, sid) ==
    /\ Idle(t)
    /\ c \in held
    /\ sessions' = sessions \cup {[ch |-> c, sid |-> sid]}
    /\ UNCHANGED <<chan, held, reqs, wire, served, reply, result, waiting>>

(* DekodeSession.close (and __exit__), or channel.close() by a caller that *)
(* holds the channel.  Closing an already closed channel changes nothing.  *)
close(t, c) ==
    /\ Idle(t)
    /\ c \in held \/ \E s \in sessions : s.ch = c
    /\ chan[c] = "open"
    /\ chan' = [chan EXCEPT ![c] = "closed"]
    /\ UNCHANGED <<sessions, held, reqs, wire, served, reply, result, waiting>>

-----------------------------------------------------------------------------
(* The server and the network.                                             *)

(* Variant: the request is delivered again after being executed, as a     *)
(* replaying retry layer would do.                                         *)
ServeKeepsOnWire(i) ==
    /\ i \in wire
    /\ served' = [served EXCEPT ![i] = @ + 1]
    /\ reply' = [reply EXCEPT ![i] = ServerReply(reqs[i])]
    /\ UNCHANGED <<chan, sessions, held, reqs, wire, result, waiting>>

(* The server executes request i and produces its answer.  A request sent  *)
(* before its channel was closed may still reach the server.               *)
Serve(i) ==
    /\ i \in wire
    /\ wire' = wire \ {i}
    /\ served' = [served EXCEPT ![i] = @ + 1]
    /\ reply' = [reply EXCEPT ![i] = ServerReply(reqs[i])]
    /\ UNCHANGED <<chan, sessions, held, reqs, result, waiting>>

(* The connection drops with request i still on the way.                   *)
Lose(i) ==
    /\ i \in wire
    /\ wire' = wire \ {i}
    /\ UNCHANGED <<chan, sessions, held, reqs, served, reply, result, waiting>>

-----------------------------------------------------------------------------
(* How a blocked call ends.                                                *)

(* The answer reaches thread t.  A successful Connect builds the           *)
(* DekodeSession over its channel with the session_id the server assigned. *)
Return(t) ==
    LET i == waiting[t]
        c == reqs[i].ch
    IN /\ i # 0
       /\ reply[i] # "none"
       /\ chan[c] = "open"
       /\ result' = [result EXCEPT ![i] = reply[i]]
       /\ waiting' = [waiting EXCEPT ![t] = 0]
       /\ sessions' = IF reqs[i].op = "Connect" /\ reply[i] = "OK"
                      THEN sessions \cup {[ch |-> c, sid |-> MOCK_SESSION]}
                      ELSE sessions
       /\ UNCHANGED <<chan, held, reqs, wire, served, reply>>

(* The channel of the call was closed under it: grpc raises CANCELLED,     *)
(* whether or not the server has executed the request.                     *)
Cancel(t) ==
    LET i == waiting[t]
    IN /\ i # 0
       /\ chan[reqs[i].ch] = "closed"
       /\ result' = [result EXCEPT ![i] = "CANCELLED"]
       /\ waiting' = [waiting EXCEPT ![t] = 0]
       /\ UNCHANGED <<chan, sessions, held, reqs, wire, served, reply>>

(* The connection failed after the request left the wire, before the       *)
(* answer (if any) came back: grpc raises UNAVAILABLE.                     *)
Fail(t) ==
    LET i == waiting[t]
    IN /\ i # 0
       /\ i \notin wire
       /\ result' = [result EXCEPT ![i] = "UNAVAILABLE"]
       /\ waiting' = [waiting EXCEPT ![t] = 0]
       /\ UNCHANGED <<chan, sessions, held, reqs, wire, served, reply>>

-----------------------------------------------------------------------------

Next ==
    \/ \E t \in Threads :
          \/ \E c \in Channels, tok \in Tokens : connect(t, c, tok)
          \/ \E s \in sessions, op \in RpcOps : Call(t, s, op)
          \/ \E c \in Channels : OpenChannel(t, c) \/ close(t, c)
          \/ \E c \in Channels, sid \in SessionIds : NewSession(t, c, sid)
          \/ Return(t) \/ Cancel(t) \/ Fail(t)
    \/ \E i \in ReqIds : Serve(i) \/ Lose(i)

(* The server eventually executes every request it has been sent (unless  *)
(* the connection drops first), and the grpc runtime eventually hands a    *)
(* blocked call its answer once it has arrived, or CANCELLED once the      *)
(* channel is closed.  Fail is not fair: no stub call in session.py passes *)
(* a timeout and the SDK sets no keepalive, so grpc need not ever notice   *)
(* that a request was lost.  The caller's own operations are not fair.     *)
Fairness ==
    /\ \A i \in ReqIds : WF_vars(Serve(i))
    /\ \A t \in Threads : WF_vars(Return(t) \/ Cancel(t))

Spec == Init /\ [][Next]_vars
FairSpec == Spec /\ Fairness

-----------------------------------------------------------------------------
(* Properties.                                                             *)

(* The server executes each request at most once (the SDK never retries a *)
(* stub call), and a server answer returned by a call is the answer the    *)
(* server gave to that very request, not to another thread's call on the   *)
(* same session or to an earlier one.                                      *)
ResultFaithful ==
    \A i \in ReqIds :
        /\ served[i] <= 1
        /\ result[i] \in ServerOutcomes => result[i] = reply[i]

(* No stub call blocks its thread forever: every call of a DekodeSession   *)
(* method ends with an answer, CANCELLED or UNAVAILABLE (spec.md: dispatch *)
(* "blocks until it completes or fails", timeouts left to the session).    *)
(* Expected to fail: session.py passes no timeout to any stub call.        *)
CallsReturn == \A t \in Threads : waiting[t] # 0 ~> waiting[t] = 0

(* DekodeSession implements SessionCalls: a request id is a call, the     *)
(* server's executions and answers are served and reply, and the caller's *)
(* result is the call's outcome.  Everything about channels, threads and  *)
(* the wire is hidden.                                                     *)
Abstract == INSTANCE SessionCalls WITH
    MaxCalls <- MaxRpc, Answers <- ServerOutcomes,
    Errors <- Outcomes \ ServerOutcomes,
    n <- Len(reqs), executed <- served, answer <- reply, outcome <- result

(* Whatever threads, closes and connection failures do, every behaviour   *)
(* of the SDK against the servicer is one the abstract session allows:    *)
(* each call executed at most once, ended at most once, and ended with a   *)
(* server answer only if it is the answer to that call.                    *)
ImplementsSessionCalls == Abstract!Spec

(* Every open channel can still be closed by the caller: it holds it, a    *)
(* DekodeSession owns it, or a connect() in progress will hand it to one.  *)
(* DekodeClient.connect: "The caller is responsible for closing the        *)
(* session".                                                               *)
NoLeakedChannel ==
    \A c \in Channels : chan[c] = "open" =>
        \/ c \in held
        \/ \E s \in sessions : s.ch = c
        \/ \E t \in Threads : /\ waiting[t] # 0
                              /\ reqs[waiting[t]].op = "Connect"
                              /\ reqs[waiting[t]].ch = c

=============================================================================
