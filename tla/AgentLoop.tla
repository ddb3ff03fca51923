------------------------------ MODULE AgentLoop ------------------------------
(***************************************************************************)
(* The example agent of examples/claude_agent.py: it connects a session,   *)
(* builds the tool descriptors, then loops: ask the model, record its      *)
(* answer, dispatch every tool_use through dekode.tools.dispatch_tool over *)
(* the session, send the tool results back, until the model stops using   *)
(* tools; then it closes the session.                                      *)
(*                                                                         *)
(* The dispatcher (dekode/tools.py) is modelled from spec.md section 4:    *)
(* alias resolution, unknown-tool and missing/invalid-argument errors      *)
(* raised before any session call, then exactly one session operation     *)
(* whose transport errors propagate unchanged.  The session is reduced to  *)
(* whether it is open; DekodeSession models its calls in detail.           *)
(*                                                                         *)
(* A message of the transcript keeps its role and the ids of the tool_use  *)
(* blocks it carries (assistant) or answers (user); text is left out.      *)
(***************************************************************************)
EXTENDS Naturals, Sequences

CONSTANTS
    ToolCalls,          \* the (name, input) pairs the model may emit
    MaxUses,            \* most tool_use blocks in one model response
    MaxTurns            \* model responses after which it uses no more tools

(* Descriptor registry and alias table of dekode.tools (spec 4.1, 9).      *)
Canonical == {"dkod_connect", "dkod_context", "dkod_read_file",
              "dkod_write_file", "dkod_submit", "dkod_session_status"}
Aliases == [search_codebase |-> "dkod_context", submit_changes |-> "dkod_submit"]
Required == [dkod_connect |-> {"codebase", "intent"}, dkod_context |-> {"query"},
             dkod_read_file |-> {"path"}, dkod_write_file |-> {"path", "content"},
             dkod_submit |-> {"intent", "changes"}, dkod_session_status |-> {}]
OpOf == [dkod_connect |-> "Connect", dkod_context |-> "Context",
         dkod_read_file |-> "FileRead", dkod_write_file |-> "FileWrite",
         dkod_submit |-> "Submit", dkod_session_status |-> "GetSessionStatus"]

(* A tool call: the name the model used, the argument names present, and *)
(* whether an enum-valued argument (depth, a change's type) is bogus.      *)
ToolCall == [name : STRING, args : SUBSET STRING, badEnum : BOOLEAN]

ASSUME AgentAssumption ==
    /\ ToolCalls \subseteq ToolCall
    /\ MaxUses \in Nat \ {0} /\ MaxTurns \in Nat \ {0}

(* Stop reasons of the Messages API: a response that calls tools stops    *)
(* with tool_use (or is cut at max_tokens); one without stops at end_turn  *)
(* or max_tokens.                                                          *)
StopReasons(nuses) == IF nuses > 0 THEN {"tool_use", "max_tokens"}
                                   ELSE {"end_turn", "max_tokens"}

(* A tool_use block: its id (turn and position) and its call.             *)
Block == [id : (1..MaxTurns) \X (1..MaxUses), call : ToolCalls]
Message == [role : {"user", "assistant"}, uses : Seq(Block), results : Seq(Block)]

VARIABLES
    pc,        \* where main() is: a line of the program or how it ended
    session,   \* "none" before connect, then "open", then "closed"
    messages,  \* the transcript sent to the model
    response,  \* the model's last response: its tool_use blocks and stop
    k,         \* index in response.uses of the next block to dispatch
    results,   \* tool_results collected for the current response
    ops,       \* session operations issued by dispatch_tool, in order
    turns,     \* model responses received so far
    error      \* the exception that ended main(), or "none"

vars == <<pc, session, messages, response, k, results, ops, turns, error>>

TypeOK ==
    /\ pc \in {"connect", "tools", "model", "dispatch", "done", "crashed"}
    /\ session \in {"none", "open", "closed"}
    /\ messages \in Seq(Message)
    /\ response \in [uses : Seq(Block), stop : {"none", "tool_use", "end_turn", "max_tokens"}]
    /\ k \in 1..MaxUses /\ (pc = "dispatch" => k <= Len(response.uses))
    /\ results \in Seq(Block)
    /\ ops \in Seq([block : Block, op : {OpOf[n] : n \in Canonical}])
    /\ turns \in 0..MaxTurns
    /\ error \in {"none", "RpcError", "TypeError", "APIError", "UnknownTool",
                  "MissingArgument", "InvalidArgument"}

Init ==
    /\ pc = "connect"
    /\ session = "none"
    /\ messages = <<>>
    /\ response = [uses |-> <<>>, stop |-> "none"]
    /\ k = 1
    /\ results = <<>>
    /\ ops = <<>>
    /\ turns = 0
    /\ error = "none"

Crash(e) == pc' = "crashed" /\ error' = e

-----------------------------------------------------------------------------
(* dispatch_tool, as spec 4.2 describes it.                                *)

Resolve(n) == IF n \in DOMAIN Aliases THEN Aliases[n] ELSE n

(* The error dispatch_tool raises before any session call, or "none".     *)
Rejection(c) ==
    CASE Resolve(c.name) \notin Canonical          -> "UnknownTool"
      [] ~(Required[Resolve(c.name)] \subseteq c.args) -> "MissingArgument"
      [] c.badEnum                                  -> "InvalidArgument"
      [] OTHER                                      -> "none"

-----------------------------------------------------------------------------
(* main() of claude_agent.py.                                              *)

(* client.connect(...): raises RpcError (bad token, server unreachable). *)
Connect ==
    /\ pc = "connect"
    /\ \/ session' = "open" /\ pc' = "tools" /\ UNCHANGED error
       \/ Crash("RpcError") /\ UNCHANGED session
    /\ UNCHANGED <<messages, response, k, results, ops, turns>>

(* tools = dekode_tools(session); messages = [task].  dekode.tools is not *)
(* part of the sources: the registry call is taken to succeed.            *)
SetUpTools ==
    /\ pc = "tools"
    /\ pc' = "model"
    /\ messages' = <<[role |-> "user", uses |-> <<>>, results |-> <<>>]>>
    /\ UNCHANGED <<session, response, k, results, ops, turns, error>>

(* break, then the lines after the loop: print and session.close().       *)
Finish == pc' = "done" /\ session' = "closed"

(* anthropic.messages.create, the assistant message appended, and the     *)
(* break when the response has no tool_use.  The model stops calling      *)
(* tools after MaxTurns responses.                                         *)
CallModel ==
    /\ pc = "model"
    /\ \E n \in 0..MaxUses : \E calls \in [1..n -> ToolCalls], stop \in StopReasons(n) :
           LET uses == [j \in 1..n |-> [id |-> <<turns + 1, j>>, call |-> calls[j]]]
           IN /\ turns < MaxTurns
              /\ n > 0 => turns + 1 < MaxTurns
              /\ response' = [uses |-> uses, stop |-> stop]
              /\ messages' = Append(messages, [role |-> "assistant", uses |-> uses, results |-> <<>>])
              /\ turns' = turns + 1
              /\ IF n = 0 THEN Finish ELSE pc' = "dispatch" /\ UNCHANGED session
    /\ k' = 1 /\ results' = <<>>
    /\ UNCHANGED <<ops, error>>

(* The API call itself raises (network, rate limit, overload).            *)
ModelFails ==
    /\ pc = "model"
    /\ Crash("APIError")
    /\ UNCHANGED <<session, messages, response, k, results, ops, turns>>

(* Variant: session.close() indented into the loop, after the results.    *)
SendResultsClosing(res) ==
    /\ messages' = Append(messages, [role |-> "user", uses |-> <<>>, results |-> res])
    /\ IF response.stop = "end_turn" THEN Finish ELSE pc' = "model" /\ session' = "closed"

(* The last block answered: send the tool results; stop at end_turn.      *)
SendResults(res) ==
    /\ messages' = Append(messages, [role |-> "user", uses |-> <<>>, results |-> res])
    /\ IF response.stop = "end_turn" THEN Finish ELSE pc' = "model" /\ UNCHANGED session

(* The k-th block answered: its tool_result appended; after the last one  *)
(* the results are sent.                                                   *)
AdvancePastEnd(b) ==
    /\ results' = Append(results, b)
    /\ k' = k + 1
    /\ UNCHANGED <<messages, pc, session>>

AdvanceCutShort(b) ==
    /\ results' = Append(results, b)
    /\ IF k >= Len(response.uses) - 1 THEN SendResults(results') /\ UNCHANGED k
       ELSE k' = k + 1 /\ UNCHANGED <<messages, pc, session>>

Advance(b) ==
    /\ results' = Append(results, b)
    /\ IF k = Len(response.uses) THEN SendResults(results') /\ UNCHANGED k
       ELSE k' = k + 1 /\ UNCHANGED <<messages, pc, session>>

(* dispatch_tool(session, block.name, block.input) for the k-th block.    *)
(* Nothing catches an exception: it propagates out of main().              *)
Dispatch ==
    LET b == response.uses[k]
    IN /\ pc = "dispatch"
       /\ \/ /\ Rejection(b.call) # "none"
             /\ Crash(Rejection(b.call))
             /\ UNCHANGED <<ops, results, messages, session, k>>
          \/ /\ Rejection(b.call) = "none"
             /\ ops' = Append(ops, [block |-> b, op |-> OpOf[Resolve(b.call.name)]])
             /\ \/ Crash("RpcError") /\ UNCHANGED <<results, messages, session, k>>
                \/ Advance(b) /\ UNCHANGED error
       /\ UNCHANGED <<response, turns>>

Next == Connect \/ SetUpTools \/ CallModel \/ ModelFails \/ Dispatch

Spec == Init /\ [][Next]_vars

-----------------------------------------------------------------------------
(* Properties.                                                             *)

(* Whenever the loop calls the model, the transcript alternates user and  *)
(* assistant starting with the task, and each assistant message that used *)
(* tools is followed at once by a user message answering exactly its      *)
(* tool_use blocks, in order: the Messages API rejects any other history.  *)
TranscriptWellFormed ==
    pc = "model" =>
        /\ Len(messages) % 2 = 1
        /\ \A m \in 1..Len(messages) :
              messages[m].role = IF m % 2 = 1 THEN "user" ELSE "assistant"
        /\ \A m \in 1..Len(messages) - 1 : messages[m + 1].results = messages[m].uses

(* dispatch_tool issues a session operation only on the session main()    *)
(* connected and has not closed yet, one operation per tool call, and the  *)
(* operations issued before are never rewritten.                           *)
OpOnOpenSession ==
    ops' # ops =>
        /\ session = "open"
        /\ Len(ops') = Len(ops) + 1
        /\ \A o \in 1..Len(ops) : ops'[o] = ops[o]
SessionOpsOnOpen == [][OpOnOpenSession]_vars

(* When main() has ended, normally or by an exception, the session it     *)
(* opened is closed (spec 7: the loop catches dispatch errors and feeds    *)
(* them back; the session is closed on the way out).                       *)
SessionClosedAtExit ==
    pc \in {"done", "crashed"} => session # "open"

=============================================================================
