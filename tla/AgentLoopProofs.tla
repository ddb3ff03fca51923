---------------------------- MODULE AgentLoopProofs ----------------------------
(***************************************************************************)
(* Proofs about the agent loop of claude_agent.py: its type invariant,     *)
(* the well-formedness of the transcript it sends to the model, and that   *)
(* session operations are issued only on the open session and never       *)
(* rewritten.                                                              *)
(***************************************************************************)
EXTENDS AgentLoop, SequenceTheorems, TLAPS

(* The response of the model in hand: at most MaxUses tool_use blocks,     *)
(* numbered in order, all of the turn just received.                       *)
ResponseShape ==
    /\ Len(response.uses) <= MaxUses
    /\ \A j \in 1..Len(response.uses) : response.uses[j].id = <<turns, j>>

(* The session operations issued so far belong to past or current turns,  *)
(* and while a response is being dispatched, the ones of its turn answer   *)
(* the blocks before the k-th.  The results gathered for the response all  *)
(* come from issued operations.                                            *)
OpsOrdered ==
    /\ \A o \in 1..Len(ops) : ops[o].block.id[1] <= turns
    /\ pc = "dispatch" =>
          \A o \in 1..Len(ops) : ops[o].block.id[1] = turns => ops[o].block.id[2] < k
    /\ \A j \in 1..Len(results) : \E o \in 1..Len(ops) : ops[o].block = results[j]

(* The transcript alternates user and assistant from the task on, user     *)
(* messages carry no tool_use, each message answers exactly the tool_use   *)
(* of the one before; while a response is dispatched the transcript ends  *)
(* with it and the results gathered are its first k-1 blocks.              *)
TranscriptInv ==
    /\ pc \in {"connect", "tools"} => messages = <<>>
    /\ \A m \in 1..Len(messages) :
          /\ messages[m].role = IF m % 2 = 1 THEN "user" ELSE "assistant"
          /\ messages[m].role = "user" => messages[m].uses = <<>>
    /\ \A m \in 1..Len(messages) - 1 : messages[m + 1].results = messages[m].uses
    /\ pc \in {"model", "dispatch"} =>
          /\ Len(messages) >= 1
          /\ Len(messages) % 2 = IF pc = "model" THEN 1 ELSE 0
    /\ pc = "dispatch" =>
          /\ messages[Len(messages)].uses = response.uses
          /\ Len(results) = k - 1
          /\ \A j \in 1..k - 1 : results[j] = response.uses[j]

(* Part of the invariant: every tool_result the model has been sent came *)
(* from exactly one session operation, issued for that very block and the *)
(* one its name, or its legacy alias, designates; a call dispatch_tool    *)
(* rejects never reaches the session (spec 4.2 steps 2-5, 7).              *)
DispatchFaithful ==
    /\ \A o \in 1..Len(ops) :
          /\ Rejection(ops[o].block.call) = "none"
          /\ ops[o].op = OpOf[Resolve(ops[o].block.call.name)]
    /\ \A o1, o2 \in 1..Len(ops) : o1 # o2 => ops[o1].block.id # ops[o2].block.id
    /\ \A m \in 1..Len(messages) : \A j \in 1..Len(messages[m].results) :
          \E o \in 1..Len(ops) : ops[o].block = messages[m].results[j]

(* The inductive invariant of the loop.                                    *)
AgentInv ==
    /\ TypeOK
    /\ ResponseShape
    /\ OpsOrdered
    /\ TranscriptInv
    /\ DispatchFaithful

-----------------------------------------------------------------------------
(* A session operation as ops records it.                                  *)
OpRecord == [block : Block, op : {OpOf[n] : n \in Canonical}]

(* A call dispatch_tool accepts has a canonical name once resolved.       *)
LEMMA RejectionNone ==
    ASSUME NEW c, Rejection(c) = "none"
    PROVE  Resolve(c.name) \in Canonical
BY DEF Rejection

(* What dispatch_tool can raise before any session call.                   *)
LEMMA RejectionValues ==
    ASSUME NEW c
    PROVE  Rejection(c) \in {"UnknownTool", "MissingArgument", "InvalidArgument", "none"}
BY DEF Rejection

(* The loop starts in a state of the invariant.                           *)
LEMMA InitAgentInv == Init => AgentInv
BY AgentAssumption
   DEF Init, AgentInv, TypeOK, ResponseShape, OpsOrdered, TranscriptInv,
       DispatchFaithful

(* The steps that do not touch the transcript's contents.                 *)
LEMMA ConnectStep == AgentInv /\ Connect => AgentInv'
BY DEF AgentInv, TypeOK, ResponseShape, OpsOrdered, TranscriptInv,
       DispatchFaithful, Connect, Crash

LEMMA SetUpToolsStep == AgentInv /\ SetUpTools => AgentInv'
<1> SUFFICES ASSUME AgentInv, SetUpTools PROVE AgentInv'
    OBVIOUS
<1> DEFINE task == [role |-> "user", uses |-> <<>>, results |-> <<>>]
<1>1. task \in Message
    BY EmptySeq DEF Message
<1>2. TypeOK'
    BY <1>1 DEF AgentInv, TypeOK, SetUpTools
<1>3. ResponseShape' /\ OpsOrdered' /\ DispatchFaithful'
    BY DEF AgentInv, ResponseShape, OpsOrdered, DispatchFaithful, SetUpTools
<1>4. TranscriptInv'
    BY DEF TranscriptInv, SetUpTools
<1> QED BY <1>2, <1>3, <1>4 DEF AgentInv

LEMMA ModelFailsStep == AgentInv /\ ModelFails => AgentInv'
<1> SUFFICES ASSUME AgentInv, ModelFails PROVE AgentInv'
    OBVIOUS
<1>1. TypeOK'
    BY DEF AgentInv, TypeOK, ModelFails, Crash
<1>2. ResponseShape' /\ OpsOrdered' /\ DispatchFaithful'
    BY DEF AgentInv, ResponseShape, OpsOrdered, DispatchFaithful, ModelFails, Crash
<1>3. TranscriptInv'
    BY DEF AgentInv, TranscriptInv, ModelFails, Crash
<1> QED BY <1>1, <1>2, <1>3 DEF AgentInv

(* The tool_use blocks of a response with n of them, received at turn     *)
(* turns + 1: the value CallModel gives response.uses.                    *)
Turn(n, calls) == [j \in 1..n |-> [id |-> <<turns + 1, j>>, call |-> calls[j]]]

(* anthropic.messages.create: the new response is recorded in the         *)
(* transcript as an assistant message at an even position, answering      *)
(* nothing, and a response with tool_use starts its dispatch at block 1.  *)
LEMMA CallModelStep == AgentInv /\ CallModel => AgentInv'
<1> SUFFICES ASSUME AgentInv, CallModel PROVE AgentInv'
    OBVIOUS
<1> USE AgentAssumption
<1>1. PICK n \in 0..MaxUses :
        \E calls \in [1..n -> ToolCalls], stop \in StopReasons(n) :
           /\ turns < MaxTurns
           /\ n > 0 => turns + 1 < MaxTurns
           /\ response' = [uses |-> Turn(n, calls), stop |-> stop]
           /\ messages' = Append(messages, [role |-> "assistant", uses |-> Turn(n, calls),
                                            results |-> <<>>])
           /\ turns' = turns + 1
           /\ IF n = 0 THEN Finish ELSE pc' = "dispatch" /\ UNCHANGED session
    BY DEF CallModel, Turn
<1>2. PICK calls \in [1..n -> ToolCalls], stop \in StopReasons(n) :
           /\ turns < MaxTurns
           /\ n > 0 => turns + 1 < MaxTurns
           /\ response' = [uses |-> Turn(n, calls), stop |-> stop]
           /\ messages' = Append(messages, [role |-> "assistant", uses |-> Turn(n, calls),
                                            results |-> <<>>])
           /\ turns' = turns + 1
           /\ IF n = 0 THEN Finish ELSE pc' = "dispatch" /\ UNCHANGED session
    BY <1>1
<1> DEFINE uses == Turn(n, calls)
           am == [role |-> "assistant", uses |-> uses, results |-> <<>>]
<1>3. /\ pc = "model"
      /\ k' = 1 /\ results' = <<>> /\ UNCHANGED <<ops, error>>
      /\ pc' \in {"done", "dispatch"}
      /\ pc' = "dispatch" => n > 0
    BY <1>2 DEF CallModel, Finish
<1>4. /\ uses \in Seq(Block)
      /\ Len(uses) = n
      /\ \A j \in 1..n : uses[j].id = <<turns + 1, j>>
    <2>1. turns \in 0..MaxTurns
        BY DEF AgentInv, TypeOK
    <2>2. \A j \in 1..n : uses[j] \in Block
        BY <1>2, <2>1 DEF Turn, Block
    <2> QED BY <2>2 DEF Turn
<1>5. am \in Message
    BY <1>4, EmptySeq DEF Message
<1>6. /\ messages \in Seq(Message)
      /\ messages' \in Seq(Message)
      /\ Len(messages') = Len(messages) + 1
      /\ \A i \in 1..Len(messages) : messages'[i] = messages[i]
      /\ messages'[Len(messages) + 1] = am
    BY <1>2, <1>5, AppendProperties DEF AgentInv, TypeOK
<1>7. TypeOK'
    <2>1. turns \in 0..MaxTurns /\ turns < MaxTurns
        BY <1>2 DEF AgentInv, TypeOK
    <2>2. turns' \in 0..MaxTurns
        BY <1>2, <2>1
    <2>3. response' \in [uses : Seq(Block), stop : {"none", "tool_use", "end_turn", "max_tokens"}]
        BY <1>2, <1>4 DEF StopReasons
    <2>4. k' \in 1..MaxUses /\ (pc' = "dispatch" => k' <= Len(response'.uses))
        BY <1>2, <1>3, <1>4
    <2>5. pc' \in {"connect", "tools", "model", "dispatch", "done", "crashed"}
          /\ session' \in {"none", "open", "closed"}
        BY <1>2, <1>3 DEF AgentInv, TypeOK, Finish
    <2> QED
        BY <1>3, <1>6, <2>2, <2>3, <2>4, <2>5, EmptySeq DEF AgentInv, TypeOK
<1>8. ResponseShape'
    BY <1>2, <1>4 DEF ResponseShape
<1>9. OpsOrdered'
    <2>1. turns \in Nat /\ turns' = turns + 1
        BY <1>2 DEF AgentInv, TypeOK
    <2>2. \A o \in 1..Len(ops) : ops[o].block.id[1] <= turns
        BY DEF AgentInv, OpsOrdered
    <2>3. \A o \in 1..Len(ops') : ops'[o].block.id[1] <= turns' /\ ops'[o].block.id[1] # turns'
        <3>1. ASSUME NEW o \in 1..Len(ops) PROVE ops[o].block.id[1] \in Nat
            <4>1. ops[o].block \in Block
                <5>1. ops \in Seq(OpRecord)
                    BY DEF AgentInv, TypeOK, OpRecord
                <5>2. ops[o] \in OpRecord
                    BY <5>1, ElementOfSeq
                <5> QED BY <5>2 DEF OpRecord
            <4> QED BY <4>1 DEF Block
        <3> QED BY <1>3, <2>1, <2>2, <3>1
    <2>4. Len(results') = 0
        BY <1>3, EmptySeq
    <2> QED BY <2>3, <2>4 DEF OpsOrdered
<1>10. TranscriptInv'
    <2>1. Len(messages) % 2 = 1 /\ Len(messages) >= 1 /\ Len(messages) \in Nat
        BY <1>3, <1>6 DEF AgentInv, TranscriptInv
    <2>2. messages[Len(messages)].role = "user"
        <3>1. Len(messages) \in 1..Len(messages)
            BY <2>1
        <3>2. messages[Len(messages)].role
                 = IF Len(messages) % 2 = 1 THEN "user" ELSE "assistant"
            BY <3>1 DEF AgentInv, TranscriptInv
        <3> QED BY <3>2, <2>1
    <2>3. messages[Len(messages)].uses = <<>>
        <3>1. Len(messages) \in 1..Len(messages)
            BY <2>1
        <3>2. messages[Len(messages)].role = "user" => messages[Len(messages)].uses = <<>>
            BY <3>1 DEF AgentInv, TranscriptInv
        <3> QED BY <2>2, <3>2
    <2>4. \A m \in 1..Len(messages') :
             /\ messages'[m].role = IF m % 2 = 1 THEN "user" ELSE "assistant"
             /\ messages'[m].role = "user" => messages'[m].uses = <<>>
        <3> SUFFICES ASSUME NEW m \in 1..Len(messages')
                     PROVE  /\ messages'[m].role = IF m % 2 = 1 THEN "user" ELSE "assistant"
                            /\ messages'[m].role = "user" => messages'[m].uses = <<>>
            OBVIOUS
        <3>1. CASE m \in 1..Len(messages)
            BY <1>6, <3>1 DEF AgentInv, TranscriptInv
        <3>2. CASE m = Len(messages) + 1
            <4>1. m % 2 = 0
                BY <2>1, <3>2
            <4> QED BY <1>6, <3>2, <4>1
        <3> QED BY <1>6, <2>1, <3>1, <3>2
    <2>5. \A m \in 1..Len(messages') - 1 : messages'[m + 1].results = messages'[m].uses
        <3> SUFFICES ASSUME NEW m \in 1..Len(messages') - 1
                     PROVE  messages'[m + 1].results = messages'[m].uses
            OBVIOUS
        <3>1. CASE m \in 1..Len(messages) - 1
            <4>1. messages[m + 1].results = messages[m].uses
                BY <3>1 DEF AgentInv, TranscriptInv
            <4>2. m \in 1..Len(messages) /\ m + 1 \in 1..Len(messages)
                BY <2>1, <3>1
            <4>3. messages'[m] = messages[m] /\ messages'[m + 1] = messages[m + 1]
                BY <1>6, <4>2
            <4> QED BY <4>1, <4>3
        <3>2. CASE m = Len(messages)
            BY <1>6, <2>1, <2>3, <3>2
        <3> QED BY <1>6, <2>1, <3>1, <3>2
    <2>6. pc' \in {"model", "dispatch"} =>
             /\ Len(messages') >= 1
             /\ Len(messages') % 2 = IF pc' = "model" THEN 1 ELSE 0
        BY <1>3, <1>6, <2>1
    <2>7. pc' = "dispatch" =>
             /\ messages'[Len(messages')].uses = response'.uses
             /\ Len(results') = k' - 1
             /\ \A j \in 1..k' - 1 : results'[j] = response'.uses[j]
        BY <1>2, <1>3, <1>6, EmptySeq
    <2> QED BY <1>3, <2>4, <2>5, <2>6, <2>7 DEF TranscriptInv
<1>11. DispatchFaithful'
    <2>1. /\ \A o \in 1..Len(ops') :
                /\ Rejection(ops'[o].block.call) = "none"
                /\ ops'[o].op = OpOf[Resolve(ops'[o].block.call.name)]
          /\ \A o1, o2 \in 1..Len(ops') : o1 # o2 => ops'[o1].block.id # ops'[o2].block.id
        BY <1>3 DEF AgentInv, DispatchFaithful
    <2>2. \A m \in 1..Len(messages') : \A j \in 1..Len(messages'[m].results) :
             \E o \in 1..Len(ops') : ops'[o].block = messages'[m].results[j]
        <3> SUFFICES ASSUME NEW m \in 1..Len(messages'),
                            NEW j \in 1..Len(messages'[m].results)
                     PROVE  \E o \in 1..Len(ops') : ops'[o].block = messages'[m].results[j]
            OBVIOUS
        <3>1. Len(messages) \in Nat
            BY <1>6, LenProperties
        <3>2. CASE m \in 1..Len(messages)
            <4>1. messages'[m] = messages[m]
                BY <1>6, <3>2
            <4> QED BY <1>3, <3>2, <4>1 DEF AgentInv, DispatchFaithful
        <3>3. CASE m = Len(messages) + 1
            BY <1>6, <3>3, EmptySeq
        <3> QED BY <1>6, <3>1, <3>2, <3>3
    <2> QED BY <2>1, <2>2 DEF DispatchFaithful
<1> QED BY <1>7, <1>8, <1>9, <1>10, <1>11 DEF AgentInv

(* dispatch_tool on the k-th block: a rejected call crashes main() with   *)
(* nothing sent; an accepted one issues its session operation, whose id   *)
(* <<turns, k>> no earlier operation has; then either the transport error *)
(* propagates, or the result joins the ones gathered, and after the last  *)
(* block they are sent as the user message answering the response.        *)
LEMMA DispatchStep == AgentInv /\ Dispatch => AgentInv'
<1> SUFFICES ASSUME AgentInv, Dispatch PROVE AgentInv'
    OBVIOUS
<1> USE AgentAssumption
<1> DEFINE b == response.uses[k]
           rec == [block |-> b, op |-> OpOf[Resolve(b.call.name)]]
<1>1. /\ pc = "dispatch"
      /\ k \in 1..Len(response.uses)
      /\ UNCHANGED <<response, turns>>
    BY DEF Dispatch, AgentInv, TypeOK
<1>2. b \in Block /\ b.id = <<turns, k>>
    <2>1. response.uses \in Seq(Block)
        BY DEF AgentInv, TypeOK
    <2> QED BY <1>1, <2>1, ElementOfSeq DEF AgentInv, ResponseShape
<1>3. CASE Rejection(b.call) # "none"
    <2>1. pc' = "crashed" /\ error' = Rejection(b.call)
          /\ UNCHANGED <<ops, results, messages, session, k, response, turns>>
        BY <1>3 DEF Dispatch, Crash
    <2>2. TypeOK'
        BY <2>1, RejectionValues DEF AgentInv, TypeOK
    <2> QED
        BY <2>1, <2>2 DEF AgentInv, ResponseShape, OpsOrdered, TranscriptInv,
                         DispatchFaithful
<1>4. CASE Rejection(b.call) = "none"
    <2>1. ops' = Append(ops, rec)
        BY <1>4 DEF Dispatch
    <2>2. rec \in OpRecord
        BY <1>2, <1>4, RejectionNone DEF OpRecord
    <2>3. /\ ops \in Seq(OpRecord)
          /\ ops' \in Seq(OpRecord)
          /\ Len(ops') = Len(ops) + 1
          /\ \A o \in 1..Len(ops) : ops'[o] = ops[o]
          /\ ops'[Len(ops) + 1] = rec
        BY <2>1, <2>2, AppendProperties DEF AgentInv, TypeOK, OpRecord
    <2>4. \A o \in 1..Len(ops') :
             /\ Rejection(ops'[o].block.call) = "none"
             /\ ops'[o].op = OpOf[Resolve(ops'[o].block.call.name)]
        <3> SUFFICES ASSUME NEW o \in 1..Len(ops')
                     PROVE  /\ Rejection(ops'[o].block.call) = "none"
                            /\ ops'[o].op = OpOf[Resolve(ops'[o].block.call.name)]
            OBVIOUS
        <3>1. CASE o \in 1..Len(ops)
            BY <2>3, <3>1 DEF AgentInv, DispatchFaithful
        <3>2. CASE o = Len(ops) + 1
            BY <1>4, <2>3, <3>2
        <3> QED BY <2>3, <3>1, <3>2 DEF OpRecord
    <2>5. \A o1, o2 \in 1..Len(ops') : o1 # o2 => ops'[o1].block.id # ops'[o2].block.id
        <3>1. ASSUME NEW o \in 1..Len(ops) PROVE ops[o].block.id # b.id
            <4>1. ops[o].block.id[1] = turns => ops[o].block.id[2] < k
                BY <1>1 DEF AgentInv, OpsOrdered
            <4>2. ops[o].block \in Block
                <5>1. ops[o] \in OpRecord
                    BY <2>3, ElementOfSeq
                <5> QED BY <5>1 DEF OpRecord
            <4> QED BY <1>1, <1>2, <4>1, <4>2 DEF Block
        <3>2. Len(ops) \in Nat
            BY <2>3, LenProperties
        <3> SUFFICES ASSUME NEW o1 \in 1..Len(ops'), NEW o2 \in 1..Len(ops'), o1 # o2
                     PROVE  ops'[o1].block.id # ops'[o2].block.id
            OBVIOUS
        <3>3. CASE o1 \in 1..Len(ops) /\ o2 \in 1..Len(ops)
            BY <2>3, <3>3 DEF AgentInv, DispatchFaithful
        <3>4. CASE o1 \in 1..Len(ops) /\ o2 = Len(ops) + 1
            BY <2>3, <3>1, <3>4
        <3>5. CASE o1 = Len(ops) + 1 /\ o2 \in 1..Len(ops)
            BY <2>3, <3>1, <3>5
        <3> QED BY <2>3, <3>2, <3>3, <3>4, <3>5
    <2>6. \A o \in 1..Len(ops') : ops'[o].block.id[1] <= turns'
        <3> SUFFICES ASSUME NEW o \in 1..Len(ops') PROVE ops'[o].block.id[1] <= turns'
            OBVIOUS
        <3>1. Len(ops) \in Nat /\ turns \in Nat
            BY <2>3, LenProperties DEF AgentInv, TypeOK
        <3>2. CASE o \in 1..Len(ops)
            <4>1. ops[o].block.id[1] <= turns
                BY <3>2 DEF AgentInv, OpsOrdered
            <4> QED BY <1>1, <2>3, <3>2, <4>1
        <3>3. CASE o = Len(ops) + 1
            BY <1>1, <1>2, <2>3, <3>1, <3>3
        <3> QED BY <2>3, <3>1, <3>2, <3>3
    <2>7. \A j \in 1..Len(results) : \E o \in 1..Len(ops') : ops'[o].block = results[j]
        <3> SUFFICES ASSUME NEW j \in 1..Len(results)
                     PROVE  \E o \in 1..Len(ops') : ops'[o].block = results[j]
            OBVIOUS
        <3>1. PICK o \in 1..Len(ops) : ops[o].block = results[j]
            BY DEF AgentInv, OpsOrdered
        <3>2. Len(ops) \in Nat
            BY <2>3, LenProperties
        <3> QED BY <2>3, <3>1, <3>2
    <2>8. \A m \in 1..Len(messages) : \A j \in 1..Len(messages[m].results) :
             \E o \in 1..Len(ops') : ops'[o].block = messages[m].results[j]
        <3> SUFFICES ASSUME NEW m \in 1..Len(messages), NEW j \in 1..Len(messages[m].results)
                     PROVE  \E o \in 1..Len(ops') : ops'[o].block = messages[m].results[j]
            OBVIOUS
        <3>1. PICK o \in 1..Len(ops) : ops[o].block = messages[m].results[j]
            BY DEF AgentInv, DispatchFaithful
        <3> QED BY <2>3, <3>1 DEF AgentInv, TypeOK
    <2>9. CASE Crash("RpcError") /\ UNCHANGED <<results, messages, session, k>>
        <3>1. pc' = "crashed" /\ error' = "RpcError"
            BY <2>9 DEF Crash
        <3>2. TypeOK'
            BY <1>1, <2>3, <2>9, <3>1 DEF AgentInv, TypeOK, OpRecord
        <3>3. ResponseShape'
            BY <1>1 DEF AgentInv, ResponseShape
        <3>4. OpsOrdered'
            BY <2>6, <2>7, <2>9, <3>1 DEF OpsOrdered
        <3>5. TranscriptInv'
            BY <2>9, <3>1 DEF AgentInv, TranscriptInv
        <3>6. DispatchFaithful'
            BY <2>4, <2>5, <2>8, <2>9 DEF DispatchFaithful
        <3> QED BY <3>2, <3>3, <3>4, <3>5, <3>6 DEF AgentInv
    <2>10. CASE Advance(b) /\ UNCHANGED error
        <3>1. /\ results \in Seq(Block)
              /\ results' = Append(results, b)
              /\ results' \in Seq(Block)
              /\ Len(results') = k
              /\ \A j \in 1..k : results'[j] = response.uses[j]
            <4>1. results \in Seq(Block) /\ Len(results) = k - 1
                  /\ \A j \in 1..k - 1 : results[j] = response.uses[j]
                BY <1>1 DEF AgentInv, TypeOK, TranscriptInv
            <4>2. results' = Append(results, b)
                BY <2>10 DEF Advance
            <4> QED BY <1>1, <1>2, <4>1, <4>2, AppendProperties
        <3>2. \A j \in 1..Len(results') : \E o \in 1..Len(ops') : ops'[o].block = results'[j]
            <4> SUFFICES ASSUME NEW j \in 1..Len(results')
                         PROVE  \E o \in 1..Len(ops') : ops'[o].block = results'[j]
                OBVIOUS
            <4>1. Len(ops) \in Nat /\ Len(results) = k - 1
                BY <1>1, <2>3, LenProperties DEF AgentInv, TranscriptInv
            <4>2. CASE j \in 1..Len(results)
                <5>1. results'[j] = results[j]
                    BY <3>1, <4>2, AppendProperties
                <5>2. \E o \in 1..Len(ops') : ops'[o].block = results[j]
                    BY <2>7, <4>2
                <5> QED BY <5>1, <5>2
            <4>3. CASE j = k
                BY <2>3, <3>1, <4>1, <4>3
            <4> QED BY <1>1, <3>1, <4>1, <4>2, <4>3
        <3>3. CASE k = Len(response.uses)
            <4> DEFINE um == [role |-> "user", uses |-> <<>>, results |-> results']
            <4>1. results' = response.uses
                BY <1>1, <3>1, <3>3, SeqEqual DEF AgentInv, TypeOK
            <4>2. /\ messages' = Append(messages, um)
                  /\ pc' \in {"done", "model"}
                  /\ session' \in {"none", "open", "closed"}
                  /\ k' = k
                <5>1. SendResults(results') /\ k' = k
                    BY <2>10, <3>3 DEF Advance
                <5>2. messages' = Append(messages, um)
                    BY <5>1 DEF SendResults
                <5>3. pc' \in {"done", "model"} /\ session' \in {"none", "open", "closed"}
                    BY <5>1 DEF SendResults, Finish, AgentInv, TypeOK
                <5> QED BY <5>1, <5>2, <5>3
            <4>3. um \in Message
                BY <3>1, EmptySeq DEF Message
            <4>4. /\ messages \in Seq(Message)
                  /\ messages' \in Seq(Message)
                  /\ Len(messages') = Len(messages) + 1
                  /\ \A i \in 1..Len(messages) : messages'[i] = messages[i]
                  /\ messages'[Len(messages) + 1] = um
                BY <4>2, <4>3, AppendProperties DEF AgentInv, TypeOK
            <4>5. Len(messages) % 2 = 0 /\ Len(messages) >= 1 /\ Len(messages) \in Nat
                  /\ messages[Len(messages)].uses = response.uses
                <5>1. Len(messages) \in Nat
                    BY <4>4, LenProperties
                <5>2. Len(messages) % 2 = 0 /\ Len(messages) >= 1
                    BY <1>1 DEF AgentInv, TranscriptInv
                <5>3. messages[Len(messages)].uses = response.uses
                    BY <1>1 DEF AgentInv, TranscriptInv
                <5> QED BY <5>1, <5>2, <5>3
            <4>6. TypeOK'
                BY <1>1, <2>3, <2>10, <3>1, <4>2, <4>4 DEF AgentInv, TypeOK, OpRecord
            <4>7. ResponseShape'
                BY <1>1 DEF AgentInv, ResponseShape
            <4>8. OpsOrdered'
                BY <2>6, <3>2, <4>2 DEF OpsOrdered
            <4>9. TranscriptInv'
                <5>1. \A m \in 1..Len(messages') :
                         /\ messages'[m].role = IF m % 2 = 1 THEN "user" ELSE "assistant"
                         /\ messages'[m].role = "user" => messages'[m].uses = <<>>
                    <6> SUFFICES ASSUME NEW m \in 1..Len(messages')
                                 PROVE  /\ messages'[m].role = IF m % 2 = 1 THEN "user" ELSE "assistant"
                                        /\ messages'[m].role = "user" => messages'[m].uses = <<>>
                        OBVIOUS
                    <6>1. CASE m \in 1..Len(messages)
                        BY <4>4, <6>1 DEF AgentInv, TranscriptInv
                    <6>2. CASE m = Len(messages) + 1
                        <7>1. m % 2 = 1
                            BY <4>5, <6>2
                        <7> QED BY <4>4, <6>2, <7>1
                    <6> QED BY <4>4, <4>5, <6>1, <6>2
                <5>2. \A m \in 1..Len(messages') - 1 : messages'[m + 1].results = messages'[m].uses
                    <6> SUFFICES ASSUME NEW m \in 1..Len(messages') - 1
                                 PROVE  messages'[m + 1].results = messages'[m].uses
                        OBVIOUS
                    <6>1. CASE m \in 1..Len(messages) - 1
                        <7>1. messages[m + 1].results = messages[m].uses
                            BY <6>1 DEF AgentInv, TranscriptInv
                        <7>2. m \in 1..Len(messages) /\ m + 1 \in 1..Len(messages)
                            BY <4>5, <6>1
                        <7>3. messages'[m] = messages[m] /\ messages'[m + 1] = messages[m + 1]
                            BY <4>4, <7>2
                        <7> QED BY <7>1, <7>3
                    <6>2. CASE m = Len(messages)
                        BY <4>1, <4>4, <4>5, <6>2
                    <6> QED BY <4>4, <4>5, <6>1, <6>2
                <5>3. pc' \in {"model", "dispatch"} =>
                         /\ Len(messages') >= 1
                         /\ Len(messages') % 2 = IF pc' = "model" THEN 1 ELSE 0
                    <6>1. (Len(messages) + 1) % 2 = 1
                        BY <4>5
                    <6> QED BY <4>2, <4>4, <4>5, <6>1
                <5> QED BY <4>2, <5>1, <5>2, <5>3 DEF TranscriptInv
            <4>10. DispatchFaithful'
                <5>1. \A m \in 1..Len(messages') : \A j \in 1..Len(messages'[m].results) :
                         \E o \in 1..Len(ops') : ops'[o].block = messages'[m].results[j]
                    <6> SUFFICES ASSUME NEW m \in 1..Len(messages'),
                                        NEW j \in 1..Len(messages'[m].results)
                                 PROVE  \E o \in 1..Len(ops') : ops'[o].block = messages'[m].results[j]
                        OBVIOUS
                    <6>1. CASE m \in 1..Len(messages)
                        <7>1. messages'[m] = messages[m]
                            BY <4>4, <6>1
                        <7>2. j \in 1..Len(messages[m].results)
                            BY <7>1
                        <7> QED BY <2>8, <6>1, <7>1, <7>2
                    <6>2. CASE m = Len(messages) + 1
                        <7>1. messages'[m].results = results'
                            BY <4>4, <6>2
                        <7> QED BY <3>2, <7>1
                    <6>3. m \in 1..Len(messages) \/ m = Len(messages) + 1
                        BY <4>4, <4>5
                    <6> QED BY <6>1, <6>2, <6>3
                <5> QED BY <2>4, <2>5, <5>1 DEF DispatchFaithful
            <4> QED BY <4>6, <4>7, <4>8, <4>9, <4>10 DEF AgentInv
        <3>4. CASE k # Len(response.uses)
            <4>1. k' = k + 1 /\ UNCHANGED <<messages, pc, session>>
                BY <2>10, <3>4 DEF Advance
            <4>2. k + 1 <= Len(response.uses) /\ Len(response.uses) <= MaxUses
                BY <1>1, <3>4 DEF AgentInv, ResponseShape
            <4>3. TypeOK'
                BY <1>1, <2>3, <2>10, <3>1, <4>1, <4>2 DEF AgentInv, TypeOK, OpRecord
            <4>4. ResponseShape'
                BY <1>1 DEF AgentInv, ResponseShape
            <4>5. OpsOrdered'
                <5>1. \A o \in 1..Len(ops') : ops'[o].block.id[1] = turns' => ops'[o].block.id[2] < k'
                    <6> SUFFICES ASSUME NEW o \in 1..Len(ops'), ops'[o].block.id[1] = turns'
                                 PROVE  ops'[o].block.id[2] < k'
                        OBVIOUS
                    <6>1. Len(ops) \in Nat
                        BY <2>3, LenProperties
                    <6>2. CASE o \in 1..Len(ops)
                        <7>1. ops[o].block \in Block
                            <8>1. ops[o] \in OpRecord
                                BY <2>3, <6>2, ElementOfSeq
                            <8> QED BY <8>1 DEF OpRecord
                        <7>2. ops[o].block.id[1] = turns => ops[o].block.id[2] < k
                            BY <1>1, <6>2 DEF AgentInv, OpsOrdered
                        <7>3. ops'[o] = ops[o]
                            BY <2>3, <6>2
                        <7> QED BY <1>1, <4>1, <7>1, <7>2, <7>3 DEF Block
                    <6>3. CASE o = Len(ops) + 1
                        BY <1>1, <1>2, <2>3, <4>1, <6>3
                    <6> QED BY <2>3, <6>1, <6>2, <6>3
                <5> QED BY <2>6, <3>2, <5>1 DEF OpsOrdered
            <4>6. TranscriptInv'
                BY <1>1, <3>1, <4>1 DEF AgentInv, TranscriptInv
            <4>7. DispatchFaithful'
                BY <2>4, <2>5, <2>8, <4>1 DEF DispatchFaithful
            <4> QED BY <4>3, <4>4, <4>5, <4>6, <4>7 DEF AgentInv
        <3> QED BY <3>3, <3>4
    <2> QED BY <1>4, <2>9, <2>10 DEF Dispatch
<1> QED BY <1>3, <1>4

LEMMA StutterStep == AgentInv /\ UNCHANGED vars => AgentInv'
<1> SUFFICES ASSUME AgentInv, UNCHANGED vars PROVE AgentInv'
    OBVIOUS
<1>1. /\ pc' = pc /\ session' = session /\ messages' = messages
      /\ response' = response /\ k' = k /\ results' = results
      /\ ops' = ops /\ turns' = turns /\ error' = error
    BY DEF vars
<1>2. TypeOK'
    BY <1>1 DEF AgentInv, TypeOK
<1>3. ResponseShape' /\ OpsOrdered'
    BY <1>1 DEF AgentInv, ResponseShape, OpsOrdered
<1>4. TranscriptInv'
    BY <1>1 DEF AgentInv, TranscriptInv
<1>5. DispatchFaithful'
    BY <1>1 DEF AgentInv, DispatchFaithful
<1> QED BY <1>2, <1>3, <1>4, <1>5 DEF AgentInv

(* Every step of main() keeps the invariant.                               *)
LEMMA NextAgentInv == AgentInv /\ [Next]_vars => AgentInv'
BY ConnectStep, SetUpToolsStep, CallModelStep, ModelFailsStep, DispatchStep,
   StutterStep DEF Next

(* In every reachable state of main(): the response being dispatched has   *)
(* at most MaxUses blocks numbered in order, the session operations issued *)
(* so far belong to past turns or to the blocks already dispatched, the   *)
(* transcript is well formed and the gathered results are the response's  *)
(* first k-1 blocks, and every result sent came from one faithful          *)
(* operation.                                                              *)
LEMMA AgentInvInvariant == Spec => []AgentInv
BY InitAgentInv, NextAgentInv, PTL DEF Spec

-----------------------------------------------------------------------------
(* main() keeps its variables in their types: in particular the index k of *)
(* the next tool_use block to dispatch never runs past the response.       *)
THEOREM AgentTypeCorrect == Spec => []TypeOK
BY AgentInvInvariant, PTL DEF AgentInv

(* Every history the loop sends to messages.create alternates user and    *)
(* assistant from the task on, and answers each assistant message's        *)
(* tool_use blocks, all and in order, in the user message after it.        *)
THEOREM TranscriptWellFormedHolds == Spec => []TranscriptWellFormed
<1>1. AgentInv => TranscriptWellFormed
    BY DEF AgentInv, TranscriptInv, TranscriptWellFormed
<1> QED BY <1>1, AgentInvInvariant, PTL

-----------------------------------------------------------------------------
(* The session main() connected stays open from connect until the loop    *)
(* ends: session.close() is reached only on the way out.                   *)
SessionOpen == pc \in {"tools", "model", "dispatch"} => session = "open"

LEMMA SessionOpenInvariant == Spec => []SessionOpen
<1>1. Init => SessionOpen
    BY DEF Init, SessionOpen
<1>2. SessionOpen /\ [Next]_vars => SessionOpen'
    <2> SUFFICES ASSUME SessionOpen, [Next]_vars PROVE SessionOpen'
        OBVIOUS
    <2>1. CASE Connect
        BY <2>1 DEF Connect, Crash, SessionOpen
    <2>2. CASE SetUpTools
        BY <2>2 DEF SetUpTools, SessionOpen
    <2>3. CASE CallModel
        BY <2>3 DEF CallModel, Finish, SessionOpen
    <2>4. CASE ModelFails
        BY <2>4 DEF ModelFails, Crash, SessionOpen
    <2>5. CASE Dispatch
        BY <2>5 DEF Dispatch, Advance, SendResults, Finish, Crash, SessionOpen
    <2>6. CASE UNCHANGED vars
        BY <2>6 DEF vars, SessionOpen
    <2> QED BY <2>1, <2>2, <2>3, <2>4, <2>5, <2>6 DEF Next
<1> QED BY <1>1, <1>2, PTL DEF Spec

(* The only step that changes ops is an accepted dispatch_tool call, made  *)
(* while dispatching, hence on the open session; it appends one operation. *)
LEMMA OpStep == AgentInv /\ SessionOpen /\ [Next]_vars => [OpOnOpenSession]_vars
<1> SUFFICES ASSUME AgentInv, SessionOpen, [Next]_vars, ops' # ops
             PROVE  OpOnOpenSession
    BY DEF OpOnOpenSession
<1>1. Dispatch /\ Rejection(response.uses[k].call) = "none"
    <2>1. ~Connect /\ ~SetUpTools /\ ~CallModel /\ ~ModelFails /\ ~UNCHANGED vars
        BY DEF Connect, SetUpTools, CallModel, ModelFails, vars
    <2>2. Dispatch
        BY <2>1 DEF Next
    <2> QED BY <2>2 DEF Dispatch
<1> DEFINE b == response.uses[k]
           rec == [block |-> b, op |-> OpOf[Resolve(b.call.name)]]
<1>2. pc = "dispatch" /\ ops' = Append(ops, rec)
    BY <1>1 DEF Dispatch
<1>3. session = "open"
    BY <1>2 DEF SessionOpen
<1>4. rec \in OpRecord
    <2>1. response.uses \in Seq(Block) /\ k \in 1..Len(response.uses)
        BY <1>2 DEF AgentInv, TypeOK
    <2>2. b \in Block
        BY <2>1, ElementOfSeq
    <2> QED BY <1>1, <2>2, RejectionNone DEF OpRecord
<1>5. ops \in Seq(OpRecord)
    BY DEF AgentInv, TypeOK, OpRecord
<1> QED BY <1>2, <1>3, <1>4, <1>5, AppendProperties DEF OpOnOpenSession

(* dispatch_tool only ever calls the session main() connected and has not *)
(* closed, one operation per accepted tool call, appended to those before *)
(* (the action property TLC checks as SessionOpsOnOpen).                   *)
THEOREM SessionOpsOnOpenHolds == Spec => SessionOpsOnOpen
BY AgentInvInvariant, SessionOpenInvariant, OpStep, PTL DEF Spec, SessionOpsOnOpen

=============================================================================
