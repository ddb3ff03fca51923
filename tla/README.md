# Formal model of the Dekode Python SDK

TLA+ modules, TLC runs and TLAPS proofs for the Python SDK of the Dekode
Agent Protocol (`src/sdk/python`). This file explains what is modelled, what
the runs check, and what is proved.

## 1. The system and its parts

| Part | Source | State | Operations |
|---|---|---|---|
| `DekodeClient` | `dekode/client.py` | address, agent id, auth token (immutable) | `connect()`: opens a gRPC channel (l.63), then blocks on the `Connect` RPC (l.71), then builds a `DekodeSession` (l.72-77) |
| `DekodeSession` | `dekode/session.py` | `_channel`, `_stub`, `session_id`, cached `codebase_version` and `summary` (l.38-49) | `context`, `submit`, `file_read`, `file_write`, `session_status`: each one blocking stub call, none with a timeout (l.89, 112, 123, 139, 155). `close`/`__exit__` close the channel (l.167-175). |
| gRPC channel / transport | grpc runtime | open/closed channel, calls in flight | delivers or loses requests; a call ends with the answer, `CANCELLED` (channel closed under it), `UNAVAILABLE` (connection failed), or `ValueError` (RPC on a closed channel) |
| Mock server | `tests/conftest.py` (`FakeAgentServicer`) | fixed mock session `mock-session-1` | `Connect` rejects a bad token with `UNAUTHENTICATED` (l.133-134). `Context` and `Submit` reject any other session id with `NOT_FOUND` (l.154-155, 198-199). The RPCs it does not override answer `UNIMPLEMENTED`. |
| Conversions | `dekode/models.py` | none (pure) | enum maps (l.53-76), `from_proto`/`to_proto` |
| Tool router | `dekode/tools.py` (not among the sources; described by `spec.md` §4) | none | descriptor registry, `dispatch_tool`: alias resolution, argument validation, one session call |
| Example agent | `examples/claude_agent.py` | message list, session | connect, then loop: model call, then dispatch each `tool_use`; break on `end_turn`/no tools; `session.close()` only on normal exit |

How they interact: a caller (possibly several threads) builds a client and
connects. The session sends requests carrying the `session_id` over the
channel to the server. The SDK holds no lock and never retries, and gRPC
channels are thread-safe. So one `DekodeSession` can be used from several
threads while one of them closes it. A test may also build a
`DekodeSession` by hand over a channel it opened itself
(`test_session_context_invalid_session`); the model allows any number of
these over one channel.

What makes this hard to test:
- `close()` racing an RPC in flight;
- a request that the server executed but whose answer was lost or cancelled;
- a `Connect` that fails after its channel was created;
- calls with no timeout;
- an exception in the agent loop's dispatch.

## 2. Modules

### `DekodeSession.tla`: client, session, channel and mock server

The constants are:
- `Threads`, `Channels`, `Tokens` and `VALID_TOKEN`;
- `SessionIds` and `MOCK_SESSION`;
- `ServerOps`: the RPCs the servicer implements;
- `MaxRpc`: a bound on the number of RPCs issued.

A request keeps only what the server inspects: its op, its channel, and the
token or session id. Request ids are positions in the log `reqs`.

| Variable | Meaning |
|---|---|
| `chan[c]` | `unused` / `open` / `closed` lifecycle of `grpc.Channel` c |
| `sessions` | the `DekodeSession` objects built so far, as `[ch, sid]` records |
| `held` | channels the caller opened itself (`tests/test_session.py` l.103) |
| `reqs` | every RPC issued |
| `wire` | requests in flight, not yet executed or lost |
| `served[i]`, `reply[i]` | how often the server executed request i, and its answer |
| `result[i]` | what call i returned or raised |
| `waiting[t]` | the request thread t is blocked on (0: idle) |

| Action | Code |
|---|---|
| `connect(t,c,tok)` | `DekodeClient.connect` up to the blocking `stub.Connect` (client.py l.43-71) |
| `Call(t,s,op)` | the five session RPCs: the request with `session_id` and the stub call (session.py l.81-155). On an open channel: send and block. On a closed one: the immediate `ValueError`. |
| `OpenChannel`, `NewSession` | `grpc.insecure_channel` and `DekodeSession(...)` built by hand, as in `test_session_context_invalid_session` |
| `close(t,c)` | `DekodeSession.close`/`__exit__` or `channel.close()` (session.py l.167-175) |
| `Serve(i)` | `FakeAgentServicer` executing request i (`ServerReply`: conftest.py l.128-206) |
| `Lose(i)` | the connection drops with request i in flight |
| `Return(t)` | the answer is handed to the caller. A successful `Connect` builds the session (client.py l.71-77). For the session RPCs, the conversion of the answer (`from_proto` or the dict built at session.py l.90, 113, 124-128, 140-146, 156-163) is abstracted: the result is the server's answer itself. |
| `Cancel(t)` | `CANCELLED`: the channel was closed under the call |
| `Fail(t)` | `UNAVAILABLE`: the request left the wire without an answer reaching the caller |

The fairness (`FairSpec`) covers what the server and the gRPC runtime do
independently of the caller:
- `Serve(i)`: the server executes a request it has received;
- `Return \/ Cancel`: grpc hands a blocked call an answer that has
  arrived, or `CANCELLED` once its channel is closed.

`Fail` is not fair. No stub call passes a `timeout` and the channel is
created without keepalive options (client.py l.63), so nothing obliges
grpc to notice that a request was lost. The caller's actions are not fair
either, since a program may stop at any time, and neither is `Lose`, since
the network is not forced to fail.

### `SessionCalls.tla`: what a session promises

This is the abstract specification of a session. It has no channels,
threads or wire. Its state:
- `n`: the calls issued so far;
- `executed[i]`: how many times the server ran call i;
- `answer[i]`: the server's answer to call i;
- `outcome[i]`: how call i ended for its caller.

Its actions:

| Action | Meaning |
|---|---|
| `Issue` | a new call is issued |
| `IssueRefused(e)` | a new call is refused at once by the client |
| `Execute(i, a)` | the server runs call i, at most once |
| `Complete(i, o)` | call i ends: with an error at any time, or with the server's answer to it |

`DekodeSession` instantiates it as `Abstract` with this refinement mapping:

| SessionCalls | DekodeSession |
|---|---|
| `n` | `Len(reqs)` |
| `executed` | `served` |
| `answer` | `reply` |
| `outcome` | `result` |

The property is `ImplementsSessionCalls == Abstract!Spec`. How the steps map:
- `connect` and a `Call` on an open channel are `Issue`.
- A `Call` on a closed channel is `IssueRefused("CLOSED")`.
- `Serve` is `Execute`.
- `Return`, `Cancel` and `Fail` are `Complete`.
- Everything else is a stutter.

### `AgentLoop.tla`: the example agent and the dispatcher

This module models `examples/claude_agent.py` `main()`. It uses
`dispatch_tool`, modelled from `spec.md` §4 because `dekode/tools.py` is not
among the sources.

The model (the LLM) is the environment. Each response has 0 to `MaxUses`
tool calls drawn from `ToolCalls`. A response that uses tools stops with
`tool_use` or `max_tokens`; one that does not stops with `end_turn` or
`max_tokens`. These are the Messages API's stop reasons. After `MaxTurns`
responses the model uses no more tools, which bounds the `while True` loop.

A transcript message keeps its role and the `tool_use` blocks it carries or
answers. Text is abstracted away.

| Action | Code (claude_agent.py) |
|---|---|
| `Connect` | l.32-37. `client.connect` may raise `RpcError`. |
| `SetUpTools` | l.40-53: `dekode_tools(session)` and the first message |
| `CallModel` | l.55-78, 90-98: `messages.create`, the assistant message appended, the break (and `session.close()`) when there is no `tool_use` |
| `ModelFails` | l.56-62: the API call raises |
| `Dispatch` | l.79-89: `dispatch_tool` for the k-th block (see below) |
| `SendResults` | l.89, 93-94 |
| `Finish` | l.91-98 |

`Dispatch` follows spec §4.2:
- it resolves the alias;
- it raises `UnknownTool`, `MissingArgument` or `InvalidArgument` before any session call;
- otherwise it issues exactly one session operation, which may raise `RpcError`;
- `Advance` then appends the result and, after the last block, sends the results.

Nothing catches an exception, so every error ends `main()` (`Crash`).

`SetUpTools` takes `dekode_tools(session)` to succeed: `dekode/tools.py`
is not among the sources, so its signature cannot be checked against the
call.

`SendResults` keeps the code's `end_turn` test after the tool results
(l.93-94). Under the Messages API's stop reasons that branch is unreachable,
since a response that calls tools stops with `tool_use` or `max_tokens`.

### `DekodeSubmit.tla`: submit, its result conversion and the cached version

This module models `session.submit` (session.py l.94-113) end to end:
- the server's verdict;
- `SubmitResult.from_proto`, with the lookup in `_SUBMIT_STATUS_FROM_PROTO`: a `KeyError` for any other status, and `new_version` only when the field is present (models.py l.72-76, 229-244);
- the session's `codebase_version`, set at connect.

The server's version is modelled from spec §6: an accepted submit, by this or
another session, advances it.

### Proof modules

- `DekodeSessionProofs.tla`: `IInv`, type correctness and `ResultFaithful` (§4).
- `DekodeRefinementProofs.tla`: `WaitInv`, `RInv` and the refinement (§4).
- `AgentLoopProofs.tla`: the agent loop's inductive invariant `AgentInv`, its type correctness, `TranscriptWellFormed` and `SessionOpsOnOpen` (§4).

### `MC*.tla` and the `.cfg` files

`MCDekodeSession` sets up:
- two threads, two channels;
- a good and a bad token;
- the mock session id and a bogus one;
- `MCServerOps = {Connect, Submit}`.

The cfg overrides `RpcOps` with `{Submit, FileWrite}`. Session RPCs differ
only in whether the servicer implements them, so one implemented and one
unimplemented RPC stand for all five.

`MCAgentLoop` gives five tool calls:
- a legacy alias with its argument (`search_codebase`);
- a valid `dkod_read_file`;
- a `dkod_write_file` missing `content`;
- an unknown tool;
- a `dkod_context` with a bogus enum.

## 3. Runs

| Run | cfg | Checks | Result |
|---|---|---|---|
| `session_safety` | `MCDekodeSession.cfg` (`MaxRpc = 3`, symmetry on threads and channels) | `TypeOK`, `ResultFaithful` | pass, about 1.0M distinct states, about 1 min |
| `session_refinement` | `MCDekodeSessionRefine.cfg` (same instance) | `ImplementsSessionCalls` | pass, about 1.0M distinct states, about 2 min |
| `session_liveness` | `MCDekodeSessionLive.cfg` (`MaxRpc = 2`, `FairSpec`, no symmetry) | `CallsReturn` | violation (finding 3) |
| `connect_leak` | `MCDekodeSessionLeak.cfg` (`MaxRpc = 2`) | `NoLeakedChannel` | violation (finding 1) |
| `agent_loop` | `MCAgentLoop.cfg` (`MaxUses = 2`, `MaxTurns = 4`) | `TypeOK`, `TranscriptWellFormed`, `SessionOpsOnOpen` | pass, about 8.4k distinct states |
| `agent_exit` | `MCAgentLoopExit.cfg` | `SessionClosedAtExit` | violation (finding 2) |
| `submit_stale_version` | `MCDekodeSubmit.cfg` (`MaxVersion = 3`) | `VersionCurrent` | violation (finding 4) |

What the properties say:
- **ResultFaithful**: the server executes each request at most once. A server answer the caller receives is the answer to its own request, even when two threads share a session, and even when a request was lost, cancelled or answered after a close.
- **ImplementsSessionCalls**: the SDK's behaviours are those of the abstract session.
- **CallsReturn** (liveness): no blocked call waits forever. This is what spec §5 expects of the session ("blocks until it completes or fails"). It fails: no stub call passes a timeout.
- **NoLeakedChannel**: every open channel is owned by someone who can close it.
- **TranscriptWellFormed**: whenever the loop calls the model, the transcript alternates user and assistant messages, and each assistant message that used tools is immediately followed by the results of exactly its `tool_use` blocks, in order. The API refuses any other history.
- **SessionOpsOnOpen** (action property): `dispatch_tool` calls the session only while it is open (connected, not yet closed), issues one operation per accepted call, and never rewrites earlier ones.
- **SessionClosedAtExit**: when `main()` ends, normally or by an exception, its session is closed.
- **VersionCurrent**: after an accepted submit, `session.codebase_version` is the new version.

Why the bounds are enough.

DekodeSession, with `MaxRpc = 3`, reaches these cases:
- a session is established;
- a second thread calls on it while the first closes it;
- a request is served and then cancelled, or lost and then failed.

Two threads and two channels give the shared-session race and the
independent-session case.

AgentLoop:
- Two blocks per response make the order and completeness of the results matter.
- Four turns let a tool-using turn follow another before the model stops.
- Every rejection kind and a transport error occur at every block.

Every action and every disjunct fires in the passing runs.

Each property of a passing run has a mutant in `PROJECT.json` that TLC catches:

| Mutant | Bug it models | Caught by |
|---|---|---|
| `SendAndBlockOffByOne` | off-by-one request id | `TypeOK` |
| `ServeKeepsOnWire` | replayed delivery | `ResultFaithful`, `ImplementsSessionCalls` |
| `AdvancePastEnd` | missing last-block check | AgentLoop `TypeOK` |
| `AdvanceCutShort` | results sent one block early | `TranscriptWellFormed` |
| `SendResultsClosing` | `session.close()` indented into the loop | `SessionOpsOnOpen` |

### Findings

1. **`DekodeClient.connect` leaks its channel when `Connect` fails.**
   `connect()` creates the channel at client.py l.63 and calls
   `stub.Connect` at l.71, with no `try`/`finally`. When the RPC raises, the
   channel stays open and nobody references it. This happens on
   `UNAUTHENTICATED`, which `test_client_connect_invalid_auth` provokes, and
   on `UNAVAILABLE`. TLC's shortest trace is `connect`, `Serve`, `Fail`.
2. **The example agent does not survive a tool error, and leaves its session open.**
   `dispatch_tool` (l.80) is not guarded, and `session.close()` (l.98) runs
   only after a normal loop exit. Spec §7 expects the loop to feed such
   errors back to the model. The trace: connect, one model turn, then a
   dispatch raising `RpcError`. The same holds for an exception from
   `messages.create`.
3. **A lost request blocks its caller forever.** No stub call passes a
   timeout (client.py l.71, session.py l.89, 112, 123, 139, 155), and the
   channel has no keepalive. Spec §5 has each operation block "until it
   completes or fails", with timeouts left to the session. Under fairness
   of the server and of answer delivery, TLC's trace is: `connect` sends
   `Connect`, the request is lost, and the thread waits forever. Only a
   `close()` of the channel from another thread would release it.
4. **`codebase_version` goes stale.** `submit()` never updates
   `self.codebase_version`, although the class docstring says it holds the
   current version. After an accepted submit, the session still reports the
   connect-time version.

## 4. What is proved (TLAPS)

All theorems hold for every value of the constants that satisfies
`ConstantsAssumption`.

In `DekodeSessionProofs.tla`:
- `TypeCorrect`: `Spec => []TypeOK`.
- `ResultFaithfulHolds`: `Spec => []ResultFaithful`.

Both rest on `IInv`. `ResultFaithful` alone is not inductive: a `Serve` could
raise `served` above 1, or `Return` could copy another slot's reply. `IInv`
adds:
- the wire and the waiting ids lie within the log;
- slots past the end of the log are untouched;
- a request on the wire has not been served or answered.

The proof is organised as follows:
- `InitIInv`;
- `SendStep`, shared by `connect` and `Call`;
- `NextIInv`, one case per action;
- the PTL combination.

In `DekodeRefinementProofs.tla`:
- `Refinement`: `Spec => ImplementsSessionCalls`.

It rests on the lemma `RInvInvariant`, `Spec => []RInv`, with
`RInv == IInv /\ WaitInv`. `WaitInv` adds three facts:
- a blocked thread waits on a call that has not ended;
- no two threads wait on the same call;
- a request has been executed exactly when it has a reply.

Without these facts, a `Return` could not be shown to be an abstract
`Complete`, which needs the call to be pending and executed with that
answer.

The refinement proof:
- `Init` maps to the abstract `Init`.
- `RefineStep` shows each action is an abstract step or a stutter.

The lemmas `SendWait` and `EndWait` factor out the cases shared by several
actions.

In `AgentLoopProofs.tla`, for every `ToolCalls`, `MaxUses` and `MaxTurns`
satisfying `AgentAssumption`:
- `AgentTypeCorrect`: `Spec => []TypeOK`.
- `TranscriptWellFormedHolds`: `Spec => []TranscriptWellFormed`.
- `SessionOpsOnOpenHolds`: `Spec => SessionOpsOnOpen`.

The first two follow from the lemma `AgentInvInvariant`, `Spec => []AgentInv`,
proved by one lemma per action of `main()` (`CallModelStep` and
`DispatchStep` carry the weight). Neither property is inductive alone;
`AgentInv` adds:
- `ResponseShape`: the response in hand has at most `MaxUses` blocks, the
  j-th with id `<<turns, j>>`. Without the bound `k + 1` could leave
  `1..MaxUses`; without the ids a fresh operation could not be told apart
  from an old one.
- `OpsOrdered`: every issued operation belongs to a turn `<= turns`, and
  while dispatching, those of the current turn answer blocks before the
  k-th. This is what makes the id of the operation `Dispatch` issues new,
  so no block is executed twice. The results gathered so far each come
  from an issued operation.
- `TranscriptInv`: the transcript's roles alternate at every length, user
  messages carry no `tool_use`, each message answers the one before, its
  length is odd when calling the model and even while dispatching, and
  while dispatching it ends with the response being answered and
  `results` holds exactly its first `k - 1` blocks. That last fact is what
  shows the user message sent after the last block answers the whole
  response.
- `DispatchFaithful`: every operation issued was accepted and is of the
  kind its (possibly legacy) name designates, no two answer the same
  block, and every result sent comes from one of them.

The proofs use `AppendProperties`, `ElementOfSeq`, `LenProperties` and
`SeqEqual` of the library's `SequenceTheorems`. The lemma `RejectionNone`
(an accepted call resolves to a canonical name) gives each operation its
kind.

`SessionOpsOnOpenHolds` needs one more invariant, `SessionOpen`: from
`connect` until the loop ends (`tools`, `model`, `dispatch`), the session
is open. It is inductive by itself, because `Finish` is the only step that
closes the session and every crash leaves these lines. `OpStep` then shows
that only an accepted `Dispatch` changes `ops`. Such a step is taken while
dispatching, so the session is open, and it appends one `OpRecord` (by
`AgentInv`'s typing and `RejectionNone`).

Only model-checked:
- liveness under fairness, which rests on ENABLED and fairness
  reasoning, is outside what TLAPS checks here;
- the violations (`CallsReturn`, `NoLeakedChannel`, `SessionClosedAtExit`,
  `VersionCurrent`), which are counterexamples, not theorems.

Every invariant and action property of a passing run is now also a
theorem, as is the refinement.

## 5. Not modelled

- **Most of `models.py`.** `CodebaseSummary`, `Symbol`, `CallEdge`, `Dependency`, `SubmitError` and `ContextResult.from_proto` copy proto fields one to one. Their only branches are `HasField` tests for optional fields. They hold no state, so they are data a property would not tell apart. `Change.to_proto` and the enum-to-proto maps are in the same position.
- **The tool descriptors' schemas and `max_tokens` coercion** (tools.py, not in the sources).
- **The generated protobuf/gRPC stubs.** Generated code, outside the repository sources.
- **`__init__.py`.** Re-exports only.
- **Unknown submit statuses.** `DekodeSubmit` keeps the `KeyError` branch
  of `SubmitResult.from_proto`. Its run draws statuses only from the three
  the mock server and the map know, so the branch is not reached there.
  No source shows which other values a server may send.
- **The payload of `file_read`/`file_write`.** The UTF-8 decode with `errors="replace"` is lossy for non-UTF-8 files. It is listed as a hazard, but no source states a round-trip guarantee to check against.

## 6. Plan

1. Compose `AgentLoop` with `SessionCalls` instead of its open/closed session, so that a dispatch's transport error is an abstract `Complete` with an error.
2. Add the KeyError path of `SubmitResult.from_proto` to the dispatcher, once the wire enum values are known.
3. Prove `SessionClosedAtExit` for the corrected loop (a `finally: session.close()`), once the example is fixed.
