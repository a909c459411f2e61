# A formal model of SecurityMasker

SecurityMasker is a gateway between coding assistants and the OpenAI and
Anthropic APIs. It replaces secrets in requests by aliases, keeps the table of a
conversation in an encrypted SQLite database, and puts the originals back into
the responses. This directory holds TLA+ modules that model the gateway, TLC
configurations that check small instances of them, and proofs that TLAPS checks.
References such as `sqlite.py:388` are to files under `src/src/securitymasker/`.

Check a module with `tlc -config PipelineRace.cfg MCRequestPipeline`, a proof with
`tlapm RequestPipeline_proofs.tla`.

## 1. The system

The gateway is one process with one asyncio event loop. A client sends a
request over HTTP (buffered or SSE) or over a WebSocket; the *request pipeline*
finds the masking session, and under the session's lock loads its row, masks the
payload with the *engine* and saves the row; then leak guards scan the result, it
goes upstream, and the response comes back through a *stream processor* that
restores the aliases. Nothing but the database survives a restart.

| Component | State | Operations | Interacts with |
|---|---|---|---|
| Alias factory (`aliases/factory.py`) | none of its own; the two mapping tables of a session | `get_or_create_alias` | called by the engine on the session copy of a request |
| Session store (`sessions/sqlite.py`) | rows (session, response), each sealed with an expiry; lock registry; leases | get, create, get_or_create, save, delete, touch, list_ids, bind_response, resolve_response, lock, close | one SQLite file, one process; called by the pipeline and the transports |
| Request pipeline (`gateway/request_pipeline.py`) | local variables of a coroutine | resolve the session, lock, load, mask, save, guard | store, engine, telemetry |
| HTTP gateway (`gateway/app.py`, `forwarder.py`, `telemetry.py`) | locals of a handler, the upstream connection, counters | read and check the body, forward buffered or as a stream, bind, count | pipeline, upstream, stream processors |
| WebSocket relay (`gateway/websocket.py`) | active response, current session, two pumps | handshake, client pump, upstream pump, cancellation | pipeline, stream processor |
| Masking engine (`engine.py`) | detectors, budgets | detect, mask_text, leak guards, restorers | detectors, policy, factory |
| Inference runner (`detectors/inference.py`) | thread pool, count of slots | run, with admission and timeout | neural detectors, worker threads |
| Detectors (`detectors/*`), policy, segmenter, normalisation | none | pure functions of a text | engine |
| Streaming restorer (`streaming/text_replacer.py`) | buffer | feed, flush | stream processors |
| Stream processors (`streaming/openai_*`, `anthropic_*`) | restorers per text, buffers per tool call | feed, flush, process_event, finish_events | transports, tool trust |
| Protocol adapters (`protocols/*`) | SSE parser buffer | walk a payload, parse SSE | pipeline, transports |
| Bootstrap (`bootstrap.py`) and leases (`sqlite.py`) | config, dictionary, state directory; locks on files | init, init --force with rollback, start and stop of a gateway | operator, every process of the installation |
| Model download (`models_fetch.py`) and the start of the detector | a cache of files | fetch, verify, load, probe | the hub, the cache, whoever else writes to it |
| CLI, doctor, client integrations | none | run, diagnose | operator |

How they interact, and what makes it hard:

- *Shared rows, private copies.* A request works on a copy of its session between
  reading and saving it, and detectors are awaited in between. Only the session
  lock keeps a second request from overwriting what the first one recorded, after
  the upstream has been sent it.
- *A lock that comes and goes.* `asyncio.Lock` objects are made on first use and
  forgotten by the last user; cancellation can hit a waiter before or after its
  wake-up.
- *Two expiries.* A row has an expiry column, computed with the idle TTL of the
  process that wrote it, and `is_expired()` uses the TTL of the process that reads
  it. Bindings of response ids have a third.
- *Work that cannot be interrupted.* A caller that times out leaves its inference
  running in a thread; the slot must be given back once, by whichever of three
  parties gets there.
- *Two pumps, one active response.* The WebSocket relay reads and writes `active`
  from two coroutines, with the whole of `prepare_request` between a test and the
  assignment, and one end's end cancels the other wherever it is.
- *Pieces.* Aliases and tool arguments arrive split anywhere; nothing may be emitted
  that a later piece would change, and nothing lost when the stream stops. The events
  they come in are split anywhere, too.
- *Coordinates.* A finding is made in a normalised, casefolded, segmented, joined or
  windowed copy of the text, and replaced in the original. Each copy has its offsets.
- *A conversation comes back.* What an answer was given in originals returns with the
  client's next request, in another envelope, and must be masked again in every place,
  into the same aliases; otherwise the guard refuses the conversation from then on.
- *Files under other processes.* A reset replaces key and database by renaming, a gateway
  locks what it has opened, and a lock file may be unlinked while another opens it.

What makes each component correct:

| Component | Correct means | Stated as |
|---|---|---|
| Alias factory, session rows | one alias for one secret per key, for ever, and in the row as long as there is one | `SentIsRecorded`, `AliasLedger` |
| Session resolution | a continued turn is in its predecessor's session and can restore what that one sent | `PreviousSameSession`, `PreviousTurnRestorable` |
| Lock registry | one holder per session, no waiter forgotten | `MutualExclusion`, `EveryWaiterServed`, `SessionLock` |
| Pipeline | every request gets as far as nothing but the upstream or the client holds it up | `EveryRequestGetsThrough` |
| Inference runner | the limit bounds the work, and each slot comes back exactly once | `SlotsExact`, `LiveWorkBounded`, `SlotsComeBack`, `CallersReturn` |
| WebSocket relay | one request in flight, ids bound before shown, both ends end together | `OneResponseInFlight`, `ShownIsBound`, `ProcessorStaysActive`, `HandlerEnds`, `MessageHandled` |
| HTTP exchange | each request counted as the client saw it; an id bound before the end is seen | `AccountedFor`, `EndsInOrder` |
| Streaming restorer | the cuts between pieces are invisible | `SplitInvisibleIfApart` |
| Stream processors | whole arguments, originals for trusted tools only, nothing lost silently | `WholeArguments`, `OnlyTrustedRestored`, `NoCallLost`, `TextConserved`, `InputsWholeAndTrusted`, `TextCompleteAtStop`, `CallDelivery` |
| Protocol adapters | an answer can come back | `AnswerComesBack` |
| Policy | the strictest finding wins, whatever the order; what is left is apart | `ResolutionSound` |
| Segmenter, windows, normalisation | the pieces tile the text; a finding is replaced exactly where it is, once | `SegmentationSound`, `WindowsSound`, `OffsetsSound` |
| Masking engine | what the detectors can find is not left to the guard; the restorer inverts masking | `GuardIdle`, `RoundTrip` |
| SSE parser | the same events for every split | `EventsOfAnySplit` |
| Leases, bootstrap | one process per database, with the key on the disk; a reset is whole, undone, or says that it is not | `OneWriter`, `ResetIsHonest` |
| Model | what is loaded is the pinned model, whole | `ModelIsWhole` |

`PROJECT.json` lists every component with its status, and the hazards (the places
where an order of events that no test tries could break one of these) by line.

## 2. The modules

    AliasTable <- SessionStore <- RequestPipeline <- MCRequestPipeline
                                   |  |    ^
              Lock == SessionLock -+  |    +--- RequestPipeline_proofs
              Ledger == AliasLedger --+
    LockRegistry      (implements SessionLock)     <- LockRegistry_proofs
    InferenceRunner                                <- InferenceRunner_proofs
    WebSocketRelay                                 <- WebSocketRelay_proofs
    Dicts <- ResponsesStream <- MCStreams          <- Streams_proofs
       MCStreams: Anthropic == AnthropicStream  (implements CallDelivery)
    StreamingRestorer <- MCStreamingRestorer <- MCText   <- Text_proofs <- Masking_proofs
       MCText: Policy == PolicyResolution, Ner == NerWindows,
               Offsets == TextOffsets, Engine == MaskingEngine, Adapters == ProtocolAdapters,
               SSE == SSEParser
    ContextSegments <- MaskingEngine  (P == PolicyResolution)
    StateLayout <- MCOperations                    <- Operations_proofs
       MCOperations: Model == ModelArtifacts, Http == HttpExchange

`<-` is EXTENDS, `==` is INSTANCE. The modules whose name ends in `_proofs` define nothing of the
system: they have the inductive invariants, the theorems and their proofs.

| Module | Models | State, and how it corresponds | An action is |
|---|---|---|---|
| `AliasTable` | `factory.py` | `Table`: the two mapping dicts as one partial function | operators only: `GetOrCreateAlias` |
| `SessionStore` | `sqlite.py`, `store.py` | `records`, `bindings`: the rows; `now`, `idleTtl`; `drawnFor`: which session a key was drawn for | a method; each but `delete()` runs without yielding |
| `SessionLock` | what `store.lock()` promises | `owner`, `queue` per session | request, release with hand-over, leave the queue |
| `RequestPipeline` | `request_pipeline.py`, and `app.py` and `websocket.py` around it | `pc`: the await a request is at; `storeKey`, `work`, `todo`: its locals; `upstream`, `known`: what the outside has seen | what a task does between two awaits |
| `AliasLedger` | the promise to the reader of masked text | `issued` | one payload is sent |
| `LockRegistry` | `sqlite.py:563-583` with `asyncio.Lock` | `locks`, `refs` as in the code; `locked`, `waiters` of each lock object; `stage` of each use | a run of the use up to its suspension |
| `InferenceRunner` | `inference.py` with its executor and futures | `inflight`; `job`: the future's state; `release`: the callback; `queue`, `busy` of the executor | a step of the coroutine, a worker or the loop |
| `WebSocketRelay` | `websocket.py:_relay` and its handler | `active`; the await each pump is at; the event and outputs in work; `ids`, `bound_ids` | a pump's run between two awaits |
| `StreamingRestorer` | `text_replacer.py` | `_buffer`, `_replacements`; everything received and emitted | `feed`, `flush` |
| `AnthropicStream` | `anthropic_messages_stream.py`, `tool_trust.py` | the dicts of the processor, per content block; what the client was given or told | the handling of one event |
| `CallDelivery` | the promise of both processors about a tool call | `begun`, `fate`, `closed` | a call begins, is settled, the stream ends |
| `PolicyResolution` | `policy.py` | none | operators: `Resolve`, with the clusters of the sweep |
| `ContextSegments` | `segmenter.py`; `engine.py` 144-163, 305-340 | none | operators: `Segments`, `Coalesce`, `Join`, `MapToSegments` |
| `NerWindows` | `japanese_ner.py` 320-365, 384-485 | none | operators: `Slice`, `Report`, `Dedupe` |
| `TextOffsets` | `normalization.py`, `dictionary.py` | none | operators: `Normalize`, `ToOriginalSpan`, `DictionaryHits` |
| `MaskingEngine` | `engine.py`, `existing_alias.py`, `dictionary.py` | `mappings` of a session; which words were registered with their case; the last text, what was detected in it and became of it | a text is masked and guarded; its request is over |
| `ProtocolAdapters` | `openai_responses.py`, `anthropic_messages.py`, `base.py` | none: a payload is a function from places to texts | operators: `MaskRequest`, `RestoreResponse` |
| `SSEParser` | `sse.py` | `_buffer` as characters and lines; the events; the whole text | `feed`, `flush` |
| `StateLayout` | `bootstrap.py`, the leases in `sqlite.py` | which generation of files lies at each path, the locks on open files, the phase of each process | a system call of a gateway or a reset, or a crash |
| `ModelArtifacts` | `models_fetch.py`, the start in `japanese_ner.py` | each file of the cache; how far a fetch or a start is | a file is fetched, checked, loaded or altered |
| `HttpExchange` | `app.py`, `forwarder.py`, `telemetry.py` | where the handler is, the connection, what the client has seen, the counters | what the handler does between two awaits |
| `Dicts` | Python's dicts | none | operators: `Get`, `Put`, `Drop` |
| `MCStreams`, `MCText`, `MCOperations` | the parts of a run that have nothing to do with each other | `part` (`protocol`): which one a behaviour is about | a step of that part |
| `ResponsesStream` | `openai_responses_stream.py`, `tool_trust.py`, `tool_arguments.py` | the dicts of the processor; what the client was given or told | the handling of one event |

The MC modules that put several components side by side check each by itself: `part` never
changes, and what another part would need has one initial state.

The definitions that stand beside an action under a name of their own, such as
`SaveNothing` beside `SaveSession` or `FinishBuffered` beside `Finish`, are not part
of any specification: they are the same step with a plausible slip, kept to confirm
that a property notices it.

## 3. Abstract specifications

`SessionLock` is the lock the callers of the store see: one holder, the others
first come first served, a cancelled waiter forgotten. `RequestPipeline` is written
on top of it, and `LockRegistry`, with its reference counts, lock objects and
futures, implements it (`ImplementsSessionLock`): a lock that was released but
whose first waiter has yet to be resumed already belongs to that waiter.

`AliasLedger` is what the gateway promises whoever reads the upstream's copy of the
traffic: entries (key, secret, alias) are only ever added, a whole payload of one
key at a time, and never make one alias stand for two secrets of a key or two
aliases for one secret. `RequestPipeline` implements it (`ImplementsLedger`) with
`issued` mapped to what was sent upstream: neither races, nor restarts, nor failed
requests, nor expiry break the promise. This is also proved.

`CallDelivery` is what a client may rely on about a tool call of a stream: it is settled
once, given whole or refused, and a call that was begun and not settled when the stream
ends is reported. `AnthropicStream` implements it (`ImplementsCallDelivery`), block
by block, with its buffers, sizes and the overflow set behind it.

The pure algorithms have reference definitions instead: `ResolutionSound` says what may be left of
a set of findings without a sweep or clusters, `ParseSSE` cuts a whole text at its line feeds and blank lines,
`OffsetsRight` looks for a term character by character, and `ComesBack` compares a conversation
before and after its way through the client.

## 4. The runs

| Run | Bounds | What it shows |
|---|---|---|
| `pipeline_race` | 3 requests that race for one stable session or continue one another, 2 secrets whose short aliases collide, 2 keys, clock 0..2, idle TTL 1 or 2, absolute TTL 2, restarts; symmetric in requests and secrets | `SentIsRecorded`: no save loses an alias that was sent. `PreviousTurnRestorable`: a continued turn maps what the earlier one sent. `ImplementsLedger`: among other things, no alias stands for two secrets |
| `pipeline_fair` | 2 requests over every transport, 2 secrets, room for 1 mapping | `PreviousSameSession`: `previous_response_id` leads to the session of that response, on a WebSocket to that of the connection. `SentIsRecorded`, where tables are full: only a new secret is refused, at the first one or half way, and leaves nothing behind. `EveryRequestGetsThrough`: failures, refusals, cancellations and upstreams that stay silent keep no other request waiting, except behind the self-deadlock below |
| `pipeline_self_wait` | as `pipeline_fair`, with 1 secret | violation: a task waits for the lock it holds |
| `lock_registry` | 4 uses, 2 sessions, any waiter cancelled at any time | `MutualExclusion`, `EveryWaiterServed`, `ImplementsSessionLock` |
| `inference` | 3 calls, 1 thread, limit 2; a call may time out at any moment | `SlotsExact`, `LiveWorkBounded`; `CallersReturn` though an inference may never end, `SlotsComeBack` if each does |
| `websocket` | 2 requests, 1 response id, an arbitrary client and upstream | `ShownIsBound`, `OneResponseInFlight`, `ProcessorStaysActive`; `MessageHandled`, `HandlerEnds` |
| `streams` | Responses: 2 tool calls, 1 text; Anthropic: 2 tool blocks, 1 text block; cap 2, pieces of at most 2, arguments of at most 4, text of at most 3 or 4, hold-back 1 | Both: whole arguments or none, originals for trusted tools only, nothing begun is lost. Responses: `WholeArguments`, `OnlyTrustedRestored`, `NoCallLost`, `TextConserved`, and on a WebSocket `RefusedIsNotForwardedOnWebSocket`. Anthropic: `InputsWholeAndTrusted`, `TextCompleteAtStop`, `ImplementsCallDelivery` |
| `responses_refused` | as the first half of `streams` | violation: over SSE a refused call is forwarded after all |
| `text` | see below | `ResolutionSound`, `SegmentationSound`, `WindowsSound`, `OffsetsSound`, `AnswerComesBack`: the algorithms on every small input. `GuardIdle`, `RoundTrip`: a session of the engine. `EventsOfAnySplit`, `SplitInvisibleIfApart`: streams cut anywhere |
| `alias_remasked` | the engine of `text` | violation: a model's finding that covers an issued alias has it masked again |
| `streaming_overlap` | the restorer of `text` over 2 characters | violation: an alias whose end begins another alias is cut and reaches the client unrestored |
| `operations` | 2 gateways and a reset, 4 generations of the state directory; 2 model files; bodies around the limit of 3 bytes | `OneWriter`, `ResetIsHonest`, with a fault or a crash between any two system calls. `ModelIsWhole`, with an altered cache. `AccountedFor`, `EndsInOrder`, with failures at every await |

The inputs of `text`, by part. *Policy*: up to 3 findings on a text of 3, of 5 strengths whose
priorities do not follow from them. *Segments*: a text of 3, a fence or none, up to 3 claims
of the other patterns. *Windows*: up to 5 tokens of width 0 or 1 with gaps or without, window
1..3, overlap 0..2, names of every length. *Offsets*: texts of up to 3 code points with a
ligature, a combining mark, a capital and a letter that is two in lower case. *Adapters*: an
answer of one item with 2 texts at any of 8 to 11 places, 3 or 4 types of item, a trusted or
another tool; a text is plain, an alias, a secret, a number or an identifier with a number in it.
*Engine*: 2 texts of 4 symbols (3 where there are segments), an alias being two of them;
3 characters, one of which is the capital of another and one the beginning of every alias; 2
words that overlap, one of them redacted, each registered with or without its case; a model that
reports any span. *SSE*: streams of up to 5 characters in
pieces. *Restorer*: every vocabulary of 2 aliases of at most 3 characters over 3, every text
of at most 5 in pieces of at most 3.

Why the bounds are enough. A lost update takes two requests and one that reads the
result: three. An alias collision takes two secrets. A session that expires and is
made anew takes two keys; a binding that leads into the new one takes the third. With
a clock of three values and TTLs of one and two, a row can be fresh, expired by the
one TTL and not by the other, and expired by both. Four uses of a lock are a holder,
a woken waiter that is cancelled, one behind it and a newcomer. One thread and a limit
of two make room for a job that runs, one that waits, and a caller that is refused. On a
WebSocket the second request is the one that slips in while the first is active. A cap
of two with arguments up to four lets a call overflow and then go on, so that what
follows the overflow could be mistaken for a whole. Three findings are the smallest chain
whose ends do not touch, which is where a sweep could close a cluster too early; three claims, the
smallest set where one is dropped for a neighbour that another drops. Five tokens and a
window of two or three make three windows, one of them the last. Two texts of the engine are one that
issues an alias and one that has it; four symbols are an alias with a word beside it. Four generations are the
layout before a reset, the one it makes, one made in its place after it crashed, and one that a
gateway makes while a reset is under way. The bounds are constants
of the modules (`MaxTime`, `MaxText`, `MaxChunk`, `MaxArgs`, `MaxPiece`, `MaxGenerations`,
`MaxFindings`, ...) or the sizes of their sets. `MCOperations` has one more, `Bounded`: once a
third state directory is made, at most one gateway is at work, and no reset begins that would make
the last one. The proofs of `Operations_proofs` about the layout are of the specification
without it.

Some properties have a condition on the input that is there because the code fails without
it; section 6 has each case. They are `FoldsOneToOne` in `OffsetsSound`, the cut inside of a
CRLF in `EventsOfAnySplit`, aliases that are apart in `SplitInvisibleIfApart`, `Elusive` in
`GuardIdle`, `CopyInAlias` and, with segments, `AliasFound` in `RoundTrip`, `crossed` in `OneWriter` and `touched` in
`ModelIsWhole`.

Deadlock is not checked: in every module the requests, calls, events or inputs are finitely many
and the system stops when they are used up. That everything which must happen does
happen is the business of the liveness properties.

### Fairness

- `RequestPipeline`: weak fairness of what a request does on its own (`OnItsOwn`): it goes on once
  the lock was handed to it, after SQLite, whose calls are synchronous, and behind the scanners.
  Not of the end of a detector: `detector_timeout_seconds: 0` leaves it without a limit, so
  `EveryRequestGetsThrough` has the premise that detectors end (`DetectorsEnd`). Not of answers: the
  WebSocket receives without a timeout (`websocket.py:278`), so the property ends where a request
  is sent. None for arrivals, cancellations, restarts or the clock.
- `LockRegistry`: the loop resumes what it scheduled (`Resume`, `Abandon`), and every
  locked block ends (`Leave`), which is what `EveryRequestGetsThrough` says of the pipeline, on
  its premise and outside of finding 1.
  None for arrivals and cancellations.
- `InferenceRunner`: the loop, the timers (timeouts are positive) and the threads' own
  bookkeeping are fair; `Finish`, the end of an inference, is not. `SlotsComeBack`
  therefore has the premise that every inference ends.
- `WebSocketRelay`: the pumps' own steps and the supervisor are fair; receiving is not,
  because neither end has to say anything; failures are not. Closing and pinging are bounded
  by the WebSocket library's timeouts. The end of `prepare_request` (`ClientPrepares`) is not
  fair either: finding 1 is that it may wait for itself, and a detector may have no limit.
  `MessageHandled` therefore has the premise that preparations end (`PreparationsEnd`).
  `HandlerEnds` needs none: a pump that prepares is cancelled like any other.

## 5. What is proved

All proofs are for any number of requests, sessions, uses, calls, messages, processes, and any
TTLs, limits and sizes. The assumptions are those on the constants, named in the modules:
`AliasAssumption`, `StoreAssumption`, `PipelineAssumption`, `RegistryAssumption`,
`RunnerAssumption`, `RelayAssumption`, `StreamAssumption`, `BlocksAssumption`,
`LayoutAssumption`, `RestorerAssumption`, `BoundsAssumption`, `EngineAssumption`. TLC evaluates
each in the runs of its module. They say that `None` is no alias, session, task or process, that
a tool block is no text block, that limits are numbers, and that the mark of a redaction and what
in an alias stands for the original are no characters, while the beginning of an alias is one
(the engine's model has an alias as these two symbols; section 7); on substance there are five. The TTLs are positive, which `parse_duration`
enforces; neither need be the longer one. Of the requests, that a WebSocket names its session,
which its handshake enforces. Of `AliasFor` nothing but its range: aliases of two secrets may
collide at any length. Of the vocabulary of a restorer, that it is finite, that an alias is not
empty and that two originals do not share one, which the mapping tables are (`TablesInjective`).
Of the registered words of the engine, that they are finitely many and none is empty, as the
configuration has them.

**`RequestPipeline_proofs`.** `TypeCorrect`, `SentAliasesAreRecorded`,
`AliasTablesAreInjective`, `RecordedAliasesStand`, `GatewayImplementsLedger`,
`PreviousTurnKeepsItsSession`, `PreviousTurnIsRestorable`. That sent aliases are recorded is not
inductive: the save that would overwrite a row is many steps after the read. The invariant
`IInv` is `TypeInv` (every task in the section between load and save holds its session's lock,
so no two are in it), `CopyInv` (a key belongs to one session; a copy maps what was done of its
payload; the copy of a lock holder includes its row while both have one key) and `PublishedInv`
(what was *published* under a key, sent or saved and about to be sent, is consistent, in the row
of that key, and known to the copy of whoever may overwrite the row). Published, not sent,
because of the gap between save and send: there the lock is free and the next request already
builds on the saved row. The steps that write no session, publish nothing and start no masking
keep it by one lemma; loading, masking, saving and sending have one each. The ledger follows
from the same invariant, by a step-for-step mapping in which only `Send` issues. `TurnInv` adds
that a binding leads to the session of its response and that a turn which found it is in that
session from then on.

**`LockRegistry_proofs`.** `RegistryTypeCorrect`, `OneHolderPerSession`,
`ReferenceCountIsExact`, `RegistryImplementsSessionLock`. Exclusion between *sessions'* users
reduces to exclusion on one lock object once everyone active refers to the registered object
(`LinkOK`), which holds because the count is that of the active uses (`CountOK`) and so an
object is not forgotten under one. `QueueOK` and `HolderOK` describe the object: its queue is
its waiters, each once; a woken waiter is the first of an unlocked one. That it implements
`SessionLock` is a step simulation: each step of a use is a step of the abstract lock or none.
It needs, in addition, that what is locked is held (`HeldOK`), because the abstract lock belongs
to whoever holds the object or was woken by it; and facts about the queue without those that
were cancelled, which is a recursive function and takes an induction over sequences.

**`InferenceRunner_proofs`.** `SlotsAreExact`, `WorkIsBounded`, `NothingAbandonedInQueue`,
`RunnerTypeCorrect`. `StageOK` ties how far the coroutine is to the states of its job and its
callback, so that exactly one of the parties that may fire the callback does; the counter is
then the cardinality of the holders.

**`WebSocketRelay_proofs`.** `RelayTypeCorrect`, `NoIdShownUnbound`, `OneRequestUnanswered`,
`ProcessorIsTheActiveOne`. The invariant says that a request in preparation found `active` empty
and that nobody else can fill it (`ClientInv`), that an unanswered request is the active one
(`UnansweredInv`), and that what is about to be sent is bound (`EmitInv`).

**`Streams_proofs`.** Of the Responses processor `StreamTypeCorrect`, `ArgumentsAreWhole`,
`OnlyTrustedToolsRestored`, `NoCallIsLost`, `TextIsConserved`, `WebSocketRefusalStands`. As long
as a call grows and the stream goes on, its buffer is all that was sent of it, unless it
overflowed (`BufferOK`); a call that no longer grows was given or refused (`OutcomeOK`). An
overflowed call must stay so until it is done, which `SizesOK` carries: otherwise a later delta
would start a new buffer and a part pass for the whole. Of the Anthropic processor
`BlocksTypeCorrect`, `InputsAreWhole`, `TextIsComplete` and `DeliversAsPromised`, that it
implements `CallDelivery`. `BuffersOK` and `FatesOK` say of a block what `BufferOK` and
`OutcomeOK` say of a call; `TextInv`, that what is shown of a text and what is held back are all
of it. `StreamsAreBoth` carries the theorems to the specification of the run.

**`Operations_proofs`.** Of the layout `SpecLayoutInv`, `OneWriterHolds` and
`ResetIsHonestHolds`. `LeaseInv`: a gateway that has come so far holds the lock of the key file
it opened, whatever path leads there by now. `CurrentInv`: unless the state directory was
replaced while it started, that file and the key it read are those at the path, and so two that
run hold one lock. That no reset breaks this needs `ResetInv`: until the new state directory is
in its place, which is the last target to be installed, what is at the path and in the backup
has no key or is locked by the reset, and so nobody runs with it. The lock of the database file
plays no part in the proof: the lock of the key excludes by itself, and the unlinking of the
other cannot break it. That a reset is honest is a statement about its end, and says nothing of
how far it has come; `HonestInv` does, target by target: what was moved is in the backup, what
was installed is new and what is neither is old (`MovingInv`), a rollback leaves the old target
behind it (`RollbackInv`), what is reported is so (`OutcomeInv`), and the old state directory is
at its path, in the backup, or in a temporary directory that was kept (`KeptInv`). The proof
showed a case that three generations had hidden: where there was no state directory, a gateway
that read its key elsewhere may make one without a key while the reset is under way.
`ResetIsHonest` allows it (`Old`), and the run has the fourth generation that shows it. Of the
model's files `ModelIsWholeHolds`: in `VerifiedInv`, what a start has looked at without fault is
whole as long as the cache was not changed. Of an exchange `AccountedForHolds` and
`EndsInOrderHolds`: `CountInv` says what is counted and shown before the end, `OrderInv` what is
open and bound at each await. `PartsStepTogether` carries the theorems to the specification of
the run.

**`Text_proofs`.** `ResolveIsSound` is about every list of findings, of any length, places,
priorities and scores. Preference is a tuple comparison: it is shown, one place of the tuple at
a time (`PlaceByPlace`), to be a strict and total order, so that any findings have a least and a
most preferred. From a least one the recursive function in `ResolveCluster` is built up, which
is how its existence is shown; and a finding on which a cluster and the whole list disagree
would have a most preferred one, with which they cannot disagree (`ClusterAgrees`). Findings
that overlap are of one cluster, since none opens between them. `ResolutionIsSound` is the same
of the run's specification.

`WindowsAreSound` is about every number of tokens, of any width and with gaps or without, and
every size of window and overlap, an overlap larger than the window included. Windows begin at
the multiples of the step. Of those that begin no later than a run of tokens the last one holds
it (`BeginBefore`): either the next multiple is behind the run's first token, and a window is
longer than the step by the overlap, or there is no next window because this one reaches the end
of the text. A window has no more tokens with characters than its size because tokens are in
order (`WindowShows`, `FewUnits`). In the run, where a token ends is a recursive function of the
widths; that it exists and rises is an induction (`EndsExist`, `UnitsInOrder`), by which
`TextWindowsAreSound` carries this to the run's specification.

`SplitIsInvisible` is about every vocabulary and every way of cutting a text. Its invariant
`RestorerInv` speaks of all that may still come: whatever it is, what was emitted followed by
the restoration of the buffer and the rest is the restoration of everything. It is kept because
no alias is across a cut (`CutIsApart`): the buffer is the longest suffix that may grow into an
alias, and, where aliases are apart, what may grow behind it began behind it. Behind such a cut
the restoration of two pieces is that of both (`RestoreConcat`).

`EventsAreOfWholeText` is about every stream and every way of cutting it, except inside of a
CRLF, which section 6 is about. The reference definition cuts the whole text at its line feeds
and the lines at the blank ones, without state. `SSEInv` says that the parser's state is that of
the text so far: the open line is what is behind the last line feed, the open lines those behind
the last blank one, the events those of the blocks before it. One character more either ends a
line or does not, and a line ends a block or does not (`SplitAppend`, `SoFarStep`); a chunk is
taken character by character, which is a fold (`TakeConcat`), after the line ends of all of it
were made line feeds, which comes to the same in pieces (`UnixConcat`).

`WhatWasShownComesBack` is about every answer with texts at the places the protocols have, any
number of them. Where an answer is repeated, a place that is restored is one that is masked
(`RestoredIsMasked`), and what was restored is masked to what it was; what was not has no
original. What the guard may object to then is what the provider put in: the premise `Harmless`
names it. An identifier of the Responses API with a number in it passes, because the
request has it where `_opaque_transport_tokens` looks (`IdentifierIsOpaque`) and it has the
form of an id as a whole, and only for the scanners of formats: those that scan headers as well
read it like any text. Of Anthropic no identifier is exempt.

**`Masking_proofs`** goes on from there. Of the engine `GuardIsIdle`, `AliasesProtected` and
`AliasesRoundTrip`, for a text that is masked as a whole: the invariant `EngineInv` is the
three together with what the mappings of the session are (`NamesOriginals`). Whatever a model
reports besides, what is acted upon is apart, leaves every alias of the text alone
(`AliasesSpared`), and is somewhere in each registered word that the dictionary can see
(`DetectionActsWell`). A word in what is sent, in whatever case, has no symbol that stands for an
original. So it is in the text, character by character, where nothing was acted upon; then the
dictionary could not see it because of its case, or its last character is the first one of an
alias (`GuardFindsElusive`). The result is a recursive function
downwards over positions, and at each of them the rest of it reveals what the rest of the text
does (`ResultReveals`), as long as no copy reaches into an alias: a replacement that begins with the
first character of one or ends with it would leave half of it behind.

Of segments `SegmentsAreRight`: sorted claims are in order of rank (`RankFacts`), those that are
kept are apart (`KeptApart`), what is emitted of them is a chain without a gap (`EmitChain`), a
chain tiles the text (`ChainTiles`), joining neighbours of one kind leaves a chain with the
kinds of the first one (`CoalesceChain`), and a finding in joined segments is mapped back
position by position (`FindingMapsBack`).

Of normalisation `OffsetsAreSound`: a normalised text is what stands for each chunk, one behind
the other (`NormaliseLays`), so where a chunk is laid out follows from the chunks before it. A
part of the text that begins and ends with chunks is laid out as the text is there
(`SectionReads`), which carries a hit to the part it came from (`HitHasTerm`) and a part that
reads as the term to a hit (`TermIsHit`).

The inductions that these proofs use, on naturals, on intervals upwards and downwards, on
sequences and on finite sets, are at the beginning of `Text_proofs` and of
`LockRegistry_proofs`. They have the *set* of the values in question as the parameter instead of
a predicate; the prover can instantiate a set. A fold or a recursive function is reasoned about
by the function of its values: one such function exists by induction on its domain, so the one
that is chosen satisfies its equations.

The type invariants, and the invariants `TablesInjective` of the sessions, `CountExact` of the registry, `RecordedStands` of the
rows and `AbandonedIsNotQueued` of the runner, are theorems and are not checked by a run as
well.

**Only model-checked.** Liveness (`EveryRequestGetsThrough`, `EveryWaiterServed`, `CallersReturn`,
`SlotsComeBack`, `MessageHandled`, `HandlerEnds`): anything with fairness or ENABLED is beyond
the prover. `RoundTrip` where texts are cut into segments. Every other invariant of a run that
passes, and every action property, is a theorem.

## 6. Disagreements found

Four have a run that shows them.

1. `sqlite.py:388`: on a session that expired by the TTL in force but whose row has not,
   `get()` calls `delete()` without the lock handle. `get_or_create()` runs under the
   session lock, so the task waits for itself for ever, and every later request of the
   session behind it. It takes a restart with a shorter idle TTL, or the clock passing
   the TTL between two readings (`pipeline_self_wait`).
2. `text_replacer.py:60`: the held back suffix may begin inside a complete alias, which
   is cut and reaches the client unrestored, against `text_replacer.py:5-7`
   (`streaming_overlap`).
3. `openai_responses_stream.py:153`: over SSE, a call that an error event reports as "not
   forwarded to the client" is forwarded by the `output_item.done` that repeats its
   arguments or by the final response object (`responses_refused`).
4. `engine.py:285`: with segments, an issued alias is protected among the findings of its own
   segment only, and `resolve()` leaves it out of its result; a model's finding in the joined
   segments that covers it is then masked, alias and all, against `existing_alias.py:3-4`
   (`alias_remasked`).

Conditions in properties, or in the models, that are there because of what the code does:

5. `dictionary.py:78-104`: a term is looked for in the casefolded text, and its offset there is used in
   the normalised one. A letter that is two in lower case before the term moves the span: of
   `Straße tanaka!` the term `tanaka` is reported as `anaka!`, and of `ß tanaka` `detect()` raises
   IndexError, against `dictionary.py:5-6` (`FoldsOneToOne` in `OffsetsSound`).
6. `sse.py:91`: CRLF is replaced in each chunk by itself, so a chunk that ends in the middle of one
   makes two line ends of it, and a blank line, against `sse.py:6` (the condition of `EventsOfAnySplit`).
   `sse.py:4` says unknown fields pass through; they are dropped.
7. `sqlite.py:108` and `111`: the key is read, and then its path opened again and locked. A reset that
   replaces the state directory in between leaves a gateway that runs with the old key and
   has locked the new one, against `bootstrap.py:139` (`crossed` in `OneWriter`).
   `sqlite.py:598-602`, too: the lease's path is unlinked while another process may have opened it;
   that one locks a file without a path, and a third process, with a copy of the key file, makes
   and locks a new one, against `sqlite.py:180`. One layout has one key file, and so `StateLayout` does not
   show it.
8. `models_fetch.py:188`: files are verified by path and then loaded by path; a change in between is not seen
   (`touched` in `ModelIsWhole`).
9. `forwarder.py:86-111`: if the response is never iterated, its generator never begins and the
   upstream connection is not closed (the condition `relaying` in `EndsInOrder`); a request for
   a stream that is answered with JSON is neither restored nor bound (`Readable`); a client
   that hangs up may be counted as served (`gone` in `AccountedFor`).

10. `engine.py:97-110`: `complete()` replaces copies of what was found between two findings, and the
   findings of issued aliases are not among them, `resolve()` having left them out. Where `SM` is found as
   a name, the `SM` of `SM_ORG_ABCEE74DFDCA` in the same text is replaced as well: what goes out is
   `SM_ORG_2CCD5296EC0A_ORG_ABCEE74DFDCA`, and the old alias is lost, against `existing_alias.py:5-6`, which
   has aliases "left untouched" (`CopyInAlias` in `RoundTrip`).
11. `engine.py:536`: the guard compares without case, whereas dictionary entries are case-sensitive
   unless told otherwise (`dictionary.py:38`), and it looks into issued aliases, too. A registered word in
   another case is left by the detectors and refused by the guard, and so is one that is made of a
   character before an alias and the alias's first (`Elusive` in `GuardIdle`).

Met while modelling, without a run or a condition:

12. `sqlite.py:279`: `_purge_expired` deletes expired session rows but not the bindings
    that lead to them; a binding made at the answer lives longer than its session, and leads to whatever
    session has the id next (`store.py:92-93` says what it is for).
13. `inference.py:119`: a queued job that timed out frees its slot, but its item stays in
    the executor's queue behind a stuck worker: the backlog that `inference.py:15-17`
    excludes grows without bound.
14. `bootstrap.py:193-231`: a target is noted as moved before it is, so a reset whose first
    move fails reports that it could not be fully restored although it was; and when the
    restoration does fail, the temporary directory is removed with the backup in it.
15. `engine.py:445-470`: the guard looks for originals in the masked text without its aliases; what
    stood on both sides of one is then adjacent, and an original that is made of the two is reported as
    a leak. `engine.py:394`: what lies inside of an identifier is decided in
    normalised coordinates with spans in original ones. `engine.py:144-163` keeps a finding's whole normalised
    value when it cuts the finding.
16. An answer of the Responses API that has a `file_id` in an annotation (a file citation) is refused when
    the client sends it back (`base.py:41-71`; the premise `Harmless` of `AnswerComesBack`).
17. `segmenter.py:173-174` says that of overlapping claims the one added first wins; the one
    that starts first does. `memory.py` keeps the lock of a session that is deleted or expires
    after its last user has left.

## 7. Abstractions

- **Data.** Secrets, aliases, ids and names are model values. A payload is the set of its
  secrets; the protocol walkers, detectors and segmenter are its existence. The HMAC and
  the alias profiles are an arbitrary function. Sealing is the identity on authentic rows;
  a row that fails authentication is one of the store faults.
- **More behaviours than the code has.** Store faults, masking failures, guard blocks and
  upstream failures may happen to any request. A request arrives, looks its binding
  up and joins the lock in one step, as the code does without yielding;
  being handed the lock and resuming are apart, as the loop does it. In
  `RequestPipeline` a WebSocket may have several requests under way; that it has one is
  `WebSocketRelay`, whose client and upstream send anything at any time and where every
  send may suspend. In `LockRegistry` each `async with` is a use of its own. In `InferenceRunner` the steps of
  callers interleave as if they ran on several loops.
- **Fewer.** A response id is that of one request, and the upstream does not repeat
  ids. Keys never repeat (they are 256 random bits). In `ResponsesStream` and `AnthropicStream` texts are
  lengths, and an event that repeats arguments has all of them: what a dishonest
  upstream could show is outside the claims about wholeness. What `StreamingRestorer` holds back is, in
  those two, any amount below the longest alias.
  In `MaskingEngine` an alias is two symbols, a character and one that is made of its original: that
  aliases collide is the business of `AliasTable`, that one is cut of `StreamingRestorer`. A word may
  stand in the first of the two, not in the second. Detectors other than the dictionary,
  issued aliases and one model are left out there, with what `_drop_inside_identifiers` (`engine.py:394`) drops of theirs, and are
  any findings in `PolicyResolution`; of the scanners of the guard only the dictionary is there.
  Aliases are those of the default `merge_surface_forms: false`, one for each surface form.
  `ContextSegments` takes what the patterns claim as its input, `NerWindows` what the model finds, as any
  score in each window that shows an entity whole. `TextOffsets` has one letter of each kind
  that Unicode treats differently. `DictionaryHits` leaves out the patterns for CJK terms
  with spaces in them (`dictionary.py:58-73`, `106-127`). In `ProtocolAdapters` a text is made of an alias, an original, secrets
  of the kinds that the scanners tell apart, and plain tokens. `StateLayout` is POSIX: renames are atomic and replace a directory only if it is empty, a lock
  ends with its process; one reset runs at a time, and a crashed one is not cleaned up after by anybody; one key file belongs to a database. `ModelArtifacts` is the
  configuration of version 1, offline and pinned. In `HttpExchange` an exchange is by itself; what
  two do to each other is in `RequestPipeline`.
- **Not modelled, and why.** Headers, logging, the wiring of the runtime, the CLI, the doctor and the client
  integrations are I/O without protocol. `config.py` validates a file once, before anything
  runs; what it guarantees is in the assumptions on the constants. Deterministic detectors other than
  the dictionary are regular expressions and check digits without state. `touch()` and
  `list_ids()` of the SQLite store have no caller in the program; the in-memory store serves tests and a preview of one text. That
  `guard_unknown_event` (`websocket.py:243`) scans with the session of the last prepared request, and so
  misses aliases that other requests of the session recorded since, is not visible in the
  relay's model, where a guard may pass or block anything; nor are the ids in a stray event, which the
  relay sends on without looking at them (`websocket.py:339`) and never binds; nor is what a client does after
  a terminal event, which is sent before the text still held (`websocket.py:379`).

## 8. Plan

The order follows what an error would cost: first what two requests can do to each
other (`RequestPipeline` with its store and lock), then the lock and the thread pool
that it relies on, the connection around it, the way back, the way of a text, and what
runs an installation. These are modelled. Next:

1. *Composition.* A WebSocket connection that prepares its requests with `RequestPipeline`
   instead of the outcomes of it; two exchanges of `HttpExchange` that share a session.
2. *More of the code.* A second reset at the same time; the lock of the in-memory store as a second
   implementation of `SessionLock`.
