# wiremux in TLA+

wiremux maps LLM API dialects ("wires": Chat Completions, Messages, Responses,
Gemini, Converse) into each other and resolves the credentials for the upstream.
This directory models the places in which its logic is hard to test: the shared,
rotating OAuth session of `wiremux-auth` and the file it lives in, the login
flows, the proxy's handling of a request and of its byte stream, and the
translation of requests, whole answers and event streams between the wires.

## 1. Inventory

| component | state it keeps | operations | what is hard | what makes it correct |
|---|---|---|---|---|
| OAuth provider (`providers/oauth.rs`) | cached token with a pending-save mark, force flag, no-HTTP flag | `get_token`, `mark_stale`, `wake`, `refresh_as_leader`, `persist_cached_token`, adoption from the store | concurrent calls, dropped futures, several processes on one store, rotating refresh tokens, failures between grant and save | one refresh at a time; the session is never lost; only durable tokens are handed out; a 401 leads to another token |
| in-flight slot, file lock (`helpers.rs`) | a watch receiver in a mutex; an OS lock on a sibling file | `claim`, `complete`, `Drop`, `follow_refresh`, `try_acquire_refresh_lock` | the order of clearing and sending, cancellation, lock timeout | one leader, one writer, nobody waits for ever |
| write-back (`writeback.rs`) | the credential file and its temp file | `write_tokens`, `persist_login_tokens`, `remove_store_entry` | crash between write and rename; login and logout without the lock | no half-written store, no lost sibling entries |
| cloud providers (`azure.rs`, `gcp.rs`, `aws.rs`) | cached token, force flag, slot | `get_token` / `get_credentials` | as above, without a store | one refresh at a time |
| device flow, PKCE, exchange | poll interval, deadline | `poll_device_token`, `run_pkce`, `exchange_auth_code` | `slow_down`, expiry, the cap on the loop, telling the user before the save | ends by its cap; "saved" means saved |
| profile catalogue (`profile/*`) | shipped and user profiles | load, overlay, env substitution, refusal | precedence | the overlay wins, refused profiles never load |
| IR (`ir/mod.rs`) | - | the event and request types | - | - |
| stream decoders (`stream/*.rs`) | open Chat/Responses indexes | one frame to a list of events | interleaved deltas | no event is invented or lost |
| tool-call assembler (`stream/mod.rs`) | held calls and started indexes | `push`, `flush` | id, name and arguments in separate chunks | a call goes out whole and once |
| stream encoder (`stream/encoder.rs`) | open block, slots, held calls, deferred content | `push`, `finish` for five client wires | parallel calls on wires with one open block | nested blocks, nothing lost, arguments on their own call |
| mapped stream (`proxy.rs`) | decoder, assembler, encoder, `saw_terminal` | `push_frames`, `take_assembler_tail`, `finish_encoder` | truncated or broken upstream, client hang-up | one end, or an error |
| SSE and event-stream framing | a byte buffer | `feed`, `finish` | chunk boundaries, the size cap | the frames do not depend on the chunking |
| proxy requests (`proxy.rs`) | the provider behind a mutex | `handle_inner`, `handle_count`, `resolve_proxy_token`, `send_upstream` | 401 and retry, a login behind its back, error bodies in a 200 | one retry; a login is picked up; a failure looks like one |
| same-wire gate (`proxy.rs`) | held bytes, what it has seen | `push`, `finish` | frames split over reads | bytes neither lost nor doubled, a truncated stream reported |
| request maps (`map/*.rs`) | the loss report | `decode`, `encode` for five wires, `prepare_tools` | tool pairing, joined turns, hundreds of fields | carried or reported; the vendor accepts the body |
| unary completions (`stream/complete.rs`, `usage.rs`, `completion.rs`) | calls by index | `decode_response`, `encode_response_with_model` | calls without index or id, finish reasons, token counts | nothing lost, a cut-off stays one, the totals agree |
| `WireClient` (`client.rs`) | a live stream's reader | `send`, `stream`, `pull_live` | as the proxy | as the proxy |
| AWS chain and signing, ingest, CLI | caches, files | lookups, conversions | - | - |

A request resolves a token (provider -> slot -> lock -> vendor -> store), is
mapped and sent; a 401 marks the token stale and is retried once. A streamed
answer on another wire than the client's runs frame -> decoder -> assembler ->
slot filter -> encoder -> channel -> client. The store is shared by processes,
the slot by the futures of one process, a stream's state by nobody.

PROJECT.json lists the components with their status and the hazards at their
lines.

## 2. Modules

### TokenRefresh (with SingleFlight, MCTokenRefresh, TokenRefreshProofs, SingleFlightProofs, TokenKeptProofs)

A token is the number of the vendor's grant that issued it, so "newer" is `>`.
A caller is one `get_token` future and `pc` is the await it has reached; a step
between two awaits is one action. `cached`, `force`, `skip`, `slot` are the
provider's fields, one per process; `lock` and `store` are the shared files;
`live` and `issued` are the vendor. `rejected`, `stored`, `cut` are history.

| actions | code |
|---|---|
| `Start`, `Age`, `AgeStore` | load from the store, 80% of a lifetime passes |
| `GetToken`, `Claim`, `LeadStart` | the checks under the read lock, `InFlight::claim`, the leader's closure with the swap of the force flag |
| `LockAcquire`, `LockFail`, `DecideFresh`, `DecideReload`, `AdoptCopilotHosts` | `refresh_as_leader` up to the POST |
| `PostLost`, `VendorGrant`, `VendorRotated`, `VendorRefuse`, `AnswerLost`, `AdoptAfterReject`, `Answer` | the POST and what its outcome does |
| `SaveLock`, `SaveLockFail`, `Save`, `SaveFail`, `Saved` | `persist_cached_token`, `write_cached`, `write_back` |
| `Complete`, `Publish` | the end of the closure, `complete()`: slot first, result second |
| `MarkStale`, `Wake`, `WithoutHttpRefresh`, `Cancel`, `Crash`, `Login`, `Logout` | the host, the user, the operating system |

`Faults` names what the environment may do in a run; with all of it at once the
state space is too large, so each run names the faults its question is about.

`SingleFlight` is the abstract specification of `InFlight`: calls for one key
ask, take off alone or board the flight that is in the air, and leave with the
outcome of that flight or, when its leader goes away, an error. It knows neither
slot nor lock nor store. The mapping (`Flight` in `TokenRefresh`) reads a call's
role off its `pc` and shows a leader's result only from `Complete` on; that a
call may take off between `Complete` and `Publish` is the reason for the role
`landed`. The cloud providers use the same `InFlight`.

### LoginStore (with MCLoginStore, LoginStoreProofs)

`writeback.rs` below the level at which `TokenRefresh` sees it. A file is an
inode; the names `live` and `tmp` point to inodes, and a writer keeps the inode
it opened. `Begin`, `ReadDoc`, `Open`, `Write`, `Rename`, `WriteFails` are the
steps of a login, a logout and a refresh; `Drop` and `LateCall` a refresh future
that is dropped while tokio's blocking pool has taken its next call (`LateOpen`,
`LateWrite`, `LateRename`); `Crash` any process. The entries (`Keys`), the
refreshing processes (`Refreshers`) and the number of files (`MaxInode`, at least
the one that is there to begin with) are constants. The login flow is `StartLogin`, then `Callback` and `Exchange` (PKCE) or
`StartDevice` and `Poll` (device code), then the save and `TellUser`. Time passes
only in `Poll`, in small units.

### ProxyRequest, SameWireGate, Framing (with MCProxyRequest, ProxyRequestProofs, StreamKeptProofs)

`ProxyRequest` has two parts that never mix in one behaviour. In the first,
requests run through `Accept` (guard, decode, encode),
`TakeLock`, `Resolve`, `Send`, `Receive`, `Check`, `MarkStale`, over a provider
slot and a creds file they share with `Login`; `ClientSend` and
`ClientCheck` are the same path through `WireClient`. In the second, one streamed
answer arrives through `ReadChunk` and `EndStream` in reads of any size and is
handed to the same-wire gate, the mapped stream's reader or the client's
`pull_live`. A frame is two bytes, its open part and its end, named after the
frame, so doubling and loss are visible; a frame has a kind (text, terminal,
`[DONE]`, error, too large, bad checksum), and what the proxy writes itself
(`ErrorId`, `PromotedId`) has a negative name. Where the bytes break off in a frame, `whole`
says whether it lacks only its blank line or is cut in its payload, behind the event
line; the readers' `finish` tells the two apart. The profile is immutable behind an
`Arc` and each request works on its own copy, so it is no state of the model. `Framing` is the two readers, one
byte at a time (`SseByte`, `EventByte`; `Feed` runs them over a read),
`SameWireGate` what `push` and `finish` do with their frames.

### RequestMap and the Map modules (with MCRequestMap)

`RequestIR` holds the items, parts and loss report; `MapChat`, `MapMessages`,
`MapResponses`, `MapGemini`, `MapConverse` a wire's `decode` of one message and
its `encode` of all items. `Receive` appends what one message decodes to, `Encode`
produces the body. A payload is a number in the order of sending; a body is a list
of turns of blocks with the payloads they carry, an id and marks.

### Exchange: Sampling, MessagesSampling, ToolDefs, DecodeComplete, EncodeComplete, Completion (with MCExchange, ExchangeProofs)

An exchange that is not streamed: `MapFields`, `Post`, `VendorAnswers`,
`DecodeAnswer`, `EncodeAnswer`. A field's value is the case the encoders tell
apart ("high" is a temperature one vendor takes and another does not), its fate a
value for the body and an entry for the report; token limits are numbers in units
of 2048, with `TokenCap` for `u32::MAX`. Tools are kinds; the prepared list is the
set of its members with their places. An answer is a list of
blocks with a finish word and token counts that saturate at `U32Max`.

### The stream pipeline

`StreamEvents` (the events and what each decoder can produce),
`ToolCallAssembler`, `EncoderState` (fields and slot allocation shared by the
wires), `EncodeMessages`, `EncodeResponses`, `EncodeChat`, `EncodeConverse`,
`EncodeGemini`, `StreamEncoder` (dispatch) are operators from state to state;
`MappedStream` composes them into the specification of one stream
(`MCMappedStream` is its instance, `MappedStreamProofs` its proofs). A payload is
the position of its event in the upstream's stream, so loss, duplication and
reordering are visible; a frame is reduced to its role (start, delta, stop, item,
call, part, final, end, error), its block and its payloads.

The upstream is a real vendor of its wire: `VendorMay` lets a Chat upstream
interleave calls by index, with ids, names and arguments apart; the others send
one block after another. Events that carry detail of their own wire (`Protocol`)
have no slot on another wire and are left out.

What the models leave out: JSON text, header syntax, URLs, logging, the HTTP
details of a POST (only its outcomes remain), clock values except in the poll
loop, file permissions and layouts, media formats, schema rewriting.

## 3. Runs

| run | what it shows |
|---|---|
| `refresh_crash` | two processes that crash, lose answers, fail to read or save while the user logs in and out; no call is dropped: `TypeOK`, `OneWriter`, `AnswerDurable`, `ForcedIsFresh`, `SessionKept` (a live refresh token survives unless the answer itself was lost, a process died with an unsaved one, or the user logged out), `MarkKept` |
| `refresh_live` | two calls of one process, either of which may be dropped, failing saves: `OneLeader`; `EveryCallEnds` under `FairSpec`, with the no-HTTP flag, the wake hook and copilot-hosts stores; `SharesOneFlight`: the provider implements `SingleFlight` |
| `refresh_mark_stale` (violation) | the call after `mark_stale` can join an older refresh and return the rejected token |
| `refresh_stale_store` (violation) | a pending save can be older than the store, and overwrites it |
| `stream_mapped` | all twenty ordered pairs of wires: `AssemblerHolds`, `BlocksNest`, `ArgsOnOwnCall`, `TextKept`, `ArgsKept`, `ItemRepeatsDeltas`, `EndsOnce`, `CutOffNotExecuted` |
| `stream_chat_index` (violation) | a custom and a function call share a Chat index |
| `request_map` | every pair of wires: `ContentCarriedOrReported`, `MarksCarriedOrReported`, `OrderKept`, `RoleKept`, `TurnsAcceptable`, `ResultsAnswerTheirCalls`, `CallIdsDistinct` |
| `proxy_request` | two requests on one proxy: `OneRetry`, `LoginPickedUp`, `ErrorsLookLikeErrors`, `EveryRequestAnswered`; one stream in reads of any size: `BytesKept`, `TruncationReported`, `NoDoneAfterError` |
| `proxy_split_error` (violation) | an in-band error frame split over two reads is written twice from its start |
| `login_store` | three writers on one store: `TornOnlyByOverlap`, `SiblingsKept`; the login flows: `ToldOkIsSaved`, `PollDeadline` (a poll goes out at most one interval and one request behind the cap), `PollingEnds` |
| `login_poll_cap` (violation) | that is behind the documented cap on the whole loop |
| `exchange` | every pair of wires: `FieldCarriedOrReported`, `MessagesAccepted`, `AnswerKept` |

Bounds. Two calls of one process are the least with a leader and a follower
(`refresh_live`), two processes the least with a rival for the store
(`refresh_crash`); the theorems of section 5 speak of any number of both together.
The store starts with one token, so `MaxGrant` 3 lets two more be granted, by
refreshes or logins, and the first of them rotated away. `SessionKept`, `MarkKept`
and `ForcedIsFresh` are checked without `"cancel"`: a leader
dropped after it took the force flag does lose it, and one dropped behind its save leaves
a stale pending mark (section 5). A stream has at most two calls; `MaxWeight` 4 weighs text,
starts and fragments one, every other kind two, the end nothing: two whole calls
interleaved, or a call interrupted by any kind of content, then finish and
`[DONE]`. `AssemblerHolds`, `TextKept` and `EndsOnce` hold for every stream;
`ArgsKept`, `BlocksNest` and `ItemRepeatsDeltas` name the streams they are about
(`NoOrphans`, `Orderly`): a Responses or Converse client loses the order of a
call into which content falls, and a Messages client the rest of a call into
which an image falls (there, text deferred behind the call may also follow later text).

A request has four plain messages (texts, calls, results) or two of any kind, or
a mixture: two calls and two results, a call between other turns, a rich turn
beside another; the encoders look at one neighbour. Two requests are enough for
the provider's mutex; three frames hold a text, an error
and a `[DONE]`, cut anywhere. The store has one login, one logout and one refresh,
each of four entry keys present or not (`MCKeys`: the exact one, two that fit, one
of another client), and four inodes: the live file and one for each writer; times are small numbers on both sides of each cap,
with zero. An answer has three blocks (two calls and something between), a
request three tools; fields that no encoder looks at together are set one at a
time, the `Groups` that are in all combinations.

Fairness. `WF(Progress(c))` for every `get_token`: the runtime polls a woken
future, and the lock wait and the HTTP client have timeouts. `SF(RequestStep(r))`
for every request of the proxy: tokio's mutex is served in order, and a hanging
connect or read runs into its timeout. `WF(Poll)`: a timer that is due fires.
Nothing is assumed of users, other processes, or of which outcome a vendor
chooses.

Deadlock is checked except where the system really stops: `refresh_crash` (logged
out users and crashed processes), `request_map` and `exchange` (a request ends),
`login_store` (a login and its writers end).

## 4. What the properties except, and other observations

Each exception in a property is a behaviour of the code that was needed to make
it hold; they are collected here for a reviewer of the code.

Requests. Losses without an entry in the report: white-space text on Messages and
Converse; the text of a Responses system or developer message
that is one part with a cache breakpoint (responses.rs:306; of that field ir/mod.rs:402 says that other wires "keep `text`");
in a tool result, raw parts on Chat (chat.rs:635) and on Gemini every part but inline
media of the types a function response takes, so also a spreadsheet or a Word document
(gemini.rs:804, the check is map/mod.rs:732); on Converse, reasoning without a summary
(converse.rs:1062) and thought signatures; the notes of a schema that is itself
dropped and its name on Gemini; `tool_choice` without tools on Converse, which
for `none` takes the tools away and reports only the choice. Gemini reports a
dropped raw tool by its place among the prepared ones (gemini.rs:1122), which would be
off after a dropped or flattened tool; no decoder produces a raw tool beside others, so
each tool is required to be reported under its own index. `top_logprobs` turns
`logprobs: false` into `true` on Chat and Gemini without a record (chat.rs:1388,
gemini.rs:1497); tests/request_maps.rs:7630 wants it so, and `Overruled` names it. `merge_extra_body` writes over the
client's fields without a record and can put `temperature` back beside thinking.
A budget of `u32::MAX` saturates, leaving `max_tokens` equal to it
(messages.rs:2279). `reasoning_effort` "none" enables thinking with the default
budget on Messages (messages.rs:2462). Gemini's `thinkingBudget` -1 and every number above `u32::MAX` is lost
(`u32_field`), and Converse's `maxTokens` wraps there (`as u32`, converse.rs:514;
`ReadNumber`): the properties speak of the number that was read.
`tool_name_case` renames definitions but not the names in `tool_choice`, in the
history or in the answer (tools.rs:139), and names may collide after it.

Whole answers. Arguments that are not JSON become `{}` for Messages and Gemini
clients (complete.rs:663, :1057). A tool turn of a vendor that says "stop", such
as any Responses vendor, reaches a Messages client with `end_turn`
(complete.rs:466), where the stream encoder says `tool_use`. Converse's stop words
reach other wires unmapped, its output tokens leave reasoning out, and a Converse
body with an error and a `stopReason` counts as an answer. A failed Responses answer
with an error and text, a refusal, audio or a call is refused with the vendor's message
(responses.rs:264 and docs/CONSUME.md:272 agree; stream/mod.rs:146-150 says that text,
a refusal or audio "stays `Ok`"). Chat calls without an
index are told apart by their ids only. Of several signatures the last is kept;
audio is dropped for Messages, and blocks of a wire's own for every other.

Streams. The same-wire gate takes an open Responses frame for terminal by its event
line (proxy.rs:1241, stream/mod.rs:743), so that one which breaks off inside
`response.completed` ends without an error, where CHANGELOG.md:401 has streams
"that end on an error or a truncated frame" fail; `CutFrameEnds` in
`TruncationReported` names that case, and a frame that lacks only its blank line. A frame over the cap or with a bad checksum takes the complete frames of
the same read with it (sse.rs:53, eventstream.rs:55). A Converse failure in JSON
is reported as an incomplete stream.

Store. Login and logout take no lock, and a dropped refresh releases its own
while a call still runs; all share one temp name. With overlapping writers the
live file can be torn or an update lost, although writeback.rs:466 says it is
replaced "without truncating the live file"; `TornOnlyByOverlap` and
`SiblingsKept` state what holds when writers take turns. A refresh that outlives a
logout writes the entry back. The device loop tests its deadline before it sleeps,
so "capped at 15 minutes" (device_flow.rs:174) holds up to one interval and one
request (run `login_poll_cap`; `PollDeadline` is the bound that holds). `run_pkce` waits for its callback without a limit.

## 5. Proofs

`TokenRefreshProofs` proves, for every set of processes and callers, every
assignment of callers to processes, every bound on grants and every set of
faults, from the named assumptions of `TokenRefresh` only:

- `TypeCorrect`: `Spec => []TypeOK`
- `SingleLeader`: `Spec => []OneLeader`
- `SingleWriter`: `Spec => []OneWriter`
- `AnswersAreDurable`: `Spec => []AnswerDurable`

They follow from the inductive invariant `IInv` (`Invariance`). The properties
are not inductive by themselves: that two leaders exclude each other needs
`SlotOwned` (the slot names the leader), two writers `LockOwned`. That no
unsaved token is handed out needs more: a leader in `refresh_as_leader` sees no
pending save (`NoPendingInRefresh`), because only the one leader can create one;
then whatever it returns from memory has been in the store (`MemoryRecorded`,
`StoreRecorded`). Each conjunct is preserved by a lemma with one step per
action.

`SingleFlightProofs` proves `ImplementsSingleFlight`: `Spec => SharesOneFlight`,
the refinement. `SlotOwned` shows that a call takes off alone; the converse
`SlotLed` (a slot that is taken names a leading call of that provider) that
whoever finds it taken boards a flight somebody flies; `ResultPending` and
`OnlyFollowersWait` that results and channels change only at the abstract steps.
`StepRefines` has one step per action: seven are abstract steps, the others
stutter.

`MappedStreamProofs` proves, for every pair of wires, any number of calls, any set of
reasons and streams of any length:

- `AssemblerNeverHoldsReady`: `Spec => []AssemblerHolds`
- `StreamsEndOnce`: `Spec => []EndsOnce`
- `CutOffIsNotExecuted`: `Spec => []CutOffNotExecuted`

For the first, `AsmOK` adds that an absent entry has neither id nor name, because a
fragment of an unannounced index turns an absent entry into a held one.

The other two are about the frames, and one step may put out many: the assembler lets
out any number of events, an encoder any number of frames for each, `finish` all that
was held or deferred. `EncInv` (`EncoderInvariance`) says what an encoder is between
two calls. While it streams (`Steady`) neither its frames nor the frames that wait
(`later`) end the stream, report an error or tell the client to run tools, and no
finish event is among the deferred events; once it has finished its frames are closed
by one end frame, which the upstream's end marker has called for; and the reason it
remembers is the one the upstream sent (`Told`), so that a reason that runs tools
(`Runs`) is an ordinary one. Every operator of the five encoders has a lemma that it
leads from such a state to such a state (`Goes`, `Heard`, `Closes`, and `Broken` for a
media format Converse cannot carry); the loops (held calls, deferred events, the events
of a step) are recursive functions, treated as in `StreamKeptProofs` below. Two facts
about the assembler are needed: what `flush` lets out are a call's events only
(`FlushOut`), and a finish or an end marker comes behind them (`PushOut`). The one new
assumption is `ReasonsAssumption`: a reason differs from `Unset`, the model's `None`.

`TokenKeptProofs` proves what the provider keeps across failures:

- `SessionIsKept`: `Spec => []SessionKept`, if no call is dropped (`"cancel"` is
  not among the faults) and the vendor rotates refresh tokens always or never
- `MarksAreKept`: `Spec => []MarkKept`, if no call is dropped and no store is a
  copilot-hosts file
- `ForcedRefreshIsFresh`: `Spec => []ForcedIsFresh`, under the same and if
  `without_http_refresh` is not used

All three rest on `SeenInv`: every token is written to the store once, so one that
has left it does not come back (`NewUnseen`), and what a call has seen is in the
store only while memory holds it (`StoreMovesOn`). With it a reload that finds
another token has found one nobody was refused for. `ForcedReplaces` carries this to
the end of a forced refresh while other calls report and re-mark; `OnItsWay` says
that, unless something was cut, a live refresh token is in the store, in a pending
save or in an answer. The hypotheses are needed, and each is a behaviour of the
code that TLC shows when the hypothesis is dropped:

- A dropped call: between the rename and the line that clears the pending mark
  there is an await, so a future dropped there leaves a saved token marked unsaved;
  the next `persist_cached_token` writes it over what another process has saved since.
  Two processes and three grants are enough to lose the session that way, three
  processes and four grants for a forced refresh to come back with the old token.
  `ForcedIsFresh` is therefore claimed, in its run and in its theorem, of calls that
  are not dropped.
- A vendor that rotates sometimes: a pending save may hold the refresh token that
  another process still shares and has rotated away since; the retry puts it back.
  It is the same overwrite as in `refresh_stale_store`.
- `without_http_refresh`: the fast path then hands out the new token while its leader has not
  finished, so that it can be refused before the forced refresh is over.
- copilot-hosts: the store has no refresh grant, and a forced refresh may have
  nothing but the refused token to return.

`LoginStoreProofs` proves, for any times, entries and refreshing processes:
`TornOnlyByOverlapHolds`, `SiblingsAreKept`, `ToldOkSaved`, `PollDeadlineKept`. None
of the properties is inductive: a live file stays whole because the one writer at
work (`TurnsTaken`) renames a temp file it has opened itself and written to the end
(`TmpIsMine`), and an entry stays because the document the writer read is still the
live one (`LiveWasRead`, `EntriesKept`). `FlowInv` ties what the user is told to the
writer of the login, and the poll times to the two caps. The proof of the initial
state is why `MaxInode` must not be 0.

`ProxyRequestProofs` proves, for any number of concurrent requests: `RetriedOnce`,
`LoginIsPickedUp`, `ErrorsAreTold`. `SendsCounted` ties the number
of sends to where a request is and to whether its retry is spent; `VerdictPending`
says that a vendor's 200 is held only by a request that is being answered, so the
verdict is one step's.

`StreamKeptProofs` proves of a streamed answer, for any number of frames (every
`MaxFrames`), any cut into reads and every way to break off:

- `BytesAreKept`: `Spec => []BytesKept`
- `TruncationIsReported`: `Spec => []TruncationReported`
- `NoDoneBehindAnError`: `Spec => []NoDoneAfterError`

None is inductive. The last two follow from `StreamInv` (`StreamInvariance`): a
reader has noted a terminal frame only if such a frame has arrived or an error was
handed on, and dropped the rest only behind an error; a reader that met a frame over
the cap or with a bad checksum has told so or is stuck at that frame, which its
`finish` reports (`Stuck`); its open frame is the one the bytes read so far end in
(`OpenAt`), so at the end it is the `CutFrame`; a reader that stops by itself has
handed on an error or the promoted completion; and at the gate an error frame that was handed on is remembered in
`verr`, from when on nothing is held back and what is handed on has no `[DONE]`, while without
`verr` neither the bytes handed on nor those held contain an error frame. `NoDoneAfterError` alone
says nothing about the bytes that are held and handed on at the end (`GateFinish`).
`BytesKept` needs `KeptInv`: for sound frames a reader's state is a function of how
far the bytes were read (`SoundReader`). The buffer is the open frame; what was
handed on and what is held are together the bytes read so far, up to the `[DONE]`
frames on Responses, where the gate rewrites whole frames. `Pieces` then says that a
read completes exactly the frames whose ends lie in it, wherever it was cut.

The readers (`Feed`) and the filter of `[DONE]` (`Without`) are recursive functions.
What they compute for every input is proved by induction over the set of positions at which the
claim holds: `LeastMember` and `Induction` get it from the library's theorem that
finite sets are well-founded, because its induction theorems with an operator
parameter are out of the provers' reach. `FeedSteps` and `WithoutSteps` show that the
functions exist and give their equations.

`ExchangeProofs` proves `FieldsReachTheVendorOrTheReport` and
`AnthropicTakesTheBody` for any limits and any list of tools, and
`EveryDecodedRequest`: the same of every request that satisfies `Decoded`, so for
all fields set together, where the run combines those of one group. The invariant
(`ExchangeInv`) only says that `sent` is the body of `request`; the argument is about
`EncodeBody`. One lemma per wire lists what its encoder leaves out without a record
(`ChatKeepsWords` and its like; the list is `Moot`, `WithTheSchema` and `Overruled`),
`FatesAreFollowed` shows that stripping `store`, the profile's extra body and its
forbidden fields lose nothing more, `PreparedOrTold` covers tools, and `MessagesLimit`
is the arithmetic of `encode_thinking` with its saturating sum. It assumes that
`TokenCap` is not below 32, the largest budget of an effort (65536 tokens), which
`u32::MAX` is not. Of the decoders it needs that a `json_object` excludes a schema
(Converse drops the former silently beside the latter), that `logprobs` is a boolean
and that no client writes the `thinking` object by itself.

Only model-checked: liveness (`EveryCallEnds`, `EveryRequestAnswered`,
`PollingEnds`; fairness is beyond the prover); what mapped streams do with their
payloads and blocks (`BlocksNest`, `ArgsOnOwnCall`, `TextKept`, `ArgsKept`,
`ItemRepeatsDeltas`); conversations (`RequestMap`) and whole answers (`AnswerKept`).
These compare the output of five encoders with the whole history of the input: an
inductive invariant would have to say for each wire what its state (open block,
slots, held calls, deferred content) still owes the client, where `EncInv` only says
what it must not contain. `RequestMap` and `Completion` build their output with the
library's folds, of which the provers know nothing.

## 6. Not modelled, and what is left

Not modelled: the cloud token providers (the slot of `TokenRefresh` without
store, lock or rotation), the profile catalogue (parsing and merging at start-up),
static tokens, AWS signing and its chain of lookups, `ingest` and argument
parsing, the profile's system prefix, schema rewriting, the JSON detail of the
decoders.

Left, in order:

1. `TextKept` on Chat and Gemini, whose encoders hold back no text that later events
   could reorder: `EncInv` with the payloads put out so far.
2. `TokenRefresh`'s atomic `Save` as an abstraction of `LoginStore`'s steps, where
   writers do not overlap.
3. The system prefix and `tool_name_case` in `RequestMap`.
