# A TLA+ model of node-libcurl

node-libcurl is a Node.js addon that drives libcurl from the event loop. Its own
logic is not in the transfer protocols, which are libcurl's, but in the layers
that keep four views of one transfer in step:

- libcurl's (a `CURL*` in a multi, a running transfer, an unread message),
- the addon's (an `Easy` object, a deferred stored under the `CURL*`, a kept
  callback error, a pause state),
- the JavaScript class's (`Curl`: running, buffered chunks, a response stream,
  an immediate that is still queued),
- the caller's (a promise, an `end` event, a handle in a pool).

All of it runs on one thread, yet almost nothing is atomic: JavaScript runs
inside libcurl's callbacks and inside the loop that reads its messages, promise
reactions run after that, immediates later still, and in each of these places
the caller may close, reset, remove, reuse or drop the objects concerned. That
is what these modules model.

Contents: [Components](#components) · [Hazards](#hazards) · [Plan](#plan) ·
[Modules](#modules-and-the-code) · [Runs](#runs) · [Findings](#findings) ·
[Proofs](#proofs) · [Not modelled](#not-modelled)

## Components

| part | state | operations | correct if |
|---|---|---|---|
| `Multi` (`src/Multi.cc`, `lib/Multi.ts`) | `isOpen`, `amountOfHandles`, `handlePromiseMap`, `cbOnMessage`, socket contexts, timer | `addHandle`, `perform`, `removeHandle`, `onMessage`, `close`, `getCount`; called by the loop: `OnTimeout`, `OnSocket`; by libcurl: `HandleSocket`, `HandleTimeout`, `NotifyCallback`, `CbPushFunction` | every message meets a live `Easy`; a promise gets one verdict, its own; no message stays unread |
| `Easy` (`src/Easy.cc`, `lib/Easy.ts`) | `ch`, `isOpen`, `isInsideMultiHandle`, `callbackError`, `callbacks`, `pauseState`, progress latch, read offsets, HSTS cache, the shared `ToFree`, socket poll handle | `setOpt`, `getInfo`, `perform`, `reset`, `close`, `dupHandle`, `pause`, `monitorSocketEvents`; callbacks of libcurl | a handle inside a multi is not closed or reset; an error thrown in a callback reaches the transfer it belongs to and no other |
| `Curl` (`lib/Curl.ts`) | `isRunning`, `chunks`, `headerChunks`, `features`, `multiInstance`, stream state, pending immediates | `perform`, `onEnd`, `onError`, `close`, `reset`, `setMulti`, `pause`, `setUploadStream`, default write, header and progress functions | each accepted request ends in one event with its own data, after the handle left its multi; no stream hangs |
| `curly` (`lib/curly.ts`) | `pool`, `poolLimit`; per call a handle, listeners, a promise | `curly()`, `setObjectPoolLimit`, `end`, `error` and `stream` listeners, body parsers | a handle is used by one call at a time, none is lost, calls settle |
| `CurlMime`, `CurlMimePart` | `mime`, `part`, callback references, a self reference | `addPart`, `setSubparts`, `setDataCallback`, `setDataStream`, free callback | one owner for each structure; a body is whole or fails |
| `Share` | `sh`, `isOpen` | `setOpt`, `close` | not freed while used |
| addon instance (`src/Curl.cc`) | handle counters, CA certificates | `AdjustHandleMemory`, `getCount` | counters equal the open handles |
| helpers | one `StringDecoder` for the whole process | `parseHeaders`, `mergeChunks`, `decodeData`, content-type matching | each response gets its own headers, body and parser |

How they interact: `curly` takes a `Curl` and calls `Curl.perform`, which calls
`Multi.perform` with its `Easy`. libcurl asks the addon to watch sockets and a
timer; when one fires, `OnSocket` or `OnTimeout` calls `curl_multi_socket_action`,
which calls back into the `Easy` (data, headers, progress) and from there into
`Curl` and the user. Messages of ended transfers are read by
`Multi::ProcessMessages`: after that call up to libcurl 8.16, within it (through
`CURLMOPT_NOTIFYFUNCTION`) from 8.17 on. A message settles the deferred of
`perform()` or calls `onMessage`. `Curl` reacts to the promise by queueing an
immediate, which removes the handle from the multi and emits `end` or `error`;
`curly` listens, returns the handle to its pool and settles the caller's promise.

## Hazards

`PROJECT.json` lists them with their lines. The ones that shaped the models:

1. a `CURL*` is an address: messages, the promise map and `CURLINFO_PRIVATE` find
   objects by it, and addresses are reused;
2. user code runs inside the loop that reads messages, and inside libcurl, where
   libcurl refuses most calls (`CURLM_RECURSIVE_API_CALL`) for the multi that is
   on the stack, and accepts them for another one;
3. between a result and its event lie a microtask and an immediate, in which the
   handle may be closed, reset, or its multi closed;
4. state that belongs to one request survives into the next: `callbackError`,
   `chunks`, `features`, `nextPauseFlags`, `streamError`, the progress latch;
5. a paused transfer and a reader who wait for each other;
6. the pool gives a handle away while its last event is still dispatched;
7. an upload stream or the stream of a MIME part emits its events between what a
   read callback returns and libcurl's reaction to it;
8. what libcurl does not copy (lists, MIME structures, shares) is held by objects that
   duplicates share and `reset()` replaces;
9. libcurl knows a C function and a pointer for every function of an Easy, changed one
   by one, and calls some of them while a handle is duplicated or cleaned up;
10. descriptors are closed and reused while libuv still closes the handle of the last
    connection; the environment may end at any time;
11. bytes of an unfinished character stay in a decoder that all Curls share.

## Plan

Done, in this order:

1. `MultiHandle`, with `PerformContract` as the abstract specification of
   `perform()`, and `MultiHandleProofs`;
2. `CurlRequest`, which uses of `Multi` what the contract says;
3. `CurlyPool`, which uses of `Curl` what `CurlRequest` shows;
4. `ResponseStream`, the download stream of one `Curl`;
5. `RequestBody`, upload streams and streams of MIME parts;
6. `EasyCallbacks`, what an Easy keeps between calls of its callbacks, and
   `EasyOptions`, which callbacks it has;
7. `SocketWatch`, contexts, timer, monitored connections and the end of the
   environment;
8. `EasyMemory`, the `ToFree` of duplicates, MIME ownership, shares, the counts;
9. `ResponseData`, the operators that turn bytes into what the caller gets.

The server push that was planned next to `EasyMemory` has nothing to model: every push
is refused before the caller's function is asked (see [Findings](#findings)).

10. the proofs, with every safety property the runs check, and the steps of the
    refinement of `PerformContract`.

Nothing of the plan is left. What a proof cannot have is under
[Only model-checked](#only-model-checked).

## Modules and the code

### MultiHandle (`src/Multi.cc`, part of `src/Easy.cc`)

One action per native method and per place where control can change hands.
`at` says where control is: `"loop"` (JavaScript or idle), `"libcurl"` (inside
`curl_multi_socket_action`), `"callback"` (JavaScript in a transfer callback),
`"drain"` (in `ProcessMessages`), `"message"` (JavaScript in `onMessage`), and
`"aborted"` after the assertion of `Multi::Dispose`. API calls are enabled in the
three places where JavaScript runs.

| model | code |
|---|---|
| `NewEasy`, `ResetEasy`, `CloseEasy`, `CollectEasy` | `Easy::Easy`, `Reset`, `Close`, `~Easy`; the guards are their `isInsideMultiHandle` checks |
| `DupHandleThrows` | `Easy::Easy` for a duplicate whose HSTSREADFUNCTION throws while the original is in a Multi; any other duplicate is a `NewEasy` |
| `AddHandle`, `Perform`, `AddRefused`, `RemoveHandle`, `OnMessage`, `CloseMulti` | the methods of `Multi` |
| `SocketAction`, `StartDrain`, `ReadMessage`, `MessageReturns`, `DrainDone` | `OnTimeout`/`OnSocket`, the loop of `ProcessMessages`, `CallOnMessageCallback` |
| `TransferCallback`, `CallbackReturns` | any callback of `Easy` and `throwErrorMultiInterfaceAware` |
| `memberOf`, `current`, `result`, `msgs`, `TransferDone`, `Detach` | libcurl's multi, as far as the code relies on it |

`Ptrs` are addresses: `NewEasy` may get any address no open Easy has, so reuse is
the normal case. `Transfers` name the calls that started a transfer; that is a
history variable, the code has only the address, and the difference is what
`OwnResult` is about. `settledBy`, `threw` and `left` are history as well.
`Notifications` selects the libcurl version. `Disciplined` restricts the caller,
never the code: keep the Easy referenced, remove only what is a member and was
reported, set `onMessage` before `addHandle()`.

While libcurl duplicates a handle, its pointers lead to the original, and so does an
error (`Easy.cc:86`, `336-344`). `threw` counts it for the transfer that the original
has not reported: the code does report that one as aborted, and
`VerdictMatchesTransfer` says that no other one suffers, whether the result is in
already, the Easy is reset, or added again.

`cbOnMessage` has three values, as the reference has: never set, set, and cleared with
null (or by `close()`). A message without a deferred makes the code call it in any case
(`Multi.cc:580-597`). A cleared reference gives an empty function, whose call fails like
a callback that throws and is ignored; one that was never set has no environment to get
the value from and the process ends. Both are what node-addon-api does with them.

### PerformContract

What `lib/Multi.ts` promises of `perform()`: one promise, settled once, by the
outcome of that request, with "aborted" exactly if a callback threw before it was
settled, one of the request or of a duplicate of its handle; a closed multi abandons. `MultiHandle` implements it under the mapping in its last section (the
`left` of a pending call is "abandoned", a call by `addHandle` does not exist).

### CurlRequest (`lib/Curl.ts`)

Per Curl: `isRunning`, `multiInstance`, stored `chunks`, listeners, `inside` (the
flag) and `member` (libcurl's opinion). Per request: a phase from `"running"`
over `"answered"` (libcurl has a message), `"settled"` (the promise), `"scheduled"`
(the reaction queued its immediate) to `"done"`. `SettlePromise` may happen while
libcurl is on the stack and `Reaction` after it, so that the reason for the
immediate (`Curl.ts:750-758`) is in the model: the mutant that removes the handle
in the reaction violates `FinalizedOutside`. `Close`, `Reset`, `SetMulti`,
`CloseMulti` and `Perform` are enabled wherever JavaScript runs. `Reset` of a closed
Curl drops its listeners before the exception of the Easy, and does so here.

### CurlyPool (`lib/curly.ts`)

`Curly`, `CurlyThrows` (an exception before the promise is made) and `CurlyRefused`
(`perform` throws in a transfer callback) are the three ways a call begins; `Ends`
is `onEnd`/`onError` emitting to the listeners attached to the Curl, which `OnEnd`,
`OnError` and `ParserReturns` run one at a time, with user code in the parser.
`getFromPool` takes the last of `pool`; `ReturnToPool` keeps, or closes.
`streaming` is the StreamResponse feature, which `reset` does not clear. A request
without a reader for its stream (`Stuck`) does not end well.

### ResponseStream (`lib/Curl.ts`, `Easy::OnData`, `CbXferinfo`, `Pause`)

One Curl, requests that follow each other, one Readable per request that lives on
after it. `Chunk` is the WRITEFUNCTION with its three outcomes (create the stream
and pause; pause; push). `Progress` applies `nextPauseFlags`, or unpauses for a
reader that came too early, and throws `streamError`. `Read`, `PauseEvent`,
`ResumeEvent`, `Destroy` and `AutoDestroy` are the hooks; `EmitStream`, `OnEnd`,
`EmitEnd`, `OnError` the immediates, run in the order of the queue. Sizes are
numbers, contents are not modelled: `sent`, `held` and `pushed` count what the peer
sent, what libcurl keeps of a refused chunk, and what the stream got. `overrun` is a
history variable: a chunk was larger than what its stream had asked for, which
`StreamedRequestsEnd` excepts and `WaitingReaderServed` is about.

Assumed of libcurl: a chunk answered with PAUSE is delivered again on unpause,
within `curl_easy_pause`; the progress function is called also while the transfer
is paused; `curl_easy_pause` fails when the transfer has no connection any more.
The destruction of a Readable and its `destroy` hook are one step.

### RequestBody (`lib/Curl.ts`, `lib/CurlMimePart.ts`, `Easy::ReadFunction`)

One Curl, requests that follow each other, Readables of which each is an upload
stream (`SetUploadStream`) or the stream of a part (`SetMimePost`). `upload` holds
`readFunctionStream`, its listeners and its three flags, `mime` the locals of
`setDataStream`. The Readable is `Produce`, `EndOfData`, `Destroy` and the events
`EmitReadable`, `EmitEnd`, `EmitClose`; libcurl is `Read` (the read callback), `Returns`
(libcurl looks at what it returned), `Progress` (where `streamError` is thrown),
`Answers`, `Fails`. Events also run between `Read` and `Returns`, which is why the code
unpauses from immediates (`Resume`, `Unpause`). `ResetInternalState` is the method of
that name. Bytes are counted: `made`, `taken`, `fed`.

### EasyMemory (`Easy::ToFree`, `src/CurlMime.cc`, `src/Share.cc`)

`toFree` is the shared pointer of each Easy, `held` the entries of a `ToFree`; `Leave`
is what the last owner does. `DupHandle`, `Reset`, `Close`, `SetList`, `SetMimePost`,
`SetSubparts`, `NewShare`, `CloseShare` and their opposites are the operations; `mime`
has the parent that libcurl knows, and `Below` the structures libcurl frees with one.
`easyCount` and `shareCount` are the counters behind `getCount()`. Close stands for
collection as well: the destructor does the same.

### EasyOptions (`Easy::SetOpt`, `ResetRequiredHandleOptions`, `CopyOtherData`, the callbacks)

For eight kinds of function options: whether the Easy has a function (`callbacks`),
whether libcurl calls the addon's C function (`installed`), and to which Easy its
pointer leads (`userdata`). `Call` is any of the C functions: it asserts that it finds
its Easy and its function. `DupHandle` calls HSTSREAD with the pointers of the original,
busy or not; `Dispose` (`Close`, `Collect`) calls HSTSWRITE in `curl_easy_cleanup`. What a
function makes of its arguments is left out; where its error goes, in the transfer
of its Easy or while libcurl duplicates it, is in `MultiHandle`.

### EasyCallbacks (`Easy::CbHstsRead`, `CbProgress`, `ReadFunction`, `SeekFunction`)

One Easy, over requests, duplicates and resets: the array that a HSTSREADFUNCTION
returned, kept in reverse in `hstsReadCache` with `wasHstsReadCacheSet`; the progress
latch; the descriptor of READDATA and `readDataOffset`. One action per branch of
`CbHstsRead`. `SetReadData`, `SetCallback` and `Reset` are enabled in a request as between
two, the latter two not from within the HSTSREADFUNCTION itself, where they take away
what is on the stack. The second part of the variables is history.

### SocketWatch (`Multi::HandleSocket`, `OnSocket`, `HandleTimeout`, hooks; `Easy::MonitorSockets`)

`socketp` is what libcurl remembers of a descriptor, `socketContextMap` the map of a
Multi, `context` the `CurlSocketContext`s, `watcher` what libuv polls. `OpenSocket`,
`CloseSocket`, `Poll`, `Remove` are libcurl; `OnSocket`, `OnTimeout`, `ContextClosed`,
`TimerClosed`, `PollClosed` libuv's calls; `CleanupHookAsync` the end of the
environment. libuv's refusal to start a closing handle or to poll a descriptor twice
is `aborted`. `Remove` without a `socketp` does nothing, as in the code
(`Multi.cc:717-731`), which is what the additional call of libcurl up to 7.81 is
(comment at `Multi.cc:641`); a libcurl that forgets the pointer, does not tell of the
removal otherwise and closes the descriptor under its context is not modelled.

### ResponseData (`lib/parseHeaders.ts`, `lib/mergeChunks.ts`, `lib/decodeData.ts`, `lib/Curl.ts`, `lib/curly.ts`)

Operators on sequences of lines and bytes with the names of the functions
(`ParseHeaders`, `MergeChunks`, `FindParser`, `LowerCase`, `DecodeData`), and a step
`End` in which the request of some Curl ends. `lastChar` is the one thing kept between
them: the byte the shared `StringDecoder` holds. Its UTF-8 has characters of one and of
two bytes. The properties compare the results with what the responses were made of.
`DataInit`, `DataNext` and `DataSpec` are its machine. Left out, and no property depends on
them: the `result` key of a header object (the status line apart from its code), a single
parser for every type (`curlyResponseBodyParser`), and that gzip, deflate and brotli
differ: a body is encoded or it is not.

### MCMultiHandle, MCCurlRequest, MCEasyMemory, MCEasyCallbacks, and the Proofs modules

Symmetry sets for the runs without liveness. `MCEasyCallbacks` also puts `EasyOptions`
and `EasyCallbacks` (as `Kept`) side by side in one run: a behaviour is one of either.
The other modules are small enough to be checked as they are. `XProofs` extends `X`
and holds what is proved about it; `EasyCallbacksProofs` extends `MCEasyCallbacks` and
has the proofs about both of its halves; `CurlyProofs` is about the two modules behind
a curly call, `CurlyPool` and `ResponseData`, whose names are therefore disjoint.

## Runs

| run | module | question | instance | states |
|---|---|---|---|---|
| MultiAny | MCMultiHandle | safety, any caller, libcurl 8.17 | 2 multis, 2 Easies, 2 addresses, 2 calls | 1,985,000 |
| MultiLive | MCMultiHandle | exact count, settlement, refinement for disciplined callers, libcurl 8.16 | 1 multi, 2 Easies, 2 addresses, 2 calls | 134,000 |
| CurlAny | MCCurlRequest | own data, handle outside at the event, any caller | 2 Curls, 2 multis, 2 requests, 1 chunk each | 997,000 |
| CurlLive | MCCurlRequest | every request ends, nothing uncaught, callers that touch idle Curls | 2 Curls, 1 multi, 2 requests | 18,000 |
| PoolAny | CurlyPool | pool and settlement | 2 Curls, 3 calls, limits 0 to 2 | 145,000 |
| StreamAny | ResponseStream | integrity and liveness of download streams | 2 requests, mark 1, chunks up to 2, 4 bytes | 336,000 |
| BodyAny | RequestBody | integrity and liveness of request bodies | 2 requests, 2 streams, 3 bytes each, 2 asked for | 83,000 |
| EasyAny | MCEasyMemory | what is freed, when, how often | 3 Easies, 3 ToFrees, 2 lists, 2 MIMEs, 1 share | 41,000 |
| CallbacksAny | MCEasyCallbacks | functions find their Easy; entries, aborts and places of one request in the next | 2 Easies with 2 functions of 8 kinds; or 1 Easy, arrays up to 3, 3 answers | 252,000 |
| SocketAny | SocketWatch | watching sockets through reuse and teardown | 2 multis, 1 Easy, 2 descriptors, 2 contexts | 129,000 |
| DataAny | ResponseData | headers, body, parser and inflation of responses | bodies up to 3 bytes, 2 header lines | 66,000 |
| DocStreamHang | ResponseStream | a waiting reader is not served | 1 request, mark 2, chunks up to 2, 5 bytes | 11,000 |

### Why these bounds

- Two addresses and two Easies: one address that is reused by another Easy, next
  to one that is in use. Two calls: a stale entry of the promise map needs one call
  to leave it and one to meet it. Two multis: one on the stack and one that is not.
- The theorems hold for every instance: they remove all of these bounds from the safety
  properties. What depends on the bounds are the liveness properties.
- `MaxDeficit` bounds how often a caller may remove a handle that is in no multi
  (`amountOfHandles` would go down for ever); 0 in the runs, since each such call
  changes nothing but the count.
- Three curly calls: one that leaves a handle in the pool, one that takes it from a
  parser, one from the loop. Two Curls: the pool and the call in flight.
- Chunks of up to 2 with a mark of 1, 4 bytes in all (`MaxBytes`, over both
  requests): a chunk smaller than, equal to and larger than what the reader asked
  for, so that `streamPendingReadSize` is positive, zero, negative, and zero again by
  a later read. `DocStreamHang` has a mark of 2, so that no chunk is larger than it.
- `MaxChunks` 1: two requests that share the buffer of a Curl need one chunk each.
- Two requests and two Readables for bodies: the stream of the first request lives on
  while the second runs. 3 bytes with 2 asked for: a full read, a short one, none.
- Three Easies with three ToFrees: a duplicate of a duplicate, and a ToFree that the
  original has left by `reset()`.
- Two Easies are an original and its duplicate; two functions at a time (`MaxSet`) are
  what one pair with a common pointer needs.
- `MaxLength` 3, `MaxAnswers` 3: an array with an entry before and after a bad one,
  left over for a load whose own array follows.
- Two descriptors, two contexts: one descriptor that comes back while its context is
  closing, and one other; a third context (947,000 states) finds nothing new.
- Two header lines after a status line: two spellings of one name, two values of one
  header, or the type and the encoding; 3 bytes, so that a character is cut in a chunk
  boundary, at the end, or after another.

### Fairness

`Spec` has none. `MultiHandle!LoopFairness`: callbacks return, libcurl finishes its
round, the drain loop proceeds; strong fairness where other callbacks of the loop
can get in between, as libuv serves every ready handle. `NetworkFairness` adds that
a socket or timer fires and that a transfer ends, which holds with a timeout or a
peer that answers; only `MultiLive` uses it. `CurlRequest!Fairness` and
`CurlyPool!Fairness` are the same assumptions, with the reactions and immediates of
Node.js, which are queues that Node.js empties. `ResponseStream!Fairness`: immediates
run, progress is called, users read and consume what they got, and a transfer that
is again and again free to finish does. A user who never reads is not an interesting
counterexample; no fairness is assumed of pausing, resuming or destroying.
`RequestBody!Fairness`: immediates and events run, a source ends (or is destroyed),
libcurl asks for the body and calls the progress function, and a peer answers a body
that is complete; strong where a pause comes in between. `SocketWatch!Fairness`: libuv
closes what is to be closed at the end of each turn (strong, since calls come in
between) and a call that began returns.

### Disciplined

`Disciplined` restricts the caller where the code checks nothing and the consequence
is known; what the others get is under [Findings](#findings).

| module | a disciplined caller |
|---|---|
| MultiHandle | resets or drops no Easy inside a Multi, removes only members without an unread message, closes no Multi in its own callbacks, sets `onMessage` before `addHandle()` |
| CurlRequest | attaches listeners, closes, resets or rewires only idle Curls, closes no multi that is used, performs where the multi accepts it |
| RequestBody | sets one stream per request, before it, and does not reset in between |
| EasyMemory | hands a MIME structure over once, and uses neither it nor its parts after it was freed |
| EasyOptions | clears neither PROGRESSFUNCTION nor XFERINFOFUNCTION while the other is set; keeps its Easies while they are in a Multi; closes an Easy with a HSTSWRITEFUNCTION instead of dropping it |
| SocketWatch | does not close a Multi in its own callbacks, looks at `isMonitoringSockets` before it unmonitors, unmonitors before the connection goes |

`CHECK_DEADLOCK FALSE` is in the runs where the system may really stop: after an
abort or an uncaught exception, or when the bounded calls are used up.

### Mutants

Every property of every passing run has a mutant in `PROJECT.json`, an alternative
of one definition that a plausible bug would make: `DrainOne` (one message per
event), `KeepPromise` (an entry not erased), `RemoveUnchecked`, `PerformEmplaces` (a
new deferred does not replace a stale one), `ReactionFinalizes` (no immediate),
`KeepChunks`, `ReturnWithListeners`, `AppliesFlagsOnly`, `WakeAtOnce` (no immediate),
`CopyToFree`, `UnsetAlone`, `TakeForward`, `CreateAnyway` and so on. They stand next
to what they replace, marked `[mutant]`, and nothing uses them.

## Findings

One run ends in a counterexample, against a line of the repository:

- **DocStreamHang**: `streamPendingReadSize` goes below zero when chunks arrive faster
  than a slow reader asks for them, and a chunk is refused only when it is exactly
  zero (`lib/Curl.ts:1127`, `1131`). When the reader catches up, its next `_read(n)`
  may take it back to exactly zero while the Readable waits. The next chunk is
  refused, the progress function does nothing at zero, and Node.js does not call
  `_read` again before a push: the transfer hangs, without an error. The test at
  `test/curl/streams.spec.ts:143` expects slow readers to be served with any
  combination of mark and buffer.

Met while modelling, present in the models (unless said otherwise), without a run:

Multi and Easy

- `lib/Multi.ts:155` says that removing a handle that is being performed rejects its
  promise. `RemoveHandle` (`Multi.cc:371`) does not touch the promise map; the promise
  stays pending, and the entry is settled by the next transfer at the same address
  (the exception in `OwnResult`), whose own `onMessage` is then skipped.
- `getCount()` goes down for `removeHandle()` of a handle that is in no multi.
- `Multi` keeps no reference to an Easy; one that is collected in mid-transfer leaves
  its promise pending.
- `Multi.close()` in a callback of the same multi fails the assertion at
  `Multi.cc:167`.
- PROGRESSFUNCTION and XFERINFOFUNCTION share one pointer in libcurl, and clearing one
  clears it (`Easy.cc:863`, `922`): the other one's C function then asserts. The CHUNK
  pair, which shares a pointer too, is looked after (`Easy.cc:751`).
- `dupHandle()` of an Easy in a Multi runs its HSTSREADFUNCTION; if that throws, the
  error is kept at the original, its own transfer is reported as aborted, also when it
  succeeded, and the caller of `dupHandle()` learns nothing (`DupHandleThrows`).
- A message of a handle that `addHandle()` added ends the process when the Multi never
  had an `onMessage` callback (`Multi.cc:580`).
- `curl_easy_cleanup` calls the HSTSWRITEFUNCTION, also when the Easy was collected and
  its object is gone.
- A failing entry leaves the rest of its array for the next load, which skips the
  callback, against `Easy.cc:2117`; `reset()` clears the array and not
  `wasHstsReadCacheSet`, so that the next load ends before it asked.
- `readDataOffset` survives the request and setting READDATA: the next file is read
  from the place the last one was at. `dupHandle()` does not copy the descriptor.
- The progress latch (`isCbProgressAlreadyAborted`) and `pauseState` survive a request.
- PROGRESSFUNCTION may return undefined according to its error message and the transfer
  is aborted (not modelled); a seek offset is cast to 32 bits (`Easy.cc:1720`, not
  modelled).
- `unmonitorSocketEvents()` of an Easy that is not monitored dereferences null or a
  deleted handle; `monitorSocketEvents()` is refused for ever after the first
  `unmonitorSocketEvents()`. `lib/Easy.ts:681-694` documents neither.
- Every HTTP/2 push is refused: `FromCURLHandle` (`Easy.cc:2570`) makes an External
  without the type tag that the constructor asks for (`Easy.cc:95`), so
  `setOpt('PUSHFUNCTION')` (`lib/Multi.ts:98-123`) never has an effect (not modelled).

Memory

- A CurlMime handed over twice is freed twice; one that is never handed over leaks.
- A Share closed, or collected, while an Easy uses it fails an assertion
  (`Share.cc:63`).

Curl

- The comment at `lib/Curl.ts:766` says a handle the user closed is swallowed and the
  request settled. After `close()` behind the settled promise, `onEnd()` calls
  `getInfo()` (`lib/Curl.ts:307`), which throws out of the immediate.
- The comment at `lib/Curl.ts:1062` takes a handle that is not running as proof that
  the stream error was caught. A stream destroyed after its request, also by its own
  `autoDestroy`, leaves the error for the next request of the same Curl.
- `Curl.close()` removes from the global multi even when `setMulti()` chose another;
  the exception comes after `removeAllListeners()`.
- `Curl.reset()` keeps `isRunning`, `multiInstance` and the features, and, between
  `setUploadStream()` and `perform()`, the stream without its READFUNCTION.
- `perform()` that throws (in a transfer callback) leaves `isRunning` set.
- A `resume`, or an unpause queued for an upload or a part, between the loss of the
  connection and the reset of the Curl makes `pause()` throw where nobody catches.
- While `streamPendingReadSize` is negative nothing stops the transfer: the stream
  buffers whatever arrives.
- `resetInternalState` resets properties "to their pre-request state"
  (`lib/Curl.ts:918`) but not `nextPauseFlags`: a late `pause` of an old stream pauses
  the next request before it has a stream. It is why `StreamedRequestsEnd` is only about
  requests that have one.
- A second `setUploadStream()` keeps the listeners of the first stream;
  `setUploadStream(null)` keeps the flags.
- A part whose stream is destroyed without an error leaves the transfer paused for ever
  (the exception in `EveryBodyEnds`).
- A read callback that answers with a string is cut off by characters of several bytes
  (not modelled).

curly and response data

- `curlyStreamResponse` is false by default (`lib/curly.ts:166`), but a pooled handle
  that served a streaming call streams for the next call too (`lib/curly.ts:356`).
- The pool takes back a handle whose `perform()` threw; the next call throws (`Poisoned`).
- One `StringDecoder` serves all Curls (`lib/Curl.ts:74`): a body that ends inside a
  character puts a replacement character into the next text, against
  `lib/Curl.ts:1256` (the exceptions in `DataIsOwn` and `HeadersPerResponse`).
- Trailers make one more header object than there were responses (against
  `lib/Curl.ts:1261`), and curly looks there for the content type.
- A format in `curlyResponseBodyParsers` that is not among the defaults is never reached,
  as '*' comes first (against `lib/curly.ts:133`).
- `decodeData()` throws when there are no headers; a header with an empty value is filed
  under its name with the colon (the latter not modelled).

## Proofs

TLAPS checks them, for any sets of objects and any values of the sizes that the
assumptions on the constants admit; TLC evaluates those assumptions in the runs. A
theorem with the hypothesis `Disciplined` is about the callers in
[Disciplined](#disciplined); the run of the property assumes the same. Only bounds that
are part of the guards remain in the statements (`MaxBytes`, `MaxChunks`, `MaxLength`,
...), as arbitrary numbers.

Hardly any of the properties is inductive. Each module names its inductive invariant in
parts, proves that it holds initially, has one lemma for an action or a group of like
actions, puts them together in a lemma about `Next`, and derives the theorems. Lemmas
called `Aside`, `Frame`, `QuietStep` or `Unconcerned` say once what steps that do not
concern a part leave alone.

### MultiHandleProofs

For both values of `Notifications`; the first eight for every caller.

| theorem | states |
|---|---|
| `Invariance` | `Spec => []IInv` |
| `TypeCorrect` | `Spec => []TypeOK` |
| `NoDanglingHandle` | `Spec => []LiveHandles` |
| `PendingPromisesFound` | `Spec => []PendingIsTracked` |
| `ResultIsOwn` | `Spec => []OwnResult` |
| `VerdictCorrect` | `Spec => []VerdictMatchesTransfer` |
| `SettledForGood` | `Spec => PromiseFinal` |
| `NoMessageLeft` | `Spec => []MessagesDrained` |
| `CountCorrect` | `Disciplined`: `Spec => []CountExact` |
| `PerformKeepsContract` | `Disciplined`: `Spec => Contract!Init /\ [][Contract!Next]_(Contract!vars)` |

Assumptions: `NilIsNoValue`, `FlagsAreBoolean`, `DeficitIsNatural` and
`InstancesAreFinite`.

`IInv` adds what the code relies on without saying so:

- `Addresses`: two open Easies never share a `CURL*`. Without it closing one could
  free the address of another.
- `Stack`: what is on the stack is a multi, and in a callback an Easy whose transfer
  runs in it; a callback error is thus recorded for a running transfer.
- `Members`: one transfer for each address inside a multi, messages only of finished
  ones.
- `History`: an unused call has left no trace, one that left is in no multi.
- `StoredPromises`: a deferred is stored once and is pending; if its handle did not
  leave, it stands under the address and the multi of its own transfer. This carries
  `OwnResult` and `PromiseFinal`.
- `ErrorsAreCurrent`: until a transfer is reported, its Easy keeps an error exactly if
  a callback of *this* transfer, or of a duplicate made during it, threw. It holds because every addition of a handle
  starts from a cleared error (`Easy.cc:167`, and the clearing in `Multi::Perform`
  and `Multi::AddHandle`). This carries `VerdictMatchesTransfer`.
- `SettledByReported`: who settled a promise was reported, and is not reported again.

The argument: `DetachFacts` and `DetachKeeps` say what any removal, close or
collection does to these parts, whoever is detached; then one lemma per action
(`AddStep`, `RemoveHandleStep`, `ReadMessageStep` and so on), `NextIInv` by cases,
`Invariance` by PTL. `PromiseFinal` follows from the invariant: only `ReadMessage`
changes a settled promise's variables, and the promise it settles is a stored one,
hence pending.

Three more invariants rest on `IInv`. `Unread`: an unread message is one of the multi
that is at work; so the loop, where none is at work, has none. `Kept`: the Easies of
disciplined callers stay open while they are inside; so nobody leaves a multi but by
`removeHandle()` or `close()`, which is what the count needs, together with the
cardinality of `Inside(m)` after each step. `EntriesWait`: a deferred in an open multi
waits for a transfer that is still there. With it each step of `MultiHandle` is shown to
be one step of `PerformContract` (`PerformStarts`, `DoneAnswers`, `CallbackThrows`,
`DuplicateThrows`, `MessageSettles`, `CloseAbandons`), or to change nothing that the contract sees.

### CurlRequestProofs

| theorem | states |
|---|---|
| `TypeCorrect` | `Spec => []TypeOK` |
| `EndCarriesItsResponse` | `Spec => []OwnData` |
| `EventsComeAfterRemoval` | `Spec => FinalizedOutside` |
| `NothingUncaught` | `Disciplined`: `Spec => []NoUncaught` |
| `RunningExact` | `Disciplined`: `Spec => []RunningInFlight` |

Assumptions: `DefaultIsMulti`, `NilIsNothing`, `ChunksAreCounted`. A Curl has at most one
request under way and is busy while it has (`OneAtATime`); its buffer then holds exactly
what that request received, and nothing when the Curl is free (`Stored`); a request is
queued once (`Queued`). So the buffer that an immediate empties is that of its own
request, in whatever order reset, close, perform and immediates come. For
`FinalizedOutside`, immediates run from the loop, where libcurl refuses a removal only if
the multi is closed, and the handle is in the multi that `perform()` used or in none
(`Whereabouts`). Disciplined callers keep `Calm`: a request under way has an open Curl
with a listener, and a busy Curl has a request.

### CurlyProofs

| theorem | states |
|---|---|
| `PoolIsSound` | `Spec => []PoolSound` |
| `NoHandleLeaks` | `Spec => []HandlesAccounted` |
| `HeadersPerResponseHolds` | `DataSpec => []HeadersPerResponse` |
| `DataIsOwnHolds` | `DataSpec => []DataIsOwn` |
| `ParsedByFinalTypeHolds` | `DataSpec => []ParsedByFinalType` |
| `InflatesWhatIsEncodedHolds` | `DataSpec => []InflatesWhatIsEncoded` |
| `MergedWhole` | `MergeChunks(chunks, ChunksLength(chunks)) = FlattenSeq(chunks)` |
| `ParsedGroups` | what `ParseHeaders(LinesOf(groups, trailers))` is |

`Spec` is that of `CurlyPool`, `DataSpec` that of `ResponseData`; both are about every
caller. Assumptions: `NilIsNothing`, `LimitsAreNatural`, `BoundsAreNatural`.

CurlyPool: the invariant says who has a Curl (`Held`): its request, whose listeners are
then the only ones; or the event being emitted; or the pool; and otherwise a call that
threw. `Dispatch` says that an event goes to one listener, `PoolFits` that the pool has
a Curl once. The interesting step is `ListenerStep`: the listener gives the Curl back
and the parser may take it again before the emission is over.

ResponseData: the state is little, `lastChar` and the answer to the last request, so
the invariant (`DataInv`) is the properties themselves with the type of `lastChar`; the
work is in what the operators return. `EndsARequest` puts the requests of the model into
`Requests`, where chunks, groups and lines have any number and length, and
`EndDelivers` says of a request of that set what its caller gets; nothing after that
uses a bound of the model. From there:

- *Folds as runs.* An operator of the code that loops over a sequence is a fold. A fold
  takes the values it has after each element (`FoldExists`, `FoldRuns`): there is a
  function `R` over `0 .. n` with `R[0]` the start, `R[i]` one turn of the loop after
  `R[i - 1]`, and `R[n]` the result. `WriteRuns`, `ChunksLengthRuns`, `MergeRuns`,
  `ParseRuns`, `CookieRuns`, `LowerCaseRuns` and `FlattenRuns` say it of each operator.
  What holds of all of `R` follows by `Induct`, induction over `0 .. n` for a *set* of
  numbers, proved from the well-foundedness of `<`: a loop invariant.
- *mergeChunks.* After `k` chunks the buffer holds them joined, and garbage behind that
  (`CopyHolds`); so nothing of the garbage is left when the length is the sum
  (`MergedWhole`).
- *parseHeaders.* After some lines of a group its object holds what those lines say, a
  name the last value it was given, Set-Cookie all of them (`AllParsed`, `LastIsGiven`);
  a group leaves the parser as it found it, with one object more (`GroupParsed`), so the
  objects are those of the groups (`ParsedGroups`), with one more for trailers. A header
  object never has a name twice (`SetEntryFacts`).
- *curly.* While the names are lowered in place, the object is encoded, under some
  spelling, exactly if it was before, and a spelling not lowered yet is still to come
  (`LoweredUpTo`, `LowerStep`). Here it matters that a name is deleted before it is set:
  the other order would lose a name that is in lower case already. `FindParserFacts`
  says which format comes first for a type.

### ResponseStreamProofs

`StreamGetsItsResponse` (`StreamIntegrity`) and `StreamEndsFirst` (`EndedBeforeEnd`), for
every caller, chunks and marks of any size, under `RequestsAreNumbered`, `NilIsNothing`
and `SizesArePositive`. `Queued` gives the whole queue of immediates for each phase of
the request in flight, which is how the order of stream, end and `end` is known;
`Writing` relates what was pushed, what libcurl keeps and what was sent; `Idle` and
`Lived` say what is left for the next request, so that events of an old stream only
pause and unpause (`Aside`). The refused chunk that `curl_easy_pause` delivers again is
in `PauseMoves`: it is pushed or kept, never both.

### RequestBodyProofs

`BodyIsWhole` (`BodyWhole`) and `OnlyItsSource` (`ReadsOwnSource`) for bodies of any
length and disciplined callers, under `RequestsAreNumbered`, `StreamsAreNumbered`,
`NilIsNoStream` and `SizesArePositive`. `Uploading` and `Parting` say what the flags of
`setUploadStream` and the locals of `setDataStream` tell of the Readable: `shouldEnd` and
`ended` without `error` only if it ended by itself and was read to the end (`Finished`).
`Sourced` says whose bytes libcurl has, `Streamed` that only a read past the last byte
makes a Readable end. `Takes` says once what the call `read()` does; `ReadFrame` what a
read callback has to show; `BetweenRequests` what the calls between two requests have to.

### EasyMemoryProofs

`OptionsStayAlive` (`OptionsAlive`), `NothingFreedTwice` (`FreedOnce`) and
`EverythingHasAnOwner` (`NothingLeaks`), for disciplined callers, under `KindsDiffer` and
`DisciplineIsAChoice`. The invariant is ownership: an item is held once, by one ToFree
that an open Easy shares (`Owned`), or is below a structure that is (`Placed`); options
point to what their own ToFree holds (`Pointing`). A duplicate shares the ToFree and
with it the list its copied pointer needs. `LastLeaves` and `OneLeaves` are the two
cases of `Leave`: the last owner frees what only it held, any other frees nothing.
`BelowFacts` gives what is used of the family of a structure. The counts are
cardinalities of finite sets of open objects (`Counted`).

### SocketWatchProofs

`NothingAborts` (`NeverAborts`), `PollsExactly` (`PollsWhatIsAsked`) and `ContextOutlives`
(`ContextOutlivesCall`), for disciplined callers, under `KindsDiffer` and
`DisciplineIsAChoice`. `Linked` and `Heard` make libcurl's pointer, the map of the Multi,
the context and libuv's poll agree in both directions; `Calling` and `Ticking` are about
the context on the stack and the timers at the end of the environment. `RemoveFacts` says
what the removal of any set of descriptors takes, for `CURL_POLL_REMOVE` and for a whole
Multi. The new context of `PollStep` is the free one with the least number, which exists
because the numbers are well-founded (`MinOfContexts`).

### EasyCallbacksProofs

| theorem | states |
|---|---|
| `CallbacksFound` | `Disciplined`: `Spec => []CallbacksFindTheirEasy` |
| `DoneIsAll` | `Kept!Spec => []DoneMeansAll` |
| `ResetEndsIt` | `Kept!Spec => []ResetForgets` |
| `EntriesFollow` | `Kept!Spec => EntriesInOrder` |

`Spec` is that of `EasyOptions`, `Kept!Spec` that of `EasyCallbacks`; assumptions:
`NilIsNoEasy`, `BoundIsNat`, `BoundsAreNatural`.

EasyOptions: the invariant is the property, with the addition that an Easy that
is not open has no functions: `New` relies on it. `InstalledIsFound` says why no
assertion fails: what libcurl calls is what the Easy has, and every pointer of what is
installed leads to the Easy itself. `OthersStayGood` leaves for each action only the Easy
it works on. The interesting steps are `SetOptNull`, where no other installed option may
use the pointer that is cleared (`StillUsed` for one pair, the discipline for the other),
and `DupHandle`, where all pointers change at once.

EasyCallbacks: what is cached is in order from back to front, later than what libcurl
took and than the last `reset()` (`Cached`); what is found outside a load is a leftover
(`Loaded`). `PushedFacts` says what the addon keeps of an array, up to the last element
that is no object, which exists by `LastPlace`.

### Only model-checked

- Liveness, as fairness and ENABLED are beyond the provers: `EveryPromiseSettles`, the
  fairness of `PerformContract` in `ImplementsContract`, `EveryRequestEnds`,
  `MatchedCallsSettle`, `StreamedRequestsEnd`, `EveryBodyEnds`, `TeardownCompletes`. That
  `WaitingReaderServed` fails is a counterexample of TLC's.
- That `ResponseStream` stays within `MaxBytes`, a bound of the model on a fold over all
  requests: its `TypeOK` says that the counters are natural numbers.

## Not modelled

`PROJECT.json` lists every part with its reason. Most lines of the repository have no
behaviour to model: the option and info tables under `lib/generated` (some ten thousand
lines), enumerations, type declarations, documentation comments (most of `lib/Easy.ts`
and `lib/CurlMimePart.ts`), examples, build and release scripts. Of the rest are left
out: how `setOpt` and `getInfo` convert the values of some three hundred options, what
the callbacks make of their arguments, the setters of a MIME part, the fields of the
deprecated HTTPPOST, version information, error constructors, the locale guard. The
synchronous `Easy.perform`, `send` and `recv` are one call of libcurl each. Worker
threads share nothing but libcurl's global state.
