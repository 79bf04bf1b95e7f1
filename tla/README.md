# Espresso rollup node proxy in TLA+

The proxy sits between clients and the full node of a rollup. It replaces a
block tag (`"espresso"`, or `"finalized"`) in JSON-RPC requests by the number of
the last L2 block that Espresso finalized and the full node agrees with. Two
promises make it useful (`README.md` of the repository): the number **never moves
backwards**, over restarts and reorganisations, and it **only advances when the
full node's state matches Espresso's**, or when Ethereum (for Nitro: the node)
has finalized the block anyway. This project models the code that keeps these
promises, checks it with TLC and proves the main results with TLAPS.

## The system

| Part | State | Operations | Code |
| --- | --- | --- | --- |
| Store | the state in memory, the state file | create or load, `UpdateIfGreater` (check, replace the file, publish), `GetState` | `store/espresso_store.go` |
| OP verifier | tip, L1 origin, last verified batch, the streamer's position | every tick: `refresh` (with the jump to Ethereum finality), drain and verify, save | `verifier/op/` |
| Nitro verifier | last verified message, positions of streamer and feed client | every tick: drain and verify, sync with Nitro finality, save | `verifier/nitro/nitro_verifier.go` |
| Feed client | buffered messages, next sequence number, connection, back-off | dial, receive, `GetMessage`, `Advance`, `AdvanceTo` | `verifier/nitro/feed_client/` |
| Delayed message fetcher | cache of delayed messages, next parent block | scan, get (with a recheck and a rewind), advance | `verifier/nitro/delayed_message_fetcher/` |
| Finality poller | last snapshot | poll, `LastSnapshot` | `verifier/finality_poller.go` |
| Interceptor, adapters | none (reads the store once for each call) | replace tags in a request or a batch | `proxy/`, `adapters/` |
| HTTP and WebSocket servers | connections | middlewares, reverse proxies, readiness | `http/`, `websocket/`, `main.go` |
| Process | context, servers, requests in flight | start, readiness, signal or server error, shutdown, `Stop` | `main.go` |

The verifier goroutine is the only writer of the store. It runs beside the poller,
the feed client's and the fetcher's goroutines, and the handlers of requests, which
only read. What makes this hard: a crash between any two steps of an update; a write
that fails after the verifier has already moved on; a snapshot that is older than
the store; a node that reorganises while it is compared; a streamer that switches
forks; a feed that repeats, reorders, loses or falsifies messages; positions that
move backwards; a context that is cancelled in the middle of a drain; a signal that
arrives while servers start, requests are in flight and an update is half written; a
body that declares no length, and a handler that panics after its answer has begun.
`PROJECT.json` lists these hazards at their lines, with the properties aimed at them.

## Modules

| Module | Models |
| --- | --- |
| `FinalityCursor` | The abstract specification: a durable number that only grows and a served number that only grows and never exceeds it. |
| `EspressoStore` | The store. `disk` is the file, `state` the copy in memory, `call` the update in progress (`write`, then `publish`), `served` the greatest number a client was given, `startHeight` the height that the process was started from. |
| `OPVerifier` | Extends the store by the OP verifier, the poller's snapshot and the environment: the node's chain over a block tree, Ethereum finality, the streamer. |
| `FeedClient` | The buffer of the feed client. |
| `FeedConnection` | `readLoop` over that buffer: dial, back-off, chain id, reading, beside the verifier that drops messages and a feed that keeps only its latest ones. |
| `NitroVerifier` | Extends store and feed client by the Nitro verifier, the poller's snapshot, HotShot, the feed and the parent chain's inbox. |
| `DelayedMessageFetcher` | The fetcher's two goroutines, the scan (`pc`) and the verifier's calls (`at`), step by step between calls to the parent chain and critical sections of the lock, beside a parent chain that grows, reorganises above its finalized block and finalizes. |
| `TagReplacement` | The rewriting of params (`replaceTagInParams` for one level, `replaceAt` for the recursion, `copy` for the loop over an array), and a reference for it (`resolve`, `nesting`). Recursion is written as recursive functions. |
| `JSONRPC` | The codec: what decoding and encoding do to a request's members (absent, null, present, unknown), and the encoding of an error response. |
| `Interceptor` | The calls of several clients while the store moves on: one read of the store, then the rewriting of `TagReplacement`. |
| `HTTPServer` | Extends `Interceptor` and `JSONRPC` by the middlewares in their order, the adapter that replaces the body, the reverse proxy and panic recovery: one `exchange` for each client. |
| `CORS` | The CORS middleware beside a browser with a cache of preflight answers. |
| `HTTPHandlers` | `HTTPServer` with the bodies that clients may send, and `CORS`; the two share no state, and `mounted` says which one a behaviour is about. |
| `ProxyProcess` | Extends the store by `main`: servers, requests in flight, the readiness handler, the verifier's goroutine and the poller's by their beginning, their calls of the store and their end, the shutdown and the crash. |
| `WebSocketBridge` | One client's WebSocket connection: the upgrade and the dial, the handler's goroutine that copies from the full node to the client, the one that intercepts and copies the other way, and how each closes both connections. |
| `*_proofs` | Theorems about the module they extend, and the modules that one extends. |
| `MC*` | Instances for TLC. |

A component's actions have the names of its functions. The verifier goroutine is a
sequence of steps with a `pc`; one step is what lies between two points where another
actor can see or change something, so `UpdateIfGreater` is three steps (check, replace
the file, publish) and one iteration of a drain is one. `PROJECT.json` maps every
definition to its lines.

Abstractions. An OP block is a node of a tree named by its hash, and a batch is the
block Espresso finalized: the reconstruction of the block and the byte comparison are
equality of nodes. A Nitro message is a position and a content; only two contents are
told apart. JSON values
are trees of tags, other leaves, arrays and objects: `JSONValues` is any set of them that
holds the parts of its members, and `nesting` their height.

External code, modelled by how this code uses it: the OP streamer hands out any batch
of the number after its position, of any fork, keeps its position or falls back to
the one it is given on `Refresh`, and `SetProperHead` moves it to the given block. Both
streamers report HotShot heights from the one they were started at on (`streamerHeights`):
nothing else keeps a height 0 out of an update, since the store itself refuses it only when
it loads. The Nitro streamer hands out the message at its position once HotShot finalized it at or
above the height it was started from, `AdvanceTo` sets the position, and
`GetCurrentEarliestHotShotBlockNumber(n)` is some height below which no message after
`n` lies that it can see. Positions need not lie in HotShot blocks in their order. The parent
chain's Bridge numbers messages without a gap, and the count that a message of the feed carries
(`DelayedMessagesRead`) includes the one that initialises the chain: it is not 0, from where
the verifier's unsigned `DelayedMessagesRead - 1` would wrap and clear the fetcher's cache. In `NitroVerifier` the delayed message fetcher is still abstract: it returns an
error, or what the parent chain holds at that time. The sequencer feed numbers its messages
without a gap and starts a connection at the number asked for, or at the oldest it still
has. Of `net/http`, a server that was shut down accepts nothing, `Shutdown` waits for the
requests in flight and not for hijacked connections; the reverse proxy answers 502 when the
transport fails and panics with `http.ErrAbortHandler` when an answer breaks off; the
browser follows the CORS protocol.

Of the WebSocket library, `WebSocketBridge` takes that the first `Close` of an open connection
sends its status, that later ones do nothing, that reads and writes on a closed connection
fail, with or without its status, that a cancelled context breaks the connection, and that a
message above the read limit or against the protocol is answered with a close frame of the
library's own (1009 or 1002) while the read fails with an error that is no close error. The
handler's goroutine copies from the full node to the client, and the spawned one the other
way: the comments in `reverse_proxy.go` (lines 62 and 106) name the directions the other way
round, which makes no difference to the properties.

Two variables of `DelayedMessageFetcher` are history: `unsure` holds the blocks that no
scan vouches for (below the first start, reorganised after they were scanned, or of a scan
that a rewind overtook), and `overtaken` says that a rewind came after the scan in flight
had read its start. `window` says that the block of the message in question was
reorganised between the recheck and the finality check. `everReady` and `promised` of
`ProxyProcess`, `fault` of `HTTPServer`, `seen` and `floor` of `Interceptor`, `sent` of
`WebSocketBridge` (whose length also bounds the messages) and `passed` of `FeedConnection` (the
furthest position of the feed client since its dial) are history too. No other guard reads them.

`advanceTo` of the Nitro verifier is two calls under two locks. `advanceTo` moves the streamer,
`feedAdvances` the feed client, and a message may arrive between them.

In `ProxyProcess` the readiness handler's variable `current` is read and written without a
lock. A read finds the old value or the new one: a function value is one word.

## Runs

| Run | Bounds | Shows |
| --- | --- | --- |
| `process` | numbers 0..2, heights 0..2, both servers, one client with all kinds of requests | The file and memory agree outside an update; nothing is served that is not in the file; every file that a crash leaves behind is loadable; a readiness that was promised is kept over the race for `current` and over restarts; the shutdown completes the requests in flight, closes connections after their users and ends; refinement of `FinalityCursor`. |
| `op` | a chain of three blocks and a fork of one after its first; Espresso finalizes the first, the third and the fork; heights 0 and 1 | No number up to the durable one is left out; the save after a drain always advances (its warning is dead code); the L1 origin belongs to the tip; the tip moves along one chain; refinement of `FinalityCursor`; the durable number reaches every block Ethereum finalizes; a cancelled context ends the goroutine. |
| `nitro` | two positions, the second a delayed message in an earlier HotShot block, two contents, heights 0..2 | No position up to the durable one was neither matched nor final; outside `advanceTo` the feed client never refuses what the streamer looks for; refinement of `FinalityCursor`. |
| `nitro_live` | two positions | The durable number reaches every block final for the node; a cancelled context ends the goroutine, which is the first thing that `Stop` waits for (the second is the fetcher, see `fetcher_stop`). |
| `nitro_rewind` | four positions, no failures | **Violated**, see below. |
| `nitro_fallback` | two positions, the second in an earlier HotShot block | **Violated**, see below. |
| `http` | two clients, numbers up to 2, some 30 bodies around depth limit 2, batch limit 2 and size limit 15, chunked or not; 16 CORS configurations, two origins, 30 requests of a page | What reaches the full node is the client's body with every tag, in every request of a batch, replaced by one number, and nothing else changed; a body is refused only for its form, version, size or depth; a later answer is never behind an earlier one; only what passed every filter and was read whole is forwarded; every exchange has one answer that has its cause; a page is served what the CORS configuration allows. |
| `cors_default` | the CORS middleware alone, as in `http` | **Violated**, see below. |
| `bridge` | two messages from each peer; a request that is refused, one above the limit, a malformed answer; one close status | What arrives is what was sent, in order, up to a refused request; a goroutine that ended left nothing open; a peer sees a close status that has a cause; when one direction ends, both do, even while the other one waits in a write for a peer that does not read. |
| `fetcher` | blocks 0..2, two messages in different blocks, two contents, ranges of at most two blocks | No message below the next start that is still needed is missing from the cache; an answer that waited for finality stays on the chain, unless its block was reorganised between the recheck and the finality check. |
| `fetcher_stop` | two blocks, one message | **Violated**, see below. |
| `feed` | three messages, a first start and a restart, `client.go`'s times (1 and 10 seconds) | From the furthest position of the connection to the last message sent nothing is missing, however old the number that was asked for and wherever the verifier jumps; nothing behind the verifier is kept; the back-off stays bounded; what is published gets to the verifier, unless it was moved back. |

Why the bounds are enough to be interesting: three OP blocks with a fork after the first
allow a drain that meets a fork, a number that Espresso has no batch for on the node's
chain, a fast-forward over verified and over unverified blocks, and a restart at each number. Two Nitro positions
allow a drain past the finalized block, a sync past the drain, and a feed client that
is moved backwards; the lost fallback of `nitro_rewind` needs three positions and one
more to wait for. In `process` two numbers above 0 allow a crash in the
middle of a second update, and one client meets every kind of request at every stage of the
shutdown, with either value of `current`. Two clients with numbers 0..1 (892,639 states, beyond
the time of a regular run) gave the same result, and the theorems hold for any number of them.
In `http` one client sends every body while the other reads the store. Three feed messages allow
a reconnection that repeats what was dropped and a feed that has forgotten what is asked for.
A depth limit of 2 puts nested values on both sides of the limit: the code's
32 is compared in the same way at every level. Three parent chain blocks and two messages
allow a reorganisation between the two queries of a scan, a rewind that meets a scan in
flight, and a scan that starts at the block it was rewound to. Four blocks with a lookback
of one (9.9 million states, beyond the time of a regular run) gave the same result.

Fairness. The tickers of poller and verifier fire and the calls they make return (each
has a timeout or fails), which is weak fairness of the poll and of the goroutine's next
step. `select` picks among ready cases at random, so a cancelled context is seen in the
end although the ticker may be ready as well: strong fairness. A disk that refuses every
write for ever is excluded by strong fairness of the write. The fetcher has the same: its
calls end, a cancelled context is seen, and the verifier's `Stop` is called. In the
bridge a goroutine takes its next step when it can: a read or a write on a connection that
is closed, or known to be broken, returns, and `Close` does not wait for ever for the peer;
a peer that vanishes without a trace is noticed only by the operating system. A write on an
open connection has no deadline and no fairness: a peer that does not read may hold a goroutine
for ever, and `EndTogether` promises an end only once one of the two has left its loop, or where
no write waits for ever. In
`ProxyProcess` an error in the (buffered) channel is received, the timer of the shutdown fires,
writes to the disk return and a cancelled context is seen; requests and the full node may take
for ever. `FeedConnection` assumes of its environment that a feed that is dialled again and
again is reached some time and that not every connection is lost before a given message
(strong fairness of the connection, and of the receipt of each message), and of the code that
`readLoop` runs; the verifier may stop where it is. Nothing is assumed of HotShot,
the feed, the node's chain or finality. The liveness properties carry two premises: the
process stays up, and the node does not for ever report an old finalized block.

### What the violated properties say

- `EspressoLeads`: README says that clients always get Espresso's faster finality when it
  is ahead. When the node's finalized block N is ahead of the store and the same tick
  drained past N + 1, the sync sends streamer and feed client back to N + 1, while the
  feed client has deleted what was drained. The save then stores the drained position,
  but the streamer waits at N + 1 for a message the feed client no longer has, until
  Nitro finality passes the durable number. Safety is not affected (`NoGap` holds).
- `FallbackCoversRest`: the comment of `EspressoState` calls the stored height the minimum from
  which to sync after a shutdown. The sync with Nitro finality asks the streamer for the earliest
  block it still needs; the save after a drain stores the height of the message it verified
  last. If the next position came in an earlier HotShot block, a restart misses it, and the
  number waits for Nitro finality. Whether HotShot can order positions so is up to the external
  streamer; with heights in the order of positions the property holds.
- `DefaultAllowsAllHeaders`: the comment of `NewCORSMiddleware` says that without options all
  headers are allowed. `isSimpleHeader` counts `content-type`, which is then never listed in
  `Access-Control-Allow-Headers`; a browser asks for it when its value is `application/json`, so
  such a request is always blocked. `PageServedByPolicy` leaves blocked requests with such a
  header out for this reason. `main.go` does not mount this middleware.
- `StopReturns` of the fetcher: `Stop` waits for the scanning goroutine with the lock held.
  A scan whose calls have returned and that is about to take the lock never gets it. The
  window is short, since the context is cancelled before.

## Proofs

All theorems hold for every value of the constants: any numbers and heights, any block
tree, any set of positions, contents and delayed messages, any number of clients, any
bodies and JSON values, however deep, any limits, any CORS configurations and any messages.
Every safety property of a passing run is stated by a theorem.

- **Store** (`EspressoStore_proofs`). `StoreInv` adds to the four invariants
  `CallConsistent`: what a call in progress is about to publish is what it wrote, and is
  greater than what memory holds. Without it the publication could move the number back.
  `RestartAccepted` is not an assumption about heights: 0 is among them. It follows from the check
  of `main` before a first start, from the check of a load, and from a running process's
  `startHeight` below which the streamer reports nothing.
  The refinement maps `durableNumber` to the abstract durable number.
- **OP verifier** (`OPVerifier_proofs`). `NoGap` is not inductive. `ChainsInv` says that
  what Ethereum finalized has no hole and was executed by the node; `ControlInv` says which
  store call is in progress at which `pc`, and for which block; `ProgressInv` says that
  the store is never ahead of the tip, that everything up to the tip is backed, and that
  without a tip the streamer is where the store is. The last part is why an empty tip after
  a restart is harmless.
- **Nitro verifier** (`NitroVerifier_proofs`). `HistoryInv` traces what is compared to what
  was broadcast and delivered; `ProgressInv` has two independent parts, for everything below
  the streamer's position and for everything up to the message to be saved, because the sync
  moves one back and not the other. `FeedAcceptsWhatIsNext` leaves out the window between the two
  calls of `advanceTo` (`advancing`); that both calls name one position restores it.

- **Delayed message fetcher** (`DelayedMessageFetcher_proofs`). `NothingSkipped` says nothing
  of a rewind or of a scan in flight, and both move the start. `EntryInv` says that a message
  found at a final block stays on the chain, and that one found above it comes after every
  message up to the block that was final then: a rewind to that block leaves nothing needed
  behind. `ScanInv` follows the messages of the range through the steps of a scan, and says
  that what a scan caches replaces nothing newer; `RewindInv` covers a scan that a rewind
  overtook. `ChainMoves` is all that is used of the parent chain: what is final stays, and
  what is new is above the old tip or in a block that was reorganised. `AnswerStaysFinal` adds
`AnswerInv`: an entry that was rechecked stays on the chain while nothing at or below its block
is reorganised, and from its finality on nothing is.

- **Process** (`ProxyProcess_proofs`). Every step is a step of the store or leaves it alone, so
  `StoreInv` and the refinement of `FinalityCursor` carry over. `LifeInv` says what `main`'s
  progress tells of the goroutines (an update is in progress only while the verifier's
  goroutine runs), `ServerInv` that a server whose `Shutdown` returned in time has no request in
  flight, `ReadyInv` that a 200 was given only when the file had a number: the promise survives
  restarts because the file does.

- **Feed connection** (`FeedConnection_proofs`). `NothingMissed` needs that the number asked for
  is never past the furthest position that the verifier had reached on the connection, and that
  its present one is not either. The verifier may jump anywhere meanwhile, also back; what it
  dropped before a jump back is not covered, since the feed does not send it again.

- **HTTP side** (`HTTPHandlers_proofs`), in four parts.
  - *Server.* `HTTPInv` relates the interceptor's call and the exchange of one client: they begin
    and end together, a call's numbers are in the order in which they were read, and a call under
    way has passed every filter. Nothing of the rewriting is used.
  - *Tags.* `ReplacedEverywhere` says of `replaceTagInParams` at every depth and for every value:
    it fails exactly when the value is nested past the limit, what it returns as changed is the
    value with every tag replaced, and a value it reports as unchanged has none. Values and
    depths are unbounded, so this is an induction, and it is done by hand: `LeastNatural` takes the least height (or
    index, or distance to the limit) at which the claim fails, and a contradiction follows from
    the one below. The same argument first shows that the recursive functions are well defined. `CopiedTo`
    is the invariant of the loop over an array: the copy is empty as long as nothing changed, and
    from then on equals the result up to the element reached. This is where an element that is
    not copied back would show.
  - *CORS.* `CORSInv` says that whatever the browser's cache holds, a preflight of this page would
    be granted, with the same use of credentials. Without it a permission put together from two
    answers could exceed the policy.
  - *Whole.* `HandlersAreBoth` shows that the handlers are both parts, so that what is proved of
    the parts carries over. `HandlersInv` says of each call that past the decoder it is neither
    malformed nor too large, that what it sent is what the replacement returned, and that a
    refused one has one of the three faults. `ResolvedAsOne` and `RefusedForCause` then follow
    through the decoder and the encoder, member by member.

- **WebSocket bridge** (`WebSocketBridge_proofs`). `BridgeInv` adds to the two invariants and the
  types which connections exist at which point of the upgrade and the dial, and that a status
  which a goroutine is about to pass on has its cause already, as has the end of a loop, so that
  a normal close has a reason. `Transparent` speaks of the loops
  only; `FlowInv` adds what comes before and after: what was sent is what arrived, what is in
  hand and what is still to be read, from the start on; a goroutine that gave up leaves a prefix
  for ever; and no error is written to the client before the goroutine that writes it gave up its loop.

The assumptions on constants are `HeightsNatural`, `NumbersNatural`, `NoFileIsNoState`;
`BlockTree`, `BatchesAreBlocks`, `NoBlockIsNoBlock`; `PositionsNatural`,
`NoMessageIsNoContent` and `NitroConstants`; `BlocksNatural`, `IndicesNatural`, `ScanBounds`,
`WaitIsBoolean` and `NoMessageIsNone`; `PositionsContiguous`, `StartsNatural` and
`BackoffPositive`; `MaxNumberNatural`; `DepthNatural`, `ValuesAreTrees` (a JSON value is a finite
tree, its parts are values, and `nesting` is its height), `RequestsHaveBodies` (a body is made of
such values, and begins with a brace, a bracket or something else), `PagesAndConfigs`;
`RefusedAreRequests` and `ErrorIsTheProxys` (the full node's answers are told apart from the
proxy's error). TLC evaluates them in the runs.

Only model-checked are the liveness properties, because fairness is out of the prover's reach:
`EthereumFinalityWins` and `NitroFinalityWins` with `StopReturns`, `ShutdownEnds`, `FeedCatchesUp`
and `EndTogether`. So are the violated properties, each by its counterexample.

## Observations

What reading and modelling the code showed beside the properties:

- `RecoveryMiddleware` also recovers `http.ErrAbortHandler`, with which the reverse proxy
  aborts an answer that broke off. A chunked answer of the full node then ends for the client
  as if it were whole.
- `Shutdown` does not wait for upgraded WebSocket connections; they end with the process.
- The feed client accepts a chain id header that is no number (only a missing or a different
  one ends the process), waits up to 16 seconds where `maxBackoff` is 10, passes over frames
  that it cannot read without asking for them again, and reads without a deadline.
- A batch limit of 0 refuses every non-empty batch (`interceptor.go:113`), where README.md:237
  says "(0 = unlimited)" and config.go:129 "(0 = no limit)".
- A scan for delayed messages asks for `maxBlocksPerScan` + 1 blocks, since both ends of the range
  are included (`delayed_message_fetcher.go:572`), where README.md:243 says "Max Ethereum blocks
  scanned per `eth_getLogs` query".
- `MaxRequestBodySize` is the read limit of the client's WebSocket connection only. The connection to
  the full node keeps the default of the library, and a longer answer ends both connections.
- Between the two calls of `advanceTo` that move the Nitro verifier back, the feed client still
  drops what the streamer then looks for; Nitro finality passes it in the end.
- The delayed message fetcher rechecks a message before it checks finality. A reorganisation
  between the two calls, and its finality, let it answer with data that is not on the chain
  (`window` marks the case).

## Not modelled

- The fetcher composed with the Nitro verifier: `NitroVerifier` uses an abstract answer, an
  error or what the chain holds. The product of the two is beyond TLC in the time of a run.
- Several delayed messages in one block are covered by the proofs; the run has at most one
  (`MaxPerBlock`), since two give 20 million states. They were checked once, with the same result.
- That a message on a final block is found in the end: a scan that always meets failing calls,
  or a chain that outruns it, makes no such promise.
- The reconstruction of an OP block from a batch, and `filterUserDeposits`: data without control;
  two blocks are equal or not.
- `Stop` of the Nitro verifier in the process, with the message fetcher: its own module shows
  that it may not return (`fetcher_stop`).
- Decoding of JSON-RPC responses and errors, which the proxy does not do; the request logger;
  the wrapper of the WebSocket library that is not in use; the length of an answer and the
  `Content-Length` that the adapter sets to that of the new body.
- Configuration parsing, logging, the thin wrapper of the execution client, generated
  contract bindings, and the tools of the end-to-end tests.
