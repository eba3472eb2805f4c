# A verification of the Avail Rust SDK

This directory holds TLA+ models of the client library of this repository
(`client/`, with the parts of `core/` it stands on), the TLC configurations that
check them, and proofs that the TLA+ proof system checks. The SDK is a client: it
keeps little state, but all of it changes between awaits on a node that goes on
without it. That is what the models are about.

Paths below are relative to the repository root.

## 1. The system

| Part | State it keeps | Operations | What is hard, and what must hold |
|---|---|---|---|
| **Block subscription** `client/src/subscription/sub.rs` | the variant of `enum Sub`, one height, the blocks returned at it (best) or whether the last one was returned (finalized), the finalized height cached at first use | `next`, `prev`, `set_block_height`, `use_best_block`, `set_retry_on_error` | every `next` is up to three awaits and an endless poll; the chain is reorganised and finalized in between; any await can fail or be dropped. Nothing skipped, nothing twice, finalized blocks only in finalized mode, failed calls can be repeated |
| **Body-fetching streams** `client/src/subscription/{block,extrinsic,justification}.rs` | a `Sub`, options | `next`, `prev`, `next_step`, setters | advance, fetch, rewind when the fetch failed, go on while the list is empty. No block with items lost or repeated |
| **Retry policy** `client/src/utils.rs`, `Chain::retry_on`, `should_retry_on_error` | the stack of pauses of a call; a flag shared by every clone of the client | `with_retry_on_error`, `with_retry_on_error_and_none`, `set_global_retries_enabled` | errors and missing answers alternate; the flag turns in mid-call; each call site decides what becomes of the subscription's override |
| **Receipts** `client/src/submission/submitted.rs` | the `Sub` of a search | `receipt`, `from_range`, `transaction_receipt`, `find_correct_block_info` | inclusion is inferred from nonces at block hashes, inside a window computed from the mortality; `None` is read as "our transaction was dropped" (`client/README.md`) |
| **Signing and submission** `client/src/chain/chain.rs`, `client/src/transaction_options.rs` | cached versions; `Options` refined to nonce and mortality | `sign_and_submit_call`, `submit`, `Options::build` | lost answers and resubmission, a rebuild with a new nonce after error 1010, two tasks with one account |
| **Chain queries** `client/src/chain/{chain,best,finalized}.rs` | none | one RPC each; `block_state`, `block_info_from`, `block_author` two or three | answers taken at different moments are put together; what is said must have been true |
| **Block views** `client/src/block/*.rs` | the block's identifier, a retry override | `first`, `last`, `all`, `get`, `count`, `exists`, events, weight, justification | a height names another block later; which filters each method applies; an extrinsic and its events must be of one block |
| **Transaction builders** `client/src/transaction_api.rs` | none | one method per runtime call | nested calls, batches, sorted signatories |
| **Runtime types and codecs** `core/src/types/pallets.rs`, `core/src/decoded_extrinsics.rs`, `core/src/decoded_events.rs` | none | encode, decode of calls, batches, extrinsics, events | a hundred types with headers written by hand; fields that run into each other; batches without separators; cut or extended input |
| **Storage iteration** `core/src/substrate/storage.rs` | a page of keys, the last key, whether it is done | `next`, `next_key_value` of the iterators | paging, errors in the middle of a page; decoding a key from a storage key. No entry skipped or twice |
| **HTTP transport** `client/src/clients/reqwest_client.rs` | a channel of 1024 requests, one worker, a request id | `request_raw` | one stalled request holds up the others; callers that went away. Each call ends, with the answer to its own request |
| **Client state** `client/src/clients/online_client.rs`, `client/src/client.rs` | genesis hash, versions, metadata, the retry flag | getters and setters | cached values against runtime upgrades |
| **FFI** `ffi/src/lib.rs` | maps from handles to objects | create, use, free | handles that are reused |
| **Payload recovery examples** `client/examples/{build_payload_recovery_map_native,map_payload_recovery_receipt}.rs` | the receipt of a submission | one map per run | a map put together from reads by height and by hash of one block; ranges and grids that wrap |
| **RPC wrappers** `core/src/rpc`, **conversions**, **mock client**, **wallet examples** | none of interest | one request each | see section 8 |

How they interact: an application owns a stream; the stream owns a `Sub` and calls
it; the `Sub` calls `Best`/`Finalized`/`Chain`, which wrap one RPC in the retry
loop and send it through the client's transport. A receipt search owns a `Sub` of
its own. Block views and the recovery programs read one block in several RPCs.
Everything that is sent passes through the builders and codecs, and what a block
holds comes back through them. Concurrency comes from the node, from other tasks that share the client
(its retry flag, its transport) or the account (its nonce), and from dropped
futures; `&mut self` keeps two calls on one `Sub` apart.

## 2. Modules

| Module | Models | Used by |
|---|---|---|
| `ChainNode` | the node, an environment: `best` and `finalized`, reorganisations, finality | all that read blocks |
| `BlockCursor` | abstract: what a subscription promises | refined by `Sub` |
| `Sub` | `sub.rs`, every await a value of `pc` | `SubStream`, `Receipt` |
| `SubHistory` | `Sub` and where the cursor stood when the call began | `MCSub` |
| `SubStream` | the streams of `block.rs`, `extrinsic.rs`, `justification.rs` over `Sub` | |
| `Receipt` | `submitted.rs` over `Sub` | |
| `Submission` | `sign_and_submit_call` and `Options::build`, several calls of one account | |
| `RetryPolicy` | `utils.rs`, and the call sites of `sub.rs` and `block/mod.rs` | `MCClient` |
| `BlockBody` | what blocks hold, identifiers, filters, the data grid | `BlockQueries`, `RecoveryMap` |
| `BlockQueries` | `block_state` and the block views while the chain moves | `MCClient` |
| `RecoveryMap` | the two payload recovery programs | `MCClient` |
| `CallCodec` | `transaction_api.rs`, the calls of `pallets.rs`, batches, extrinsics | `EventCodec`, `MCCodec` |
| `EventCodec` | the events of `pallets.rs`, `block/events.rs` | `MCClient` |
| `StorageIter` | the two iterators of `storage.rs` and their hashers | `MCClient` |
| `RpcTransport` | `reqwest_client.rs` | `MCClient` |
| `FfiHandles` | the handle tables of `ffi/src/lib.rs` | `MCClient` |
| `ChainNodeProofs` | lemmas about blocks, ancestors and the node's steps | `SubProofs`, `BlockProofs` |
| `SubProofs`, `SubStreamProofs`, `ReceiptProofs`, `SubmissionProofs`, `BlockProofs`, `CodecProofs`, `ClientProofs` | lemmas and theorems | |
| `MC*` | constants for TLC | |

`MCClient` puts the parts without a run of their own side by side. A behaviour picks
one of them (`part`) and runs it alone; the variables of the others keep their
initial values. It is therefore no composition, only eight state spaces in one
run: the parts share no state in the code either, apart from the client's retry
flag, which is in `RetryPolicy`.

### The node (`ChainNode`)

The node is not in the repository. The module states what the client can learn
through `system_latestBlockInfo(true|false)` and `chain_getBlockHash(h)`. A block
is the sequence of branch choices from genesis, so like a hash it determines all
its ancestors. `NewBest` is any import that makes another block the best one: a
child, or the head of a fork that contains the finalized block, shorter ones
included. `Finalize` finalizes a later block of the best chain.

### The subscription (`Sub`)

| Model | Code |
|---|---|
| `mode`, `useBest` | the variant of `Sub`, `UnInitSub.use_best_block` |
| `cursor` | `block_height` / `current_block_height` / `next_block_height` |
| `blockProcessed`, `processedPrevious`, `latestFinalized` | the fields of these names |
| `pc` | the await the call is at: `build` (the head, when no height was set), `latest` (`fetch_latest_finalized_height`), `hist` (`run_historical`), `head` (the poll of `run_head`), `hash` (the hash that `run_head` asks for) |
| `Start`, `Enter`, `StepBack`, `Route` | `next`/`prev` to the first await, the conversion of `UnInitSub` included |
| `BuildReply`, `LatestReply`, `HashFound`, `HashMissing`, `FinalizedHead`, `BestHead` | what follows each await, to the next one or the return |
| `RpcFails`, `Cancel` | the `?` of an await whose retries are used up; a dropped future |
| `last`, `ret` | the last `BlockInfo` and how the call ended |

`prev` writes the cursor before its first await, as the code does, and `Abort`
restores nothing. A poll that finds nothing new changes nothing and is no action.
The retries inside an await are left to `RetryPolicy`: here an await is answered
or fails. Heights stay below `MaxHeight + 1`, so `u32` never overflows; the
saturation at 0 is in the model.

`BlockCursor` is the promise: a cursor stands *before* a height or *on* it with a
set of blocks already delivered there; a call steps back at most once and only
when it begins; it delivers at most one block, at the cursor's height or the one
above, never one it delivered there before; a call that fails leaves the cursor
where its beginning put it. `At`, `Seen` and `Phase` in `Sub` are the refinement
mapping.

### The streams (`SubStream`)

Seven types of the code share one shape and are one machine. `stage` is where the
call is (`sub` inside `self.sub.next()`, `body` in the fetch). `op` is `next` (goes
on while the list is empty), `step` (returns the empty list: `next_step`, and the
`next` of streams that do not filter) or `prev`. `BodyFails` rewinds with
`set_block_height(info.height)`. `byHeight`, chosen at the start, selects `GrandpaJustificationSub`, whose
fetch names the height and which has no `use_best_block`. Which blocks have items
is decided by the branch that made them. `from` and `got` are history: where the
present run of `next` calls began and what it returned. `follows`, chosen at the
start, is an application that only ever calls `next` on a finalized subscription; the
liveness property is about it. An application that does what it likes explores more
states per height, so its chain is bounded by `FreeHeight`, the follower's by
`MaxHeight`.

A future dropped *during the fetch* loses its block, because nothing rewinds the
`Sub`; `Drop` shows this by starting a new run above the lost block. An application
that wraps `next` in a `select!` or a timeout should call `set_block_height`
itself. A `prev` that fails in the fetch has a problem of its own: the rewind that
suits `next` (`block.rs:85`) puts the stream *before* the missed block, and a
repeated `prev` goes one lower. This is `sub_prev_error` one layer up; the model
contains it (`BodyFails`), and no run is spent on it.

### Retries (`RetryPolicy`)

One call at a time, from any of the seven call sites of `sub.rs` (`SubSites`) or
the four kinds of `block/mod.rs` (`BlockSites`). `HelperOverride` is what each site
passes to `retry_on`; `Decide` is `should_retry_on_error`; `budget` is the vector
`sleep_duration`, popped from its end. `SetGlobal` is another task.
`with_retry_on_error` clears its vector when it may not retry and
`with_retry_on_error_and_none` looks at the flag first; both amount to
`PauseOrReturn`.

What a `Block` does with its override differs from question to question: what goes
through `BlockContext::chain` obeys it; `extrinsic_count` *decides* first and hands the
decision on (`Decided`), which comes to the same while the call lasts; the views made
for timestamps, encoded extrinsics, extrinsics and events start from
"inherit", so they do not see the override of the block they come from; the validators
are never retried. That contradicts the documentation where the views are concerned:
`set_retry_on_error` is said to override "future RPC calls made through this helper"
(`block/mod.rs:93-100`), and `timestamp` and `extrinsic_weight`, which go through views,
to honour the retry configuration (144, 239). `author`, by way of the validators, "may
retry according to the retry policy" (187) and does so for one of its reads only.
`NeverMeansNever` is of all call sites, the views' included; `OverrideObeyed` is only of
those that pass the override on.

### Receipts (`Receipt`)

The search runs on a real `Sub`, and every step of the two loops is an action.
What a block holds (nothing, the transaction, another transaction of the account,
the transaction reaping the account) is told by its branch. `Valid` is the runtime:
a transaction is included only with the account's nonce and while its era lasts.
The transaction is anchored at genesis (`mortality.block_height = 0`). Assumed: an
account that is reaped is reaped by the searched transaction. (If a *later*
transaction reaps it, nonce 0 hides the inclusion.) `Period` is what the application
gave, `EraPeriod` what `Era::mortal` makes of it. The period is a `u64` and the window is
computed with `period as u32`: `Window` is the period cut to `U32Size` heights (2^32 in the
code, 8 in the runs, where the period of 10 of the run `receipt` leaves a window of 2). Of a
period that is cut so short that the window no longer covers the era, `NoneIsDefinite` is
not true.

On the *best* chain `None` is provisional and no property speaks of it: after a
reorganisation below the scan, the nonce at a block of the new fork can point at
a block that does not include the transaction, and the search ends with `None`
though a block it had passed the height of includes it. An application that reads
`None` as "dropped" should search finalized blocks.

### Submission (`Submission`)

| Model | Code |
|---|---|
| `spec` | `OnlineClientInner.spec_version`, which the application refreshes (`SetSpecVersion`) |
| `pinned` | `Options.nonce` as the application gave it |
| `pc` | the await of a call: `nonce`, `header`, `hash` (the three of `Options::build`), `sent` (`author_submitExtrinsic`), `asleep` (a pause of `with_retry_on_error`), or `ok`/`error` |
| `tx` | the extrinsic the call is making; `round` is 2 once it was rebuilt |
| `left` | the pauses left; `GotHash` takes all or none, as the client's flag is when the submission begins |
| `Once`, `GotNonce`, `GotHeader`, `GotHash` | `sign_and_submit_call_once`: refine, sign, submit |
| `Answered`, `ConnectionFails`, `Retry`, `Rebuilds`, `Wake` | `submit`, its retries, and `is_bad_proof_like_error` |

Here the node is `height`, the account's extrinsics `included` on a chain without
reorganisations, its `pool`, `runtime`, and `net`, the requests under way. A request
is taken out of `net` by `Import`, at once, late or never, and its answer reaches the
call only if the call still waits for it. `Verdicts` is what the client can tell
apart: accepted, error 1010, any other error. A node that has included the extrinsic
already may say either of the two (outdated, or temporarily banned). Of two extrinsics
with one nonce the pool keeps the one with the higher priority. That follows from the tip,
which the options set (`transaction_options.rs:69-79`), and from the length and the weight
of the call, so here either may win: the new one is taken and `Rivals` go (`Import`), or it
is refused with a code other than 1010. As long as a nonce before theirs is missing
(`Ready`), both wait side by side. `taken` is history, all extrinsics the pool ever took.
The pool does not forget what is valid: its limits and restarts of the node are
not modelled, nor are rejections of the call itself. So what an Ok promises is
`OkIsTracked`: the extrinsic was taken and stays with the node unless it can no longer be
included or another *call* was signed with its nonce (`Contested`), which two tasks that
read the same next nonce bring about. The call's own repetitions and its rebuild
displace nothing. Signatures are
randomised, so each build is a distinct extrinsic; that is why `round` is part of
it. The upgrade changes `spec_version` and empties the pool.

### What blocks hold, and questions about them (`BlockBody`, `BlockQueries`)

A block's extrinsics are records of transaction hash, call type, application and size.
`Meant` is `HashNumber` as the node resolves it: a height is the block of the best chain
at that moment; a hash is that block, and if it left the best chain the node may have
forgotten it. `Passes` and `Fetch` are the filters of `system_fetchExtrinsicsV1`; an answer
is the set of the indices that pass, since the node keeps the order of the block, so that
the first and the last of a list are its least and greatest index (`Lowest`, `Highest`).

In `BlockQueries` the program asks one question at a time (`want`, `asked`), and each
RPC of the answer is an action (`awaits` names the one under way). `ChainMoves` comes
between any two. `was` is history: whether the block was on and off the best chain
since `block_state` was asked. `held` is an extrinsic the program found earlier
together with its view's identifier, whose events it asks for later: a view that was opened by
height reads the events of whatever block has that height by then, unless the block was
final (`OwnBlock` says exactly that). `first`, `last` and `all` keep the caller's filter
(`Kept`), `count` and `exists` replace it by the call type (`Replaced`); with a filter of the
caller's they may therefore disagree about one block, although the documentation speaks of
the "filters describing which extrinsics to count" and of "the supplied filters"
(`block/extrinsic.rs:134-146,150-162`). This divergence has no run of its own: the model has
the replacement, and `QueryExact` claims agreement for calls without a filter only.

### The recovery maps (`RecoveryMap`)

`tool` is the program, `profile` its topology, `ticket` the receipt it starts from. The reads
come in the program's order: `CheckHash` (by height), `FindExtrinsic` (by height),
`CheckBytes` and `ReadLookup` (by hash), `DrawMap`; the receipt's program has no
`CheckBytes`. `Grid` in `BlockBody` is the data matrix as the header's lookup describes
it: one stream of scalars per application, an encoded list of its extrinsics, joined in
the order of the applications (`Ascending`, `Joined`; a stream starts in the lookup where
what is joined before it ends). `DrawMap`
takes the ranges from the lookup, pads the stream, and maps each scalar to its cell,
custody column, virtual row and owner. The native program encodes a list of the *one*
extrinsic of the receipt. If an application submitted two in one block, the cells hold
a list of two and the chunks it expects are wrong; `ChunksMatch` speaks of one, the
case the example is written for. Scalars are whole: how the last one of a stream is
filled up (`native.rs:404-405`) is the same in the program and in the grid by
construction, so the zero padding inside a scalar is not checked; that of whole scalars
(`Padded`) is. The application is compared where the extrinsic is signed
(`native.rs:601`).

### Calls, extrinsics and events (`CallCodec`, `EventCodec`)

A call type is a name, its two header bytes and the *kinds* of its fields. Bytes are
small naturals and a kind keeps what decoding depends on: where a field ends and which
first bytes it refuses (`Width`). A value of fixed or compact width is one byte, an `Option`
its tag and a byte, a `Vec` a length and its bytes. `ExtrinsicCall` and the calls of a
batch take everything that is left, as `Decode` does in the code; `DispatchError` has the
widths of its variants. There is one `Compose` action per pallet implementation of
`transaction_api.rs`; `WrapProxy` and `WrapMultisig` are the methods that take
another call, `AddCall` and `FinishBatch` the batches. The builders of `Multisig`
sort the other signatories (`Field`). `RuntimeCall::encode_to` writes fields without a
header, so `AsMulti::decode`, which encodes one again, loses it (`ReadNested`). The roles of
`UpdateRoles` (kind `role`) are a `ConfigOpAccount`, whose two directions differ: `Noop` is
written as 1, the tag of `Set` (`pallets.rs:1566`), and 0 is what is read as `Noop` (1579). A
call that leaves a role as it is therefore reads back as one that sets it to the bytes that
follow, or not at all. `Exact` excepts these calls and `AsMulti` from `RoundTrip`,
`BatchRecovered` and `DamageRefused`. A decoder is
a function from bytes to a result (`Ok` with a value and the bytes left, or `Err`), `ReadAll`
runs one after the other as `?` does, and `RuntimeReader` is `RuntimeCall::decode` as a
function: its n-th stage reads calls with fewer than n calls inside each other, and as a
call is longer than the one inside it, the stage of the input's length reads them all. `Seal` writes
the envelope (length, version 4 or 0x84 with a signature), `Damage` cuts it or
extends it by a byte. `EventCodec` adds the event types and what `BlockEvents` reads of
them: `first`, `last`, `all`, `count`, whether a proxied or multisig call succeeded, and the
weight.

### Storage iterators (`StorageIter`)

`page`, `lastKey` and `isDone` are the fields `fetched_keys`, `last_key`, `is_done`; the page
is kept reversed and taken from its end. `lastKey` moves only when the value was
fetched and decoded, so that `ReadFails` and `Abandon` (a dropped future) leave page and
key in step. The RPCs of the iterators are not retried. `NoValue` returns `None` for a key
without a value, as the end of the map does; a caller that loops while `Some` cannot tell
them apart and has to ask `is_done`. `shape` is a map or a double map with hashers
that append the key to a hash (`concat`) or use it as it is (`identity`);
`FromHash` is what `StorageHasher::from_hash` does to its input.

### The transport (`RpcTransport`)

`queue` is the request channel, `Capacity` its 1024 places, `post` what the one
worker is sending. Nothing in the code limits how long the server takes, so a stalled
request holds up every other; the model only assumes that the server answers or
the connection breaks in the end. `GiveUp` is a caller whose future was dropped: its
request stays queued and is posted. An answer that names another request is an error
(`Deliver`), one without an id is not compared; servers leave the id out of
errors they cannot attribute, so such answers are errors here. When the last clone of
the client is dropped (`Close`), the worker still posts what is queued.

### The C interface (`FfiHandles`)

Every exported function holds one mutex from beginning to end, also while it waits
for the node, so functions are atomic. A new handle is the size of its map. `orderly` is
history: receipts were freed newest first, each box once. Freed in another order, the
next handle is one that is still in use and the older receipt is overwritten. Nothing
documents an order, so `HandlesStable` is claimed for the orderly case and C programs
should free receipts in that order.

## 3. Runs

| Run | Question | Bounds | Result |
|---|---|---|---|
| `sub` | types; finalized mode returns final blocks; replay asks only for final heights; a failed `next` leaves the cursor in place; best mode returns linked blocks; `Sub` implements `BlockCursor`; a call whose block is final returns | two branches, heights 0..3 | pass, 542,059 states |
| `sub_prev_error` | a failed `prev` leaves the cursor in place | heights 0..2 | **violated** |
| `sub_stream` | nothing skipped, nothing twice on the finalized chain; a body asked for by height belongs to the hash; every finalized block with items is returned in the end | a full and an empty branch; heights 0..2, or 0..3 for an application that follows | pass, 228,871 states |
| `receipt` | a receipt names a block with the transaction; on finalized blocks `None` is definite; the search ends | four kinds of block, a window of 2 in an era of 4, heights 0..3 | pass, 440,755 states |
| `receipt_era` | `None` is right for the window the era encodes | period 1 in an era of 4 | **violated** |
| `receipt_range` | a receipt of `from_range` names a block with the transaction | heights 0..2 | **violated** |
| `submission` | a call is executed once; an `Ok` names an extrinsic the node took and keeps, unless it is contested or dead; an `Err` leaves nothing behind | two calls, one pause, an era of 3 blocks, heights 0..2, pinned nonces 0..1 | pass, 2,480,379 states (with symmetry) |
| `submission_lost` | a call is executed once even if an answer is lost | as `submission` | **violated** |
| `client` | the parts of `MCClient`, see below | below | pass, 81,994 states |
| `retry_never` | `Some(false)` never retries | none needed: finite | **violated** |
| `batch_decode` | a batch of `RuntimeCall` variants is decodable | two calls of nine bytes | **violated** |
| `double_map` | both keys of a double map are decoded | five entries, pages of two | **violated** |

What `client` shows, part by part:

| Part | Properties | Bounds |
|---|---|---|
| calls | for exact calls, `RoundTrip`: each call type reads back its own bytes and no other type accepts them; `BatchRecovered`: a batch answers the calls added to it or an error; `DamageRefused`: an extrinsic reads back, cut or extended it is refused | every call type with two or three values per field; batches of two, nested once more; eight calls that are wrapped and batched, up to nine bytes long |
| events | `EventsRead`: the methods of `BlockEvents` agree with the events and with each other, the weight also after an error with a payload | every event type, two events |
| iterators | `EachOnceInOrder`, `DoneIsComplete`, `IterationEnds` | five entries, pages of two, all shapes |
| transport | `OwnAnswer`, `PostedOnce`, `CallsEnd` | two callers, a channel of one, four requests |
| C interface | `HandlesStable` | two transactions |
| blocks | `StateHeld`: what `block_state` says was true while it was asked, "finalized" for ever; `OwnBlock`; `QueryExact` | two branches, heights 0..2, four filters, two kinds |
| recovery | `ChunksMatch`: a finished map expects in each cell what the grid holds there; `CellsApart`: no two scalars share a place | two custody columns, grids of 4 x 2 and 4 x 3, three owners |
| retries | `SharedBudget`, `GivesUpLate`, `OverrideObeyed`, `CallEnds` | none needed: five pauses, as in the code |

Why these bounds suffice. What `Sub` can do wrong involves the cursor, the cached
height and two heads: three heights above genesis let the cached height lag, the
head jump by two and fork below the cursor, all at once; two branches per parent
give reorganisations to equal, longer and shorter forks. Symmetry is used only in
runs without liveness. For the streams' safety it takes one block lost and one above
it, two heights; the follower has three. The receipt window of period 2 ends one
height below the bound, and the last height scanned is the one after the window. For
`submission` the cases are: both calls take one nonce, a call is included and then
repeated, one that replaces the other or is refused, a nonce in the future that the other
call makes ready, an era that ends
between signing and submitting (3 blocks over 2 heights), an upgrade between them. One
pause gives each round a repetition; more pauses repeat it again.

Five entries in pages of two are two full pages and a short one, and the end after
it. One place in the channel makes both the channel and the caller wait, and four
requests let a task that gave up call again. Blocks of the two branches hold
different extrinsics at the same index and the same one at different indices,
and one block has two extrinsics of one application. Three columns over two custody
columns wrap unevenly, four rows by two evenly. One batch in another is where a
length can be missing. A call or an event that decodes alone and in a pair shows
where its last field ends; longer lists repeat that. For most of these parts the
theorems of section 5 hold for any bound.

`CHECK_DEADLOCK FALSE` stands where the system ends or runs into a bound: the search
is over, the calls are answered, the iteration is complete, the requests or events
are used up (`receipt*`, `submission*`, `client`, `batch_decode`, `double_map`). The other
runs check deadlock.

### Fairness

* `FairHistorySpec` (`sub`): weak fairness of `Reply`. The node answers a request
  or the connection fails, and the executor polls a task whose timer fired.
  Neither the chain nor the application is assumed to make progress.
* `StreamSpec` (`sub_stream`): only for an application that follows. It calls
  `next` again when it returned (weak), and an RPC repeated for ever is answered at
  some time (strong): failures are transient. Without that, `next` may fail for ever
  and nothing can be promised.
* `FairReceiptSpec`: the search is polled (weak); the property only speaks of
  chains that have gone past the window.
* `IterFairness`: the caller goes on (weak), a read repeated for ever is answered
  (strong), since the code does not retry reads itself.
* `TransportFairness`: the worker is scheduled and the server answers or the
  connection breaks (weak). A place in the channel that becomes free again and again
  is given to each that waits for it (strong): tokio's channel hands out its permits
  first come, first served.
* `RetryFairness`: answers and timers (weak).
* `ClientFairness` is the last three, each for the part that runs.
* `SubmissionSpec` has none: requests may be lost, and nothing temporal is claimed.

## 4. What the violated runs show

1. `sub_prev_error`: `prev` lowers the cursor before its first RPC and no error
   path restores it, so a `prev` that is repeated after an error skips a block;
   `sub.rs:79-80` says the cursor is left at the same position.
2. `retry_never`: three of the seven call sites of `sub.rs` do not pass the subscription's
   override on (`build`, the finalized poll, and the catch-up of the best chain,
   which forces retries), against the documentation of `set_retry_on_error`. The views of a
   block lose it as well, against `block/mod.rs:93-100`; the trace shown is at `build`.
3. `receipt_era`: the scan covers `block_height + period`, the era encoded in the
   extrinsic is that period rounded up to a power of two of at least 4. With
   period 1 a transaction in the last block of its era is answered `None`. The scan
   goes one block past its window, so `None` is right whenever the era is at most
   two longer than the period, powers of two from 2 up among them (`NoneIsDefinite`,
   proved); it is wrong for 1, 5, 9 and others.
4. `receipt_range`: `from_range` takes hash and height from the subscription and
   reads the extrinsics by height, so that on the best chain the receipt may pair
   the hash of one block with the contents of another.
5. `submission_lost`: the first extrinsic is included but its answer is lost; the
   repetition is refused with code 1010, which the client takes for a stale mortality:
   it signs again with the account's next nonce, and the call is executed twice while
   the tracker names the second extrinsic. With a pinned nonce this cannot happen
   (`ExecutedOnce`).
6. `batch_decode`: `as_multi` holds a `RuntimeCall`. `AsMulti::decode` (`pallets.rs:2552`)
   reads it, encodes it again, which writes its fields *without* the two header bytes,
   and decodes that as an `ExtrinsicCall`: what comes out is another call, or an error
   when there were no fields. `recipes_batch.rs:61` says the `RuntimeCall` variants are what
   is decodable from a batch. Besides, `proxy`, `as_multi_threshold_1` and batches end in a call
   or calls that read all that is left: inside a batch they swallow what follows. That is
   refused, never misread: the number of calls does not come out (`BatchRecovered`).
   `update_roles` with a `Noop` role, also a `RuntimeCall` variant, swallows 32 bytes of what
   follows for each such role, or does not decode; it is left out of the run's calls.
7. `double_map`: with a hasher that keeps the key (`Blake2_128Concat`, `Twox64Concat`),
   `from_hash` (`storage.rs:51`) decodes from a slice of its own and leaves its input
   where it was, so the second key of a double map is decoded from the place of the first.
   `storage.rs:291` says the function "Decodes the SCALE encoded Storage Key", and the
   iterator's `next` returns its result.

## 5. Proofs

The theorems hold for every value of the constants that satisfies the named
assumptions: any set of branches and any `MaxHeight`, any set of calls, pauses, era,
number of entries, page size, callers and channel. `ChainAssumption`: heights are natural
numbers, `NoBlock` is no block. `SubAssumption`: `NoHeight` is no number.
`StreamAssumption`, `ReceiptAssumption`: the kinds of branches are branches, the bounds
numbers, a `u32` holds one height at least. `StorageAssumption`, `TransportAssumption`: a page has at least one key, the
channel one place. `SubmissionAssumption`: the bounds are numbers, `NoNonce` is none.
`BodyAssumption`: a block's body is a finite list of extrinsics with sizes and application
ids that are numbers, and two of one block that have one transaction hash are the same
extrinsic (a hash stands for the bytes it is of). `KindsAssumption`: `Encoded`, the query
for any type, is no type. `RecoveryAssumption`: grids and custody have at least one
column and row. TLC evaluates all of them.

* `ChainNodeProofs`: what a block is (`BlockShape`, `BlockIntro`), ancestors
  (`AncestorIsBlock`, `AncestorSelf`, `AncestorOfAncestor`), transitivity of
  `OnChain`, and that a step of the node keeps its type and only extends the finalized
  chain (`ChainStep`). `LeastMember`, that a set of numbers has a least one, and
  `Induction`, that a set with 0 and with every successor holds all numbers, take the
  place of the library's induction theorems.
* `SubProofs`: `TypeCorrect`, `FinalizedDeliveredHolds`,
  `HistoricalIsFinalHolds`. The inductive invariant `IInv` adds to the properties
  `CacheInv` (the cached finalized height never exceeds the finalized height, and
  `pc = "hist"` only with a cache above the cursor) and `ModeInv` (past `build` and
  outside `idle` the mode is fixed). Without `CacheInv` the replay path could ask for a
  height that is not final, and `FinalizedDelivered` would not be inductive at `HashFound`.
  `BestLinkedHolds` and `SubImplementsCursor` follow from `IInv` and
  `StandInv`, which relates what was returned to where the cursor stands (a finalized
  cursor that processed its block is one above `last`; the blocks processed in best
  mode are blocks at the cursor's height, the last one among them). The refinement
  has one lemma per action: `Enter` is `Aim`, `Deliver` is the abstract delivery,
  errors and dropped calls are `Fail`. `NextErrorKeepsCursorHolds` adds `EntryInv`:
  during a `next` the cursor stands where the call found it (`ReplyKeepsPosition`), or the
  call found it unset.
* `SubStreamProofs`: `StreamTypeCorrect`, `NoneSkippedHolds`, `BodyMatchesHashHolds`,
  `ReturnedOnceHolds`. `NoneSkipped` alone is not inductive. `StageInv` says that in the
  fetch the `Sub` has just delivered the block being fetched and that a justification
  stream is never in best mode; `RunInv` that what a run returned lies behind the frontier
  and the frontier behind the finalized block. The frontier is the cursor's place, one lower
  while a body is awaited: the rewind of `BodyFails` moves the cursor but not the
  frontier, which is why a failed fetch neither loses nor repeats a block.
* `ReceiptProofs`: `ReceiptTypeCorrect`, `ReceiptHoldsTxHolds` and `NoneIsDefiniteHolds`,
  the last under `WindowCovers` (`EraPeriod <= Window + 2`, see `receipt_era`). A search
  concludes from the nonce at one block that *no* block, final now or later, can
  hold the transaction. The argument: a block `RulesOut` the transaction if neither it nor
  an ancestor holds it and above it is too late, by the era or because the nonce is past the
  transaction's. Then no valid descendant holds it (`RuledOut`): take the *lowest* block
  that would (`LeastMember`, which takes the place of an induction over heights); below it
  nothing reaped the account, so the nonce only grew (`NonceGrows`) and is still past
  the transaction's, which the runtime therefore refuses. `SearchInv` keeps, with an
  answer `None`, a final block that is the reason for it (`AnswerInv`), and during the walk
  that the blocks read so far do not hold the transaction (`WalkInv`, `OneMore`).
* `SubmissionProofs`: `SubmissionTypeCorrect`, `ExecutedOnceHolds`,
  `OkIsTrackedHolds`, `ErrorIsFinalHolds`. None of the properties is inductive. `SInv`
  adds: `PinnedInv` (everything a call with a pinned nonce ever signed has that
  nonce), `NonceInv` (the i-th extrinsic on the chain has nonce i - 1, and the pool has
  only those that come next), `KnownInv` (while no answer was lost, the client knows
  where its extrinsic is: under way before the answer, with the node after Ok, nowhere
  after a refusal), `VersionInv` (nothing is signed for a version to come), `SpentInv` (what
  a call left behind when it signed anew, and what was refused with code 1010, no block will
  ever hold) and `TakenInv` (what the node took leaves the pool only for the chain, when it is
  dead, or contested). `OkIsTracked` needs `SpentInv` where the pool replaces an extrinsic:
  the one that wins cannot be an older or newer one of the same call, so it is another
  call's (`RivalIsOthers`). That needs no assumption about which answers arrive.
  `ExecutedOnce` follows since two executions of a call have one nonce, by `PinnedInv`
  or `KnownInv`, and the chain has a nonce once, by `NonceInv`. `VersionInv` is needed
  where the upgrade empties the pool: what was in it is dead only because it was not
  signed for the new version.
* `BlockProofs`, about `BlockQueries`: `ViewTypeCorrect`, `StateHeldHolds`,
  `OwnBlockHolds`, `QueryExactHolds`. `ViewInv` was checked on `MCClient` first. `StateInv`
  keeps what the answers so far have in common with the history: the block's state
  now is in `was`, the finalized block that was read is still final, and once the asked height
  was found above the finalized height of an earlier moment, so was the block found off the
  chain. A block that is on the best chain and not above the finalized one is final
  (`BelowFinalized`), which makes the last answer right although the first of the three is
  stale by then. `ReadInv` says that the block whose header or validators are awaited is one the
  question names; `HeldInv` that the extrinsic in hand is of the block its view names, and
  that a settled one stays on the finalized chain. `QueryExact` is proved from the least and
  the greatest index of what passes (`LeastMember`, `GreatestMember`), for any body.
* `BlockProofs`, about `RecoveryMap`: `CellsApartHolds`, `MapOfTicketHolds`,
  `StreamReadBack`, `ChunksMatchHolds`. `RecoveryInv` was checked on `MCClient` first.
  `PlacedInv` says that the cells of the native program come from one grid width; that a
  place (virtual row, custody column) tells the scalar is then arithmetic (`DivMod`,
  `DigitsApart`, `BandBelow`, `PlaceTells`): the band, the row and the column are digits of
  it. `HashedInv` says that past `CheckBytes` the extrinsic at the index found by height has
  the hash of the receipt in the *receipt's* block, the step that makes the look-up by height
  harmless. `TicketInv` says that the receipt is of an extrinsic of its block, `MappedInv`
  that the lookup in hand is the one of that block's header and that the cells are those of
  the range selected from it.
  `ChunksMatch` then is about data: what the block's grid holds and where. A finite set of
  numbers can be put in order (`OrderExists`, by induction over its size), so `Ascending` has
  each member once (`AscendingOrders`) and no application or extrinsic is missing
  (`AppsHas`, `OfAppHas`). What is joined up to the k-th stream is the beginning of the grid
  (`JoinedKeeps`) and the k-th stream follows what is joined before it (`JoinedFollows`,
  `GridHolds`). `expand_lookup` gives back for the k-th application where its stream begins
  and ends, whether or not application 0 is there (`RangesExpanded`, `ZeroFirst`), no
  other range has that application (`StreamSelected`), and so the selected range is
  exactly its stream (`StreamReadBack`, for any number of extrinsics). If there is one
  extrinsic, the stream is the encoding the program makes (`OneOfApp`, `ChunksAreThere`).
* `CodecProofs`, about `CallCodec`: `RoundTripHolds`, `BatchRecoveredHolds`,
  `DamageRefusedHolds`, for calls with any arguments of the right shape, wrapped to any depth, batches of any number of calls and
  extrinsics of any length. The library's induction theorems cannot be used, so induction
  over numbers is proved in the form "a set with 0 and with every successor holds all
  numbers" (`Induction`, from `LeastMember`), and with it that the recursive functions of the
  module exist and obey their equations (`ReadingExists`, `FlatExists`, `ReaderExists`). The
  argument about bytes is a *split*: `Splits(tails, s, n, in, rest)` says that the input is the
  first n sequences of s and then rest, each tail what is left after one. Readers that each
  read their sequence from the front of their tail read them all (`ReadsEach`), and one that
  fails fails the whole (`OneFails`). That a field is read from the front of any bytes is
  `FieldReads`, that `ExtrinsicCall` and the calls of a batch take all that follows `GreedyReads`;
  `TableRegular` goes through the table of calls once: such a field is only ever the last, and
  no header is used twice. `CodecInv` says that the call in hand is complete, that the batch is a
  split of the calls added, and that an extrinsic on the wire is the sealed call or that with
  one byte more or less. `BatchRecovered` takes the *first* call that cannot stand where it
  is: up to it everything is read, and it fails itself or leaves nothing for the next.
* `CodecProofs`, about `EventCodec`: `EventsReadHolds`, for any number of events. `EventsInv`
  says that every event has a value for each field of its type. `SampleReads` shows that each of
  those is read from the front of any bytes, also a `DispatchError` alone or in a `Result`,
  whose width depends on its first byte; with `ReadsEach` an event reads back (`EventReads`),
  and since no two event types share a header (`EventTableRegular`) the look-up by header
  selects the events of the type. The selection (`Those`) is a fold; `ThoseSelected` shows, on
  the function the fold is defined by, that it keeps each member that passes as often as it
  occurs, in order, and nothing else.
* `ClientProofs`, about `StorageIter`: `IterTypeCorrect`, `EachOnceInOrderHolds`,
  `DoneIsCompleteHolds`. `IterInv`: `lastKey` is the number of entries returned, and the
  page is the reverse of keys that follow it. Since only `GotValue` moves it and takes
  its key from the page, errors and dropped futures keep it.
* About `RpcTransport`: `OwnAnswerHolds`, `PostedOnceHolds`. `TransportInv`: the ids in the
  queue are distinct, were never posted, and are below the counter; a task that is
  still sending has an id that is not queued and that no other task has.
* About `RetryPolicy`: `SharedBudgetHolds`, `GivesUpLateHolds`, `OverrideObeyedHolds`.
  `LedgerInv` says that attempts and seconds waited are functions of the pauses left,
  `DecisionInv` that what was decided at the beginning of a call agrees with the override,
  which nobody can change during it, `SpentInv` that a call that gave up has no pause left.
* About `FfiHandles`: `FfiTypeCorrect`, `HandlesStableHolds`. The next handle is the *size*
  of the map, which is a fresh key only while the keys are 0 .. n - 1. `SubmittedInv`
  says so of the submissions, which are never removed, `ReceiptsInv` of the receipts while
  they are freed in the reverse order of their creation; it also says that the receipts C code
  holds are those in the map, entry by entry.

Only model-checked, with the reason:

* `CallReturns`, `EventuallyReturned`, `SearchEnds`, `IterationEnds`, `CallsEnd`,
  `CallEnds`: the prover has no liveness under fairness here.
* What `AsMulti` and `UpdateRoles` with a `Noop` role read back: it is not what was written
  (`DecodableFromBatch` is violated by the first, `ConfigOpAccount` is the reason for the
  second), so the codec's theorems except them as the properties do (`Exact`).

Every other invariant and action property of the passing runs is a theorem.

## 6. Plan

Done: every module of section 2, and the proofs of section 5.

Next:

1. `Mortality`: `from_period` and `Era::mortal` as functions, checked against a
   reference definition, and their use by `Submission` and `Receipt`, where `Period` and
   `EraPeriod` are independent constants today.
2. A block author and a proxy as second actors of `Submission`: an account whose nonce
   moves by other means than the modelled calls.

## 7. Running

    tlc -config MCSub.cfg MCSub.tla
    tlc -config MCClient.cfg MCClient.tla
    tlapm SubProofs.tla

`PROJECT.json` lists all runs with their modules, the mutants that show that each
property can fail, the lines each definition stands for, the findings and the hazards.

## 8. What is not modelled

* Of the runtime types: headers, GRANDPA and consensus digests, signed extensions
  and storage values. Data layout the modelled behaviour does not depend on.
* Byte values: a field is as wide as its kind needs to be told apart from its
  neighbours; compact integers of different widths are one kind.
* RPC wrappers of `core/src/rpc` other than `system_fetchExtrinsicsV1`, and the queries
  of `Chain` that are one RPC in the retry loop (account info, fees, kate, blob, raw
  calls): one request each.
* The lookups of a receipt that exists already: they read one block.
* Parsing of addresses, amounts, keys and seeds; constants; key helpers.
* Genesis hash, `transaction_version` and metadata of the client: set and read. The
  `spec_version` is in `Submission`.
* The digest hashers of storage keys: the code refuses to decode them.
* Timing: a pause or a polling interval is that something else may happen meanwhile.
* `client/src/clients/mock_client.rs`, a test double, and the wallet examples, which
  format JSON around the modelled `Chain`.
