# TLA+ models of the Snowfork relayer

This directory holds TLA+ models of the Go relayer under `src/relayer`: TLC
configurations that model-check them on small instances, and TLAPS proofs
that hold for every value of the constants. `PROJECT.json` lists the
components, the runs, the mutants, the map from each definition to the code
lines it models, the findings, the hazards and the theorems.

## The system

The relayer moves messages between Ethereum and a Substrate parachain. It
runs as a set of workers under one `errgroup`. The context is cancelled as
soon as any goroutine returns an error.

* **Ethereum → parachain** (`workers/ethrelayer`). An Ethereum listener
  (not in `src/`) hands `ParachainPayload`s to the `ParachainWriter`.
  - The writer reads its account nonce once, at `Start`.
  - Per payload, it builds a `Utility.batch_all` call, signs it with its
    local nonce, and hands it to the extrinsic pool
    (`chain/substrate/outgoing_extrinsics.go`). Then it increments the nonce.
  - The pool spawns one watcher goroutine per extrinsic and allows at most
    `MaxWatchedExtrinsics` of them at once.
  - A watcher submits the extrinsic and watches its status. If the extrinsic
    is `Dropped`/`Invalid`, the watcher backs off, then resubmits it, unless
    `maxNonce` (the highest nonce seen in a terminal status) shows that the
    nonce was already provided.
  - The shared counters `watched` and `maxNonce` sit under one mutex.
* **Parachain → Ethereum catch-up**
  (`workers/parachaincommitmentrelayer/catchup.go`). The BEEFY listener
  reads the relay block that the Ethereum light client has verified, and the
  parachain block that relay block finalises. It then:
  1. compares the Ethereum inbound nonces with the parachain outbound nonces
     of both channels;
  2. searches the parachain backwards for commitments Ethereum has not
     received;
  3. walks the relay chain backwards to find the MMR leaf that proves each
     block;
  4. sends the packages, in ascending order, on `li.messages` to the Ethereum
     submitter (not in `src/`).
* **Supervision and storage**:
  - `workers/worker.go` runs one goroutine per worker factory.
  - `workers/ethrelayer/main.go` connects to and disconnects from both
    chains.
  - `store/store.go` serialises database writes of BEEFY items through one
    goroutine.

## Modules

| module | models | state | actions |
|---|---|---|---|
| `ExtrinsicPool` | `outgoing_extrinsics.go`, `parachain-writer.go` | writer: `nonce`, `written`, `wrState`; pool: `watched`, `maxNonce`, `pc[n]`, `delay[n]`; `cancelled`; node: `accountNonce`, `txpool`, `status[n]`, `drops` | `ReceivePayload`, `WriteError`, `WaitForSubmitAndWatch`, `WriterCancelled`; per nonce `Submit`, `RecvTerminal`, `RecvDropped`, `AfterSleep`, `Resubmit`, `CtxDone`, `SubErr`; node `Include`, `Drop` |
| `ExtrinsicPoolProofs` | theorems about `ExtrinsicPool` | — | — |
| `Catchup` | `catchup.go` | chains: `paraNonce`, `paraHead`, `beefyBlock`, `ethNonce`; cycle: `phase`, `relayBlock`, `ethRead`, `packets`, `sent`; `messages`; `failures`; context: `cancelled`, `submitterUp` | `FetchLatestVerifiedBlocks`, `BuildMessagePackets`, `SendPacket`, `CycleDone`, `RpcFailure`, `ListenerExit`; environment `BeefyAdvance`, `Cancel`, `SubmitterExit`, `Submit` |
| `WorkerPool` | `workers/worker.go`, `workers/ethrelayer/main.go` | supervisor: `sig`, `signalled`, `rootDone`, `egErr`, `returned`; per factory `fpc`, `res`, `fret`; per worker `childDone`, `cleanup`, `pipe`, `conns` | `Signal`, `SignalCtxDone`, `RunReturn`; per factory `Factory`, `ConnectEth`, `ConnectPara`, `StartPipeline`, `WaitChild`, `Select`, `Cleanup`, `PipeEnd`, `PipeFail`, `WatcherFail`, `PipeCancelled`, `PipeStuck` |
| `WorkerPoolProofs` | theorems about `WorkerPool` | — | — |
| `BeefyStore` | `store/store.go` | `chan`, `rows`, `hasId`, `sent`, `ctxDone`, `loop`, `failures` | `Receive` (with `Create`/`Update`), `Done`; environment `SendCreate`, `SendUpdate`, `Cancel` |
| `BeefyStoreProofs` | theorems about `BeefyStore` | — | — |
| `MC_ExtrinsicPool`, `MC_Catchup`, `MC_WorkerPool`, `MC_BeefyStore` | small instances for TLC; `MC_ExtrinsicPool`, `MC_WorkerPool` and `MC_BeefyStore` extend the proof modules, so that TLC evaluates the constants' assumptions the proofs rest on | | |

### ExtrinsicPool

- Each mutex-protected section of the code is one atomic step.
- A watcher's control point `pc[n]` follows `submitAndWatchLoop`:
  `submit` → `watch` → (`sleep` → `resubmit` → `watch`)* → `done` or
  `error`.
- `RecvTerminal` stands for every status the code treats as terminal
  (InBlock, Finalized, Usurped, ...). Ready, Future and Broadcast are ignored
  by the code, so they are stutters here.
- The back-off sleep between `RecvDropped` and `AfterSleep` is the gap in
  which other goroutines run; `delay[n]` records the back-off computed, in
  units of 5 seconds.
- The node includes the extrinsic whose nonce is the account nonce. It may
  report any pending extrinsic `Dropped`, at most `MaxDrops` times, and
  either remove it from its pool or keep it there: the comment of the
  dropped branch (lines 74-77) expects "an internal Substrate mechanism"
  to re-introduce it. A re-introduced extrinsic that is included before the
  watcher wakes is what the provided branch of `AfterSleep` is for.
- A resubmission is accepted only if its nonce is not stale and the node
  does not already hold it; otherwise, or when the node bans it, the
  watcher returns the error. The resubmitted extrinsic gets a new
  subscription (`status[n]` is reset).
- The writer calls `parachain.NewExtrinsicPool`, a package absent from this
  snapshot. The model follows the pool of `chain/substrate`, the only pool
  in `src/`.

### Catchup

- The parachain's history (the outbound nonces after each block) and the
  relay chain's para heads are chosen in `Init` among all small histories.
- `BuildMessagePackets` is one step. The code that follows the nonce reads
  is a sequence of pure computations over those histories, written as
  operators: `searchForLostCommitments`, `ParablocksWithProofs` with its
  uint64 walk (`WalkTo`), and `createMessagePackets`.
- Each send on the bounded channel is a step of its own (`SendPacket`),
  because it blocks.
- The Ethereum inbound channel accepts a package only if its first nonce
  follows the channel's nonce and its MMR leaf is in the verified MMR.
- The errgroup's context may be cancelled at any time (`Cancel`). The
  submitter then returns (`SubmitterExit`) and stops reading `li.messages`.
  The listener's Ethereum calls take the context (`CallOpts.Context`), so an
  idle listener, or one about to read nonces, returns (`ListenerExit`). The
  send at line 168 has no `ctx.Done()` case, so `SendPacket` ignores the
  context.

### WorkerPool

- The root errgroup of `Run` holds the signal goroutine (`sig`) and one
  goroutine per factory (`fpc[f]`). Each factory runs one relayer worker in
  the child errgroup of `runWorker`.
- Errgroup semantics are part of the actions. `EgReturn` keeps the first
  non-nil error and cancels the root context. A child group cancels its
  context (`childDone`) at its first error and when its `Wait` returns.
- `ConnectEth`/`ConnectPara` are the two `Connect` calls of `connect`, each
  of which may fail; the cleanup goroutine is registered only after both
  succeed. `StartPipeline` is the rest of `Start`. A failure of
  `queryFinalizedBlockNumber` or `listener.Start` returns before the writer
  exists. A failure inside `writer.Start` goes through `cancelWithError`
  (`CancelWithError`): it cancels the child context with `eg.Go(return
  err)` and drains the payload channel until the listener closes it.
- The listener/writer pipeline is one child task (`pipe[f]`), with the
  writer loop's returns: nil on a closed channel (`PipeEnd`), a failed
  `WritePayload` through `cancelWithError` (`PipeFail`), and `ctx.Err()`
  (`PipeCancelled`).
- The extrinsic watchers run in the same child group. One that fails
  (`WatcherFail`) cancels the child context while the writer runs on
  (`failing`). The writer then either sees `ctx.Done()` (`PipeCancelled`,
  which keeps the watcher's error) or sits in the capacity poll of
  `WaitForSubmitAndWatch`, which never reads `ctx`. Failed or cancelled
  watchers never give their slot back, so with a full pool the poll never
  ends: `PipeStuck` makes the pipeline `stuck` for good. `ExtrinsicPool`
  shows in detail how the pool fills (`extrinsic_pool_shutdown`).
- `NewParachainWriter` is called at `main.go:69` with four arguments and
  declares three (`parachain-writer.go:30-34`), so this snapshot of the
  source does not compile. The model follows the control flow of `Start`
  and of the writer, which does not depend on the extra argument.
- `disconnect` removes only `eth` from `conns[f]`, because the code tests
  `ethconn` twice.
- `Select` is the `select` after `runWorker`: it returns `ctx.Err()` if the
  root is done and `runWorker`'s value otherwise. It never loops back to the
  factory.

### BeefyStore

- One `writeLoop` goroutine receives `DatabaseCmd`s from `chan` in order.
- `Create` is the transaction with all its outcomes. The INSERT stores the
  row and sets the item's primary key (`hasId`). A failed Begin or INSERT
  sets neither. A failed Commit after the INSERT sets the key without a row.
  Every error is only logged.
- `Update` is `DB.Model(item).Updates(...)`. With the key set it updates
  that item's row. With a zero key gorm v1 builds no WHERE clause, and every
  row is updated (`Updates`). An Update's error is never read.
- The senders are not in `src/`. The producer (`SendCreate`, `SendUpdate`)
  creates each item at status `CommitmentWitnessed` (0) and moves it up one
  status per Update, to `CompleteVerificationTxSent` (4).

## Runs

| run | checks | result |
|---|---|---|
| `mc_extrinsic_pool` | TypeOK, WatchedAccounting, CapacityBound, NoFalseSuccess, RetryDelayBounded, EventuallyConsumed | pass (5732 states) |
| `extrinsic_pool_nonce_zero` | NoFalseSuccess with account nonce 0 | violation: a dropped nonce-0 extrinsic is taken as provided |
| `extrinsic_pool_retry_delay` | RetryDelayBounded with account nonce 3 | violation: the first back-off is 3 × 5 s with one extrinsic in flight |
| `extrinsic_pool_shutdown` | ShutdownCompletes | violation: a failed watcher keeps its slot and the writer polls forever |
| `mc_catchup` | TypeOK, CatchupComplete, EventuallyDelivered | pass (198k states) |
| `catchup_stuck_send` | ListenerStopsOnCancel | violation: after cancellation the submitter returns and the listener blocks forever on a full `li.messages` (line 168) |
| `catchup_para_nonce_typo` | CatchupComplete on a parachain that never used the incentivized channel | violation: the basic nonce read is reset by the typo at line 117 |
| `mc_worker_pool` | NoSilentWorkerExit, RunErrorCause, SignalTerminates, WorkerFailureStopsAll | pass (3369 states) |
| `worker_pool_run_waits` | RunWaitsForTasks (spec 4.8) | violation: a Start error after the cleanup goroutine is registered lets Run return while it still runs |
| `worker_pool_connections` | ShutdownReleasesConnections (spec 3) | violation: `paraconn` is never closed; a failed `paraconn.Connect` leaks `ethconn` |
| `mc_beefy_store` | RowTracksProducer, StatusNeverRegresses, with no database failure | pass (582 states) |
| `beefy_store_failed_create` | RowStatusIssued with one failure | violation: the Update of an item whose Create failed rewrites every row |

The eight violations are the findings in `PROJECT.json`. Every property of a
passing run has a mutant: a plausible slip in the mapped code that TLC shows
violates it. The mutants are `Mutant*` in the modules:
- a `<=` in `hasCapacity`;
- a missing `watched--`;
- an off-by-one in the provided check;
- no retry after a drop;
- a send that does not block on a full channel;
- a found flag set by any commitment;
- a wrong relay-walk decrement;
- a cleanup goroutine that does not wait for `ctx.Done()`;
- a signal handler that does not call `cancel()`;
- a `runWorker` that drops `childEg.Wait`'s error;
- a factory goroutine that tests its child context instead of `Run`'s;
- a Create that is never committed;
- an Update that loses its WHERE clause on the item's key.

`SignalTerminates` and `WorkerFailureStopsAll` say that `Run` returns
after a signal, or after a worker error, unless a writer is stuck in the
capacity poll (`SomeWriterStuck`). The exception is not a weakening for
convenience: it is the hang that `extrinsic_pool_shutdown` exhibits, and
without it both properties are violated by the code.

`NoSilentWorkerExit` is what the spec's restart rule (4.8, step 3) depends
on. The restart applies only to a child scope that completes without error.
For the relayer worker that never happens: the cleanup goroutine keeps the
child group open until its context is cancelled, and by then either the root
context is done or the pipeline has failed. So the missing restart at
`worker.go:76` does not change the behaviour. The property is also proved,
see below.

### Bounds

**`MC_ExtrinsicPool`: account nonce 1, three payloads, capacity 2, two
drops.**
- Three payloads let a dropped extrinsic sit between an older and a younger
  one in flight. This is the case where `maxNonce` moves under a sleeping
  watcher.
- Capacity 2 makes the writer wait for a slot.
- Two drops allow one extrinsic to be dropped twice, or two different ones
  once each.
- Account nonce 1 is the one start value for which the code's zero
  `maxNonce` is right. The violation runs use other start values.

**`MC_Catchup`: parachain blocks 0..2, relay blocks 0..3, commitments of up
to 2 messages, a channel of capacity 2, one RPC failure.**
- Every history is explored in which the incentivized channel is used from
  block 1. Histories in which it is never used are the typo's
  counterexample, which `catchup_para_nonce_typo` checks.
- A para block is backed in one relay block and included in the next, so
  relay block 1 still carries the genesis head (`h[1] = 0`). With a head
  allowed in relay block 1, the walk's uint64 counter wraps and no cycle can
  prove that block.

**`MC_WorkerPool`: two factories.** Two are enough to check that one
worker's failure stops the other. Every connect, start-up and pipeline
failure and a signal are possible at every point. The violation runs use the
same instance.

**`MC_BeefyStore`: two items, a channel of two commands.**
- Two items are needed to see one item's Update reach another's row.
- Two commands in flight let one item's Update queue behind another item's
  Create.
- The passing run has no database failure. `RowTracksProducer` cannot hold
  once a call fails: a failed INSERT, which `beefy_store_failed_create`
  shows with one failure, or a failed Commit, which leaves the key set and
  no row, so that later Updates match nothing (a hazard without a run).

### Fairness

`EventuallyConsumed` and `EventuallyDelivered` assume weak fairness of:
- each goroutine's steps: the writer loop, each watcher, the listener loop
  and the submitter;
- block production (`Include`).

Go schedules every runnable goroutine. The parachain keeps producing
blocks, and it includes the next-nonce extrinsic once it is in the pool.
Drops, RPC failures and new BEEFY blocks are not assumed to happen.

In `Catchup`, weak fairness of `BuildMessagePackets` is written out as
`<>[](phase = "build") => []<><<BuildMessagePackets>>_vars`. The action is
enabled exactly when `phase = "build"`, and this form spares TLC evaluating
`ENABLED` over the recursive search.

`SignalTerminates` and `WorkerFailureStopsAll` assume weak fairness of
every goroutine step of `WorkerPool`: the factory goroutines, the cleanup
goroutines, the signal goroutine's `ctx.Done()` case and `eg.Wait`. For the
pipeline, fairness is on `PipeCancelled \/ PipeStuck`: once its context is
done, the writer either returns or is blocked in the capacity poll for
good, and which of the two happens is not assumed. Signals, pipeline and
watcher failures and pipeline ends are not assumed to happen.

The writer blocks on its payload channel once the payloads run out.
`MC_ExtrinsicPool.cfg` therefore turns deadlock checking off.
The `Catchup`, `WorkerPool` and `BeefyStore` runs turn it off for another
reason: once the context is cancelled and the goroutines have returned, once
`Run` has returned, or once the producer has sent every status, the program
has nothing left to do. A listener stuck in a send after cancellation is
also a deadlock; `catchup_stuck_send` states it as the liveness property
`ListenerStopsOnCancel`. `EventuallyDelivered` holds unless the context is
cancelled; `SubmitterExit` is weakly fair, since the submitter selects on
`ctx.Done()`.

## Proofs

`ExtrinsicPoolProofs` proves, with TLAPS, for every value of the constants
allowed by `ConstantsAssumption`:

- `TypeCorrect`: `Spec => []TypeOK`.
- `WatchedAccountingHolds`: `Spec => []WatchedAccounting`. `watched` equals
  the number of watchers spawned and not yet returned nil.
- `CapacityBoundHolds`: `Spec => []CapacityBound`.
- `NoFalseSuccessHolds`: under the hypothesis `InitNonce # 0`,
  `Spec => []NoFalseSuccess`. The run `extrinsic_pool_nonce_zero` shows that
  the hypothesis is needed.

The inductive invariant `IInv` strengthens `TypeOK` with four facts:
- `NonceTrails`: the writer's nonce trails the payloads taken, so
  `wr.nonce++` stays among the nonces.
- `FreshIdle`: every nonce from `wr.nonce` on is idle, so the watcher that
  `WaitForSubmitAndWatch` spawns is new.
- `WatchedBound`: `watched <= MaxWatched`.
- `WatchedAccounting`: without it, the two `watched--` could not be shown to
  keep `watched` in `Nat`.

The proof rests on lemmas about the set `ActiveOf(pc)`:
- it is finite;
- `[pc EXCEPT ![k] = s]` adds `k` to it or removes `k` from it, with the
  matching change in cardinality;
- a step between two active states leaves it unchanged.

Two frame lemmas complete it. `WatcherKeep` covers watcher steps that keep
the watcher running. `WatcherDone` covers the two that return nil.

`NoFalseSuccess` uses `NInv = IInv` plus two facts:
- `maxNonce < accountNonce`;
- every nonce reported `InBlock` is below `accountNonce`.

The provided check `n <= maxNonce` then implies that `n` was consumed.

`RetryDelayWithinStartHolds`: `Spec => []RetryDelayWithinStart`, for every
start-up account nonce, number of payloads, capacity and drops. A dropped
extrinsic's back-off is at most `MaxWatched + StartGap` (in units of 5 s),
where `StartGap` is the start-up nonce less one. For a start-up nonce of 0
or 1 this is `RetryDelayBounded`, which `mc_extrinsic_pool` checks. For a
larger one the overshoot is real: `extrinsic_pool_retry_delay` (start-up
nonce 3) reaches a delay of 3 with one slot.

The argument counts nonces. When a watcher computes
`getRetryDelay(n) = n - maxNonce`, split the nonces from `maxNonce + 1` to
`n` at `First`, the larger of `maxNonce + 1` and the start-up nonce:
- every nonce from `First` to `n` has a watcher that `ep.watched` still
  counts. It is below `wr.nonce`, so it was spawned (`SpawnedBelow`). It is
  above `maxNonce`, so it has not returned nil (`DoneBelowMax`: a watcher
  that returns nil leaves its nonce at or below `maxNonce`). There are at
  most `MaxWatched` of them.
- the nonces from `maxNonce + 1` to `First - 1` are nonces the account used
  before the relayer started. There are at most `StartGap` of them, and
  none once `maxNonce` has passed the start-up nonce.

The inductive invariant is
`DInv = IInv /\ SpawnedBelow /\ DoneBelowMax /\ RetryDelayWithinStart`. The
counting step is the lemma `RetryDelayWithin`; it uses `FS_Interval` and
`FS_Subset`.

`BeefyStoreProofs` proves, for every set of items and every channel capacity,
under the hypothesis `NoFailures` (`MaxFailures = 0`):
- `RowTracksProducerHolds`: `Spec => []RowTracksProducer`.
- `StatusNeverRegressesHolds`: `Spec => StatusNeverRegresses`, the action
  property that no row's status ever goes back.

The hypothesis is needed. With one failed INSERT the item keeps a zero key,
and its next Update rewrites every row (`beefy_store_failed_create`).

`RowTracksProducer` is not inductive: it says nothing about the commands in
flight. `IInv` adds what the channel holds:
- `Unsent`: an item never sent has no row, no key and no command in flight.
- `LastPendingIsSent`: an item's last command in flight carries the last
  status sent.
- `CreateFirst`: a Create in flight is its item's first command, and the
  item has no row and no key yet.
- `UpdateAfterCreate`: an Update in flight has its key set, or its Create is
  ahead of it in the channel.
- `SentCreated`: a sent item has its key, or its Create is in flight.
- `KeyIffRow`: the key is set exactly for the items that have a row.

With these, the lemma `ReceiveEffect` shows the following. Receiving the head
command writes its status into its own item's row alone, and sets that
item's key. A Create finds no row. An Update finds the key, so its WHERE
clause holds and no other row is touched.

For the action property, `MInv` adds facts about the statuses:
- every command in flight carries a status above its item's row
  (`PendingAbove`);
- one item's commands carry increasing statuses in channel order
  (`PendingIncreasing`);
- no command's status is above the last status sent (`PendingBelowSent`);
- no row's status is above it either (`RowStatusIssued`).

Every step then preserves `MInv`, and raises at most the one row it writes.

The proofs use `HeadTailProperties` and `AppendProperties` of
`SequenceTheorems` to follow the channel's positions through `Tail` and
`Append`.

`WorkerPoolProofs` proves, for every set of factories:
- `NoSilentWorkerExitHolds`: `Spec => []NoSilentWorkerExit`.
- `RunErrorCauseHolds`: `Spec => []RunErrorCause`. The error `Run` returns
  is `context.Canceled` only after a signal.

Its inductive invariant adds four facts to `TypeOK`:
- `PreStart`: before the pipeline is started, a worker has no pipeline task
  and its child context is not cancelled.
- `ChildCancelCause`: a child context is cancelled only by a failed
  watcher, by `cancelWithError`, or once `Wait` has returned
  (`PipeFailed` names the pipeline states this leaves).
- `CleanupCause`: while `runWorker` is in `Start` or in `Wait`, the cleanup
  goroutine has returned only if the root context is done or the pipeline
  failed.
- `NilOnlyCancelled`: `runWorker` returns nil only when the root context is
  done, and then the `select` returns `ctx.Err()`.

The chain of reasoning runs as follows. `Wait` returns nil only after the
cleanup goroutine has returned, and with a pipeline that did not fail. The
cleanup goroutine needs a cancelled context. The only remaining cause of
that is the root context.

`RunErrorCause` is not inductive. A factory goroutine returns `ctx.Err()`
whenever the root context is done, so the invariant must say why that
context can be done. `CInv` adds three facts:
- `RootCause`: the root context is cancelled only by the signal handler, by
  a goroutine that returned a worker error, or by `eg.Wait` itself.
- `ReturnedAllDone`: `eg.Wait` returns only after the signal goroutine and
  every factory goroutine have returned.
- `ErrorCancels`: the first error is recorded together with the cancel.

A `Select` that returns `ctx.Err()` with no signal then finds the worker
error already recorded. A `Select` after `eg.Wait` has returned is ruled out.
The proof of `CInv` (lemma `CInvHolds`) uses `IInv` for the types of `res`.

**Only model-checked:**
- every liveness property, which is beyond TLAPS;
- every `BeefyStore` property when a database call may fail. The proofs
  assume `NoFailures`. After a failed INSERT, an Update overwrites other
  items' rows, and `beefy_store_failed_create` finds `RowStatusIssued`
  violated.
- everything about `Catchup`. It uses `FlattenSeq` and `Reverse` of
  `SequencesExt`, which reaches the RECURSIVE operators of `Folds`, and no
  module that reaches them may hold a theorem. Even without them, its
  properties are out of reach. Its type and `CatchupComplete` are
  statements about what `searchForLostCommitments`, `ParablocksWithProofs`
  and `createMessagePackets` compute. Those are recursive functions over
  block numbers and sequences, and their results can only be established by
  induction over the data, which the installed provers cannot instantiate.

## Not modelled, and the plan

Not modelled:
- `workers/ethrelayer/worker.go`: an older copy of the worker type
  (`SetUp`/`TearDown`/`Start`). It declares `Worker` and `Name` a second
  time in the same package as `main.go`. Its `TearDown` has the same double
  `ethconn` test that `disconnect` has, and `WorkerPool` models that test.
- The listener and writer inside a worker are one child task of
  `WorkerPool`. `ExtrinsicPool` models the writer in detail, and the two
  modules are not composed. `WorkerPool` lets a pipeline whose context is
  done be stuck in the capacity poll (`PipeStuck`) without modelling how
  full the pool is; `extrinsic_pool_shutdown` shows in `ExtrinsicPool` how
  it fills.
- `store/store.go`: `PrepareDatabase`/`InitTables` (opening a temporary
  sqlite file, which loses every item on restart) and the read helpers.
- `chain/chain.go`, `offchain/storage_key.go`: declarations and pure
  encoding.
- Block retraction after `InBlock` and offchain storage misses in
  `getDataForDigestItem`. They are listed as hazards without a property.
  The nonce is a uint32 (`queryAccountNonce` truncates `AccountInfo.Nonce`);
  the model keeps nonces small and unbounded, since no run of practical
  length reaches 2^32 extrinsics.

Next, in order:
1. In `Catchup`: storage misses, and a second
   listener cycle racing the submitter, to measure duplicate re-emission.
