--------------------------- MODULE ExtrinsicPool ---------------------------
(***************************************************************************)
(* The Ethereum-to-parachain submission path of the relayer: the parachain *)
(* writer (workers/ethrelayer/parachain-writer.go), which signs one        *)
(* Utility.batch_all extrinsic per payload with its local account nonce,   *)
(* and the extrinsic pool (chain/substrate/outgoing_extrinsics.go), which  *)
(* runs one watcher goroutine per submitted extrinsic, resubmits dropped   *)
(* ones and keeps the shared counters `watched` and `maxNonce` under one   *)
(* mutex.                                                                  *)
(*                                                                         *)
(* The parachain node is the environment: its transaction pool `txpool`    *)
(* holds the nonces of the relayer's pending extrinsics, the chain         *)
(* includes the one whose nonce equals the account nonce, and the pool may *)
(* drop any pending extrinsic (at most MaxDrops times), or report it       *)
(* dropped and re-introduce it; it refuses a resubmission whose nonce is   *)
(* stale or that it already holds.  A subscription                         *)
(* delivers at most one status the pool acts on: "InBlock" stands for     *)
(* every status the code treats as terminal (InBlock, Finalized, Usurped,  *)
(* ...), "Dropped" for Dropped and Invalid.  Ready, Future and Broadcast   *)
(* are ignored by the code and are stuttering steps here.                  *)
(*                                                                         *)
(* Each mutex-protected section of the code is one atomic step.            *)
(***************************************************************************)
EXTENDS Naturals, FiniteSets

CONSTANTS
    InitNonce,    \* account nonce of the relayer on the parachain at start-up
    NumPayloads,  \* number of payloads the Ethereum listener hands the writer
    MaxWatched,   \* MaxWatchedExtrinsics (500 in the code)
    MaxDrops      \* bound on the extrinsics the parachain pool drops

ASSUME ConstantsAssumption ==
    /\ InitNonce \in Nat
    /\ NumPayloads \in Nat \ {0}
    /\ MaxWatched \in Nat \ {0}
    /\ MaxDrops \in Nat

\* The nonces the writer can sign with.
Nonces == InitNonce .. (InitNonce + NumPayloads - 1)

\* Control points of a watcher goroutine (submitAndWatchLoop); "idle" means
\* not spawned yet.
WatcherStates == {"idle", "submit", "watch", "sleep", "resubmit", "done", "error"}

\* Statuses a subscription can deliver that the code acts on.
Statuses == {"none", "InBlock", "Dropped"}

VARIABLES
    \* --- ParachainWriter ---
    nonce,        \* wr.nonce, the next nonce the writer signs with
    written,      \* payloads taken from the payloads channel so far
    wrState,      \* "loop" (select in writeLoop), "wait" (in
                  \* WaitForSubmitAndWatch), "stopped"
    \* --- extrinsicPool ---
    watched,      \* ep.watched
    maxNonce,     \* ep.maxNonce
    pc,           \* pc[n]: control point of the watcher of nonce n
    delay,        \* delay[n]: last getRetryDelay(n), in units of 5 seconds
    \* --- errgroup context ---
    cancelled,    \* the errgroup's context is done (some goroutine failed)
    \* --- parachain node (environment) ---
    accountNonce, \* the relayer account's nonce on chain
    txpool,       \* nonces of the relayer's extrinsics in the node's pool
    status,       \* status[n]: undelivered status on n's subscription
    drops         \* number of extrinsics the node has dropped

writerVars == <<nonce, written, wrState>>
poolVars == <<watched, maxNonce, pc, delay>>
chainVars == <<accountNonce, txpool, status, drops>>
vars == <<writerVars, poolVars, cancelled, chainVars>>

\* Watchers that are running: spawned and not yet returned.
Live == {n \in Nonces : pc[n] \in {"submit", "watch", "sleep", "resubmit"}}

-----------------------------------------------------------------------------
(* Mutants: plausible slips in the code, each used to show that a property *)
(* checked of the model can fail.                                          *)

\* hasCapacity with <= : one watcher too many.
MutantHasCapacity == watched <= MaxWatched

\* getRetryDelay counting the maxNonce itself among the nonces to catch up.
MutantGetRetryDelay(n) == IF n <= maxNonce THEN 0 ELSE n - maxNonce + 1

\* watched-- forgotten in the terminal-status branch.
MutantRecvTerminal(n) ==
    /\ pc[n] = "watch"
    /\ status[n] = "InBlock"
    /\ status' = [status EXCEPT ![n] = "none"]
    /\ maxNonce' = IF n > maxNonce THEN n ELSE maxNonce
    /\ pc' = [pc EXCEPT ![n] = "done"]
    /\ UNCHANGED <<nonce, written, wrState, watched, delay, cancelled,
                   accountNonce, txpool, drops>>

\* watched-- done before the "provided?" check instead of in its branch.
MutantAfterSleepDecrement(n) ==
    /\ pc[n] = "sleep"
    /\ watched' = watched - 1
    /\ pc' = [pc EXCEPT ![n] = IF n <= maxNonce THEN "done" ELSE "resubmit"]
    /\ UNCHANGED <<nonce, written, wrState, maxNonce, delay, cancelled,
                   accountNonce, txpool, status, drops>>

\* "provided?" check off by one: nonce <= maxNonce + 1.
MutantAfterSleepOffByOne(n) ==
    /\ pc[n] = "sleep"
    /\ IF n <= maxNonce + 1
         THEN /\ watched' = watched - 1
              /\ pc' = [pc EXCEPT ![n] = "done"]
         ELSE /\ pc' = [pc EXCEPT ![n] = "resubmit"]
              /\ UNCHANGED watched
    /\ UNCHANGED <<nonce, written, wrState, maxNonce, delay, cancelled,
                   accountNonce, txpool, status, drops>>

\* A dropped extrinsic is never resubmitted.
MutantAfterSleepNoRetry(n) ==
    /\ pc[n] = "sleep"
    /\ watched' = watched - 1
    /\ pc' = [pc EXCEPT ![n] = "done"]
    /\ UNCHANGED <<nonce, written, wrState, maxNonce, delay, cancelled,
                   accountNonce, txpool, status, drops>>

-----------------------------------------------------------------------------
(* Helpers of the code.                                                    *)

\* hasCapacity: watched < MaxWatchedExtrinsics.
hasCapacity == watched < MaxWatched

\* getRetryDelay: 0 if the nonce has been provided, else the number of
\* nonces to catch up (in units of 5 seconds).
getRetryDelay(n) == IF n <= maxNonce THEN 0 ELSE n - maxNonce

\* Max(maxNonce, n), the update of the terminal-status branch.
RaiseMaxNonce(n) == IF n > maxNonce THEN n ELSE maxNonce

-----------------------------------------------------------------------------
(* Initial state.  The writer's Start reads the account nonce              *)
(* (queryAccountNonce) into wr.nonce; newExtrinsicPool leaves maxNonce at  *)
(* its zero value.                                                         *)
Init ==
    /\ nonce = InitNonce
    /\ written = 0
    /\ wrState = "loop"
    /\ watched = 0
    /\ maxNonce = 0
    /\ pc = [n \in Nonces |-> "idle"]
    /\ delay = [n \in Nonces |-> 0]
    /\ cancelled = FALSE
    /\ accountNonce = InitNonce
    /\ txpool = {}
    /\ status = [n \in Nonces |-> "none"]
    /\ drops = 0

-----------------------------------------------------------------------------
(* The writer.                                                             *)

\* writeLoop receives a payload; WritePayload builds the calls and write
\* fetches the finalized head, the block and the runtime version and signs,
\* then enters WaitForSubmitAndWatch.  The select may pick the payload even
\* when the context is already done.
ReceivePayload ==
    /\ wrState = "loop"
    /\ written < NumPayloads
    /\ written' = written + 1
    /\ wrState' = "wait"
    /\ UNCHANGED <<nonce, poolVars, cancelled, chainVars>>

\* One of the RPCs of WritePayload/write fails: writeLoop returns the error
\* and cancelWithError fails the errgroup and drains the payloads.
WriteError ==
    /\ wrState = "loop"
    /\ written < NumPayloads
    /\ written' = written + 1
    /\ wrState' = "stopped"
    /\ cancelled' = TRUE
    /\ UNCHANGED <<nonce, poolVars, chainVars>>

\* WaitForSubmitAndWatch: under the lock, with capacity, spawn the watcher
\* and increment watched; back in write, wr.nonce++.  Without capacity the
\* writer unlocks and sleeps 100ms: a stuttering step.
WaitForSubmitAndWatch ==
    /\ wrState = "wait"
    /\ hasCapacity
    /\ pc' = [pc EXCEPT ![nonce] = "submit"]
    /\ watched' = watched + 1
    /\ nonce' = nonce + 1
    /\ wrState' = "loop"
    /\ UNCHANGED <<written, maxNonce, delay, cancelled, chainVars>>

\* writeLoop selects ctx.Done() and returns.
WriterCancelled ==
    /\ wrState = "loop"
    /\ cancelled
    /\ wrState' = "stopped"
    /\ UNCHANGED <<nonce, written, poolVars, cancelled, chainVars>>

-----------------------------------------------------------------------------
(* The watcher of nonce n (submitAndWatchLoop).                            *)

\* The first SubmitAndWatchExtrinsic: the extrinsic enters the node's pool,
\* or the RPC fails and the goroutine returns the error.
Submit(n) ==
    /\ pc[n] = "submit"
    /\ \/ /\ pc' = [pc EXCEPT ![n] = "watch"]
          /\ txpool' = txpool \cup {n}
          /\ status' = [status EXCEPT ![n] = "none"]
          /\ UNCHANGED cancelled
       \/ /\ pc' = [pc EXCEPT ![n] = "error"]
          /\ cancelled' = TRUE
          /\ UNCHANGED <<txpool, status>>
    /\ UNCHANGED <<writerVars, watched, maxNonce, delay, accountNonce, drops>>

\* A terminal status: under the lock, maxNonce := max(maxNonce, n),
\* watched--, return nil.
RecvTerminal(n) ==
    /\ pc[n] = "watch"
    /\ status[n] = "InBlock"
    /\ status' = [status EXCEPT ![n] = "none"]
    /\ maxNonce' = RaiseMaxNonce(n)
    /\ watched' = watched - 1
    /\ pc' = [pc EXCEPT ![n] = "done"]
    /\ UNCHANGED <<writerVars, delay, cancelled, accountNonce, txpool, drops>>

\* Dropped or Invalid: unsubscribe and compute the back-off with
\* getRetryDelay (under the lock), then sleep.
RecvDropped(n) ==
    /\ pc[n] = "watch"
    /\ status[n] = "Dropped"
    /\ status' = [status EXCEPT ![n] = "none"]
    /\ delay' = [delay EXCEPT ![n] = getRetryDelay(n)]
    /\ pc' = [pc EXCEPT ![n] = "sleep"]
    /\ UNCHANGED <<writerVars, watched, maxNonce, cancelled, accountNonce,
                   txpool, drops>>

\* After the sleep, under the lock: if nonce <= maxNonce the nonce was
\* provided, watched-- and return nil; otherwise go on to resubmit.
AfterSleep(n) ==
    /\ pc[n] = "sleep"
    /\ IF n <= maxNonce
         THEN /\ watched' = watched - 1
              /\ pc' = [pc EXCEPT ![n] = "done"]
         ELSE /\ pc' = [pc EXCEPT ![n] = "resubmit"]
              /\ UNCHANGED watched
    /\ UNCHANGED <<writerVars, maxNonce, delay, cancelled, chainVars>>

\* The second SubmitAndWatchExtrinsic of the same signed extrinsic, on a
\* new subscription.  The node accepts it only if its nonce is not stale
\* and the pool does not hold it; it may also refuse it (e.g. temporarily
\* banned), and the goroutine returns the error.
Resubmit(n) ==
    /\ pc[n] = "resubmit"
    /\ \/ /\ n >= accountNonce
          /\ n \notin txpool
          /\ pc' = [pc EXCEPT ![n] = "watch"]
          /\ txpool' = txpool \cup {n}
          /\ status' = [status EXCEPT ![n] = "none"]
          /\ UNCHANGED cancelled
       \/ /\ pc' = [pc EXCEPT ![n] = "error"]
          /\ cancelled' = TRUE
          /\ UNCHANGED <<txpool, status>>
    /\ UNCHANGED <<writerVars, watched, maxNonce, delay, accountNonce, drops>>

\* The select picks ctx.Done() and returns an error, without touching
\* watched.
CtxDone(n) ==
    /\ pc[n] = "watch"
    /\ cancelled
    /\ pc' = [pc EXCEPT ![n] = "error"]
    /\ UNCHANGED <<writerVars, watched, maxNonce, delay, cancelled, chainVars>>

\* The select picks sub.Err() (the subscription failed) and returns the
\* error, without touching watched.
SubErr(n) ==
    /\ pc[n] = "watch"
    /\ pc' = [pc EXCEPT ![n] = "error"]
    /\ cancelled' = TRUE
    /\ UNCHANGED <<writerVars, watched, maxNonce, delay, chainVars>>

-----------------------------------------------------------------------------
(* The parachain node.                                                     *)

\* The extrinsic carrying the account nonce is included in a block.
Include ==
    /\ accountNonce \in txpool
    /\ txpool' = txpool \ {accountNonce}
    /\ status' = [status EXCEPT ![accountNonce] = "InBlock"]
    /\ accountNonce' = accountNonce + 1
    /\ UNCHANGED <<writerVars, poolVars, cancelled, drops>>

\* The node reports a pending extrinsic Dropped or Invalid; it leaves its
\* pool, or an internal mechanism re-introduces it (the case the comment
\* of the dropped branch allows for).
Drop(n) ==
    /\ n \in txpool
    /\ drops < MaxDrops
    /\ \E reintroduced \in BOOLEAN :
          txpool' = IF reintroduced THEN txpool ELSE txpool \ {n}
    /\ status' = [status EXCEPT ![n] = "Dropped"]
    /\ drops' = drops + 1
    /\ UNCHANGED <<writerVars, poolVars, cancelled, accountNonce>>

-----------------------------------------------------------------------------
Watcher(n) ==
    \/ Submit(n)
    \/ RecvTerminal(n)
    \/ RecvDropped(n)
    \/ AfterSleep(n)
    \/ Resubmit(n)
    \/ CtxDone(n)
    \/ SubErr(n)

Next ==
    \/ ReceivePayload
    \/ WriteError
    \/ WaitForSubmitAndWatch
    \/ WriterCancelled
    \/ \E n \in Nonces : Watcher(n)
    \/ Include
    \/ \E n \in Nonces : Drop(n)

\* Goroutines that can run keep running, and the node keeps producing
\* blocks.  Drops and failures are not assumed to happen.
Fairness ==
    /\ WF_vars(ReceivePayload)
    /\ WF_vars(WaitForSubmitAndWatch)
    /\ WF_vars(WriterCancelled)
    /\ \A n \in Nonces :
          /\ WF_vars(Submit(n))
          /\ WF_vars(RecvTerminal(n))
          /\ WF_vars(RecvDropped(n))
          /\ WF_vars(AfterSleep(n))
          /\ WF_vars(Resubmit(n))
          /\ WF_vars(CtxDone(n))
    /\ WF_vars(Include)

Spec == Init /\ [][Next]_vars

FairSpec == Spec /\ Fairness

-----------------------------------------------------------------------------
(* Properties.                                                             *)

TypeOK ==
    /\ nonce \in InitNonce .. (InitNonce + NumPayloads)
    /\ written \in 0 .. NumPayloads
    /\ wrState \in {"loop", "wait", "stopped"}
    /\ watched \in Nat
    /\ maxNonce \in Nat
    /\ pc \in [Nonces -> WatcherStates]
    /\ delay \in [Nonces -> Nat]
    /\ cancelled \in BOOLEAN
    /\ accountNonce \in Nat
    /\ txpool \in SUBSET Nonces
    /\ status \in [Nonces -> Statuses]
    /\ drops \in 0 .. MaxDrops

\* The pool's `watched` counter equals the number of watchers that were
\* spawned by WaitForSubmitAndWatch and have not returned nil: every
\* success path of submitAndWatchLoop decrements it exactly once.
WatchedAccounting ==
    watched = Cardinality({n \in Nonces : pc[n] \notin {"idle", "done"}})

\* At no instant do more than MaxWatchedExtrinsics watcher goroutines run.
CapacityBound == Cardinality(Live) <= MaxWatched

\* A watcher returns nil only when its nonce has really been consumed on
\* chain: the dropped-extrinsic branch of submitAndWatchLoop trusts
\* `nonce <= maxNonce` to mean "provided by someone else".
NoFalseSuccess == \A n \in Nonces : pc[n] = "done" => n < accountNonce

\* getRetryDelay staggers a retry by the number of nonces still to catch
\* up; that number never exceeds the number of extrinsics in flight, so no
\* back-off exceeds MaxWatchedExtrinsics * 5 seconds.
RetryDelayBounded ==
    \A n \in Nonces : pc[n] \in {"sleep", "resubmit"} => delay[n] <= MaxWatched

\* getRetryDelay counts from maxNonce, which starts at 0, not at the
\* nonce before the first one submitted: until a terminal status raises it,
\* the nonces below the start-up account nonce are counted too.
StartGap == IF InitNonce > 0 THEN InitNonce - 1 ELSE 0

\* For every start-up account nonce, the back-off of a dropped extrinsic
\* exceeds MaxWatchedExtrinsics * 5 seconds by at most the nonces the
\* account had used before the relayer started, less one.
RetryDelayWithinStart ==
    \A n \in Nonces :
        pc[n] \in {"sleep", "resubmit"} => delay[n] <= MaxWatched + StartGap

\* Every nonce the writer hands to the pool is eventually consumed on
\* chain, unless the errgroup fails.
EventuallyConsumed ==
    \A n \in Nonces : (pc[n] # "idle") ~> (n < accountNonce \/ cancelled)

\* Once the errgroup's context is cancelled the writer's goroutine and all
\* watchers eventually return, so errgroup.Wait() returns.
ShutdownCompletes ==
    cancelled ~> (wrState = "stopped" /\ Live = {})

=============================================================================
