----------------------------- MODULE WorkerPool -----------------------------
(***************************************************************************)
(* The worker supervisor of workers/worker.go running the Ethereum relayer *)
(* worker of workers/ethrelayer/main.go, one worker per factory.           *)
(*                                                                         *)
(* Run starts an errgroup over the root context with one signal goroutine  *)
(* and one goroutine per factory. A factory goroutine builds a worker and  *)
(* runs it in a child errgroup (runWorker): Start connects to both chains, *)
(* registers a cleanup goroutine that disconnects once the child context  *)
(* is done, and starts the listener/writer pipeline, here one child task  *)
(* (pipe): the writer's loop and the extrinsic watchers it spawns. An      *)
(* errgroup cancels its context at the first non-nil return and when Wait  *)
(* returns. A watcher that fails cancels the child context while the      *)
(* writer runs on ("failing"); a writer that is polling for pool capacity  *)
(* never looks at the context again ("stuck").                             *)
(***************************************************************************)
EXTENDS FiniteSets

CONSTANT Factories

VARIABLES
    sig,        \* the signal goroutine: "wait" or "done"
    signalled,  \* an interrupt or SIGTERM has been delivered
    rootDone,   \* the root errgroup's context is cancelled
    egErr,      \* the first non-nil error returned in the root errgroup
    fpc,        \* control point of each factory goroutine
    res,        \* the value runWorker returned for each factory
    fret,       \* the value each factory goroutine returned
    childDone,  \* the child errgroup's context is cancelled by itself
    cleanup,    \* the cleanup goroutine of each worker
    pipe,       \* the listener/writer pipeline of each worker
    conns,      \* the open connections of each worker
    returned    \* Run has returned

vars == <<sig, signalled, rootDone, egErr, fpc, res, fret, childDone,
          cleanup, pipe, conns, returned>>

Errors == {"none", "err", "canceled"}

PipeStates == {"none", "running", "failing", "stuck", "nil", "err", "canceled"}

(* The pipeline states in which one of its goroutines has not returned.    *)
PipeLive == {"running", "failing", "stuck"}

TypeOK ==
    /\ sig \in {"wait", "done"}
    /\ signalled \in BOOLEAN
    /\ rootDone \in BOOLEAN
    /\ egErr \in Errors
    /\ fpc \in [Factories -> {"factory", "connectEth", "connectPara", "start",
                              "wait", "select", "done"}]
    /\ res \in [Factories -> {"nil", "err"}]
    /\ fret \in [Factories -> {"none", "nil", "err", "canceled"}]
    /\ childDone \in [Factories -> BOOLEAN]
    /\ cleanup \in [Factories -> {"none", "waiting", "done"}]
    /\ pipe \in [Factories -> PipeStates]
    /\ conns \in [Factories -> SUBSET {"eth", "para"}]
    /\ returned \in BOOLEAN

(* The child context of worker f: cancelled by its own group or by Run's.  *)
CtxDone(f) == rootDone \/ childDone[f]

(* A goroutine of the root errgroup returns e: the first non-nil error is  *)
(* kept and cancels the root context.                                      *)
EgReturn(e) ==
    /\ rootDone' = (rootDone \/ e # "nil")
    /\ egErr' = IF egErr = "none" /\ e # "nil" THEN e ELSE egErr

(* cancelWithError: eg.Go(return err) cancels the child context, then the *)
(* writer drains its payload channel until the listener, seeing the       *)
(* cancelled context, closes it; the pipeline's tasks have then returned. *)
CancelWithError(f) ==
    /\ pipe' = [pipe EXCEPT ![f] = "err"]
    /\ childDone' = [childDone EXCEPT ![f] = TRUE]

(* disconnect: closes ethconn and sets it to nil, then tests ethconn again *)
(* before closing paraconn, so paraconn is never closed.                   *)
disconnect(c) == c \ {"eth"}

(* Mutant of Signal: the handler returns without calling cancel().       *)
MutantSignal ==
    /\ sig = "wait"
    /\ sig' = "done"
    /\ signalled' = TRUE
    /\ UNCHANGED <<rootDone, egErr, fpc, res, fret, childDone, cleanup, pipe, conns, returned>>

(* Mutant of WaitChild: runWorker drops childEg.Wait's error.              *)
MutantWaitChild(f) ==
    /\ fpc[f] = "wait"
    /\ cleanup[f] = "done"
    /\ pipe[f] \notin PipeLive
    /\ res' = [res EXCEPT ![f] = "nil"]
    /\ fpc' = [fpc EXCEPT ![f] = "select"]
    /\ childDone' = [childDone EXCEPT ![f] = TRUE]
    /\ UNCHANGED <<sig, signalled, rootDone, egErr, fret, cleanup, pipe, conns, returned>>

(* Mutant of Cleanup: the goroutine disconnects without waiting for         *)
(* ctx.Done().                                                             *)
MutantCleanup(f) ==
    /\ cleanup[f] = "waiting"
    /\ cleanup' = [cleanup EXCEPT ![f] = "done"]
    /\ conns' = [conns EXCEPT ![f] = disconnect(@)]
    /\ UNCHANGED <<sig, signalled, rootDone, egErr, fpc, res, fret, childDone, pipe, returned>>

Init ==
    /\ sig = "wait"
    /\ signalled = FALSE
    /\ rootDone = FALSE
    /\ egErr = "none"
    /\ fpc = [f \in Factories |-> "factory"]
    /\ res = [f \in Factories |-> "nil"]
    /\ fret = [f \in Factories |-> "none"]
    /\ childDone = [f \in Factories |-> FALSE]
    /\ cleanup = [f \in Factories |-> "none"]
    /\ pipe = [f \in Factories |-> "none"]
    /\ conns = [f \in Factories |-> {}]
    /\ returned = FALSE

(* The signal goroutine: the notification cancels the root and returns nil.*)
Signal ==
    /\ sig = "wait"
    /\ sig' = "done"
    /\ signalled' = TRUE
    /\ rootDone' = TRUE
    /\ UNCHANGED <<egErr, fpc, res, fret, childDone, cleanup, pipe, conns, returned>>

(* The signal goroutine sees the root cancelled and returns ctx.Err().     *)
SignalCtxDone ==
    /\ sig = "wait"
    /\ rootDone
    /\ sig' = "done"
    /\ EgReturn("canceled")
    /\ UNCHANGED <<signalled, fpc, res, fret, childDone, cleanup, pipe, conns, returned>>

(* The factory fails, and its goroutine returns the error; or it builds    *)
(* the worker and runWorker calls Start.                                   *)
Factory(f) ==
    /\ fpc[f] = "factory"
    /\ \/ /\ fpc' = [fpc EXCEPT ![f] = "done"]
          /\ fret' = [fret EXCEPT ![f] = "err"]
          /\ EgReturn("err")
       \/ /\ fpc' = [fpc EXCEPT ![f] = "connectEth"]
          /\ UNCHANGED <<rootDone, egErr, fret>>
    /\ UNCHANGED <<sig, signalled, res, childDone, cleanup, pipe, conns, returned>>

(* connect: a keypair error or a failed ethconn.Connect makes Start return *)
(* the error.                                                              *)
ConnectEth(f) ==
    /\ fpc[f] = "connectEth"
    /\ \/ /\ fpc' = [fpc EXCEPT ![f] = "connectPara"]
          /\ conns' = [conns EXCEPT ![f] = @ \cup {"eth"}]
          /\ UNCHANGED res
       \/ /\ fpc' = [fpc EXCEPT ![f] = "select"]
          /\ res' = [res EXCEPT ![f] = "err"]
          /\ UNCHANGED conns
    /\ UNCHANGED <<sig, signalled, rootDone, egErr, fret, childDone, cleanup, pipe, returned>>

(* paraconn.Connect; on success Start registers the cleanup goroutine, on  *)
(* failure it returns before registering it, with ethconn left open.      *)
ConnectPara(f) ==
    /\ fpc[f] = "connectPara"
    /\ \/ /\ fpc' = [fpc EXCEPT ![f] = "start"]
          /\ conns' = [conns EXCEPT ![f] = @ \cup {"para"}]
          /\ cleanup' = [cleanup EXCEPT ![f] = "waiting"]
          /\ UNCHANGED res
       \/ /\ fpc' = [fpc EXCEPT ![f] = "select"]
          /\ res' = [res EXCEPT ![f] = "err"]
          /\ UNCHANGED <<conns, cleanup>>
    /\ UNCHANGED <<sig, signalled, rootDone, egErr, fret, childDone, pipe, returned>>

(* The rest of Start: queryFinalizedBlockNumber, listener.Start and        *)
(* writer.Start. queryFinalizedBlockNumber or listener.Start fails before *)
(* the writer exists; writer.Start's queryAccountNonce or GetBlockHash     *)
(* fails through cancelWithError. runWorker returns Start's error at once, *)
(* without waiting for the child group.                                   *)
StartPipeline(f) ==
    /\ fpc[f] = "start"
    /\ \/ /\ fpc' = [fpc EXCEPT ![f] = "wait"]
          /\ pipe' = [pipe EXCEPT ![f] = "running"]
          /\ UNCHANGED <<res, childDone>>
       \/ /\ fpc' = [fpc EXCEPT ![f] = "select"]
          /\ res' = [res EXCEPT ![f] = "err"]
          /\ UNCHANGED <<pipe, childDone>>
       \/ /\ fpc' = [fpc EXCEPT ![f] = "select"]
          /\ res' = [res EXCEPT ![f] = "err"]
          /\ CancelWithError(f)
    /\ UNCHANGED <<sig, signalled, rootDone, egErr, fret, cleanup, conns, returned>>

(* runWorker: childEg.Wait returns once every child task has returned,     *)
(* with the first non-nil error, and cancels the child context.           *)
WaitChild(f) ==
    /\ fpc[f] = "wait"
    /\ cleanup[f] = "done"
    /\ pipe[f] \notin PipeLive
    /\ res' = [res EXCEPT ![f] = IF pipe[f] \in {"err", "canceled"} THEN "err" ELSE "nil"]
    /\ fpc' = [fpc EXCEPT ![f] = "select"]
    /\ childDone' = [childDone EXCEPT ![f] = TRUE]
    /\ UNCHANGED <<sig, signalled, rootDone, egErr, fret, cleanup, pipe, conns, returned>>

(* Mutant of Select: the goroutine tests the worker's child context, not   *)
(* Run's, so a worker that failed by itself returns ctx.Err().             *)
MutantSelect(f) ==
    /\ fpc[f] = "select"
    /\ LET r == IF CtxDone(f) THEN "canceled" ELSE res[f]
       IN  /\ fret' = [fret EXCEPT ![f] = r]
           /\ EgReturn(r)
    /\ fpc' = [fpc EXCEPT ![f] = "done"]
    /\ UNCHANGED <<sig, signalled, res, childDone, cleanup, pipe, conns, returned>>

(* After runWorker: if the root context is done the goroutine returns      *)
(* ctx.Err(), otherwise (default) it returns runWorker's value. There is no *)
(* path back to the factory.                                               *)
Select(f) ==
    /\ fpc[f] = "select"
    /\ LET r == IF rootDone THEN "canceled" ELSE res[f]
       IN  /\ fret' = [fret EXCEPT ![f] = r]
           /\ EgReturn(r)
    /\ fpc' = [fpc EXCEPT ![f] = "done"]
    /\ UNCHANGED <<sig, signalled, res, childDone, cleanup, pipe, conns, returned>>

(* The cleanup goroutine: <-ctx.Done(), then disconnect, then return nil.  *)
Cleanup(f) ==
    /\ cleanup[f] = "waiting"
    /\ CtxDone(f)
    /\ cleanup' = [cleanup EXCEPT ![f] = "done"]
    /\ conns' = [conns EXCEPT ![f] = disconnect(@)]
    /\ UNCHANGED <<sig, signalled, rootDone, egErr, fpc, res, fret, childDone, pipe, returned>>

(* The pipeline's writer loop returns nil when its payload channel closes. *)
PipeEnd(f) ==
    /\ pipe[f] = "running"
    /\ pipe' = [pipe EXCEPT ![f] = "nil"]
    /\ UNCHANGED <<sig, signalled, rootDone, egErr, fpc, res, fret, childDone, cleanup, conns, returned>>

(* WritePayload fails in the writer's loop, which calls cancelWithError.  *)
PipeFail(f) ==
    /\ pipe[f] = "running"
    /\ CancelWithError(f)
    /\ UNCHANGED <<sig, signalled, rootDone, egErr, fpc, res, fret, cleanup, conns, returned>>

(* An extrinsic watcher of the child group returns an error (the submit,  *)
(* the resubmit or the subscription failed) and cancels the child context; *)
(* the writer goes on and its slot in ep.watched is never given back.     *)
WatcherFail(f) ==
    /\ pipe[f] = "running"
    /\ pipe' = [pipe EXCEPT ![f] = "failing"]
    /\ childDone' = [childDone EXCEPT ![f] = TRUE]
    /\ UNCHANGED <<sig, signalled, rootDone, egErr, fpc, res, fret, cleanup, conns, returned>>

(* The writer's loop selects ctx.Done() and returns ctx.Err() through      *)
(* cancelWithError; the group keeps a failed watcher's error if one came   *)
(* first.                                                                  *)
PipeCancelled(f) ==
    /\ pipe[f] \in {"running", "failing"}
    /\ CtxDone(f)
    /\ pipe' = [pipe EXCEPT ![f] = IF pipe[f] = "failing" THEN "err" ELSE "canceled"]
    /\ childDone' = [childDone EXCEPT ![f] = TRUE]
    /\ UNCHANGED <<sig, signalled, rootDone, egErr, fpc, res, fret, cleanup, conns, returned>>

(* The context is done and the watchers return errors without watched--:  *)
(* a writer that is in (or, select being random, enters) the capacity poll *)
(* of WaitForSubmitAndWatch with the pool full sleeps and polls forever.  *)
PipeStuck(f) ==
    /\ pipe[f] \in {"running", "failing"}
    /\ CtxDone(f)
    /\ pipe' = [pipe EXCEPT ![f] = "stuck"]
    /\ UNCHANGED <<sig, signalled, rootDone, egErr, fpc, res, fret, childDone, cleanup, conns, returned>>

(* Run: eg.Wait returns once the signal and factory goroutines returned,   *)
(* and cancels the root context.                                           *)
RunReturn ==
    /\ ~returned
    /\ sig = "done"
    /\ \A f \in Factories : fpc[f] = "done"
    /\ returned' = TRUE
    /\ rootDone' = TRUE
    /\ UNCHANGED <<sig, signalled, egErr, fpc, res, fret, childDone, cleanup, pipe, conns>>

Next ==
    \/ Signal \/ SignalCtxDone \/ RunReturn
    \/ \E f \in Factories :
          \/ Factory(f) \/ ConnectEth(f) \/ ConnectPara(f) \/ StartPipeline(f)
          \/ WaitChild(f) \/ Select(f) \/ Cleanup(f)
          \/ PipeEnd(f) \/ PipeFail(f) \/ WatcherFail(f) \/ PipeCancelled(f)
          \/ PipeStuck(f)

Spec == Init /\ [][Next]_vars

(* Go runs every runnable goroutine; a signal, a pipeline end and a        *)
(* failure are not assumed to happen. Once its context is done the writer  *)
(* either returns or is stuck for good in the capacity poll: one of the    *)
(* two happens, which one is not assumed.                                  *)
Fairness ==
    /\ WF_vars(SignalCtxDone) /\ WF_vars(RunReturn)
    /\ \A f \in Factories :
          /\ WF_vars(Factory(f)) /\ WF_vars(ConnectEth(f))
          /\ WF_vars(ConnectPara(f)) /\ WF_vars(StartPipeline(f))
          /\ WF_vars(WaitChild(f)) /\ WF_vars(Select(f))
          /\ WF_vars(Cleanup(f)) /\ WF_vars(PipeCancelled(f) \/ PipeStuck(f))

FairSpec == Spec /\ Fairness

-----------------------------------------------------------------------------
(* Spec 4.8 restarts a worker whose child scope completes without error.   *)
(* No factory goroutine of the relayer ever returns nil: the cleanup       *)
(* goroutine holds the child group open until its context is cancelled,    *)
(* and then Run's context is done or the pipeline failed. The missing      *)
(* restart (worker.go:76) is therefore never needed.                       *)
NoSilentWorkerExit == \A f \in Factories : fret[f] # "nil"

(* Run's error names the cause of the shutdown: unless an interrupt or     *)
(* SIGTERM arrived, the first error the root errgroup keeps (the one Run   *)
(* returns) is a worker's own error, never the context.Canceled that the   *)
(* signal goroutine and the sibling factory goroutines return once that    *)
(* error has cancelled Run's context (worker.go lines 42-44 and 71-73).    *)
RunErrorCause == egErr = "canceled" => signalled

(* A writer stuck in the capacity poll with a cancelled context.          *)
SomeWriterStuck == \E f \in Factories : pipe[f] = "stuck"

(* After an interrupt or SIGTERM, Run eventually returns unless a writer   *)
(* is stuck polling a full extrinsic pool: every worker's cleanup and      *)
(* pipeline see the cancelled context and every factory goroutine returns  *)
(* (the stuck case is extrinsic_pool_shutdown's finding).                  *)
SignalTerminates == signalled ~> (returned \/ SomeWriterStuck)

(* A worker error brings the whole relayer down: a failed writer, or a     *)
(* failed watcher whose writer is still running, reaches the root group    *)
(* through childEg.Wait, which cancels the sibling workers, and Run        *)
(* returns, unless a writer is stuck polling a full extrinsic pool.        *)
WorkerFailureStopsAll ==
    (\E f \in Factories : pipe[f] \in {"err", "failing"}) ~> (returned \/ SomeWriterStuck)

(* Spec 4.8: when Run returns, every task it spawned has terminated.       *)
RunWaitsForTasks ==
    returned => \A f \in Factories : cleanup[f] # "waiting" /\ pipe[f] \notin PipeLive

(* Spec 3: connections are closed after the supervisor scope exits.        *)
ShutdownReleasesConnections == returned ~> (\A f \in Factories : conns[f] = {})

=============================================================================
