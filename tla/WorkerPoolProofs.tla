-------------------------- MODULE WorkerPoolProofs --------------------------
(***************************************************************************)
(* Proofs about WorkerPool, for every set of factories: no factory         *)
(* goroutine of the relayer returns nil, and Run's error is               *)
(* context.Canceled only after a signal.                                   *)
(***************************************************************************)
EXTENDS WorkerPool, TLAPS

(* Before Start has started the pipeline, a worker has no pipeline task    *)
(* and its child group has not cancelled itself.                           *)
(* The pipeline states reached only through a failure or a done context.  *)
PipeFailed == {"failing", "stuck", "err", "canceled"}

PreStart ==
    \A f \in Factories :
        fpc[f] \in {"factory", "connectEth", "connectPara", "start"}
            => pipe[f] = "none" /\ ~childDone[f]

(* The child group cancels itself only through a failed watcher, through  *)
(* cancelWithError, or when its Wait has returned.                         *)
ChildCancelCause ==
    \A f \in Factories :
        childDone[f] => pipe[f] \in PipeFailed \/ fpc[f] \in {"select", "done"}

(* While runWorker is in Start or in childEg.Wait, the cleanup goroutine   *)
(* has returned only if Run's context is done or the pipeline failed.      *)
CleanupCause ==
    \A f \in Factories :
        cleanup[f] = "done" /\ fpc[f] \in {"start", "wait"}
            => rootDone \/ pipe[f] \in PipeFailed

(* runWorker returns nil only once Run's context is done.                  *)
NilOnlyCancelled ==
    \A f \in Factories : fpc[f] = "select" /\ res[f] = "nil" => rootDone

IInv == TypeOK /\ PreStart /\ ChildCancelCause /\ CleanupCause
            /\ NilOnlyCancelled /\ NoSilentWorkerExit

LEMMA IInvInit == Init => IInv
BY DEF Init, IInv, TypeOK, Errors, PipeStates, PreStart, ChildCancelCause, CleanupCause,
       NilOnlyCancelled, NoSilentWorkerExit

\* The root context is never un-cancelled.
LEMMA RootMonotone == [Next]_vars => (rootDone => rootDone')
BY DEF Next, vars, Signal, SignalCtxDone, RunReturn, Factory, ConnectEth,
       ConnectPara, StartPipeline, WaitChild, Select, Cleanup, PipeEnd,
       PipeFail, WatcherFail, PipeCancelled, PipeStuck, CancelWithError, EgReturn

LEMMA IInvNext == IInv /\ [Next]_vars => IInv'
<1> SUFFICES ASSUME IInv, [Next]_vars PROVE IInv'
    OBVIOUS
<1> USE DEF IInv, TypeOK, Errors, PipeStates, PipeLive, PipeFailed, PreStart,
            ChildCancelCause, CleanupCause, NilOnlyCancelled, NoSilentWorkerExit
<1>1. CASE Signal
    BY <1>1 DEF Signal
<1>2. CASE SignalCtxDone
    BY <1>2 DEF SignalCtxDone, EgReturn, Errors
<1>3. CASE RunReturn
    BY <1>3 DEF RunReturn
<1>4. CASE UNCHANGED vars
    BY <1>4 DEF vars
<1>5. ASSUME NEW f \in Factories, Factory(f) PROVE IInv'
    <2>1. CASE /\ fpc' = [fpc EXCEPT ![f] = "done"]
               /\ fret' = [fret EXCEPT ![f] = "err"]
               /\ EgReturn("err")
        <3>1. egErr' \in Errors /\ rootDone'
            BY <2>1 DEF EgReturn
        <3>2. QED
            BY <1>5, <2>1, <3>1 DEF Factory
    <2>2. CASE /\ fpc' = [fpc EXCEPT ![f] = "connectEth"]
               /\ UNCHANGED <<rootDone, egErr, fret>>
        BY <1>5, <2>2 DEF Factory
    <2>3. QED
        BY <1>5, <2>1, <2>2 DEF Factory
<1>6. ASSUME NEW f \in Factories, ConnectEth(f) PROVE IInv'
    BY <1>6 DEF ConnectEth
<1>7. ASSUME NEW f \in Factories, ConnectPara(f) PROVE IInv'
    BY <1>7 DEF ConnectPara
<1>8. ASSUME NEW f \in Factories, StartPipeline(f) PROVE IInv'
    <2>1. CASE /\ fpc' = [fpc EXCEPT ![f] = "wait"]
               /\ pipe' = [pipe EXCEPT ![f] = "running"]
               /\ UNCHANGED <<res, childDone>>
        BY <1>8, <2>1 DEF StartPipeline
    <2>2. CASE /\ fpc' = [fpc EXCEPT ![f] = "select"]
               /\ res' = [res EXCEPT ![f] = "err"]
               /\ UNCHANGED <<pipe, childDone>>
        BY <1>8, <2>2 DEF StartPipeline
    \* cancelWithError: the child context is cancelled with the error.
    <2>3. CASE /\ fpc' = [fpc EXCEPT ![f] = "select"]
               /\ res' = [res EXCEPT ![f] = "err"]
               /\ CancelWithError(f)
        BY <1>8, <2>3 DEF StartPipeline, CancelWithError
    <2>4. QED
        BY <1>8, <2>1, <2>2, <2>3 DEF StartPipeline
<1>9. ASSUME NEW f \in Factories, WaitChild(f) PROVE IInv'
    BY <1>9 DEF WaitChild
<1>10. ASSUME NEW f \in Factories, Select(f) PROVE IInv'
    BY <1>10 DEF Select, EgReturn, Errors
<1>11. ASSUME NEW f \in Factories, Cleanup(f) PROVE IInv'
    BY <1>11 DEF Cleanup, CtxDone, disconnect
<1>12. ASSUME NEW f \in Factories, PipeEnd(f) PROVE IInv'
    BY <1>12 DEF PipeEnd
<1>13. ASSUME NEW f \in Factories, PipeFail(f) PROVE IInv'
    BY <1>13 DEF PipeFail, CancelWithError
<1>14. ASSUME NEW f \in Factories, PipeCancelled(f) PROVE IInv'
    BY <1>14 DEF PipeCancelled
<1>15. ASSUME NEW f \in Factories, WatcherFail(f) PROVE IInv'
    BY <1>15 DEF WatcherFail
<1>16. ASSUME NEW f \in Factories, PipeStuck(f) PROVE IInv'
    BY <1>16 DEF PipeStuck, CtxDone
<1>17. QED
    BY <1>1, <1>2, <1>3, <1>4, <1>5, <1>6, <1>7, <1>8, <1>9, <1>10, <1>11,
       <1>12, <1>13, <1>14, <1>15, <1>16 DEF Next

LEMMA IInvHolds == Spec => []IInv
BY IInvInit, IInvNext, PTL DEF Spec

(* Spec 4.8's restart case never arises: for every set of factories, no    *)
(* factory goroutine of workers/worker.go returns nil, because the relayer *)
(* worker's cleanup goroutine keeps the child group open until Run's       *)
(* context is done or its pipeline has failed.                             *)
THEOREM NoSilentWorkerExitHolds == Spec => []NoSilentWorkerExit
BY IInvHolds, PTL DEF IInv

-----------------------------------------------------------------------------
(* Run's error names the cause.  RunErrorCause alone is not inductive: a   *)
(* factory goroutine returns ctx.Err() whenever Run's context is done, so  *)
(* the invariant must say why that context can be done.                    *)

(* Run's context is cancelled only by the signal handler, by a goroutine   *)
(* of the root group that returned a worker error, or by eg.Wait itself.   *)
RootCause == rootDone => signalled \/ egErr = "err" \/ returned

(* eg.Wait returns only after the signal goroutine and every factory       *)
(* goroutine have returned.                                                *)
ReturnedAllDone == returned => sig = "done" /\ \A f \in Factories : fpc[f] = "done"

(* The first non-nil error cancels Run's context as it is recorded.       *)
ErrorCancels == egErr # "none" => rootDone

CInv == RootCause /\ ReturnedAllDone /\ ErrorCancels /\ RunErrorCause

LEMMA CInvInit == Init => CInv
BY DEF Init, CInv, RootCause, ReturnedAllDone, ErrorCancels, RunErrorCause

LEMMA CInvNext == IInv /\ CInv /\ [Next]_vars => CInv'
<1> SUFFICES ASSUME IInv, CInv, [Next]_vars PROVE CInv'
    OBVIOUS
<1> USE DEF CInv, RootCause, ReturnedAllDone, ErrorCancels, RunErrorCause
<1>1. CASE Signal
    BY <1>1 DEF Signal
<1>2. CASE SignalCtxDone
    \* The signal goroutine is still waiting, so eg.Wait has not returned.
    BY <1>2 DEF SignalCtxDone, EgReturn
<1>3. CASE RunReturn
    BY <1>3 DEF RunReturn
<1>4. CASE UNCHANGED vars
    BY <1>4 DEF vars
<1>5. ASSUME NEW f \in Factories, Factory(f) PROVE CInv'
    <2>1. ~returned /\ UNCHANGED <<sig, signalled, returned>>
        BY <1>5 DEF Factory
    <2>2. CASE /\ fpc' = [fpc EXCEPT ![f] = "done"]
               /\ fret' = [fret EXCEPT ![f] = "err"]
               /\ EgReturn("err")
        <3>1. rootDone' /\ egErr' \in {egErr, "err"} /\ (egErr = "none" => egErr' = "err")
            BY <2>2 DEF EgReturn
        <3>2. QED
            BY <2>1, <3>1
    <2>3. CASE /\ fpc' = [fpc EXCEPT ![f] = "connectEth"]
               /\ UNCHANGED <<rootDone, egErr, fret>>
        BY <2>1, <2>3
    <2>4. QED
        BY <1>5, <2>2, <2>3 DEF Factory
<1>6. ASSUME NEW f \in Factories, Select(f) PROVE CInv'
    \* ctx.Err() is returned only with Run's context done, and fpc[f] =
    \* "select" rules out a returned eg.Wait.
    <2>1. ~returned /\ UNCHANGED <<sig, signalled, returned>>
        BY <1>6 DEF Select
    <2>2. res[f] \in {"nil", "err"}
        BY DEF IInv, TypeOK
    <2>3. CASE rootDone
        <3>1. signalled \/ egErr = "err"
            BY <2>1, <2>3
        <3>2. rootDone' /\ (egErr' = egErr \/ egErr = "none")
            BY <1>6, <2>3 DEF Select, EgReturn
        <3>3. QED
            BY <2>1, <3>1, <3>2
    <2>4. CASE ~rootDone
        <3>1. egErr = "none"
            BY <2>4
        <3>2. egErr' = IF res[f] = "err" THEN "err" ELSE "none"
            BY <1>6, <2>2, <2>4, <3>1 DEF Select, EgReturn
        <3>3. rootDone' = (res[f] = "err")
            BY <1>6, <2>2, <2>4 DEF Select, EgReturn
        <3>4. QED
            BY <2>1, <3>2, <3>3
    <2>5. QED
        BY <2>3, <2>4
<1>7. ASSUME NEW f \in Factories,
             \/ ConnectEth(f) \/ ConnectPara(f) \/ StartPipeline(f)
             \/ WaitChild(f) \/ Cleanup(f) \/ PipeEnd(f) \/ PipeFail(f)
             \/ WatcherFail(f) \/ PipeCancelled(f) \/ PipeStuck(f)
      PROVE CInv'
    <2>1. UNCHANGED <<sig, signalled, rootDone, egErr, returned>>
        BY <1>7 DEF ConnectEth, ConnectPara, StartPipeline, WaitChild, Cleanup,
                    PipeEnd, PipeFail, WatcherFail, PipeCancelled, PipeStuck
    \* A step that moves fpc[f] starts from a control point other than
    \* "done", so eg.Wait has not returned.
    <2>2. fpc' = fpc \/ ~returned
        BY <1>7 DEF ConnectEth, ConnectPara, StartPipeline, WaitChild, Cleanup,
                    PipeEnd, PipeFail, WatcherFail, PipeCancelled, PipeStuck
    <2>3. QED
        BY <2>1, <2>2
<1>8. QED
    BY <1>1, <1>2, <1>3, <1>4, <1>5, <1>6, <1>7 DEF Next

(* CInv, the inductive invariant of the result below, holds: Run's context *)
(* is cancelled only by a signal, a worker error or eg.Wait's return.      *)
LEMMA CInvHolds == Spec => []CInv
<1>1. Init => IInv /\ CInv
    BY IInvInit, CInvInit
<1>2. IInv /\ CInv /\ [Next]_vars => (IInv /\ CInv)'
    BY IInvNext, CInvNext
<1>3. QED
    BY <1>1, <1>2, PTL DEF Spec

(* The first error of the root errgroup, the one WorkerPool.Run returns,   *)
(* is context.Canceled only after an interrupt or SIGTERM: for every set   *)
(* of factories, a worker that fails by itself makes Run return its own    *)
(* error, and its siblings' ctx.Err() never takes its place.               *)
THEOREM RunErrorCauseHolds == Spec => []RunErrorCause
BY CInvHolds, PTL DEF CInv

=============================================================================
