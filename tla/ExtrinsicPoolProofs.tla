------------------------- MODULE ExtrinsicPoolProofs -------------------------
(***************************************************************************)
(* Proofs, for every value of the constants, of the safety invariants of   *)
(* ExtrinsicPool that MC_ExtrinsicPool checks on a small instance: type    *)
(* correctness, the accounting of ep.watched, the MaxWatchedExtrinsics     *)
(* bound and, when the account nonce at start-up is not 0, that no watcher *)
(* returns nil for an extrinsic whose nonce is still unused on chain; and, *)
(* for every start-up nonce, how far the back-off of a dropped extrinsic   *)
(* can exceed MaxWatchedExtrinsics x 5 seconds.                            *)
(***************************************************************************)
EXTENDS ExtrinsicPool, TLAPS, FiniteSetTheorems

\* The watchers that ep.watched counts, for a given map of control points.
ActiveOf(p) == {n \in Nonces : p[n] \notin {"idle", "done"}}

Active == ActiveOf(pc)

(***************************************************************************)
(* The inductive invariant.  TypeOK alone is not inductive: the two        *)
(* watched-- steps keep watched in Nat only because watched counts the     *)
(* active watchers (WatchedAccounting), the writer's wr.nonce++ stays in   *)
(* Nonces only because it trails the payloads taken, and the watcher the   *)
(* writer spawns is new only because every nonce from wr.nonce on is idle. *)
(***************************************************************************)
NonceTrails == nonce - InitNonce + (IF wrState = "wait" THEN 1 ELSE 0) <= written

FreshIdle == \A n \in Nonces : n >= nonce => pc[n] = "idle"

WatchedBound == watched <= MaxWatched

IInv == TypeOK /\ NonceTrails /\ FreshIdle /\ WatchedBound /\ WatchedAccounting

\* The invariant behind NoFalseSuccess: maxNonce and every nonce the node
\* reported in a block are below the account nonce.
MaxBelow == maxNonce < accountNonce

InBlockBelow == \A n \in Nonces : status[n] = "InBlock" => n < accountNonce

NInv == IInv /\ MaxBelow /\ InBlockBelow /\ NoFalseSuccess

-----------------------------------------------------------------------------
(* Lemmas on the set of active watchers.                                   *)

LEMMA NoncesFinite == IsFiniteSet(Nonces)
BY ConstantsAssumption, FS_Interval DEF Nonces

LEMMA ActiveFinite ==
    ASSUME NEW p \in [Nonces -> WatcherStates]
    PROVE  IsFiniteSet(ActiveOf(p))
BY NoncesFinite, FS_Subset DEF ActiveOf

\* Setting the control point of one watcher adds it to, or removes it from,
\* the active set.
LEMMA ActiveExcept ==
    ASSUME NEW p \in [Nonces -> WatcherStates], NEW k \in Nonces,
           NEW s \in WatcherStates
    PROVE  ActiveOf([p EXCEPT ![k] = s]) =
             IF s \in {"idle", "done"} THEN ActiveOf(p) \ {k}
                                       ELSE ActiveOf(p) \cup {k}
BY DEF ActiveOf

\* Hence its cardinality when k enters or leaves it.
LEMMA ActiveAdd ==
    ASSUME NEW p \in [Nonces -> WatcherStates], NEW k \in Nonces,
           NEW s \in WatcherStates \ {"idle", "done"}, k \notin ActiveOf(p)
    PROVE  Cardinality(ActiveOf([p EXCEPT ![k] = s])) = Cardinality(ActiveOf(p)) + 1
<1>0. k \in Nonces  BY DEF ActiveOf
<1>1. ActiveOf([p EXCEPT ![k] = s]) = ActiveOf(p) \cup {k}
  BY <1>0, ActiveExcept
<1>. QED  BY <1>1, ActiveFinite, FS_AddElement

LEMMA ActiveRemove ==
    ASSUME NEW p \in [Nonces -> WatcherStates], NEW k \in ActiveOf(p)
    PROVE  /\ Cardinality(ActiveOf([p EXCEPT ![k] = "done"])) = Cardinality(ActiveOf(p)) - 1
           /\ Cardinality(ActiveOf(p)) \in Nat \ {0}
<1>1. ActiveOf([p EXCEPT ![k] = "done"]) = ActiveOf(p) \ {k}
  BY ActiveExcept DEF ActiveOf
<1>2. IsFiniteSet(ActiveOf(p))  BY ActiveFinite
<1>3. Cardinality(ActiveOf(p)) \in Nat \ {0}
  BY <1>2, FS_EmptySet, FS_CardinalityType
<1>. QED  BY <1>1, <1>2, <1>3, FS_RemoveElement

\* A step between two active control points leaves the set unchanged.
LEMMA ActiveKeep ==
    ASSUME NEW p \in [Nonces -> WatcherStates], NEW k \in ActiveOf(p),
           NEW s \in WatcherStates \ {"idle", "done"}
    PROVE  ActiveOf([p EXCEPT ![k] = s]) = ActiveOf(p)
<1>0. k \in Nonces  BY DEF ActiveOf
<1>1. ActiveOf([p EXCEPT ![k] = s]) = ActiveOf(p) \cup {k}
  BY <1>0, ActiveExcept
<1>. QED  BY <1>1

\* WatchedAccounting, phrased with ActiveOf.
LEMMA AccountingDef ==
    /\ WatchedAccounting <=> watched = Cardinality(ActiveOf(pc))
    /\ WatchedAccounting' <=> watched' = Cardinality(ActiveOf(pc'))
BY DEF WatchedAccounting, ActiveOf

-----------------------------------------------------------------------------
(* The inductive invariant holds initially and is preserved by every step. *)

LEMMA IInvInit == Init => IInv
<1> SUFFICES ASSUME Init PROVE IInv  OBVIOUS
<1>1. TypeOK
  <2>1. nonce \in InitNonce .. (InitNonce + NumPayloads)
    BY ConstantsAssumption DEF Init
  <2>2. /\ pc \in [Nonces -> WatcherStates]
        /\ delay \in [Nonces -> Nat]
        /\ status \in [Nonces -> Statuses]
    BY DEF Init, WatcherStates, Statuses
  <2>3. /\ written \in 0 .. NumPayloads
        /\ watched \in Nat /\ maxNonce \in Nat /\ accountNonce \in Nat
        /\ drops \in 0 .. MaxDrops
    BY ConstantsAssumption DEF Init
  <2>4. /\ wrState \in {"loop", "wait", "stopped"}
        /\ cancelled \in BOOLEAN
        /\ txpool \in SUBSET Nonces
    BY DEF Init
  <2>. QED  BY <2>1, <2>2, <2>3, <2>4 DEF TypeOK
<1>2. ActiveOf(pc) = {}
  <2>1. \A n \in Nonces : pc[n] = "idle"  BY DEF Init
  <2>. QED  BY <2>1 DEF ActiveOf
<1>3. WatchedAccounting  BY <1>2, AccountingDef, FS_EmptySet DEF Init
<1>4. NonceTrails /\ FreshIdle /\ WatchedBound
  BY ConstantsAssumption DEF Init, NonceTrails, FreshIdle, WatchedBound
<1>. QED  BY <1>1, <1>3, <1>4 DEF IInv

\* A watcher step that keeps the watcher running (it moves between submit,
\* watch, sleep and resubmit, or fails) preserves IInv, whatever it does to
\* the node's pool and the context.
LEMMA WatcherKeep ==
    ASSUME IInv, NEW n \in Nonces, NEW st \in WatcherStates \ {"idle", "done"},
           pc[n] \in {"submit", "watch", "sleep", "resubmit"},
           pc' = [pc EXCEPT ![n] = st],
           UNCHANGED <<nonce, written, wrState, watched, drops>>,
           maxNonce' \in Nat, delay' \in [Nonces -> Nat],
           txpool' \in SUBSET Nonces, status' \in [Nonces -> Statuses],
           cancelled' \in BOOLEAN, accountNonce' \in Nat
    PROVE  IInv'
<1>1. n \in ActiveOf(pc)  BY DEF ActiveOf
<1>2. ActiveOf(pc') = ActiveOf(pc)  BY <1>1, ActiveKeep DEF IInv, TypeOK
<1>3. WatchedAccounting'  BY <1>2, AccountingDef DEF IInv
<1>4. TypeOK'  BY DEF IInv, TypeOK, WatcherStates
<1>5. FreshIdle'  BY DEF IInv, TypeOK, FreshIdle
<1>. QED  BY <1>3, <1>4, <1>5 DEF IInv, NonceTrails, WatchedBound

\* A watcher that returns nil (terminal status, or a dropped nonce found
\* provided after the sleep) decrements watched and preserves IInv.
LEMMA WatcherDone ==
    ASSUME IInv, NEW n \in Nonces,
           pc[n] \in {"watch", "sleep"},
           pc' = [pc EXCEPT ![n] = "done"],
           watched' = watched - 1,
           UNCHANGED <<nonce, written, wrState, drops, delay, txpool, cancelled,
                       accountNonce>>,
           maxNonce' \in Nat, status' \in [Nonces -> Statuses]
    PROVE  IInv'
<1>1. n \in ActiveOf(pc)  BY DEF ActiveOf
<1>2. /\ Cardinality(ActiveOf(pc')) = Cardinality(ActiveOf(pc)) - 1
      /\ Cardinality(ActiveOf(pc)) \in Nat \ {0}
  BY <1>1, ActiveRemove DEF IInv, TypeOK
<1>3. watched \in Nat \ {0} /\ WatchedAccounting'  BY <1>2, AccountingDef DEF IInv
<1>4. TypeOK'
  <2>1. pc' \in [Nonces -> WatcherStates]  BY DEF IInv, TypeOK, WatcherStates
  <2>2. watched' \in Nat  BY <1>3
  <2>. QED  BY <2>1, <2>2 DEF IInv, TypeOK
<1>5. FreshIdle'  BY DEF IInv, TypeOK, FreshIdle
<1>6. NonceTrails'
  <2>1. nonce' = nonce /\ written' = written /\ wrState' = wrState  OBVIOUS
  <2>. QED  BY <2>1 DEF IInv, NonceTrails
<1>7. WatchedBound'  BY <1>3, ConstantsAssumption DEF IInv, WatchedBound
<1>. QED  BY <1>3, <1>4, <1>5, <1>6, <1>7 DEF IInv

\* A step of the node (or a stutter) leaves the writer and the pool alone.
LEMMA EnvFrame ==
    ASSUME IInv,
           UNCHANGED <<nonce, written, wrState, watched, maxNonce, pc, delay,
                       cancelled>>,
           txpool' \in SUBSET Nonces, status' \in [Nonces -> Statuses],
           accountNonce' \in Nat, drops' \in 0 .. MaxDrops
    PROVE  IInv'
<1>1. TypeOK'  BY DEF IInv, TypeOK
<1>2. WatchedAccounting'  BY AccountingDef DEF IInv
<1>3. NonceTrails' /\ FreshIdle' /\ WatchedBound'
  BY DEF IInv, NonceTrails, FreshIdle, WatchedBound
<1>. QED  BY <1>1, <1>2, <1>3 DEF IInv

LEMMA IInvNext == IInv /\ [Next]_vars => IInv'
<1> SUFFICES ASSUME IInv, [Next]_vars PROVE IInv'  OBVIOUS
<1>. USE ConstantsAssumption
<1>1. CASE ReceivePayload
  <2>1. TypeOK'  BY <1>1 DEF IInv, TypeOK, ReceivePayload, poolVars, chainVars
  <2>2. NonceTrails'  BY <1>1 DEF IInv, TypeOK, NonceTrails, ReceivePayload
  <2>3. FreshIdle' /\ WatchedBound' /\ WatchedAccounting'
    BY <1>1, AccountingDef
    DEF IInv, FreshIdle, WatchedBound, ReceivePayload, poolVars, chainVars
  <2>. QED  BY <2>1, <2>2, <2>3 DEF IInv
<1>2. CASE WriteError
  <2>1. TypeOK'  BY <1>2 DEF IInv, TypeOK, WriteError, poolVars, chainVars
  <2>2. NonceTrails'  BY <1>2 DEF IInv, TypeOK, NonceTrails, WriteError
  <2>3. FreshIdle' /\ WatchedBound' /\ WatchedAccounting'
    BY <1>2, AccountingDef
    DEF IInv, FreshIdle, WatchedBound, WriteError, poolVars, chainVars
  <2>. QED  BY <2>1, <2>2, <2>3 DEF IInv
<1>3. CASE WaitForSubmitAndWatch
  <2>1. nonce \in Nonces /\ pc[nonce] = "idle"
    BY <1>3 DEF IInv, TypeOK, NonceTrails, FreshIdle, WaitForSubmitAndWatch, Nonces
  <2>2. Cardinality(ActiveOf(pc')) = Cardinality(ActiveOf(pc)) + 1
    <3>1. nonce \notin ActiveOf(pc)  BY <2>1 DEF ActiveOf
    <3>. QED  BY <1>3, <2>1, <3>1, ActiveAdd
              DEF IInv, TypeOK, WaitForSubmitAndWatch, WatcherStates
  <2>3. WatchedAccounting'
    BY <1>3, <2>2, AccountingDef DEF IInv, WaitForSubmitAndWatch
  <2>4. TypeOK'
    BY <1>3, <2>1 DEF IInv, TypeOK, NonceTrails, WaitForSubmitAndWatch,
                      WatcherStates, Nonces, chainVars
  <2>5. NonceTrails' /\ WatchedBound'
    BY <1>3 DEF IInv, TypeOK, NonceTrails, WatchedBound, WaitForSubmitAndWatch,
                hasCapacity
  <2>6. FreshIdle'
    <3>1. SUFFICES ASSUME NEW m \in Nonces, m >= nonce + 1 PROVE pc'[m] = "idle"
      BY <1>3 DEF FreshIdle, WaitForSubmitAndWatch
    <3>2. m # nonce /\ m >= nonce  BY <2>1, <3>1 DEF Nonces
    <3>3. pc'[m] = pc[m]  BY <1>3, <3>2 DEF IInv, TypeOK, WaitForSubmitAndWatch
    <3>. QED  BY <3>2, <3>3 DEF IInv, FreshIdle
  <2>. QED  BY <2>3, <2>4, <2>5, <2>6 DEF IInv
<1>4. CASE WriterCancelled
  <2>1. TypeOK'  BY <1>4 DEF IInv, TypeOK, WriterCancelled, poolVars, chainVars
  <2>2. NonceTrails'  BY <1>4 DEF IInv, TypeOK, NonceTrails, WriterCancelled
  <2>3. FreshIdle' /\ WatchedBound' /\ WatchedAccounting'
    BY <1>4, AccountingDef
    DEF IInv, FreshIdle, WatchedBound, WriterCancelled, poolVars, chainVars
  <2>. QED  BY <2>1, <2>2, <2>3 DEF IInv
<1>5. ASSUME NEW n \in Nonces, Submit(n) PROVE IInv'
  <2>1. pc[n] = "submit" /\ UNCHANGED <<nonce, written, wrState, watched, drops,
                                       maxNonce, delay, accountNonce>>
    BY <1>5 DEF Submit, writerVars
  <2>2. status' \in [Nonces -> Statuses] /\ txpool' \in SUBSET Nonces
    BY <1>5 DEF Submit, IInv, TypeOK, Statuses
  <2>3. cancelled' \in BOOLEAN  BY <1>5 DEF Submit, IInv, TypeOK
  <2>4. \E st \in {"watch", "error"} : pc' = [pc EXCEPT ![n] = st]
    BY <1>5 DEF Submit
  <2>. QED  BY <2>1, <2>2, <2>3, <2>4, WatcherKeep DEF IInv, TypeOK, WatcherStates
<1>6. ASSUME NEW n \in Nonces, RecvTerminal(n) PROVE IInv'
  <2>1. maxNonce' \in Nat  BY <1>6 DEF RecvTerminal, RaiseMaxNonce, IInv, TypeOK, Nonces
  <2>2. status' \in [Nonces -> Statuses]  BY <1>6 DEF RecvTerminal, IInv, TypeOK, Statuses
  <2>. QED  BY <1>6, <2>1, <2>2, WatcherDone DEF RecvTerminal, writerVars
<1>7. ASSUME NEW n \in Nonces, RecvDropped(n) PROVE IInv'
  <2>1. delay' \in [Nonces -> Nat]
    BY <1>7 DEF RecvDropped, getRetryDelay, IInv, TypeOK, Nonces
  <2>2. status' \in [Nonces -> Statuses]  BY <1>7 DEF RecvDropped, IInv, TypeOK, Statuses
  <2>. QED  BY <1>7, <2>1, <2>2, WatcherKeep
            DEF RecvDropped, writerVars, IInv, TypeOK, WatcherStates
<1>8. ASSUME NEW n \in Nonces, AfterSleep(n) PROVE IInv'
  <2>1. CASE n <= maxNonce
    BY <1>8, <2>1, WatcherDone DEF AfterSleep, writerVars, chainVars, IInv, TypeOK
  <2>2. CASE ~(n <= maxNonce)
    BY <1>8, <2>2, WatcherKeep
    DEF AfterSleep, writerVars, chainVars, IInv, TypeOK, WatcherStates
  <2>. QED  BY <2>1, <2>2
<1>9. ASSUME NEW n \in Nonces, Resubmit(n) PROVE IInv'
  <2>1. pc[n] = "resubmit" /\ UNCHANGED <<nonce, written, wrState, watched, drops,
                                         maxNonce, delay, accountNonce>>
    BY <1>9 DEF Resubmit, writerVars
  <2>2. status' \in [Nonces -> Statuses] /\ txpool' \in SUBSET Nonces
    BY <1>9 DEF Resubmit, IInv, TypeOK, Statuses
  <2>3. cancelled' \in BOOLEAN  BY <1>9 DEF Resubmit, IInv, TypeOK
  <2>4. \E st \in {"watch", "error"} : pc' = [pc EXCEPT ![n] = st]
    BY <1>9 DEF Resubmit
  <2>. QED  BY <2>1, <2>2, <2>3, <2>4, WatcherKeep DEF IInv, TypeOK, WatcherStates
<1>10. ASSUME NEW n \in Nonces, CtxDone(n) \/ SubErr(n) PROVE IInv'
  BY <1>10, WatcherKeep
  DEF IInv, TypeOK, CtxDone, SubErr, WatcherStates, writerVars, chainVars
<1>11. CASE Include
  BY <1>11, EnvFrame DEF IInv, TypeOK, Include, Statuses, writerVars, poolVars
<1>12. ASSUME NEW n \in Nonces, Drop(n) PROVE IInv'
  BY <1>12, EnvFrame, ConstantsAssumption
  DEF IInv, TypeOK, Drop, Statuses, writerVars, poolVars
<1>13. CASE UNCHANGED vars
  BY <1>13, EnvFrame DEF IInv, TypeOK, vars, writerVars, poolVars, chainVars
<1>. QED  BY <1>1, <1>2, <1>3, <1>4, <1>5, <1>6, <1>7, <1>8, <1>9, <1>10,
             <1>11, <1>12, <1>13 DEF Next, Watcher

-----------------------------------------------------------------------------
(* Theorems.                                                               *)

\* The inductive invariant holds in every reachable state.
LEMMA IInvHolds == Spec => []IInv
BY IInvInit, IInvNext, PTL DEF Spec

\* Type correctness: in particular the two watched-- of submitAndWatchLoop
\* never take the counter below zero, and wr.nonce++ in write never leaves
\* the nonces the writer was given payloads for.
THEOREM TypeCorrect == Spec => []TypeOK
BY IInvHolds, PTL DEF IInv

\* ep.watched counts exactly the watchers spawned by WaitForSubmitAndWatch
\* that have not yet returned nil, whatever the interleaving of the writer,
\* the watchers and the node.
THEOREM WatchedAccountingHolds == Spec => []WatchedAccounting
BY IInvHolds, PTL DEF IInv

\* Running watchers are active, so their number is at most watched.
LEMMA LiveBound == IInv => CapacityBound
<1> SUFFICES ASSUME IInv PROVE CapacityBound  OBVIOUS
<1>1. Live \subseteq ActiveOf(pc)  BY DEF Live, ActiveOf
<1>2. IsFiniteSet(ActiveOf(pc))  BY ActiveFinite DEF IInv, TypeOK
<1>3. Cardinality(Live) <= Cardinality(ActiveOf(pc))  BY <1>1, <1>2, FS_Subset
<1>4. Cardinality(ActiveOf(pc)) <= MaxWatched
  BY AccountingDef DEF IInv, WatchedBound
<1>5. Cardinality(Live) \in Nat /\ Cardinality(ActiveOf(pc)) \in Nat
  BY <1>1, <1>2, FS_Subset, FS_CardinalityType
<1>. QED  BY <1>3, <1>4, <1>5, ConstantsAssumption DEF CapacityBound

\* WaitForSubmitAndWatch keeps the number of running watcher goroutines at
\* most MaxWatchedExtrinsics in every reachable state.
THEOREM CapacityBoundHolds == Spec => []CapacityBound
BY IInvHolds, LiveBound, PTL

LEMMA NInvInit == InitNonce # 0 /\ Init => NInv
<1> SUFFICES ASSUME InitNonce # 0, Init PROVE NInv  OBVIOUS
<1>1. IInv  BY IInvInit
<1>2. MaxBelow  BY ConstantsAssumption DEF Init, MaxBelow
<1>3. InBlockBelow /\ NoFalseSuccess  BY DEF Init, InBlockBelow, NoFalseSuccess
<1>. QED  BY <1>1, <1>2, <1>3 DEF NInv

\* The part of NInv beyond IInv, for a step that changes neither the
\* account nonce, maxNonce, nor a status to InBlock, nor a watcher to done.
LEMMA NFrame ==
    ASSUME NInv, IInv', UNCHANGED <<maxNonce, accountNonce>>,
           \A n \in Nonces : status'[n] = "InBlock" => status[n] = "InBlock",
           \A n \in Nonces : pc'[n] = "done" => pc[n] = "done"
    PROVE  NInv'
BY DEF NInv, MaxBelow, InBlockBelow, NoFalseSuccess

LEMMA NInvNext == NInv /\ [Next]_vars => NInv'
<1> SUFFICES ASSUME NInv, [Next]_vars PROVE NInv'  OBVIOUS
<1>0. IInv' /\ TypeOK  BY IInvNext DEF NInv, IInv
<1>1. CASE ReceivePayload \/ WriteError \/ WriterCancelled \/ UNCHANGED vars
  BY <1>0, <1>1, NFrame
  DEF ReceivePayload, WriteError, WriterCancelled, vars, writerVars, poolVars, chainVars
<1>2. CASE WaitForSubmitAndWatch
  BY <1>0, <1>2, NFrame DEF WaitForSubmitAndWatch, TypeOK, chainVars
<1>3. ASSUME NEW n \in Nonces,
             Submit(n) \/ RecvDropped(n) \/ Resubmit(n) \/ CtxDone(n) \/ SubErr(n)
      PROVE  NInv'
  BY <1>0, <1>3, NFrame
  DEF Submit, RecvDropped, Resubmit, CtxDone, SubErr, TypeOK, writerVars, chainVars
<1>4. ASSUME NEW n \in Nonces, RecvTerminal(n) PROVE NInv'
  <2>1. n < accountNonce  BY <1>4 DEF RecvTerminal, NInv, InBlockBelow
  <2>2. MaxBelow'
    BY <1>0, <1>4, <2>1 DEF RecvTerminal, RaiseMaxNonce, NInv, MaxBelow, TypeOK, Nonces
  <2>3. InBlockBelow'
    BY <1>0, <1>4 DEF RecvTerminal, NInv, InBlockBelow, TypeOK
  <2>4. NoFalseSuccess'
    BY <1>0, <1>4, <2>1 DEF RecvTerminal, NInv, NoFalseSuccess, TypeOK
  <2>. QED  BY <1>0, <2>2, <2>3, <2>4 DEF NInv
<1>5. ASSUME NEW n \in Nonces, AfterSleep(n) PROVE NInv'
  <2>1. CASE n <= maxNonce
    <3>1. n < accountNonce  BY <2>1, ConstantsAssumption DEF NInv, MaxBelow, IInv, TypeOK, Nonces
    <3>2. NoFalseSuccess'
      BY <1>0, <1>5, <2>1, <3>1 DEF AfterSleep, NInv, NoFalseSuccess, TypeOK, chainVars
    <3>. QED  BY <1>0, <1>5, <3>2
              DEF AfterSleep, NInv, MaxBelow, InBlockBelow, chainVars
  <2>2. CASE ~(n <= maxNonce)
    BY <1>0, <1>5, <2>2, NFrame DEF AfterSleep, TypeOK, chainVars
  <2>. QED  BY <2>1, <2>2
<1>6. CASE Include
  <2>1. accountNonce \in Nat /\ accountNonce' = accountNonce + 1
    BY <1>6 DEF Include, NInv, IInv, TypeOK
  <2>2. MaxBelow'  BY <1>6, <2>1 DEF Include, poolVars, NInv, MaxBelow, IInv, TypeOK
  <2>3. InBlockBelow'  BY <1>6, <2>1 DEF Include, NInv, InBlockBelow, IInv, TypeOK, Nonces
  <2>4. NoFalseSuccess'
    BY <1>6, <2>1 DEF Include, poolVars, NInv, NoFalseSuccess, IInv, TypeOK, Nonces
  <2>. QED  BY <1>0, <2>2, <2>3, <2>4 DEF NInv
<1>7. ASSUME NEW n \in Nonces, Drop(n) PROVE NInv'
  BY <1>0, <1>7, NFrame DEF Drop, TypeOK, writerVars, poolVars
<1>. QED  BY <1>1, <1>2, <1>3, <1>4, <1>5, <1>6, <1>7 DEF Next, Watcher

\* The dropped-extrinsic branch of submitAndWatchLoop returns nil only for
\* a nonce already consumed on chain, provided the account nonce at
\* start-up is not 0 (with 0 it is wrong: maxNonce starts at 0).
THEOREM NoFalseSuccessHolds ==
    ASSUME InitNonce # 0 PROVE Spec => []NoFalseSuccess
<1>1. Init => NInv  BY NInvInit
<1>2. NInv /\ [Next]_vars => NInv'  BY NInvNext
<1>3. NInv => NoFalseSuccess  BY DEF NInv
<1>. QED  BY <1>1, <1>2, <1>3, PTL DEF Spec


-----------------------------------------------------------------------------
(***************************************************************************)
(* The back-off bound.  getRetryDelay(n) is n - maxNonce when n is above   *)
(* maxNonce.  Every nonce of the payloads from maxNonce + 1 to n has a     *)
(* watcher that was spawned (it is below wr.nonce) and has not returned    *)
(* nil (a watcher that returns nil leaves its nonce at or below maxNonce), *)
(* so ep.watched counts all of them: at most MaxWatchedExtrinsics.  The    *)
(* nonces from maxNonce + 1 up to the start-up account nonce are not       *)
(* nonces of the relayer's payloads and hold no slot; while maxNonce is    *)
(* still 0 they add up to InitNonce - 1 (StartGap).                        *)
(***************************************************************************)
SpawnedBelow == \A m \in Nonces : m < nonce => pc[m] # "idle"

DoneBelowMax == \A m \in Nonces : pc[m] = "done" => m <= maxNonce

DInv == IInv /\ SpawnedBelow /\ DoneBelowMax /\ RetryDelayWithinStart

\* The back-off computed for a watching nonce: the watchers of the nonces
\* from First to n, plus the unused start-up nonces below First.
LEMMA RetryDelayWithin ==
    ASSUME DInv, NEW n \in Nonces, pc[n] = "watch"
    PROVE  getRetryDelay(n) <= MaxWatched + StartGap
<1>. USE ConstantsAssumption
<1>1. maxNonce \in Nat /\ nonce \in Int /\ watched \in Nat /\ n \in Int
      /\ n >= InitNonce
    BY DEF DInv, IInv, TypeOK, Nonces
<1>2. CASE n <= maxNonce
    BY <1>2 DEF getRetryDelay, StartGap
<1>3. CASE n > maxNonce
    <2> DEFINE First == IF maxNonce + 1 >= InitNonce THEN maxNonce + 1 ELSE InitNonce
               S == First .. n
    <2>1. n < nonce
        BY <1>1 DEF DInv, IInv, FreshIdle
    <2>2. S \subseteq ActiveOf(pc)
        <3> SUFFICES ASSUME NEW m \in S PROVE m \in ActiveOf(pc)
            OBVIOUS
        <3>1. m \in Nonces /\ m < nonce /\ m > maxNonce
            BY <1>1, <2>1 DEF Nonces
        <3>2. pc[m] # "idle"
            BY <3>1 DEF DInv, SpawnedBelow
        <3>3. pc[m] # "done"
            BY <3>1, <1>1 DEF DInv, DoneBelowMax
        <3>4. QED
            BY <3>1, <3>2, <3>3 DEF ActiveOf
    <2>3. Cardinality(S) = n - First + 1
        BY <1>1, <1>3, FS_Interval
    <2>4. Cardinality(S) <= Cardinality(ActiveOf(pc))
          /\ Cardinality(ActiveOf(pc)) \in Nat
        BY <2>2, ActiveFinite, FS_Subset, FS_CardinalityType DEF DInv, IInv, TypeOK
    <2>5. Cardinality(ActiveOf(pc)) <= MaxWatched
        BY AccountingDef DEF DInv, IInv, WatchedBound
    <2>6. First - maxNonce - 1 <= StartGap
        BY <1>1 DEF StartGap
    <2>7. QED
        BY <1>1, <1>3, <2>3, <2>4, <2>5, <2>6 DEF getRetryDelay, StartGap
<1>4. QED
    BY <1>1, <1>2, <1>3

LEMMA DInvInit == Init => DInv
<1> SUFFICES ASSUME Init PROVE DInv
    OBVIOUS
<1>1. IInv
    BY IInvInit
<1>2. SpawnedBelow /\ DoneBelowMax /\ RetryDelayWithinStart
    BY ConstantsAssumption
    DEF Init, SpawnedBelow, DoneBelowMax, RetryDelayWithinStart, Nonces
<1>3. QED
    BY <1>1, <1>2 DEF DInv

\* The three conjuncts added to IInv, for the steps that change neither
\* wr.nonce, maxNonce, the delays nor any watcher's control point.
LEMMA DFrame ==
    ASSUME DInv, UNCHANGED <<nonce, maxNonce, pc, delay>>
    PROVE  SpawnedBelow' /\ DoneBelowMax' /\ RetryDelayWithinStart'
BY DEF DInv, SpawnedBelow, DoneBelowMax, RetryDelayWithinStart

\* A step of watcher n that changes only pc[n] (among wr.nonce, the
\* delays and the control points), to a state other than done and sleep,
\* and does not lower maxNonce.
LEMMA DWatcherKeep ==
    ASSUME DInv, NEW n \in Nonces,
           pc[n] \in {"submit", "watch", "sleep", "resubmit"},
           NEW s \in {"watch", "resubmit", "error"},
           pc' = [pc EXCEPT ![n] = s],
           s = "resubmit" => pc[n] = "sleep",
           UNCHANGED <<nonce, maxNonce, delay>>
    PROVE  SpawnedBelow' /\ DoneBelowMax' /\ RetryDelayWithinStart'
BY DEF DInv, IInv, TypeOK, SpawnedBelow, DoneBelowMax, RetryDelayWithinStart

LEMMA DStep ==
    ASSUME DInv, [Next]_vars
    PROVE  SpawnedBelow' /\ DoneBelowMax' /\ RetryDelayWithinStart'
<1>. USE ConstantsAssumption
<1>1. CASE ReceivePayload \/ WriteError \/ WriterCancelled \/ UNCHANGED vars
    BY <1>1, DFrame
    DEF ReceivePayload, WriteError, WriterCancelled, vars, writerVars, poolVars
<1>2. CASE Include \/ \E n \in Nonces : Drop(n)
    BY <1>2, DFrame DEF Include, Drop, writerVars, poolVars
<1>3. CASE WaitForSubmitAndWatch
    <2>1. /\ pc' = [pc EXCEPT ![nonce] = "submit"]
          /\ nonce' = nonce + 1
          /\ UNCHANGED <<maxNonce, delay>>
        BY <1>3 DEF WaitForSubmitAndWatch
    <2>2. nonce \in Int /\ pc \in [Nonces -> WatcherStates]
        BY DEF DInv, IInv, TypeOK
    <2>3. QED
        BY <2>1, <2>2 DEF DInv, SpawnedBelow, DoneBelowMax, RetryDelayWithinStart, Nonces
<1>4. ASSUME NEW n \in Nonces, Submit(n) \/ Resubmit(n) \/ CtxDone(n) \/ SubErr(n)
      PROVE  SpawnedBelow' /\ DoneBelowMax' /\ RetryDelayWithinStart'
    <2>1. CASE Submit(n)
        BY <2>1, DWatcherKeep DEF Submit, writerVars
    <2>2. CASE Resubmit(n)
        BY <2>2, DWatcherKeep DEF Resubmit, writerVars
    <2>3. CASE CtxDone(n) \/ SubErr(n)
        BY <2>3, DWatcherKeep DEF CtxDone, SubErr, writerVars
    <2>4. QED
        BY <1>4, <2>1, <2>2, <2>3
<1>5. ASSUME NEW n \in Nonces, RecvTerminal(n)
      PROVE  SpawnedBelow' /\ DoneBelowMax' /\ RetryDelayWithinStart'
    <2>1. /\ pc' = [pc EXCEPT ![n] = "done"]
          /\ maxNonce' = RaiseMaxNonce(n)
          /\ UNCHANGED <<nonce, delay>>
        BY <1>5 DEF RecvTerminal, writerVars
    <2>2. maxNonce \in Nat /\ n \in Int /\ pc \in [Nonces -> WatcherStates]
        BY DEF DInv, IInv, TypeOK, Nonces
    <2>3. maxNonce' \in Int /\ maxNonce' >= maxNonce /\ maxNonce' >= n
        BY <2>1, <2>2 DEF RaiseMaxNonce
    <2>4. QED
        BY <2>1, <2>2, <2>3
        DEF DInv, SpawnedBelow, DoneBelowMax, RetryDelayWithinStart, Nonces
<1>6. ASSUME NEW n \in Nonces, RecvDropped(n)
      PROVE  SpawnedBelow' /\ DoneBelowMax' /\ RetryDelayWithinStart'
    <2>1. /\ pc' = [pc EXCEPT ![n] = "sleep"]
          /\ delay' = [delay EXCEPT ![n] = getRetryDelay(n)]
          /\ UNCHANGED <<nonce, maxNonce>>
          /\ pc[n] = "watch"
        BY <1>6 DEF RecvDropped, writerVars
    <2>2. getRetryDelay(n) <= MaxWatched + StartGap
        BY <2>1, RetryDelayWithin
    <2>3. pc \in [Nonces -> WatcherStates] /\ delay \in [Nonces -> Nat]
        BY DEF DInv, IInv, TypeOK
    <2>4. QED
        BY <2>1, <2>2, <2>3
        DEF DInv, SpawnedBelow, DoneBelowMax, RetryDelayWithinStart
<1>7. ASSUME NEW n \in Nonces, AfterSleep(n)
      PROVE  SpawnedBelow' /\ DoneBelowMax' /\ RetryDelayWithinStart'
    <2>1. pc[n] = "sleep" /\ UNCHANGED <<nonce, maxNonce, delay>>
        BY <1>7 DEF AfterSleep, writerVars
    <2>2. CASE n <= maxNonce
        <3>1. pc' = [pc EXCEPT ![n] = "done"]
            BY <1>7, <2>2 DEF AfterSleep
        <3>2. QED
            BY <2>1, <2>2, <3>1
            DEF DInv, IInv, TypeOK, SpawnedBelow, DoneBelowMax, RetryDelayWithinStart
    <2>3. CASE ~(n <= maxNonce)
        <3>1. pc' = [pc EXCEPT ![n] = "resubmit"]
            BY <1>7, <2>3 DEF AfterSleep
        <3>2. QED
            BY <2>1, <3>1, DWatcherKeep
    <2>4. QED
        BY <2>2, <2>3
<1>8. QED
    BY <1>1, <1>2, <1>3, <1>4, <1>5, <1>6, <1>7 DEF Next, Watcher

LEMMA DInvNext == DInv /\ [Next]_vars => DInv'
<1> SUFFICES ASSUME DInv, [Next]_vars PROVE DInv'
    OBVIOUS
<1>1. IInv'
    BY IInvNext DEF DInv
<1>2. SpawnedBelow' /\ DoneBelowMax' /\ RetryDelayWithinStart'
    BY DStep
<1>3. QED
    BY <1>1, <1>2 DEF DInv

\* DInv holds in every reachable state, whatever the start-up nonce.
LEMMA DInvHolds == Spec => []DInv
<1>1. Init => DInv
    BY DInvInit
<1>2. DInv /\ [Next]_vars => DInv'
    BY DInvNext
<1>3. QED
    BY <1>1, <1>2, PTL DEF Spec

(* For every start-up account nonce, number of payloads, capacity and      *)
(* drops, the back-off getRetryDelay gives a dropped extrinsic exceeds     *)
(* MaxWatchedExtrinsics x 5 seconds by at most (account nonce - 1) x 5     *)
(* seconds: the nonces it counts between maxNonce and the dropped one are  *)
(* either nonces of extrinsics in flight, each holding a slot of the pool, *)
(* or nonces the account used before the relayer started.  With a start-up *)
(* nonce of 0 or 1 this is RetryDelayBounded, the bound mc_extrinsic_pool  *)
(* checks; for a larger one the overshoot is real (the run                 *)
(* extrinsic_pool_retry_delay).                                            *)
THEOREM RetryDelayWithinStartHolds == Spec => []RetryDelayWithinStart
<1>1. Spec => []DInv
    BY DInvHolds
<1>2. DInv => RetryDelayWithinStart
    BY DEF DInv
<1>3. QED
    BY <1>1, <1>2, PTL

====
