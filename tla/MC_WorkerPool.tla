-------------------------- MODULE MC_WorkerPool ---------------------------
(* Small instances of WorkerPool for TLC. *)
EXTENDS WorkerPoolProofs

\* Two worker factories: a failing worker must bring down its sibling.
MCFactories == {"f1", "f2"}
=============================================================================
