-------------------------- MODULE MC_BeefyStore ----------------------------
(* Small instances of BeefyStore for TLC. *)
EXTENDS BeefyStoreProofs

\* Two items, so that an Update for one can reach the row of the other.
MCItems == {"b1", "b2"}
=============================================================================
