------------------------- MODULE MC_ExtrinsicPool -------------------------
(* Small instances of ExtrinsicPool for TLC. *)
EXTENDS ExtrinsicPoolProofs

\* Account nonce 1 at start-up: the one value for which the zero-initialised
\* maxNonce is exactly "the nonce before the first one submitted".
MCInitNonce == 1
\* Three payloads, so that a dropped extrinsic can sit between an older and
\* a younger one in flight.
MCNumPayloads == 3
\* Capacity two: the writer blocks on a full pool with a third payload.
MCMaxWatched == 2
\* Two drops: one extrinsic dropped twice, or two different ones.
MCMaxDrops == 2
=============================================================================
