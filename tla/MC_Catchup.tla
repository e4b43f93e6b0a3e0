---------------------------- MODULE MC_Catchup ----------------------------
(* A small instance of Catchup for TLC. *)
EXTENDS Catchup

\* Parachain blocks 0..2 and relay blocks 0..3: every para block can be
\* finalised, by one relay block or by several.
MCNumParaBlocks == 2
MCNumRelayBlocks == 3
\* Commitments of one or two messages.
MCMaxMessages == 2
\* Room for one cycle's packages and a stale one.
MCChannelCap == 2
MCMaxFailures == 1
\* Histories in which the incentivized channel commits in block 1, so that
\* its nonce is stored at every verified block that has a commitment.
MCNonceHistories ==
    {f \in [0 .. MCNumParaBlocks -> [Channels -> 0 .. MCNumParaBlocks * MCMaxMessages]] :
        /\ f[0] = [c \in Channels |-> 0]
        /\ f[1]["incentivized"] > 0
        /\ \A b \in 1 .. MCNumParaBlocks, c \in Channels :
              f[b][c] - f[b - 1][c] \in 0 .. MCMaxMessages}
=============================================================================
