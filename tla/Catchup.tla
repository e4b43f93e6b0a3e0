------------------------------ MODULE Catchup ------------------------------
(***************************************************************************)
(* The parachain-to-Ethereum catch-up of the BEEFY listener                *)
(* (workers/parachaincommitmentrelayer/catchup.go).  A cycle reads the     *)
(* relay block the Ethereum light client has verified and the parachain    *)
(* block it finalises (fetchLatestVerifiedBlocks), reads the nonces of the *)
(* two Ethereum inbound channels and of the two parachain outbound         *)
(* channels, searches the parachain backwards for the commitments Ethereum *)
(* has not received (searchForLostCommitments), finds the relay block that *)
(* carries each of those parachain blocks (ParablocksWithProofs), reverses *)
(* the list and sends one message package per commitment.                  *)
(*                                                                         *)
(* The chains are the environment.  The parachain's history is chosen in   *)
(* Init and never changes: paraNonce[b][c] is the nonce of outbound        *)
(* channel c after block b, so block b commits the messages from           *)
(* paraNonce[b-1][c]+1 to paraNonce[b][c] (none when they are equal), and  *)
(* paraHead[r] the number of our parachain's head in relay block r.  The   *)
(* Ethereum light client's verified relay block advances, and an Ethereum  *)
(* submitter takes packages from the messages channel and hands them to    *)
(* the inbound contract, which accepts a commitment only when its first    *)
(* nonce follows the channel's nonce.  Offchain storage and headers are    *)
(* always found; an RPC that fails aborts the cycle (at most MaxFailures   *)
(* times).  The errgroup's context may be cancelled at any time: the      *)
(* submitter then exits, and the listener's Ethereum calls, made with the  *)
(* context, fail; the sends on li.messages do not look at the context.    *)
(***************************************************************************)
EXTENDS Naturals, Sequences, SequencesExt

CONSTANTS
    NumParaBlocks,   \* parachain blocks 0 .. NumParaBlocks
    NumRelayBlocks,  \* relay chain blocks 0 .. NumRelayBlocks
    MaxMessages,     \* messages in one commitment
    ChannelCap,      \* capacity of the messages channel to the submitter
    MaxFailures      \* bound on RPC failures that abort a cycle

ASSUME CatchupAssumption ==
    /\ NumParaBlocks \in Nat \ {0}
    /\ NumRelayBlocks \in Nat \ {0}
    /\ MaxMessages \in Nat \ {0}
    /\ ChannelCap \in Nat \ {0}
    /\ MaxFailures \in Nat

\* ChannelID{IsBasic} and ChannelID{IsIncentivized}, in digest order.
Channels == {"basic", "incentivized"}
ChannelOrder == <<"basic", "incentivized">>

ParaBlocks == 0 .. NumParaBlocks
RelayBlocks == 0 .. NumRelayBlocks

\* Parachain histories: channel nonces after each block, starting at 0;
\* at most one commitment of at most MaxMessages per channel per block.
NonceHistories ==
    {f \in [ParaBlocks -> [Channels -> 0 .. NumParaBlocks * MaxMessages]] :
        /\ f[0] = [c \in Channels |-> 0]
        /\ \A b \in 1 .. NumParaBlocks, c \in Channels :
              f[b][c] - f[b - 1][c] \in 0 .. MaxMessages}

\* Relay chains: the para head starts at the genesis block 0, and each relay
\* block includes at most one new parachain block, backed in an earlier
\* relay block (so not before relay block 2).
HeadSequences ==
    {h \in [RelayBlocks -> ParaBlocks] :
        /\ h[0] = 0
        /\ h[1] = 0
        /\ \A r \in 1 .. NumRelayBlocks : h[r] \in {h[r - 1], h[r - 1] + 1}}

VARIABLES
    paraNonce,     \* the parachain's outbound nonces (fixed in Init)
    paraHead,      \* the relay chain's para heads (fixed in Init)
    beefyBlock,    \* LatestBeefyBlock of the Ethereum light client
    ethNonce,      \* Nonce() of the two Ethereum inbound channels
    phase,         \* "idle", "build" (verified blocks fetched), "emit"
    relayBlock,    \* the cycle's verifiedRelayBlockNumber
    ethRead,       \* the cycle's ethBasicNonce / ethIncentivizedNonce
    packets,       \* the cycle's message packages
    sent,          \* packages of the cycle sent on li.messages so far
    messages,      \* li.messages: packages waiting for the submitter
    failures,      \* RPC failures so far
    cancelled,     \* the errgroup's context is cancelled
    submitterUp    \* the submitter goroutine is still reading li.messages

chainVars == <<paraNonce, paraHead, beefyBlock, ethNonce>>
cycleVars == <<phase, relayBlock, ethRead, packets, sent>>
ctxVars == <<cancelled, submitterUp>>
vars == <<chainVars, cycleVars, messages, failures, ctxVars>>

-----------------------------------------------------------------------------
(* The parachain's data as the RPCs return it.                             *)

\* The commitment of channel c in block b: its block, channel and the
\* nonces of its first and last message (getBasicMessages and friends).
Commitment(b, c) ==
    [block |-> b, ch |-> c,
     first |-> paraNonce[b - 1][c] + 1, last |-> paraNonce[b][c]]

\* getAuxiliaryDigestItems filtered to commitments, in digest order.
DigestItems(b) ==
    IF b = 0 THEN <<>>
    ELSE LET present == SelectSeq(ChannelOrder,
                                  LAMBDA c : paraNonce[b][c] > paraNonce[b - 1][c])
         IN [i \in 1 .. Len(present) |-> Commitment(b, present[i])]

\* BasicOutboundModule.Nonce / IncentivizedOutboundModule.Nonce at block b:
\* GetStorage returns ok = FALSE while the nonce was never set.
StoredNonce(b, c) == paraNonce[b][c] > 0

\* The nonces buildMissedMessagePackets ends up with at block b: a missing
\* incentivized nonce resets paraBasicNonce (catchup.go line 117).
ParaNoncesRead(b) ==
    [basic |-> IF StoredNonce(b, "incentivized") THEN paraNonce[b]["basic"] ELSE 0,
     incentivized |-> paraNonce[b]["incentivized"]]

-----------------------------------------------------------------------------
(* searchForLostCommitments.                                               *)

\* Mutant: the found flag set by any commitment, relayed or not.
MutantSearchBlock(st, b, toFind) ==
    LET items == DigestItems(b)
        collected == SelectSeq(items, LAMBDA it :
                                  ~st.found[it.ch] /\ it.first > toFind[it.ch])
        found == [c \in Channels |->
                    st.found[c] \/ \E i \in DOMAIN items : items[i].ch = c]
    IN [found |-> found,
        blocks |-> Append(st.blocks, [number |-> b, items |-> collected])]

\* One iteration of the loop over block b: each commitment of a channel not
\* yet found is either the relayed one (a message nonce <= the nonce to
\* find), which sets the channel's flag, or is collected.
SearchBlock(st, b, toFind) ==
    LET items == DigestItems(b)
        isRelayed(it) == ~st.found[it.ch] /\ it.first <= toFind[it.ch]
        collected == SelectSeq(items, LAMBDA it :
                                  ~st.found[it.ch] /\ it.first > toFind[it.ch])
        found == [c \in Channels |->
                    st.found[c] \/ \E i \in DOMAIN items :
                                      items[i].ch = c /\ isRelayed(items[i])]
    IN [found |-> found,
        blocks |-> Append(st.blocks, [number |-> b, items |-> collected])]

\* The loop from lastParaBlockNumber down to 0, stopping once both flags
\* are set.  The blocks come out in descending order.
searchForLostCommitments(last, toFind) ==
    LET iter[k \in 0 .. last + 1] ==
          IF k = 0 THEN [found |-> [c \in Channels |-> FALSE], blocks |-> <<>>]
          ELSE IF iter[k - 1].found["basic"] /\ iter[k - 1].found["incentivized"]
               THEN iter[k - 1]
               ELSE SearchBlock(iter[k - 1], last + 1 - k, toFind)
    IN iter[last + 1].blocks

-----------------------------------------------------------------------------
(* ParablocksWithProofs and createMessagePackets.                          *)

\* Mutant: the leaf of the relay block itself, not of the decremented
\* counter.
MutantWalkTo(st, b) ==
    IF st.head = b THEN st
    ELSE LET hits == {r \in 0 .. st.num : paraHead[r] = b}
             r == CHOOSE x \in hits : \A y \in hits : x >= y
         IN IF hits = {} THEN [st EXCEPT !.ok = FALSE]
            ELSE [st EXCEPT !.num = r, !.head = b]

\* The relay walk for block b: while ourParaHead.Number != b, fetch the para
\* head of relayChainBlockNumber and decrement it.  `head` is the number of
\* the last head fetched (0, the zero header, before the first fetch);
\* `num` may end at -1, where the uint64 has wrapped.
WalkTo(st, b) ==
    IF st.head = b THEN st
    ELSE LET hits == {r \in 0 .. st.num : paraHead[r] = b}
             r == CHOOSE x \in hits : \A y \in hits : x >= y
         IN IF hits = {} THEN [st EXCEPT !.ok = FALSE]
            ELSE [st EXCEPT !.num = r - 1, !.head = b]

\* The walk over all blocks, recording for each block the MMR leaf queried
\* (GetMMRLeafForBlock(relayChainBlockNumber, ...)).  ok = FALSE when a
\* GetBlockHash or GetMMRLeafForBlock call fails.
ParablocksWithProofs(blocks, latest) ==
    LET iter[k \in 0 .. Len(blocks)] ==
          IF k = 0 THEN [num |-> latest, head |-> 0, ok |-> TRUE, leaves |-> <<>>]
          ELSE LET st == WalkTo(iter[k - 1], blocks[k].number)
               IN [st EXCEPT !.ok = st.ok /\ st.num >= 0,
                             !.leaves = Append(st.leaves, st.num)]
    IN iter[Len(blocks)]

\* createMessagePackets over the blocks in ascending order: one package per
\* collected commitment, carrying its block's MMR leaf.
createMessagePackets(blocks, leaves) ==
    FlattenSeq([k \in 1 .. Len(blocks) |->
                  [i \in 1 .. Len(blocks[k].items) |->
                     LET it == blocks[k].items[i]
                     IN [block |-> it.block, ch |-> it.ch, first |-> it.first,
                         last |-> it.last, leaf |-> leaves[k]]]])

-----------------------------------------------------------------------------
Init ==
    /\ paraNonce \in NonceHistories
    /\ paraHead \in HeadSequences
    /\ beefyBlock = 0
    /\ ethNonce = [c \in Channels |-> 0]
    /\ phase = "idle"
    /\ relayBlock = 0
    /\ ethRead = [c \in Channels |-> 0]
    /\ packets = <<>>
    /\ sent = 0
    /\ messages = <<>>
    /\ failures = 0
    /\ cancelled = FALSE
    /\ submitterUp = TRUE

\* fetchLatestVerifiedBlocks: LatestBeefyBlock on Ethereum, its para head.
FetchLatestVerifiedBlocks ==
    /\ phase = "idle"
    /\ ~cancelled
    /\ phase' = "build"
    /\ relayBlock' = beefyBlock
    /\ UNCHANGED <<ctxVars, chainVars, ethRead, packets, sent, messages, failures>>

\* buildMissedMessagePackets up to the sends: read the Ethereum nonces now,
\* the parachain nonces at the verified para block; if both pairs are
\* equal return with no package (an empty "emit"), else search, walk the
\* relay chain, reverse and package.  A failed relay walk returns the error.
BuildMessagePackets ==
    LET paraBlock == paraHead[relayBlock]
        paraRead == ParaNoncesRead(paraBlock)
        blocks == searchForLostCommitments(paraBlock, ethNonce)
        proofs == ParablocksWithProofs(blocks, relayBlock)
    IN /\ phase = "build"
       /\ ~cancelled
       /\ ethRead' = ethNonce
       /\ \/ /\ \A c \in Channels : ethNonce[c] = paraRead[c]
             /\ phase' = "emit"
             /\ packets' = <<>>
          \/ /\ \E c \in Channels : ethNonce[c] # paraRead[c]
             /\ proofs.ok
             /\ phase' = "emit"
             /\ packets' = createMessagePackets(Reverse(blocks), Reverse(proofs.leaves))
          \/ /\ \E c \in Channels : ethNonce[c] # paraRead[c]
             /\ ~proofs.ok
             /\ phase' = "idle"
             /\ packets' = <<>>
       /\ sent' = 0
       /\ UNCHANGED <<ctxVars, chainVars, relayBlock, messages, failures>>

\* Mutant: a send that does not wait for room in the channel.
MutantSendPacket ==
    /\ phase = "emit"
    /\ sent < Len(packets)
    /\ messages' = Append(messages, packets[sent + 1])
    /\ sent' = sent + 1
    /\ UNCHANGED <<ctxVars, chainVars, phase, relayBlock, ethRead, packets, failures>>

\* li.messages <- messagePacket, blocking while the channel is full.
SendPacket ==
    /\ phase = "emit"
    /\ sent < Len(packets)
    /\ Len(messages) < ChannelCap
    /\ messages' = Append(messages, packets[sent + 1])
    /\ sent' = sent + 1
    /\ UNCHANGED <<ctxVars, chainVars, phase, relayBlock, ethRead, packets, failures>>

\* All packages sent: buildMissedMessagePackets returns.
CycleDone ==
    /\ phase = "emit"
    /\ sent = Len(packets)
    /\ phase' = "idle"
    /\ UNCHANGED <<ctxVars, chainVars, relayBlock, ethRead, packets, sent, messages,
                   failures>>

\* An RPC of the cycle (LatestBeefyBlock, GetBlockHash, Nonce, GetStorage,
\* GetHeader, LocalStorageGet, GetAllParaheadsWithOwn, GetMMRLeafForBlock)
\* fails: the cycle returns the error.
RpcFailure ==
    /\ phase = "build"
    /\ failures < MaxFailures
    /\ phase' = "idle"
    /\ failures' = failures + 1
    /\ UNCHANGED <<ctxVars, chainVars, relayBlock, ethRead, packets, sent, messages>>

\* With the context cancelled, LatestBeefyBlock and the inbound channels'
\* Nonce() calls, made with ctx, fail: the cycle returns the error and the
\* listener's goroutine returns.
ListenerExit ==
    /\ phase \in {"idle", "build"}
    /\ cancelled
    /\ phase' = "stopped"
    /\ UNCHANGED <<chainVars, relayBlock, ethRead, packets, sent, messages,
                   failures, ctxVars>>

-----------------------------------------------------------------------------
(* The environment.                                                        *)

\* The errgroup's context is cancelled (a signal, or another goroutine's
\* error).
Cancel ==
    /\ ~cancelled
    /\ cancelled' = TRUE
    /\ UNCHANGED <<chainVars, cycleVars, messages, failures, submitterUp>>

\* The submitter sees the cancelled context and returns; nobody reads
\* li.messages any more.
SubmitterExit ==
    /\ cancelled
    /\ submitterUp
    /\ submitterUp' = FALSE
    /\ UNCHANGED <<chainVars, cycleVars, messages, failures, cancelled>>

\* The Ethereum light client verifies a newer relay chain block.
BeefyAdvance ==
    /\ beefyBlock < NumRelayBlocks
    /\ beefyBlock' = beefyBlock + 1
    /\ UNCHANGED <<ctxVars, paraNonce, paraHead, ethNonce, cycleVars, messages, failures>>

\* The MMR leaf of relay block r has index r - 1; the inbound channel
\* verifies the package's para head against the leaf, which must be in the
\* MMR of the verified relay block.
LeafProves(pkg) ==
    /\ pkg.leaf + 1 \in 1 .. beefyBlock
    /\ paraHead[pkg.leaf + 1] = pkg.block

\* The submitter hands the oldest package to the inbound channel contract,
\* which accepts it only if its proof verifies and it continues the
\* channel's nonce.
Submit ==
    /\ submitterUp
    /\ messages # <<>>
    /\ LET p == Head(messages)
       IN ethNonce' = IF LeafProves(p) /\ p.first = ethNonce[p.ch] + 1
                        THEN [ethNonce EXCEPT ![p.ch] = p.last]
                        ELSE ethNonce
    /\ messages' = Tail(messages)
    /\ UNCHANGED <<paraNonce, paraHead, beefyBlock, cycleVars, failures, ctxVars>>

Next ==
    \/ FetchLatestVerifiedBlocks
    \/ BuildMessagePackets
    \/ SendPacket
    \/ CycleDone
    \/ RpcFailure
    \/ ListenerExit
    \/ BeefyAdvance
    \/ Cancel
    \/ SubmitterExit
    \/ Submit

\* The listener's goroutine keeps running its cycles and the submitter keeps
\* submitting; failures and new BEEFY blocks are not assumed.  The weak
\* fairness of BuildMessagePackets is written out: the action is enabled
\* exactly when phase = "build" and always changes phase.
ListenerStep ==
    \/ FetchLatestVerifiedBlocks
    \/ SendPacket
    \/ CycleDone
    \/ ListenerExit

Fairness ==
    /\ WF_vars(ListenerStep)
    /\ <>[](phase = "build") => []<><<BuildMessagePackets>>_vars
    /\ WF_vars(Submit)
    /\ WF_vars(SubmitterExit)

Spec == Init /\ [][Next]_vars

FairSpec == Spec /\ Fairness

-----------------------------------------------------------------------------
(* Properties.                                                             *)

Packages == [block : ParaBlocks, ch : Channels, first : Nat, last : Nat,
             leaf : Int]

TypeOK ==
    /\ paraNonce \in NonceHistories
    /\ paraHead \in HeadSequences
    /\ beefyBlock \in RelayBlocks
    /\ ethNonce \in [Channels -> Nat]
    /\ phase \in {"idle", "build", "emit", "stopped"}
    /\ relayBlock \in RelayBlocks
    /\ ethRead \in [Channels -> Nat]
    /\ packets \in Seq(Packages)
    /\ sent \in 0 .. Len(packets)
    /\ messages \in Seq(Packages)
    /\ Len(messages) <= ChannelCap
    /\ failures \in 0 .. MaxFailures
    /\ cancelled \in BOOLEAN
    /\ submitterUp \in BOOLEAN

\* The commitments of blocks 1..p, in ascending block and digest order.
CommitmentsUpTo(p) == FlattenSeq([b \in 1 .. p |-> DigestItems(b)])

\* The commitment a package carries.
CommitmentOf(pkg) ==
    [block |-> pkg.block, ch |-> pkg.ch, first |-> pkg.first, last |-> pkg.last]

\* Catch-up completeness: the packages of a cycle are exactly the
\* commitments of the verified para block and its ancestors that the
\* inbound channels had not received when their nonces were read, in
\* ascending order; a cycle that returns early has missed none.
CatchupComplete ==
    phase = "emit" =>
        [i \in DOMAIN packets |-> CommitmentOf(packets[i])]
            = SelectSeq(CommitmentsUpTo(paraHead[relayBlock]),
                        LAMBDA cm : cm.first > ethRead[cm.ch])

\* Every message committed in a parachain block the light client has
\* verified is eventually accepted by the Ethereum inbound channels: from
\* some point on they hold the nonces of the verified para block, unless
\* the relayer is shut down.
EventuallyDelivered ==
    <>[](ethNonce = paraNonce[paraHead[beefyBlock]]) \/ <>cancelled

\* Once the errgroup's context is cancelled the listener's goroutine
\* returns, so that errgroup.Wait can return: no send on li.messages is
\* left blocked.
ListenerStopsOnCancel == cancelled ~> (phase = "stopped")

=============================================================================
