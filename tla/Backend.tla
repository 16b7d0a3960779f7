------------------------------ MODULE Backend ------------------------------
(***************************************************************************)
(* bitcoind as block-dn sees it: a tree of blocks and the best chain       *)
(* through it (external: modelled from the RPC calls the code makes).      *)
(*                                                                         *)
(* A block hash commits to the whole chain below it, so a block is         *)
(* identified with its hash, and everything the server fetches BY HASH     *)
(* (header, compact filter, filter header, undo data) is a function of the *)
(* block.  Only the two queries by height depend on when they are asked.   *)
(***************************************************************************)
EXTENDS Integers

CONSTANTS
    Block,      \* the blocks any chain may ever contain
    NoBlock,    \* "no block": an absent map entry, an unset variable
    MaxHeight,  \* bound: the greatest height of a block
    Height,     \* Height[b]: the height of block b
    Anc,        \* Anc[b][h]: the block at height h of the chain that ends in b
    MaxReorg    \* bound: how many blocks one reorg disconnects at most

Heights == 0..MaxHeight
MaybeBlock == Block \cup {NoBlock}

ASSUME BlockAssumption ==
    /\ MaxHeight \in Nat
    /\ MaxReorg \in Nat
    /\ NoBlock \notin Block
    /\ Height \in [Block -> Heights]
    /\ Anc \in [Block -> [Heights -> Block]]

\* Anc describes chains: b is its own block at its own height, the block at
\* height h has height h, and the chain below a block is the block's own.
ASSUME ChainAssumption ==
    \A b \in Block :
        /\ Anc[b][Height[b]] = b
        /\ \A h \in 0..Height[b] : Height[Anc[b][h]] = h
        /\ \A h \in 0..Height[b] : \A k \in 0..h : Anc[Anc[b][h]][k] = Anc[b][k]

\* All chains of a network start with the same block.
ASSUME GenesisAssumption == \A b, c \in Block : Anc[b][0] = Anc[c][0]

VARIABLE best   \* the tip of the best chain

\* getblockcount, and getblockhash for a height of the best chain.
GetBlockCount == Height[best]
GetBlockHash(h) == Anc[best][h]

\* The PrevBlock field of a block header (of a block above the genesis block).
PrevBlock(b) == Anc[b][Height[b] - 1]

-----------------------------------------------------------------------------
BackendInit == best \in {b \in Block : Height[b] = 0}

\* Blocks are connected, after a reorg of at most MaxReorg blocks or none.
\* Difficulty is taken as constant, so the chain with the most work is the
\* longest and the height never falls; a same-height reorg is possible, as
\* tipReorged expects it.
ChainMoves ==
    \E b \in Block \ {best} :
        /\ Height[b] >= Height[best]
        /\ \A h \in 0..(Height[best] - MaxReorg) : Anc[b][h] = Anc[best][h]
        /\ best' = b
=============================================================================
