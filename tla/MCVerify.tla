------------------------------ MODULE MCVerify -----------------------------
(***************************************************************************)
(* A small instance of Verify for TLC: the best chain and two stale        *)
(* branches, one that forks off after the genesis block and one at the     *)
(* height from Fork on.                                                    *)
(***************************************************************************)
EXTENDS Verify

Fork == 5

MCBlock == {<<h, i>> : h \in Heights, i \in {1, 2}}
MCBest == [h \in Heights |-> <<h, 1>>]
MCOther == [h \in Heights |-> <<h, 2>>]

\* b and the block at height h are on the same branch.
SameBranch(b, h) == h > 0 /\ (b[1] >= Fork <=> h >= Fork)
MCAnc == [b \in MCBlock |-> [h \in Heights |-> <<h, IF SameBranch(b, h) THEN b[2] ELSE 1>>]]
=============================================================================
