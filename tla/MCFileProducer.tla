-------------------------- MODULE MCFileProducer ---------------------------
(***************************************************************************)
(* Small instances of FileProducer for TLC: a tree of two or three         *)
(* branches over a handful of heights.                                     *)
(***************************************************************************)
EXTENDS FileProducer

CONSTANTS
    Forks   \* Forks[i]: the first height of branch i that is not branch 1's

Branches == DOMAIN Forks

\* A block is <<height, branch>>; below its fork a branch has branch 1's blocks.
On(h, i) == <<h, IF h < Forks[i] THEN 1 ELSE i>>
MCBlock == {On(h, i) : h \in Heights, i \in Branches}
MCHeight == [b \in MCBlock |-> b[1]]
MCAnc == [b \in MCBlock |-> [h \in Heights |-> IF h <= b[1] THEN On(h, b[2]) ELSE b]]

\* Branch 2 forks inside the first file, or where the second one starts.
ForksAt1 == <<0, 1>>
ForksAt2 == <<0, 2>>

\* Two reorgs of one block, one above the other.
ForksAt2And3 == <<0, 2, 3>>

TwoEach == [p \in Producer |-> 2]
=============================================================================
