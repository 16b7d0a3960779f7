---------------------------- MODULE MCCacheLocks ---------------------------
(***************************************************************************)
(* A small instance of CacheLocks for TLC.                                 *)
(***************************************************************************)
EXTENDS CacheLocks

\* The status handler asks for the tip, height 0, the producer for the next
\* height, which no handler asks for.
TipAndNext == [a \in Agent |-> IF a \in Holder THEN {0} ELSE {1}]
=============================================================================
