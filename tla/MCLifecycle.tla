---------------------------- MODULE MCLifecycle ----------------------------
(***************************************************************************)
(* A small instance of Lifecycle for TLC.                                  *)
(***************************************************************************)
EXTENDS Lifecycle

\* The status handler asks for the tip, height 0; so may the filter producer.
\* The header producer asks for the next height, which it inserts, and both
\* may forget again.
TipAndNext == [a \in Agent |-> IF a = "header" THEN {1} ELSE {0}]

\* Light mode, and two producers.
LightOrTwo == {<<>>, <<"header", "filter">>}
=============================================================================
