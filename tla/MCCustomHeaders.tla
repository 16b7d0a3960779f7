-------------------------- MODULE MCCustomHeaders --------------------------
(***************************************************************************)
(* A small instance of CustomHeaders for TLC: the chain can differ at the  *)
(* heights in Forked.                                                      *)
(***************************************************************************)
EXTENDS CustomHeaders

CONSTANTS Forked    \* the heights at which there are two branches

ForkedChoices == [h \in Heights |-> IF h \in Forked THEN Block ELSE {"a"}]
=============================================================================
