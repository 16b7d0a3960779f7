----------------------------- MODULE SealedLog -----------------------------
(***************************************************************************)
(* What a producer of sealed files promises: an append-only log of the     *)
(* best chain.  It grows by whole files, in order and without gaps, each   *)
(* made of the blocks that are on the best chain at that moment and buried *)
(* under ReOrgSafeDepth further blocks; nothing else ever changes it, not  *)
(* a reorg and not a crash.                                                *)
(***************************************************************************)
EXTENDS Backend

CONSTANTS FileSize, SafeDepth

VARIABLE log    \* log[h]: the sealed entry for height h, or NoBlock

logVars == <<best, log>>

LogInit == BackendInit /\ log = [h \in Heights |-> NoBlock]

\* The file that starts at height n is appended.
SealFile ==
    \E n \in Heights :
        LET end == n + FileSize - 1
        IN  /\ {h \in Heights : log[h] # NoBlock} = 0..(n - 1)
            /\ end + SafeDepth <= GetBlockCount
            /\ log' = [h \in Heights |-> IF n <= h /\ h <= end THEN GetBlockHash(h) ELSE log[h]]
            /\ UNCHANGED best

LogNext == (ChainMoves /\ UNCHANGED log) \/ SealFile

LogSpec == LogInit /\ [][LogNext]_logVars
=============================================================================
