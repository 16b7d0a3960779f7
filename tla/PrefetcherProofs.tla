-------------------------- MODULE PrefetcherProofs -------------------------
(***************************************************************************)
(* Proofs about the prefetcher and the ingest hook around it, for any      *)
(* hashes, window, file size and safe depth.                               *)
(***************************************************************************)
EXTENDS Prefetcher, TLAPS

\* A process that has just started holds nothing and has no fetch pending.
LEMMA PrefetchInvInit == Init => PrefetchInv
BY PrefetchAssumption
   DEF Init, PrefetchInv, TypeOK, TweaksOfRecordedBlock, NoFetchForgotten,
       IngestInv, PendingInv, ScheduleInv, Ingesting, Heights, NoHashes,
       MaybeHash, height

\* Every step of the producer, of the prefetcher and of its background
\* fetches keeps pending entries ahead of the producer, and what is held for
\* a height in agreement with the hash recorded for it.
LEMMA PrefetchInvStep == PrefetchInv /\ [Next]_vars => PrefetchInv'
<1> SUFFICES ASSUME PrefetchInv, [Next]_vars PROVE PrefetchInv'
  OBVIOUS
<1> USE PrefetchAssumption
    DEF PrefetchInv, TypeOK, IngestInv, PendingInv, ScheduleInv, Ingesting,
        Heights, MaybeHash, height, tweakVars, fetchVars
<1>1. CASE Seal
  BY <1>1 DEF Seal, SealReady, NextEnd, PruneLocked, TweaksOfRecordedBlock,
              NoFetchForgotten, TweaksOf
<1>2. CASE Rollback
  BY <1>2 DEF Rollback, PruneLocked, TweaksOfRecordedBlock, NoFetchForgotten, TweaksOf
<1>3. CASE Ingest
  BY <1>3 DEF Ingest, TweaksOfRecordedBlock, NoFetchForgotten, TweaksOf
<1>4. CASE ScheduleAhead
  <2>1. /\ pc = "schedule" /\ ahead \in Heights /\ ahead > height /\ ahead <= height + Depth
        /\ ahead' = ahead + 1 /\ pc' = pc /\ UNCHANGED <<tweakVars, wanted, block>>
    BY <1>4 DEF ScheduleAhead, InWindow
  <2>2. CASE pending[ahead] # NoHash
    BY <1>4, <2>1, <2>2 DEF ScheduleAhead, TweaksOfRecordedBlock, NoFetchForgotten, TweaksOf
  <2>3. CASE pending[ahead] = NoHash
    <3>1. PICK x \in Hash : pending' = [pending EXCEPT ![ahead] = x]
      BY <1>4, <2>3 DEF ScheduleAhead
    <3>2. result' = [result EXCEPT ![ahead] = "running"]
      BY <1>4, <2>3 DEF ScheduleAhead
    <3>3. TypeOK'
      BY <2>1, <3>1, <3>2
    <3>4. NoFetchForgotten' /\ PendingInv'
      BY <2>1, <3>1, <3>2 DEF NoFetchForgotten
    <3>. QED
      BY <2>1, <3>3, <3>4 DEF TweaksOfRecordedBlock, TweaksOf
  <2>. QED
    BY <2>2, <2>3
<1>5. CASE ScheduleDone
  BY <1>5 DEF ScheduleDone, TweaksOfRecordedBlock, NoFetchForgotten, TweaksOf
<1>6. CASE TakePending
  BY <1>6 DEF TakePending, TweaksOfRecordedBlock, NoFetchForgotten, TweaksOf
<1>7. CASE Receive
  BY <1>7 DEF Receive, TweaksOfRecordedBlock, NoFetchForgotten, TweaksOf
<1>8. CASE FetchSingle
  BY <1>8 DEF FetchSingle, TweaksOfRecordedBlock, NoFetchForgotten, TweaksOf
<1>9. CASE IndexBlock
  BY <1>9 DEF IndexBlock, TweaksOfRecordedBlock, NoFetchForgotten, TweaksOf
<1>10. ASSUME NEW h \in Heights, FetchReturns(h) PROVE PrefetchInv'
  BY <1>10 DEF FetchReturns, TweaksOfRecordedBlock, NoFetchForgotten, TweaksOf
<1>11. CASE Stop
  BY <1>11 DEF Stop, TweaksOfRecordedBlock, NoFetchForgotten, TweaksOf
<1>12. CASE Restart
  BY <1>12 DEF Restart, NoHashes, TweaksOfRecordedBlock, NoFetchForgotten, TweaksOf
<1>13. CASE UNCHANGED vars
  BY <1>13 DEF vars, TweaksOfRecordedBlock, NoFetchForgotten, TweaksOf
<1>. QED
  BY <1>1, <1>2, <1>3, <1>4, <1>5, <1>6, <1>7, <1>8, <1>9, <1>10, <1>11, <1>12,
     <1>13 DEF Next, IngestStep

\* So the invariant holds in every state.
LEMMA PrefetchInvHolds == Spec => []PrefetchInv
BY PrefetchInvInit, PrefetchInvStep, PTL DEF Spec

\* What is held or sealed for a height belongs to the block whose hash is
\* recorded for it, whatever getBlockHash answered to the prefetcher before.
THEOREM TweaksAlwaysMatch == Spec => []TweaksOfRecordedBlock
<1>1. PrefetchInv => TweaksOfRecordedBlock
  BY DEF PrefetchInv
<1>. QED
  BY <1>1, PrefetchInvHolds, PTL

\* Every background fetch has its entry until ingest takes it, for a height
\* that is still to come: the map never holds a fetch nobody will ask for.
THEOREM FetchesNeverForgotten == Spec => []NoFetchForgotten
<1>1. PrefetchInv => NoFetchForgotten
  BY DEF PrefetchInv
<1>. QED
  BY <1>1, PrefetchInvHolds, PTL

\* The variables keep their types, and the window its bound.
THEOREM PrefetcherTypes == Spec => []TypeOK
<1>1. PrefetchInv => TypeOK
  BY DEF PrefetchInv
<1>. QED
  BY <1>1, PrefetchInvHolds, PTL
=============================================================================
