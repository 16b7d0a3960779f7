----------------------------- MODULE Prefetcher ----------------------------
(***************************************************************************)
(* The blockPrefetcher inside the producer that uses it: the ingest hook   *)
(* of the SP tweak producer, with the background fetches that run ahead of *)
(* it, while the chain reorganizes and the producer rolls back.            *)
(*                                                                         *)
(* Entries are kept per height, so of a block hash only the difference     *)
(* from the other hashes at the same height matters.  What getBlockHash    *)
(* answers is arbitrary: the cache may be stale, and it may answer         *)
(* differently for the prefetcher and for ingest (FileProducer shows when  *)
(* it does).  A block is what fetchSingle returns for its hash.            *)
(***************************************************************************)
EXTENDS Integers

CONSTANTS
    Hash,           \* the block hashes one height may have
    NoHash,         \* "no hash": an absent map entry
    NoTweaks,       \* the nil slice of a height without tweaks
    Barren,         \* the blocks without a Silent Payments transaction
    TaprootStart,   \* taprootStartHeight
    Depth,          \* prefetchDepth
    EntriesPerFile, \* heights per file
    ReOrgSafeDepth, \* --reorg-safe-depth
    MaxHeight       \* bound: the greatest height

ASSUME PrefetchAssumption ==
    /\ NoHash \notin Hash
    /\ NoTweaks \notin Hash
    /\ NoTweaks # NoHash
    /\ Barren \subseteq Hash
    /\ TaprootStart \in Nat
    /\ Depth \in Nat
    /\ EntriesPerFile \in Nat \ {0}
    /\ ReOrgSafeDepth \in Nat
    /\ MaxHeight \in Nat

VARIABLES
    pc,             \* where the producer is: between ingests, or in one
    current,        \* the last height ingested, -1 for none
    lastSealed,     \* lastSealedHeight
    heightToHash,   \* heightToHash[h]: the hash recorded for height h
    tweakData,      \* tweakData[h]: the block whose tweaks are held for h,
                    \* NoTweaks (nil), or NoHash where the map has no entry
    wanted,         \* the hash ingest asks the prefetcher for
    ahead,          \* the loop variable of scheduleAhead
    pending,        \* pending[h]: the hash a fetch was started for
    result,         \* result[h]: the channel of the last fetch for height h
    block,          \* the block that fetchBlock has returned
    disk            \* disk[h]: the entry for height h in a sealed file, with
                    \* the hash of the block it was recorded for

tweakVars == <<current, lastSealed, heightToHash, tweakData, disk>>
fetchVars == <<wanted, ahead, block>>
vars == <<pc, tweakVars, fetchVars, pending, result>>

Heights == 0..MaxHeight
height == current + 1       \* the height being ingested
NoHashes == [h \in Heights |-> NoHash]

-----------------------------------------------------------------------------
(* sealReadyFiles, which runs after every ingest, and the roll back.        *)

NextEnd == lastSealed + EntriesPerFile
SealReady == NextEnd <= current - ReOrgSafeDepth

PruneLocked(lo, hi) ==
    /\ tweakData' = [h \in Heights |-> IF lo <= h /\ h <= hi THEN NoHash ELSE tweakData[h]]
    /\ heightToHash' = [h \in Heights |-> IF lo <= h /\ h <= hi THEN NoHash ELSE heightToHash[h]]

\* The files of all dust levels are written (SealedFiles takes this apart),
\* the heights pruned and lastSealedHeight promoted.
Seal ==
    /\ pc = "idle"
    /\ SealReady
    /\ disk' = [h \in Heights |->
            IF lastSealed < h /\ h <= NextEnd
              THEN [hash |-> heightToHash[h], tweaks |-> tweakData[h]] ELSE disk[h]]
    /\ PruneLocked(lastSealed + 1, NextEnd)
    /\ lastSealed' = NextEnd
    /\ UNCHANGED <<pc, current, fetchVars, pending, result>>

\* A reorg down to some height above the sealed ones.  The prefetcher is not
\* told: its pending fetches stay.
Rollback ==
    /\ pc = "idle"
    /\ ~SealReady
    /\ \E ancestor \in (lastSealed + 1)..(current - 1) :
        /\ PruneLocked(ancestor + 1, current)
        /\ current' = ancestor
    /\ UNCHANGED <<pc, lastSealed, disk, fetchVars, pending, result>>

-----------------------------------------------------------------------------
(* ingest. *)

\* The hash is looked up and recorded with an empty entry, before the block
\* is there.  Below Taproot that is all.
Ingest ==
    /\ pc = "idle"
    /\ ~SealReady
    /\ height <= MaxHeight
    /\ \E x \in Hash :
        /\ heightToHash' = [heightToHash EXCEPT ![height] = x]
        /\ tweakData' = [tweakData EXCEPT ![height] = NoTweaks]
        /\ IF height < TaprootStart
             THEN current' = height /\ UNCHANGED <<pc, wanted, ahead>>
             ELSE /\ wanted' = x
                  /\ pc' = "schedule"
                  /\ ahead' = height + 1
                  /\ UNCHANGED current
    /\ UNCHANGED <<lastSealed, disk, block, pending, result>>

-----------------------------------------------------------------------------
(* blockPrefetcher.fetchBlock. *)

\* Mutant: the window has one height too many.
InWindowInclusive == ahead <= height + Depth + 1

InWindow == ahead <= height + Depth

\* scheduleAhead: a height with a pending fetch is skipped, whatever hash the
\* fetch was started for; for any other the hash is looked up and a fetch
\* started.
ScheduleAhead ==
    /\ pc = "schedule"
    /\ InWindow
    /\ ahead <= MaxHeight
    /\ IF pending[ahead] # NoHash
         THEN UNCHANGED <<pending, result>>
         ELSE /\ \E x \in Hash : pending' = [pending EXCEPT ![ahead] = x]
              /\ result' = [result EXCEPT ![ahead] = "running"]
    /\ ahead' = ahead + 1
    /\ UNCHANGED <<pc, tweakVars, wanted, block>>

\* The window is full, or a hash cannot be looked up: the height is above
\* the tip, or the request fails.
ScheduleDone ==
    /\ pc = "schedule"
    /\ \A h \in Heights : h = ahead /\ InWindow => pending[h] = NoHash
    /\ pc' = "take"
    /\ ahead' = 0
    /\ UNCHANGED <<tweakVars, wanted, block, pending, result>>

\* Mutant: the fetched result is received, its entry stays in the map.
TakePendingKeeps ==
    /\ pc = "take"
    /\ pc' = IF pending[height] # NoHash THEN "wait" ELSE "fetch"
    /\ block' = pending[height]
    /\ UNCHANGED <<tweakVars, wanted, ahead, pending, result>>

\* A pending entry for the height is taken out of the map.  (block holds its
\* hash until the result is there.)
TakePending ==
    /\ pc = "take"
    /\ pc' = IF pending[height] # NoHash THEN "wait" ELSE "fetch"
    /\ block' = pending[height]
    /\ pending' = [pending EXCEPT ![height] = NoHash]
    /\ UNCHANGED <<tweakVars, wanted, ahead, result>>

\* Mutant: whatever was fetched for the height is used.
ReceiveAny ==
    /\ pc = "wait"
    /\ result[height] \in {"ok", "failed"}
    /\ result' = [result EXCEPT ![height] = "none"]
    /\ IF result[height] = "ok"
         THEN pc' = "index" /\ UNCHANGED block
         ELSE pc' = "fetch" /\ block' = NoHash
    /\ UNCHANGED <<tweakVars, wanted, ahead, pending>>

\* Mutant: a failed fetch is started again, as often as it fails.
ReceiveRetries ==
    /\ pc = "wait"
    /\ result[height] \in {"ok", "failed"}
    /\ IF result[height] = "failed"
         THEN /\ result' = [result EXCEPT ![height] = "running"]
              /\ UNCHANGED <<pc, block>>
         ELSE /\ result' = [result EXCEPT ![height] = "none"]
              /\ IF block = wanted THEN pc' = "index" /\ UNCHANGED block
                                   ELSE pc' = "fetch" /\ block' = NoHash
    /\ UNCHANGED <<tweakVars, wanted, ahead, pending>>

\* The result is used if the fetch succeeded and was started for the hash
\* that is wanted now; a failed or a stale one is fetched again.
Receive ==
    /\ pc = "wait"
    /\ result[height] \in {"ok", "failed"}
    /\ result' = [result EXCEPT ![height] = "none"]
    /\ IF result[height] = "ok" /\ block = wanted
         THEN pc' = "index" /\ UNCHANGED block
         ELSE pc' = "fetch" /\ block' = NoHash
    /\ UNCHANGED <<tweakVars, wanted, ahead, pending>>

FetchSingle ==
    /\ pc = "fetch"
    /\ block' = wanted
    /\ pc' = "index"
    /\ UNCHANGED <<tweakVars, wanted, ahead, pending, result>>

\* The goroutine of a background fetch puts its outcome into its own
\* channel, whose buffer has room for it.  Block and spent outputs are two
\* requests; that either fails, does not parse, or has the wrong number of
\* transactions or inputs, is "failed".
FetchReturns(h) ==
    /\ result[h] = "running"
    /\ \E r \in {"ok", "failed"} : result' = [result EXCEPT ![h] = r]
    /\ UNCHANGED <<pc, tweakVars, fetchVars, pending>>

\* indexBlockSPTweakData stores nothing for a block without tweaks: the
\* empty entry that is there says it all.
IndexBlock ==
    /\ pc = "index"
    /\ tweakData' = IF block \in Barren THEN tweakData
                                        ELSE [tweakData EXCEPT ![height] = block]
    /\ current' = height
    /\ block' = NoHash
    /\ wanted' = NoHash
    /\ pc' = "idle"
    /\ UNCHANGED <<lastSealed, heightToHash, disk, ahead, pending, result>>

-----------------------------------------------------------------------------
(* Errors, shutdown, restart. *)

\* The hash or the block cannot be fetched, or a previous output is unknown:
\* ingest returns the error and the producer gives up.  It also stops, between
\* ingests, when quit is closed.
Stop ==
    /\ pc \in {"idle", "fetch", "index"}
    /\ pc' = "stopped"
    /\ UNCHANGED <<tweakVars, fetchVars, pending, result>>

\* A new process: only the files are left.
Restart ==
    /\ pc' = "idle"
    /\ current' = lastSealed
    /\ heightToHash' = NoHashes
    /\ tweakData' = NoHashes
    /\ wanted' = NoHash
    /\ ahead' = 0
    /\ block' = NoHash
    /\ pending' = NoHashes
    /\ result' = [h \in Heights |-> "none"]
    /\ UNCHANGED <<lastSealed, disk>>

-----------------------------------------------------------------------------
Init ==
    /\ pc = "idle"
    /\ current = -1
    /\ lastSealed = -1
    /\ heightToHash = NoHashes
    /\ tweakData = NoHashes
    /\ wanted = NoHash
    /\ ahead = 0
    /\ pending = NoHashes
    /\ result = [h \in Heights |-> "none"]
    /\ block = NoHash
    /\ disk = [h \in Heights |-> [hash |-> NoHash, tweaks |-> NoHash]]

\* The steps of ingest once it has started.
IngestStep == ScheduleAhead \/ ScheduleDone \/ TakePending \/ Receive
              \/ FetchSingle \/ IndexBlock

Next ==
    \/ Seal \/ Rollback \/ Ingest \/ IngestStep
    \/ \E h \in Heights : FetchReturns(h)
    \/ Stop \/ Restart

Spec == Init /\ [][Next]_vars

\* Goroutines run, and a request to bitcoind ends: the HTTP client has a
\* time-out.  Nothing else has to happen.
Fairness ==
    /\ WF_vars(IngestStep)
    /\ \A h \in Heights : WF_vars(FetchReturns(h))

FairSpec == Spec /\ Fairness

-----------------------------------------------------------------------------
MaybeHash == Hash \cup {NoHash}

\* Every variable has its type; in particular scheduleAhead never looks at a
\* height further than Depth above the one that is ingested.
TypeOK ==
    /\ pc \in {"idle", "schedule", "take", "wait", "fetch", "index", "stopped"}
    /\ current \in -1..MaxHeight
    /\ lastSealed \in -1..MaxHeight
    /\ heightToHash \in [Heights -> MaybeHash]
    /\ tweakData \in [Heights -> MaybeHash \cup {NoTweaks}]
    /\ wanted \in MaybeHash
    /\ ahead \in 0..(height + Depth + 1)
    /\ pending \in [Heights -> MaybeHash]
    /\ result \in [Heights -> {"none", "running", "ok", "failed"}]
    /\ block \in MaybeHash
    /\ disk \in [Heights -> [hash : MaybeHash, tweaks : MaybeHash \cup {NoTweaks}]]

\* The tweaks that a block has: none below Taproot.
TweaksOf(h, x) == IF h < TaprootStart \/ x \in Barren THEN NoTweaks ELSE x

\* "Only use the prefetched result if it was fetched for the hash the caller
\* expects": the tweaks held or sealed for a height are those of the very
\* block whose hash is recorded for it, by which a reorg is recognized, even
\* if the block was fetched before a reorg, or ingested before one.
TweaksOfRecordedBlock ==
    /\ \A h \in Heights : lastSealed < h /\ h <= current =>
            heightToHash[h] # NoHash /\ tweakData[h] = TweaksOf(h, heightToHash[h])
    /\ \A h \in Heights : h <= lastSealed =>
            disk[h].hash # NoHash /\ disk[h].tweaks = TweaksOf(h, disk[h].hash)

\* No fetch is forgotten: a pending entry is for a height that is still to be
\* ingested, where it will be taken out, and the only channel without an
\* entry is the one ingest is waiting for.  So the blocks held by the
\* prefetcher do not pile up, however often the chain reorganizes.
NoFetchForgotten ==
    \A h \in Heights :
        /\ pending[h] # NoHash => h > current /\ result[h] # "none"
        /\ result[h] # "none" => pending[h] # NoHash \/ (pc = "wait" /\ h = height)

\* fetchBlock returns: it never waits for a channel into which nobody sends.
IngestReturns == (pc \notin {"idle", "stopped"}) ~> (pc \in {"idle", "stopped"})

-----------------------------------------------------------------------------
(* The inductive invariant behind the theorems of PrefetcherProofs.         *)

Ingesting == pc \in {"schedule", "take", "wait", "fetch", "index"}

\* While a height is ingested it is at or above Taproot, and its empty entry
\* and its hash are there.
IngestInv ==
    Ingesting =>
        /\ height <= MaxHeight
        /\ height >= TaprootStart
        /\ wanted # NoHash
        /\ heightToHash[height] = wanted
        /\ tweakData[height] = NoTweaks

\* The pending entries are above Taproot, so that every one of them comes up
\* in fetchBlock, and the one for the height that is ingested is taken.
PendingInv ==
    /\ \A h \in Heights : pending[h] # NoHash => h > TaprootStart
    /\ pc \in {"wait", "fetch", "index"} => pending[height] = NoHash
    /\ pc = "wait" => result[height] # "none"

ScheduleInv == IF pc = "schedule" THEN ahead > height ELSE ahead = 0

PrefetchInv ==
    /\ TypeOK
    /\ TweaksOfRecordedBlock
    /\ NoFetchForgotten
    /\ lastSealed <= current
    /\ IngestInv
    /\ PendingInv
    /\ ScheduleInv
    /\ pc = "index" => block = wanted
=============================================================================
