------------------------- MODULE FileProducerProofs ------------------------
(***************************************************************************)
(* Theorems about FileProducer, for every block tree, every set of         *)
(* producers and request handlers, every file size and every depth.        *)
(***************************************************************************)
EXTENDS FileProducer, IntervalLemmas, TLAPS

-----------------------------------------------------------------------------
\* verifyHeaders: headers that link one to the other and end in the block at
\* height e of the chain of b are that chain's blocks.
LEMMA LinkedHeaders ==
    ASSUME NEW b \in Block, NEW s \in Nat, NEW e \in Nat, e <= Height[b], NEW f,
           f[e] = Anc[b][e],
           \A h \in s..e : h > s => PrevBlock(f[h]) = f[h - 1]
    PROVE  \A h \in s..e : f[h] = Anc[b][h]
<1> DEFINE C == {h \in s..e : f[h] # Anc[b][h]}
<1> SUFFICES ASSUME C # {} PROVE FALSE
  OBVIOUS
<1>1. C \in SUBSET (0..e)
  OBVIOUS
<1>2. PICK g \in C : \A k \in C : k <= g
  <2> HIDE DEF C
  <2> QED BY <1>1, GreatestElement
<1>3. g \in s..e /\ g # e /\ f[g] # Anc[b][g]
  BY <1>2
<1>4. g + 1 \in s..e /\ g + 1 > s /\ g + 1 \notin C
  BY <1>2, <1>3
<1>5. f[g + 1] = Anc[b][g + 1]
  BY <1>4
<1>6. PrevBlock(f[g + 1]) = f[g]
  BY <1>3, <1>4
<1>7. g + 1 \in 0..Height[b] /\ g \in 0..(g + 1) /\ Height[b] \in Nat
  BY <1>3, <1>4, BlockAssumption DEF Heights
<1>8. Height[Anc[b][g + 1]] = g + 1 /\ Anc[Anc[b][g + 1]][g] = Anc[b][g]
  BY <1>7, ChainAssumption
<1>9. PrevBlock(f[g + 1]) = Anc[b][g]
  BY <1>3, <1>5, <1>8 DEF PrevBlock
<1> QED BY <1>3, <1>6, <1>9

-----------------------------------------------------------------------------
(* The operators the actions are built from. *)

\* The file bounds are heights, and the file ends where sealReadyFiles says.
LEMMA FileBounds ==
    ASSUME TypeOK, NEW p \in Producer
    PROVE  /\ NextEnd(p) \in Nat
           /\ FileStart(p) \in Nat
           /\ FileStart(p) <= NextEnd(p)
           /\ SealReady(p) => NextEnd(p) + ReOrgSafeDepth <= current[p]
           /\ SealReady(p) => NextEnd(p) \in Heights
<1>1. /\ lastSealed[p] \in -1..MaxHeight /\ current[p] \in 0..MaxHeight
      /\ EntriesPerFile[p] \in Nat /\ EntriesPerFile[p] > 0
      /\ ReOrgSafeDepth \in Nat /\ MaxHeight \in Nat
  BY ProducerAssumption, BlockAssumption DEF TypeOK, Heights
<1> QED BY <1>1 DEF NextEnd, FileStart, SealReady, Heights

\* lastFile returns a height, no smaller than any height on disk.
LEMMA LastFileIsLast ==
    ASSUME TypeOK, NEW p \in Producer
    PROVE  /\ LastFile(p) \in Heights
           /\ \A h \in Heights : disk[p][h] # NoBlock => h <= LastFile(p)
           /\ (\E h \in Heights : disk[p][h] # NoBlock) => disk[p][LastFile(p)] # NoBlock
<1> DEFINE S == {h \in Heights : disk[p][h] # NoBlock}
           Last(h) == /\ disk[p][h] # NoBlock
                      /\ \A k \in Heights : disk[p][k] # NoBlock => k <= h
<1>1. CASE S = {}
  <2>1. \A h \in Heights : disk[p][h] = NoBlock
    BY <1>1
  <2>2. LastFile(p) = 0
    BY <2>1 DEF LastFile
  <2>3. 0 \in Heights
    BY BlockAssumption DEF Heights
  <2> QED BY <2>1, <2>2, <2>3
<1>2. CASE S # {}
  <2>1. S \in SUBSET (0..MaxHeight) /\ MaxHeight \in Nat
    BY BlockAssumption DEF Heights
  <2>2. \E h \in S : \A k \in S : k <= h
    <3> HIDE DEF S
    <3> QED BY <1>2, <2>1, GreatestElement
  <2>3. \E h \in Heights : Last(h)
    BY <2>2
  <2>4. LastFile(p) = CHOOSE h \in Heights : Last(h)
    BY <1>2 DEF LastFile
  <2>5. LastFile(p) \in Heights /\ Last(LastFile(p))
    <3> HIDE DEF Last
    <3> QED BY <2>3, <2>4
  <2> QED BY <2>5
<1> QED BY <1>1, <1>2

\* The values of the variables of one producer.
LEMMA PointTypes ==
    ASSUME TypeOK, NEW p \in Producer
    PROVE  /\ MaxHeight \in Nat /\ ReOrgSafeDepth \in Nat /\ Height[best] \in 0..MaxHeight
           /\ next[p] \in 0..(MaxHeight + 1)
           /\ target[p] \in 0..MaxHeight
           /\ current[p] \in 0..MaxHeight
           /\ lastSealed[p] \in -1..MaxHeight
           /\ at[p] \in -1..MaxHeight
           /\ got[p] \in MaybeBlock
           /\ anchor[p] \in MaybeBlock
           /\ mem[p] \in [Heights -> MaybeBlock]
           /\ disk[p] \in [Heights -> MaybeBlock]
BY BlockAssumption, ProducerAssumption DEF TypeOK, Heights

\* The map without a range of its entries is a map.
LEMMA PruneType ==
    ASSUME NEW m \in [Heights -> MaybeBlock], NEW lo \in Int, NEW hi \in Int
    PROVE  PruneLocked(m, lo, hi) \in [Heights -> MaybeBlock]
BY DEF PruneLocked, MaybeBlock

\* The second half of a miss of getBlockHash keeps bestHeight above every entry.
LEMMA InsertHashKeeps ==
    ASSUME TypeOK, CacheBelowBestHeight, NEW b \in Block, InsertHash(b)
    PROVE  /\ heightToHash' \in [Heights -> MaybeBlock]
           /\ bestHeight' \in -1..MaxHeight
           /\ CacheBelowBestHeight'
<1>1. Height[b] \in 0..MaxHeight /\ Height[b] \in Heights /\ MaxHeight \in Nat
  BY BlockAssumption DEF Heights
<1>2. bestHeight \in -1..MaxHeight
  BY DEF TypeOK
<1>3. bestHeight' \in -1..MaxHeight /\ bestHeight <= bestHeight' /\ Height[b] <= bestHeight'
  BY <1>1, <1>2 DEF InsertHash
<1>4. heightToHash' \in [Heights -> MaybeBlock]
  BY <1>1 DEF InsertHash, TypeOK, MaybeBlock
<1>5. ASSUME NEW h \in Heights, heightToHash'[h] # NoBlock
      PROVE  h <= bestHeight'
  <2>1. CASE h = Height[b]
    BY <2>1, <1>3
  <2>2. CASE h # Height[b]
    <3>1. heightToHash[h] # NoBlock
      BY <1>5, <2>2 DEF InsertHash, TypeOK
    <3>2. h <= bestHeight /\ h \in Int
      BY <3>1 DEF CacheBelowBestHeight, Cached, Heights
    <3> QED BY <1>2, <1>3, <3>2
  <2> QED BY <2>1, <2>2
<1> QED BY <1>3, <1>4, <1>5 DEF CacheBelowBestHeight, Cached

\* getBlockHash is only asked for heights bitcoind has.
LEMMA WantedKnown ==
    ASSUME IndInv, NEW p \in Producer, InLookup(p)
    PROVE  Wanted(p) \in Heights /\ Wanted(p) <= Height[best]
<1> USE DEF IndInv
<1>1. CASE pc[p] = "ingest"
  <2>1. next[p] <= target[p] /\ Wanted(p) = next[p]
    BY <1>1 DEF InLookup, Looping, Wanted
  <2> QED BY <2>1, PointTypes DEF HeightsKnown, Heights
<1>2. CASE pc[p] = "startAnchor"
  <2>1. Wanted(p) = FileStart(p) - 1 /\ FileStart(p) > 0 /\ SealReady(p)
    BY <1>2 DEF Wanted, LoopsInRange, Sealing
  <2> QED BY <2>1, FileBounds, PointTypes DEF HeightsKnown, Heights
<1>3. CASE pc[p] = "endAnchor"
  <2>1. Wanted(p) = NextEnd(p) /\ SealReady(p)
    BY <1>3 DEF Wanted, LoopsInRange, Sealing
  <2> QED BY <2>1, FileBounds, PointTypes DEF HeightsKnown, Heights
<1> QED BY <1>1, <1>2, <1>3 DEF InLookup, Looping

-----------------------------------------------------------------------------
(* The type invariant and the ranges of the loops: every step keeps them. *)

\* getBlockHash finds the height in the cache and returns an entry of the map.
LEMMA LookupHitKeeps ==
    ASSUME IndInv, NEW p \in Producer, LookupHit(p)
    PROVE  IndInv'
<1> USE DEF IndInv
<1>1. TypeOK'
  <2>1. heightToHash[Wanted(p)] \in MaybeBlock
    BY WantedKnown DEF LookupHit, StartsLookup, TypeOK
  <2>2. got' \in [Producer \cup Caller -> MaybeBlock]
    BY <2>1 DEF LookupHit, ReturnHash, TypeOK, MaybeBlock
  <2>3. anchor' \in [Producer -> MaybeBlock]
    BY <2>1 DEF LookupHit, ReturnHash, TypeOK, MaybeBlock
  <2>4. pc' \in [Producer -> PcLabels]
    BY
    DEF LookupHit, Goto, ReturnHash, StartsLookup, InLookup, Looping, TypeOK, PcLabels, Stopped,
        Failed
  <2> QED BY <2>1, <2>2, <2>3, <2>4 DEF LookupHit, h2hVars, TypeOK
<1>2. LoopsInRange'
  BY PointTypes, FileBounds
  DEF LookupHit, Goto, h2hVars, ReturnHash, StartsLookup, InLookup, Looping, LoopsInRange,
      Sealing, SealReady, NextEnd, FileStart, TypeOK
<1>3. HeightsKnown'
  BY DEF LookupHit, HeightsKnown
<1>4. FilesBuried'
  BY DEF LookupHit, FilesBuried
<1>5. CacheBelowBestHeight'
  BY DEF LookupHit, h2hVars, CacheBelowBestHeight, Cached
<1> QED BY <1>1, <1>2, <1>3, <1>4, <1>5

\* getBlockHash misses and asks bitcoind, for a height bitcoind has.
LEMMA LookupFetchKeeps ==
    ASSUME IndInv, NEW p \in Producer, LookupFetch(p)
    PROVE  IndInv'
<1> USE DEF IndInv
<1>1. TypeOK'
  <2>1. GetBlockHash(Wanted(p)) \in MaybeBlock
    <3>1. Wanted(p) \in Heights /\ best \in Block
      BY WantedKnown DEF LookupFetch, StartsLookup, TypeOK
    <3>2. Anc[best][Wanted(p)] \in Block
      BY <3>1, BlockAssumption
    <3> QED BY <3>2 DEF GetBlockHash, MaybeBlock
  <2>2. got' \in [Producer \cup Caller -> MaybeBlock]
    BY <2>1 DEF LookupFetch, TypeOK, MaybeBlock
  <2> QED BY <2>1, <2>2 DEF LookupFetch, h2hVars, TypeOK
<1>2. LoopsInRange'
  BY PointTypes, FileBounds
  DEF LookupFetch, Goto, h2hVars, LoopsInRange, Sealing, SealReady, NextEnd, FileStart, TypeOK
<1>3. HeightsKnown'
  BY DEF LookupFetch, HeightsKnown
<1>4. FilesBuried'
  BY DEF LookupFetch, FilesBuried
<1>5. CacheBelowBestHeight'
  BY DEF LookupFetch, h2hVars, CacheBelowBestHeight, Cached
<1> QED BY <1>1, <1>2, <1>3, <1>4, <1>5

\* getBlockHash inserts the fetched hash and raises bestHeight with it.
LEMMA LookupInsertKeeps ==
    ASSUME IndInv, NEW p \in Producer, LookupInsert(p)
    PROVE  IndInv'
<1> USE DEF IndInv
<1>1. TypeOK'
  <2>1. got[p] \in Block
    BY PointTypes DEF LookupInsert, MaybeBlock
  <2>2. heightToHash' \in [Heights -> MaybeBlock] /\ bestHeight' \in -1..MaxHeight
    BY <2>1, InsertHashKeeps DEF LookupInsert
  <2>3. got' \in [Producer \cup Caller -> MaybeBlock]
    BY DEF LookupInsert, ReturnHash, TypeOK, MaybeBlock
  <2>4. anchor' \in [Producer -> MaybeBlock]
    BY <2>1 DEF LookupInsert, ReturnHash, TypeOK, MaybeBlock
  <2>5. pc' \in [Producer -> PcLabels]
    BY DEF LookupInsert, Goto, ReturnHash, InLookup, Looping, TypeOK, PcLabels, Stopped, Failed
  <2> QED BY <2>2, <2>3, <2>4, <2>5 DEF LookupInsert, h2hVars, TypeOK
<1>2. LoopsInRange'
  BY PointTypes, FileBounds
  DEF LookupInsert, Goto, h2hVars, ReturnHash, InLookup, Looping, LoopsInRange, Sealing,
      SealReady, NextEnd, FileStart, TypeOK
<1>3. HeightsKnown'
  BY DEF LookupInsert, HeightsKnown
<1>4. FilesBuried'
  BY DEF LookupInsert, FilesBuried
<1>5. CacheBelowBestHeight'
  <2>1. got[p] \in Block
    BY PointTypes DEF LookupInsert, MaybeBlock
  <2> QED BY <2>1, InsertHashKeeps DEF LookupInsert
<1> QED BY <1>1, <1>2, <1>3, <1>4, <1>5

\* ingest stores the entry at a height within the round.
LEMMA StoreKeeps ==
    ASSUME IndInv, NEW p \in Producer, Store(p)
    PROVE  IndInv'
<1> USE DEF IndInv
<1>1. TypeOK'
  <2>1. next[p] \in Heights
    BY PointTypes DEF Store, LoopsInRange, Heights
  <2>2. current' \in [Producer -> Heights]
    BY <2>1 DEF Store, TypeOK
  <2>3. mem' \in [Producer -> [Heights -> MaybeBlock]]
    BY <2>1, PointTypes DEF Store, TypeOK
  <2>4. got' \in [Producer \cup Caller -> MaybeBlock]
    BY DEF Store, TypeOK, MaybeBlock
  <2>5. pc' \in [Producer -> PcLabels]
    BY DEF Store, Goto, TypeOK, PcLabels, Stopped, Failed
  <2> QED BY <2>1, <2>2, <2>3, <2>4, <2>5 DEF Store, h2hVars, TypeOK
<1>2. LoopsInRange'
  BY PointTypes, FileBounds
  DEF Store, Goto, h2hVars, LoopsInRange, Sealing, SealReady, NextEnd, FileStart, TypeOK
<1>3. HeightsKnown'
  BY PointTypes DEF Store, HeightsKnown, LoopsInRange, TypeOK
<1>4. FilesBuried'
  BY DEF Store, FilesBuried
<1>5. CacheBelowBestHeight'
  BY DEF Store, h2hVars, CacheBelowBestHeight, Cached
<1> QED BY <1>1, <1>2, <1>3, <1>4, <1>5

\* sealReadyFiles finds a file whose last height is deep enough.
LEMMA BeginSealKeeps ==
    ASSUME IndInv, NEW p \in Producer, BeginSeal(p)
    PROVE  IndInv'
<1> USE DEF IndInv
<1>1. TypeOK'
  BY PointTypes DEF BeginSeal, Goto, h2hVars, TypeOK, PcLabels, Stopped, Failed
<1>2. LoopsInRange'
  BY PointTypes, FileBounds
  DEF BeginSeal, Goto, h2hVars, LoopsInRange, Sealing, SealReady, NextEnd, FileStart, TypeOK
<1>3. HeightsKnown'
  BY DEF BeginSeal, HeightsKnown
<1>4. FilesBuried'
  BY DEF BeginSeal, FilesBuried
<1>5. CacheBelowBestHeight'
  BY DEF BeginSeal, h2hVars, CacheBelowBestHeight, Cached
<1> QED BY <1>1, <1>2, <1>3, <1>4, <1>5

\* sealReadyFiles returns and the ingest loop moves to the next height.
LEMMA NothingToSealKeeps ==
    ASSUME IndInv, NEW p \in Producer, NothingToSeal(p)
    PROVE  IndInv'
<1> USE DEF IndInv
<1>1. TypeOK'
  <2>1. next[p] \in 0..MaxHeight
    BY PointTypes DEF NothingToSeal, LoopsInRange
  <2>2. next[p] + 1 \in 0..(MaxHeight + 1)
    BY <2>1, PointTypes
  <2>3. next' \in [Producer -> 0..(MaxHeight + 1)]
    BY <2>2 DEF NothingToSeal, TypeOK
  <2>4. pc' \in [Producer -> PcLabels]
    BY DEF NothingToSeal, Goto, TypeOK, PcLabels, Stopped, Failed
  <2> QED BY <2>1, <2>2, <2>3, <2>4 DEF NothingToSeal, h2hVars, TypeOK
<1>2. LoopsInRange'
  BY PointTypes, FileBounds
  DEF NothingToSeal, Goto, h2hVars, LoopsInRange, Sealing, SealReady, NextEnd, FileStart,
      TypeOK
<1>3. HeightsKnown'
  BY DEF NothingToSeal, HeightsKnown
<1>4. FilesBuried'
  BY DEF NothingToSeal, FilesBuried
<1>5. CacheBelowBestHeight'
  BY DEF NothingToSeal, h2hVars, CacheBelowBestHeight, Cached
<1> QED BY <1>1, <1>2, <1>3, <1>4, <1>5

\* verifyHeaders or verifyFilters lets the file pass or refuses it.
LEMMA VerifyKeeps ==
    ASSUME IndInv, NEW p \in Producer, Verify(p)
    PROVE  IndInv'
<1> USE DEF IndInv
<1>1. TypeOK'
  <2>1. got' \in [Producer \cup Caller -> MaybeBlock]
    BY DEF Verify, TypeOK, MaybeBlock
  <2>2. anchor' \in [Producer -> MaybeBlock]
    BY DEF Verify, TypeOK, MaybeBlock
  <2>3. pc' \in [Producer -> PcLabels]
    BY DEF Verify, Goto, TypeOK, PcLabels, Stopped, Failed
  <2> QED BY <2>1, <2>2, <2>3 DEF Verify, h2hVars, TypeOK
<1>2. LoopsInRange'
  BY PointTypes, FileBounds
  DEF Verify, Goto, h2hVars, LoopsInRange, Sealing, SealReady, NextEnd, FileStart, TypeOK
<1>3. HeightsKnown'
  BY DEF Verify, HeightsKnown
<1>4. FilesBuried'
  BY DEF Verify, FilesBuried
<1>5. CacheBelowBestHeight'
  BY DEF Verify, h2hVars, CacheBelowBestHeight, Cached
<1> QED BY <1>1, <1>2, <1>3, <1>4, <1>5

\* writeSealedFile puts only heights on disk that are deep enough.
LEMMA WriteSealedFileKeeps ==
    ASSUME IndInv, NEW p \in Producer, WriteSealedFile(p)
    PROVE  IndInv'
<1> USE DEF IndInv
<1>1. TypeOK'
  <2>1. [h \in Heights |-> IF h \in FileRange(p) THEN mem[p][h] ELSE disk[p][h]] \in [Heights -> MaybeBlock]
    BY PointTypes DEF MaybeBlock
  <2>2. disk' \in [Producer -> [Heights -> MaybeBlock]]
    BY <2>1 DEF WriteSealedFile, TypeOK
  <2>3. pc' \in [Producer -> PcLabels]
    BY DEF WriteSealedFile, Goto, TypeOK, PcLabels, Stopped, Failed
  <2> QED BY <2>1, <2>2, <2>3 DEF WriteSealedFile, h2hVars, TypeOK
<1>2. LoopsInRange'
  BY PointTypes, FileBounds
  DEF WriteSealedFile, Goto, h2hVars, LoopsInRange, Sealing, SealReady, NextEnd, FileStart,
      TypeOK
<1>3. HeightsKnown'
  BY DEF WriteSealedFile, HeightsKnown
<1>4. FilesBuried'
  <2> SUFFICES ASSUME NEW q \in Producer, NEW h \in Heights, disk'[q][h] # NoBlock
               PROVE  h + ReOrgSafeDepth <= Height[best]
    BY DEF WriteSealedFile, FilesBuried
  <2>1. CASE q = p /\ h \in FileRange(p)
    <3>1. NextEnd(p) + ReOrgSafeDepth <= current[p] /\ NextEnd(p) \in Nat /\ FileStart(p) \in Nat
      BY FileBounds DEF WriteSealedFile, LoopsInRange, Sealing
    <3>2. current[p] <= Height[best]
      BY DEF HeightsKnown
    <3> QED BY <2>1, <3>1, <3>2, PointTypes DEF FileRange, Heights
  <2>2. CASE ~ (q = p /\ h \in FileRange(p))
    <3>1. disk'[q][h] = disk[q][h]
      BY <2>2 DEF WriteSealedFile, TypeOK
    <3> QED BY <3>1 DEF FilesBuried
  <2> QED BY <2>1, <2>2
<1>5. CacheBelowBestHeight'
  BY DEF WriteSealedFile, h2hVars, CacheBelowBestHeight, Cached
<1> QED BY <1>1, <1>2, <1>3, <1>4, <1>5

\* pruneLocked and the promotion of lastSealedHeight stay in range.
LEMMA PromoteKeeps ==
    ASSUME IndInv, NEW p \in Producer, Promote(p)
    PROVE  IndInv'
<1> USE DEF IndInv
<1>1. TypeOK'
  <2>1. NextEnd(p) \in Heights /\ NextEnd(p) \in Int /\ FileStart(p) \in Int
    BY FileBounds DEF Promote, LoopsInRange, Sealing
  <2>2. PruneLocked(mem[p], FileStart(p), NextEnd(p)) \in [Heights -> MaybeBlock]
    BY <2>1, PointTypes, PruneType
  <2>3. mem' \in [Producer -> [Heights -> MaybeBlock]]
    BY <2>2 DEF Promote, TypeOK
  <2>4. NextEnd(p) \in -1..MaxHeight
    BY <2>1, PointTypes DEF Heights
  <2>5. lastSealed' \in [Producer -> -1..MaxHeight]
    BY <2>4 DEF Promote, TypeOK
  <2>6. pc' \in [Producer -> PcLabels]
    BY DEF Promote, Goto, TypeOK, PcLabels, Stopped, Failed
  <2> QED BY <2>1, <2>2, <2>3, <2>4, <2>5, <2>6 DEF Promote, h2hVars, TypeOK
<1>2. LoopsInRange'
  BY PointTypes, FileBounds
  DEF Promote, Goto, h2hVars, LoopsInRange, Sealing, SealReady, NextEnd, FileStart, TypeOK
<1>3. HeightsKnown'
  BY DEF Promote, HeightsKnown
<1>4. FilesBuried'
  BY DEF Promote, FilesBuried
<1>5. CacheBelowBestHeight'
  BY DEF Promote, h2hVars, CacheBelowBestHeight, Cached
<1> QED BY <1>1, <1>2, <1>3, <1>4, <1>5

\* updateCacheAndFiles returns and the producer starts polling.
LEMMA RoundDoneKeeps ==
    ASSUME IndInv, NEW p \in Producer, RoundDone(p)
    PROVE  IndInv'
<1> USE DEF IndInv
<1>1. TypeOK'
  BY PointTypes DEF RoundDone, Goto, h2hVars, TypeOK, PcLabels, Stopped, Failed
<1>2. LoopsInRange'
  BY PointTypes, FileBounds
  DEF RoundDone, Goto, h2hVars, LoopsInRange, Sealing, SealReady, NextEnd, FileStart, TypeOK
<1>3. HeightsKnown'
  BY DEF RoundDone, HeightsKnown
<1>4. FilesBuried'
  BY DEF RoundDone, FilesBuried
<1>5. CacheBelowBestHeight'
  BY DEF RoundDone, h2hVars, CacheBelowBestHeight, Cached
<1> QED BY <1>1, <1>2, <1>3, <1>4, <1>5

\* the poll loop reads a height bitcoind has.
LEMMA PollKeeps ==
    ASSUME IndInv, NEW p \in Producer, Poll(p)
    PROVE  IndInv'
<1> USE DEF IndInv
<1>1. TypeOK'
  <2>1. GetBlockCount \in Heights
    BY PointTypes DEF GetBlockCount, Heights
  <2>2. target' \in [Producer -> Heights]
    BY <2>1 DEF Poll, TypeOK
  <2>3. pc' \in [Producer -> PcLabels]
    BY DEF Poll, Goto, TypeOK, PcLabels, Stopped, Failed
  <2> QED BY <2>1, <2>2, <2>3 DEF Poll, h2hVars, TypeOK
<1>2. LoopsInRange'
  BY PointTypes, FileBounds
  DEF Poll, Goto, h2hVars, LoopsInRange, Sealing, SealReady, NextEnd, FileStart, TypeOK
<1>3. HeightsKnown'
  BY PointTypes DEF Poll, HeightsKnown, GetBlockCount, TypeOK
<1>4. FilesBuried'
  BY DEF Poll, FilesBuried
<1>5. CacheBelowBestHeight'
  BY DEF Poll, h2hVars, CacheBelowBestHeight, Cached
<1> QED BY <1>1, <1>2, <1>3, <1>4, <1>5

\* tipReorged only decides where the poll loop goes on.
LEMMA TipReorgedKeeps ==
    ASSUME IndInv, NEW p \in Producer, TipReorged(p)
    PROVE  IndInv'
<1> USE DEF IndInv
<1>1. TypeOK'
  BY PointTypes DEF TipReorged, Goto, h2hVars, TypeOK, PcLabels, Stopped, Failed
<1>2. LoopsInRange'
  BY PointTypes, FileBounds
  DEF TipReorged, Goto, h2hVars, LoopsInRange, Sealing, SealReady, NextEnd, FileStart, TypeOK
<1>3. HeightsKnown'
  BY DEF TipReorged, HeightsKnown
<1>4. FilesBuried'
  BY DEF TipReorged, FilesBuried
<1>5. CacheBelowBestHeight'
  BY DEF TipReorged, h2hVars, CacheBelowBestHeight, Cached
<1> QED BY <1>1, <1>2, <1>3, <1>4, <1>5

\* handleReorg starts the walk at the tip or goes on to ingest.
LEMMA HandleReorgKeeps ==
    ASSUME IndInv, NEW p \in Producer, HandleReorg(p)
    PROVE  IndInv'
<1> USE DEF IndInv
<1>1. TypeOK'
  <2>1. current[p] + 1 \in 0..(MaxHeight + 1)
    BY PointTypes
  <2>2. next' \in [Producer -> 0..(MaxHeight + 1)]
    BY <2>1 DEF HandleReorg, Advance, TypeOK, Disagrees
  <2>3. current[p] \in -1..MaxHeight
    BY PointTypes
  <2>4. at' \in [Producer -> -1..MaxHeight]
    BY <2>3 DEF HandleReorg, TypeOK, Disagrees
  <2>5. pc' \in [Producer -> PcLabels]
    BY DEF HandleReorg, Goto, Advance, Disagrees, TypeOK, PcLabels, Stopped, Failed
  <2> QED BY <2>1, <2>2, <2>3, <2>4, <2>5 DEF HandleReorg, h2hVars, TypeOK
<1>2. LoopsInRange'
  <2>1. CASE Disagrees(p, current[p])
    BY <2>1, PointTypes
    DEF HandleReorg, Goto, LoopsInRange, Sealing, SealReady, NextEnd, FileStart, TypeOK
  <2>2. CASE ~ Disagrees(p, current[p])
    BY <2>2, PointTypes
    DEF HandleReorg, Goto, Advance, LoopsInRange, Sealing, SealReady, NextEnd, FileStart,
        TypeOK
  <2> QED BY <2>1, <2>2
<1>3. HeightsKnown'
  BY DEF HandleReorg, HeightsKnown
<1>4. FilesBuried'
  BY DEF HandleReorg, FilesBuried
<1>5. CacheBelowBestHeight'
  BY DEF HandleReorg, h2hVars, CacheBelowBestHeight, Cached
<1> QED BY <1>1, <1>2, <1>3, <1>4, <1>5

\* findCommonAncestor stops at the sealed files, so the walk stays in range.
LEMMA WalkBackKeeps ==
    ASSUME IndInv, NEW p \in Producer, WalkBack(p)
    PROVE  IndInv'
<1> USE DEF IndInv
<1>1. TypeOK'
  <2>1. at[p] - 1 \in -1..MaxHeight
    BY PointTypes DEF WalkBack
  <2>2. at' \in [Producer -> -1..MaxHeight]
    BY <2>1 DEF WalkBack, TypeOK
  <2> QED BY <2>1, <2>2 DEF WalkBack, h2hVars, TypeOK
<1>2. LoopsInRange'
  BY PointTypes, FileBounds
  DEF WalkBack, Goto, h2hVars, LoopsInRange, Sealing, SealReady, NextEnd, FileStart, TypeOK
<1>3. HeightsKnown'
  BY DEF WalkBack, HeightsKnown
<1>4. FilesBuried'
  BY DEF WalkBack, FilesBuried
<1>5. CacheBelowBestHeight'
  BY DEF WalkBack, h2hVars, CacheBelowBestHeight, Cached
<1> QED BY <1>1, <1>2, <1>3, <1>4, <1>5

\* handleReorg returns errDeepReorg and changes nothing.
LEMMA DeepReorgKeeps ==
    ASSUME IndInv, NEW p \in Producer, DeepReorg(p)
    PROVE  IndInv'
<1> USE DEF IndInv
<1>1. TypeOK'
  <2>1. 0 \in -1..MaxHeight
    BY PointTypes
  <2>2. at' \in [Producer -> -1..MaxHeight]
    BY <2>1 DEF DeepReorg, TypeOK
  <2>3. pc' \in [Producer -> PcLabels]
    BY DEF DeepReorg, Goto, TypeOK, PcLabels, Stopped, Failed
  <2> QED BY <2>1, <2>2, <2>3 DEF DeepReorg, h2hVars, TypeOK
<1>2. LoopsInRange'
  BY PointTypes, FileBounds
  DEF DeepReorg, Goto, h2hVars, LoopsInRange, Sealing, SealReady, NextEnd, FileStart, TypeOK
<1>3. HeightsKnown'
  BY DEF DeepReorg, HeightsKnown
<1>4. FilesBuried'
  BY DEF DeepReorg, FilesBuried
<1>5. CacheBelowBestHeight'
  BY DEF DeepReorg, h2hVars, CacheBelowBestHeight, Cached
<1> QED BY <1>1, <1>2, <1>3, <1>4, <1>5

\* rollback moves currentHeight down to a height above the sealed files.
LEMMA RollbackKeeps ==
    ASSUME IndInv, NEW p \in Producer, Rollback(p)
    PROVE  IndInv'
<1> USE DEF IndInv
<1>1. TypeOK'
  <2>1. at[p] \in Heights /\ at[p] + 1 \in Int /\ current[p] \in Int
    BY PointTypes DEF Rollback, Heights
  <2>2. PruneLocked(mem[p], at[p] + 1, current[p]) \in [Heights -> MaybeBlock]
    BY <2>1, PointTypes, PruneType
  <2>3. mem' \in [Producer -> [Heights -> MaybeBlock]]
    BY <2>2 DEF Rollback, TypeOK
  <2>4. current' \in [Producer -> Heights]
    BY <2>1 DEF Rollback, TypeOK
  <2>5. 0 \in -1..MaxHeight
    BY PointTypes
  <2>6. at' \in [Producer -> -1..MaxHeight]
    BY <2>5 DEF Rollback, TypeOK
  <2>7. pc' \in [Producer -> PcLabels]
    BY DEF Rollback, Goto, TypeOK, PcLabels, Stopped, Failed
  <2> QED BY <2>1, <2>2, <2>3, <2>4, <2>5, <2>6, <2>7 DEF Rollback, h2hVars, TypeOK
<1>2. LoopsInRange'
  BY PointTypes, FileBounds
  DEF Rollback, Goto, h2hVars, LoopsInRange, Sealing, SealReady, NextEnd, FileStart, TypeOK
<1>3. HeightsKnown'
  BY PointTypes DEF Rollback, HeightsKnown, LoopsInRange, TypeOK
<1>4. FilesBuried'
  BY DEF Rollback, FilesBuried
<1>5. CacheBelowBestHeight'
  BY DEF Rollback, h2hVars, CacheBelowBestHeight, Cached
<1> QED BY <1>1, <1>2, <1>3, <1>4, <1>5

\* invalidate removes every entry above the new bestHeight.
LEMMA InvalidateCacheKeeps ==
    ASSUME IndInv, NEW p \in Producer, InvalidateCache(p)
    PROVE  IndInv'
<1> USE DEF IndInv
<1>1. TypeOK'
  <2>1. current[p] + 1 \in 0..(MaxHeight + 1) /\ (current[p] + 1) - 1 \in -1..MaxHeight
    BY PointTypes
  <2>2. bestHeight' \in -1..MaxHeight
    BY <2>1 DEF InvalidateCache, Invalidate
  <2>3. heightToHash' \in [Heights -> MaybeBlock]
    BY DEF InvalidateCache, Invalidate, TypeOK, MaybeBlock
  <2>4. next' \in [Producer -> 0..(MaxHeight + 1)]
    BY <2>1 DEF InvalidateCache, Advance, TypeOK
  <2>5. pc' \in [Producer -> PcLabels]
    BY DEF InvalidateCache, Goto, Advance, TypeOK, PcLabels, Stopped, Failed
  <2> QED BY <2>1, <2>2, <2>3, <2>4, <2>5 DEF InvalidateCache, h2hVars, TypeOK
<1>2. LoopsInRange'
  BY PointTypes, FileBounds
  DEF InvalidateCache, Goto, h2hVars, Advance, LoopsInRange, Sealing, SealReady, NextEnd,
      FileStart, TypeOK
<1>3. HeightsKnown'
  BY DEF InvalidateCache, HeightsKnown
<1>4. FilesBuried'
  BY DEF InvalidateCache, FilesBuried
<1>5. CacheBelowBestHeight'
  <2>1. current[p] \in Int /\ bestHeight \in Int /\ (\A k \in Heights : k \in Int)
    BY PointTypes DEF TypeOK, Heights
  <2> QED BY <2>1 DEF InvalidateCache, Invalidate, CacheBelowBestHeight, Cached
<1> QED BY <1>1, <1>2, <1>3, <1>4, <1>5

\* the goroutine returns on quit and changes nothing.
LEMMA ShutdownKeeps ==
    ASSUME IndInv, NEW p \in Producer, Shutdown(p)
    PROVE  IndInv'
<1> USE DEF IndInv
<1>1. TypeOK'
  BY PointTypes DEF Shutdown, Goto, h2hVars, TypeOK, PcLabels, Stopped, Failed
<1>2. LoopsInRange'
  BY PointTypes, FileBounds
  DEF Shutdown, Goto, h2hVars, LoopsInRange, Sealing, SealReady, NextEnd, FileStart, TypeOK
<1>3. HeightsKnown'
  BY DEF Shutdown, HeightsKnown
<1>4. FilesBuried'
  BY DEF Shutdown, FilesBuried
<1>5. CacheBelowBestHeight'
  BY DEF Shutdown, h2hVars, CacheBelowBestHeight, Cached
<1> QED BY <1>1, <1>2, <1>3, <1>4, <1>5

\* the goroutine returns an error of bitcoind and changes no height.
LEMMA RpcErrorKeeps ==
    ASSUME IndInv, NEW p \in Producer, RpcError(p)
    PROVE  IndInv'
<1> USE DEF IndInv
<1>1. TypeOK'
  <2>1. got' \in [Producer \cup Caller -> MaybeBlock]
    BY DEF RpcError, TypeOK, MaybeBlock
  <2>2. anchor' \in [Producer -> MaybeBlock]
    BY DEF RpcError, TypeOK, MaybeBlock
  <2>3. 0 \in -1..MaxHeight
    BY PointTypes
  <2>4. at' \in [Producer -> -1..MaxHeight]
    BY <2>3 DEF RpcError, TypeOK
  <2>5. mem' \in [Producer -> [Heights -> MaybeBlock]]
    BY PointTypes DEF RpcError, TypeOK, LoopsInRange
  <2>6. pc' \in [Producer -> PcLabels]
    BY DEF RpcError, Goto, TypeOK, PcLabels, Stopped, Failed
  <2> QED BY <2>1, <2>2, <2>3, <2>4, <2>5, <2>6 DEF RpcError, h2hVars, TypeOK
<1>2. LoopsInRange'
  BY PointTypes, FileBounds
  DEF RpcError, Goto, h2hVars, LoopsInRange, Sealing, SealReady, NextEnd, FileStart, TypeOK
<1>3. HeightsKnown'
  BY DEF RpcError, HeightsKnown
<1>4. FilesBuried'
  BY DEF RpcError, FilesBuried
<1>5. CacheBelowBestHeight'
  BY DEF RpcError, h2hVars, CacheBelowBestHeight, Cached
<1> QED BY <1>1, <1>2, <1>3, <1>4, <1>5

\* tipReorged swallows an error and changes nothing.
LEMMA TipCheckFailsKeeps ==
    ASSUME IndInv, NEW p \in Producer, TipCheckFails(p)
    PROVE  IndInv'
<1> USE DEF IndInv
<1>1. TypeOK'
  BY PointTypes DEF TipCheckFails, Goto, h2hVars, TypeOK, PcLabels, Stopped, Failed
<1>2. LoopsInRange'
  BY PointTypes, FileBounds
  DEF TipCheckFails, Goto, h2hVars, LoopsInRange, Sealing, SealReady, NextEnd, FileStart,
      TypeOK
<1>3. HeightsKnown'
  BY DEF TipCheckFails, HeightsKnown
<1>4. FilesBuried'
  BY DEF TipCheckFails, FilesBuried
<1>5. CacheBelowBestHeight'
  BY DEF TipCheckFails, h2hVars, CacheBelowBestHeight, Cached
<1> QED BY <1>1, <1>2, <1>3, <1>4, <1>5

\* a request handler asks bitcoind for a height bitcoind has.
LEMMA CallerFetchKeeps ==
    ASSUME IndInv, NEW c \in Caller, CallerFetch(c)
    PROVE  IndInv'
<1> USE DEF IndInv
<1>1. TypeOK'
  <2>1. PICK h \in 0..GetBlockCount : got' = [got EXCEPT ![c] = GetBlockHash(h)]
    BY DEF CallerFetch
  <2>2. best \in Block /\ Height[best] \in 0..MaxHeight /\ MaxHeight \in Nat
    BY BlockAssumption DEF TypeOK, Heights
  <2>3. h \in Heights
    BY <2>2 DEF GetBlockCount, Heights
  <2>4. GetBlockHash(h) \in MaybeBlock
    BY <2>2, <2>3, BlockAssumption DEF GetBlockHash, MaybeBlock
  <2>5. got' \in [Producer \cup Caller -> MaybeBlock]
    BY <2>1, <2>4 DEF TypeOK
  <2> QED BY <2>5 DEF CallerFetch, h2hVars, TypeOK
<1>2. LoopsInRange'
  BY DEF CallerFetch, LoopsInRange, SealReady, NextEnd, FileStart
<1>3. HeightsKnown' /\ FilesBuried' /\ CacheBelowBestHeight'
  BY DEF CallerFetch, h2hVars, HeightsKnown, FilesBuried, CacheBelowBestHeight, Cached
<1> QED BY <1>1, <1>2, <1>3

\* a request handler inserts the hash it fetched, however late.
LEMMA CallerInsertKeeps ==
    ASSUME IndInv, NEW c \in Caller, CallerInsert(c)
    PROVE  IndInv'
<1> USE DEF IndInv
<1>1. got[c] \in Block
  BY DEF CallerInsert, TypeOK, MaybeBlock
<1>2. /\ heightToHash' \in [Heights -> MaybeBlock] /\ bestHeight' \in -1..MaxHeight
      /\ CacheBelowBestHeight'
  BY <1>1, InsertHashKeeps DEF CallerInsert
<1>3. got' \in [Producer \cup Caller -> MaybeBlock]
  BY DEF CallerInsert, TypeOK, MaybeBlock
<1>4. TypeOK'
  BY <1>2, <1>3 DEF CallerInsert, TypeOK
<1>5. LoopsInRange'
  BY DEF CallerInsert, LoopsInRange, SealReady, NextEnd, FileStart
<1>6. HeightsKnown' /\ FilesBuried'
  BY DEF CallerInsert, HeightsKnown, FilesBuried
<1> QED BY <1>2, <1>4, <1>5, <1>6

\* the chain grows or reorganizes; no height a producer reached is lost.
LEMMA ChainMovesKeeps ==
    ASSUME IndInv, ChainMoves, UNCHANGED <<h2hVars, server, quit, producerVars, disk>>
    PROVE  IndInv'
<1> USE DEF IndInv
<1>1. best' \in Block /\ Height[best'] >= Height[best]
  BY DEF ChainMoves
<1>2. Height[best] \in 0..MaxHeight /\ Height[best'] \in 0..MaxHeight /\ MaxHeight \in Nat
      /\ ReOrgSafeDepth \in Nat
  BY <1>1, BlockAssumption, ProducerAssumption DEF TypeOK, Heights
<1>3. TypeOK'
  BY <1>1 DEF TypeOK, h2hVars, producerVars
<1>4. LoopsInRange'
  BY DEF LoopsInRange, SealReady, NextEnd, FileStart, producerVars
<1>5. HeightsKnown'
  BY <1>1, <1>2, PointTypes DEF HeightsKnown, producerVars
<1>6. FilesBuried'
  BY <1>1, <1>2 DEF FilesBuried, Heights
<1>7. CacheBelowBestHeight'
  BY DEF CacheBelowBestHeight, Cached, h2hVars
<1> QED BY <1>3, <1>4, <1>5, <1>6, <1>7

\* a process that ends takes its memory with it and leaves the files.
LEMMA NoProcessKeeps ==
    ASSUME IndInv, NoProcess, UNCHANGED <<best, disk>>
    PROVE  IndInv'
<1> USE DEF IndInv
<1>1. 0 \in Heights /\ 0 \in 0..(MaxHeight + 1) /\ -1 \in -1..MaxHeight /\ 0 \in -1..MaxHeight
      /\ Height[best] >= 0
  BY BlockAssumption DEF Heights, TypeOK
<1>2. NoEntries \in [Heights -> MaybeBlock]
  BY DEF NoEntries, MaybeBlock
<1>3. TypeOK'
  BY <1>1, <1>2 DEF NoProcess, TypeOK, PcLabels, Stopped, MaybeBlock
<1>4. LoopsInRange'
  BY DEF NoProcess, LoopsInRange, Sealing
<1>5. HeightsKnown' /\ FilesBuried'
  BY <1>1 DEF NoProcess, HeightsKnown, FilesBuried
<1>6. CacheBelowBestHeight'
  BY DEF NoProcess, NoEntries, CacheBelowBestHeight, Cached
<1> QED BY <1>3, <1>4, <1>5, <1>6

\* loadFromHeaders fills the cache up to the last sealed header.
LEMMA LoadCacheKeeps ==
    ASSUME IndInv, LoadCache
    PROVE  IndInv'
<1> USE DEF IndInv
<1> DEFINE files == disk["header"]
           last == IF files = NoEntries THEN -1 ELSE LastFile("header")
<1>1. "header" \in Producer
  BY ProducerAssumption
<1>2. files \in [Heights -> MaybeBlock]
  BY <1>1 DEF TypeOK
<1>3. LastFile("header") \in Heights /\ \A h \in Heights : files[h] # NoBlock => h <= LastFile("header")
  BY <1>1, LastFileIsLast
<1>4. last \in -1..MaxHeight /\ \A h \in Heights : files[h] # NoBlock => h <= last
  <2>1. CASE files = NoEntries
    BY <2>1, BlockAssumption DEF NoEntries
  <2>2. CASE files # NoEntries
    BY <2>2, <1>3, BlockAssumption DEF Heights
  <2> QED BY <2>1, <2>2
<1>5. \/ heightToHash' = files /\ bestHeight' = last /\ server' = "loading"
      \/ UNCHANGED <<heightToHash, bestHeight, server>>
  BY DEF LoadCache, LoadFromHeaders, h2hVars
<1>6. UNCHANGED <<best, quit, producerVars, disk>>
  BY DEF LoadCache
<1> HIDE DEF files, last
<1>7. TypeOK'
  BY <1>2, <1>4, <1>5, <1>6 DEF TypeOK, producerVars
<1>8. LoopsInRange'
  BY <1>6 DEF LoopsInRange, SealReady, NextEnd, FileStart, producerVars
<1>9. HeightsKnown' /\ FilesBuried'
  BY <1>6 DEF HeightsKnown, FilesBuried, producerVars
<1>10. CacheBelowBestHeight'
  BY <1>4, <1>5 DEF CacheBelowBestHeight, Cached
<1> QED BY <1>7, <1>8, <1>9, <1>10

\* updateFiles resumes behind the last file, at a height bitcoind has.
LEMMA LaunchKeeps ==
    ASSUME IndInv, Launch
    PROVE  IndInv'
<1> USE DEF IndInv
<1>1. MaxHeight \in Nat /\ Height[best] \in 0..MaxHeight /\ ReOrgSafeDepth \in Nat
  BY BlockAssumption, ProducerAssumption DEF TypeOK, Heights
<1>2. \A p \in Producer : LastFile(p) \in 0..MaxHeight
  BY LastFileIsLast DEF Heights
<1>3. \A p \in Producer : LastFile(p) > 0 => LastFile(p) <= Height[best]
  <2> SUFFICES ASSUME NEW p \in Producer, LastFile(p) > 0 PROVE LastFile(p) <= Height[best]
    OBVIOUS
  <2>1. \E h \in Heights : disk[p][h] # NoBlock
    BY DEF LastFile
  <2>2. disk[p][LastFile(p)] # NoBlock /\ LastFile(p) \in Heights
    BY <2>1, LastFileIsLast
  <2>3. LastFile(p) + ReOrgSafeDepth <= Height[best]
    BY <2>2 DEF FilesBuried
  <2> QED BY <1>1, <1>2, <2>3
<1>4. TypeOK'
  <2>1. lastSealed' \in [Producer -> -1..MaxHeight]
    BY <1>1, <1>2 DEF Launch
  <2>2. current' \in [Producer -> Heights]
    BY <1>1, <1>2 DEF Launch, Heights
  <2>3. next' \in [Producer -> 0..(MaxHeight + 1)]
    BY <1>1, <1>2 DEF Launch
  <2>4. target' \in [Producer -> Heights]
    BY <1>1 DEF Launch, GetBlockCount, Heights
  <2>5. pc' \in [Producer -> PcLabels]
    BY DEF Launch, PcLabels
  <2> QED BY <2>1, <2>2, <2>3, <2>4, <2>5 DEF Launch, h2hVars, TypeOK
<1>5. LoopsInRange'
  BY DEF Launch, LoopsInRange, Sealing
<1>6. HeightsKnown'
  BY <1>1, <1>3 DEF Launch, HeightsKnown, GetBlockCount
<1>7. FilesBuried' /\ CacheBelowBestHeight'
  BY DEF Launch, h2hVars, FilesBuried, CacheBelowBestHeight, Cached
<1> QED BY <1>4, <1>5, <1>6, <1>7

\* A step that changes nothing IndInv reads.
LEMMA QuitKeeps ==
    ASSUME IndInv, quit' \in BOOLEAN, UNCHANGED <<best, h2hVars, server, producerVars, disk>>
    PROVE  IndInv'
BY DEF IndInv, TypeOK, LoopsInRange, HeightsKnown, FilesBuried, CacheBelowBestHeight, Cached,
       SealReady, NextEnd, FileStart, h2hVars, producerVars

\* A server that has never run satisfies the invariant.
LEMMA IndInvInit == Init => IndInv
<1> SUFFICES ASSUME Init PROVE IndInv
  OBVIOUS
<1>1. 0 \in Heights /\ 0 \in 0..(MaxHeight + 1) /\ -1 \in -1..MaxHeight /\ 0 \in -1..MaxHeight
  BY BlockAssumption DEF Heights
<1>2. NoEntries \in [Heights -> MaybeBlock] /\ best \in Block /\ Height[best] = 0
  BY DEF Init, BackendInit, NoEntries, MaybeBlock
<1>3. TypeOK
  BY <1>1, <1>2 DEF Init, H2HInit, NoEntries, TypeOK, PcLabels, Stopped, MaybeBlock
<1>4. LoopsInRange
  BY DEF Init, LoopsInRange, Sealing
<1>5. HeightsKnown
  BY <1>2 DEF Init, HeightsKnown
<1>6. FilesBuried /\ CacheBelowBestHeight
  BY DEF Init, H2HInit, NoEntries, FilesBuried, CacheBelowBestHeight, Cached
<1> QED BY <1>3, <1>4, <1>5, <1>6 DEF IndInv

\* Every step of the system keeps the invariant.
LEMMA IndInvStep == IndInv /\ [Next]_vars => IndInv'
<1> SUFFICES ASSUME IndInv, [Next]_vars PROVE IndInv'
  OBVIOUS
<1>1. CASE \E p \in Producer : Step(p) \/ RpcError(p) \/ TipCheckFails(p)
  <2>1. PICK p \in Producer : Step(p) \/ RpcError(p) \/ TipCheckFails(p)
    BY <1>1
  <2>2. CASE LookupHit(p) \/ LookupFetch(p) \/ LookupInsert(p)
    BY <2>2, LookupHitKeeps, LookupFetchKeeps, LookupInsertKeeps
  <2>3. CASE Store(p) \/ BeginSeal(p) \/ NothingToSeal(p) \/ RoundDone(p)
    BY <2>3, StoreKeeps, BeginSealKeeps, NothingToSealKeeps, RoundDoneKeeps
  <2>4. CASE Verify(p) \/ WriteSealedFile(p) \/ Promote(p)
    BY <2>4, VerifyKeeps, WriteSealedFileKeeps, PromoteKeeps
  <2>5. CASE Poll(p) \/ TipReorged(p) \/ TipCheckFails(p) \/ HandleReorg(p)
    BY <2>5, PollKeeps, TipReorgedKeeps, TipCheckFailsKeeps, HandleReorgKeeps
  <2>6. CASE WalkBack(p) \/ DeepReorg(p) \/ Rollback(p) \/ InvalidateCache(p)
    BY <2>6, WalkBackKeeps, DeepReorgKeeps, RollbackKeeps, InvalidateCacheKeeps
  <2>7. CASE Shutdown(p) \/ RpcError(p)
    BY <2>7, ShutdownKeeps, RpcErrorKeeps
  <2> QED BY <2>1, <2>2, <2>3, <2>4, <2>5, <2>6, <2>7 DEF Step
<1>2. CASE \E c \in Caller : CallerFetch(c) \/ CallerInsert(c)
  BY <1>2, CallerFetchKeeps, CallerInsertKeeps
<1>3. CASE ChainMoves /\ UNCHANGED <<h2hVars, server, quit, producerVars, disk>>
  BY <1>3, ChainMovesKeeps
<1>4. CASE StopOnError \/ Interrupt
  BY <1>4, QuitKeeps DEF StopOnError, Interrupt
<1>5. CASE Exit \/ Crash
  BY <1>5, NoProcessKeeps DEF Exit, Crash
<1>6. CASE LoadCache \/ Launch
  BY <1>6, LoadCacheKeeps, LaunchKeeps
<1>7. CASE UNCHANGED vars
  <2>1. quit' \in BOOLEAN
    BY <1>7 DEF IndInv, TypeOK, vars
  <2> QED BY <1>7, <2>1, QuitKeeps DEF vars
<1> QED BY <1>1, <1>2, <1>3, <1>4, <1>5, <1>6, <1>7 DEF Next

\* Type correctness of the producers: whatever the reorgs, no height leaves
\* its range and no map index is out of bounds.
THEOREM TypeCorrect == Spec => []TypeOK
<1>1. IndInv => TypeOK
  BY DEF IndInv
<1> QED BY <1>1, IndInvInit, IndInvStep, PTL DEF Spec

\* invalidate never leaves an entry behind: no cached height is above bestHeight.
THEOREM CacheBounded == Spec => []CacheBelowBestHeight
<1>1. IndInv => CacheBelowBestHeight
  BY DEF IndInv
<1> QED BY <1>1, IndInvInit, IndInvStep, PTL DEF Spec

-----------------------------------------------------------------------------
(* What a step of one goroutine cannot touch. *)

\* A goroutine's step leaves the other goroutines' fields and files alone,
\* and the chain and the process.
LEMMA StepIsLocal ==
    ASSUME TypeOK, NEW p \in Producer, Step(p) \/ RpcError(p) \/ TipCheckFails(p)
    PROVE  /\ UNCHANGED <<best, server>>
           /\ \A q \in Producer \ {p} :
                /\ pc'[q] = pc[q] /\ next'[q] = next[q] /\ target'[q] = target[q]
                /\ current'[q] = current[q] /\ lastSealed'[q] = lastSealed[q]
                /\ mem'[q] = mem[q] /\ at'[q] = at[q] /\ got'[q] = got[q] /\ disk'[q] = disk[q]
<1>1. CASE LookupHit(p) \/ LookupFetch(p) \/ LookupInsert(p)
  BY <1>1 DEF LookupHit, LookupFetch, LookupInsert, ReturnHash, Goto, TypeOK
<1>2. CASE Store(p) \/ BeginSeal(p) \/ NothingToSeal(p) \/ RoundDone(p)
  BY <1>2 DEF Store, BeginSeal, NothingToSeal, RoundDone, Goto, TypeOK
<1>3. CASE Verify(p) \/ WriteSealedFile(p) \/ Promote(p)
  BY <1>3 DEF Verify, WriteSealedFile, Promote, Goto, TypeOK
<1>4. CASE Poll(p) \/ TipReorged(p) \/ TipCheckFails(p) \/ HandleReorg(p)
  BY <1>4 DEF Poll, TipReorged, TipCheckFails, HandleReorg, Advance, Goto, TypeOK
<1>5. CASE WalkBack(p) \/ DeepReorg(p) \/ Rollback(p) \/ InvalidateCache(p)
  BY <1>5 DEF WalkBack, DeepReorg, Rollback, InvalidateCache, Advance, Goto, TypeOK
<1>6. CASE Shutdown(p) \/ RpcError(p)
  BY <1>6 DEF Shutdown, RpcError, Goto, TypeOK
<1> QED BY <1>1, <1>2, <1>3, <1>4, <1>5, <1>6 DEF Step

\* A goroutine writes files only in WriteSealedFile.
LEMMA OnlySealsWrite ==
    ASSUME NEW p \in Producer, Step(p) \/ RpcError(p) \/ TipCheckFails(p), ~WriteSealedFile(p)
    PROVE  disk' = disk
BY DEF Step, LookupHit, LookupFetch, LookupInsert, Store, BeginSeal, NothingToSeal, Verify,
       Promote, RoundDone, Poll, TipReorged, HandleReorg, WalkBack, DeepReorg, Rollback,
       InvalidateCache, Shutdown, RpcError, TipCheckFails

\* Only verify leads a filter or header producer to the writing of a file.
LEMMA OnlyVerifyLeadsToWrite ==
    ASSUME TypeOK, NEW p \in {"header", "filter"}, p \in Producer,
           Step(p) \/ RpcError(p) \/ TipCheckFails(p), ~Verify(p), ~WriteSealedFile(p)
    PROVE  disk' = disk /\ pc'[p] # "write"
<1>1. disk' = disk
  BY OnlySealsWrite
<1>2. CASE LookupHit(p) \/ LookupFetch(p) \/ LookupInsert(p)
  BY <1>2
  DEF LookupHit, LookupFetch, LookupInsert, ReturnHash, Goto, StartsLookup, InLookup, Looping, TypeOK
<1>3. CASE Store(p) \/ BeginSeal(p) \/ NothingToSeal(p) \/ RoundDone(p) \/ Promote(p)
  BY <1>3 DEF Store, BeginSeal, NothingToSeal, RoundDone, Promote, Goto, TypeOK
<1>4. CASE Poll(p) \/ TipReorged(p) \/ TipCheckFails(p) \/ HandleReorg(p)
  BY <1>4 DEF Poll, TipReorged, TipCheckFails, HandleReorg, Advance, Goto, TypeOK
<1>5. CASE WalkBack(p) \/ DeepReorg(p) \/ Rollback(p) \/ InvalidateCache(p)
  BY <1>5 DEF WalkBack, DeepReorg, Rollback, InvalidateCache, Advance, Goto, TypeOK
<1>6. CASE Shutdown(p) \/ RpcError(p)
  BY <1>6 DEF Shutdown, RpcError, Goto, TypeOK
<1> QED BY <1>1, <1>2, <1>3, <1>4, <1>5, <1>6 DEF Step

-----------------------------------------------------------------------------
(* Sealed headers are on the best chain. *)

\* A reorg no deeper than ReOrgSafeDepth leaves the sealed and the verified
\* headers alone.
LEMMA ReorgKeepsHeaders ==
    ASSUME IndInv, HeaderInv, MaxReorg <= ReOrgSafeDepth,
           ChainMoves, UNCHANGED <<pc, mem, lastSealed, disk>>
    PROVE  HeaderInv'
<1> USE DEF IndInv
<1>1. "header" \in Producer /\ ReOrgSafeDepth \in Nat /\ MaxReorg \in Nat
      /\ Height[best] \in 0..MaxHeight /\ MaxHeight \in Nat
  BY ProducerAssumption, BlockAssumption DEF TypeOK, Heights
<1>2. \A h \in Heights : h + ReOrgSafeDepth <= Height[best] => Anc[best'][h] = Anc[best][h]
  <2>1. \A h \in 0..(Height[best] - MaxReorg) : Anc[best'][h] = Anc[best][h]
    BY DEF ChainMoves
  <2>2. \A h \in Heights : h + ReOrgSafeDepth <= Height[best] => h \in 0..(Height[best] - MaxReorg)
    BY <1>1 DEF Heights
  <2> QED BY <2>1, <2>2
<1>3. HeaderFilesOnBestChain'
  BY <1>1, <1>2 DEF HeaderInv, HeaderFilesOnBestChain, FilesBuried, GetBlockHash
<1>4. ASSUME pc["header"] = "write", NEW h \in FileRange("header")
      PROVE  mem["header"][h] = Anc[best'][h]
  <2>1. NextEnd("header") + ReOrgSafeDepth <= current["header"] /\ NextEnd("header") \in Heights
        /\ FileStart("header") \in Nat
    BY <1>1, <1>4, FileBounds DEF LoopsInRange, Sealing
  <2>2. current["header"] <= Height[best] /\ current["header"] \in 0..MaxHeight
    BY <1>1, PointTypes DEF HeightsKnown
  <2>3. h \in Heights /\ h + ReOrgSafeDepth <= Height[best]
    BY <1>1, <2>1, <2>2 DEF FileRange, Heights
  <2> QED BY <1>2, <1>4, <2>3 DEF HeaderInv, GetBlockHash
<1> QED BY <1>3, <1>4 DEF HeaderInv, FileRange, FileStart, NextEnd, GetBlockHash

\* verifyHeaders lets only headers of the best chain through.
LEMMA VerifyKeepsHeaders ==
    ASSUME IndInv, HeaderInv, Verify("header")
    PROVE  HeaderInv'
<1> USE DEF IndInv
<1>1. "header" \in Producer /\ best \in Block
  BY ProducerAssumption DEF TypeOK
<1> DEFINE s == FileStart("header")
           e == NextEnd("header")
<1>2. s \in Nat /\ e \in Nat /\ e + ReOrgSafeDepth <= current["header"]
  BY <1>1, FileBounds DEF Verify, LoopsInRange, Sealing
<1>3. e <= Height[best]
  BY <1>1, <1>2, PointTypes DEF HeightsKnown
<1>4. ASSUME HeadersVerified("header")
      PROVE  \A h \in FileRange("header") : mem["header"][h] = GetBlockHash(h)
  <2>1. mem["header"][e] = Anc[best][e]
    BY <1>4 DEF HeadersVerified, GetBlockHash
  <2>2. \A h \in s..e : h > s => PrevBlock(mem["header"][h]) = mem["header"][h - 1]
    BY <1>4 DEF HeadersVerified, FileRange
  <2>3. \A h \in s..e : mem["header"][h] = Anc[best][h]
    <3> HIDE DEF s, e
    <3> QED BY <1>1, <1>2, <1>3, <2>1, <2>2, LinkedHeaders
  <2> QED BY <2>3 DEF FileRange, GetBlockHash
<1>5. pc'["header"] = "write" => HeadersVerified("header")
  BY <1>1 DEF Verify, Goto, Verified, TypeOK
<1>6. UNCHANGED <<mem, lastSealed, disk, best>>
  BY DEF Verify
<1> QED BY <1>4, <1>5, <1>6
  DEF HeaderInv, HeaderFilesOnBestChain, FileRange, FileStart, NextEnd, GetBlockHash

\* What is verified is what is written.
LEMMA WriteKeepsHeaders ==
    ASSUME IndInv, HeaderInv, WriteSealedFile("header")
    PROVE  HeaderInv'
<1> USE DEF IndInv
<1>1. "header" \in Producer
  BY ProducerAssumption
<1>2. pc'["header"] # "write" /\ best' = best /\ pc["header"] = "write"
  BY <1>1 DEF WriteSealedFile, Goto, TypeOK
<1>3. \A h \in Heights : disk'["header"][h] = IF h \in FileRange("header")
                                                THEN mem["header"][h] ELSE disk["header"][h]
  BY <1>1 DEF WriteSealedFile, TypeOK
<1> QED BY <1>2, <1>3 DEF HeaderInv, HeaderFilesOnBestChain, GetBlockHash

\* A step that neither writes a header file nor leads to the writing of one.
LEMMA OthersKeepHeaders ==
    ASSUME HeaderInv, UNCHANGED best,
           disk'["header"] = disk["header"],
           \/ pc'["header"] # "write"
           \/ pc'["header"] = pc["header"] /\ mem'["header"] = mem["header"]
              /\ lastSealed'["header"] = lastSealed["header"]
    PROVE  HeaderInv'
BY DEF HeaderInv, HeaderFilesOnBestChain, FileRange, FileStart, NextEnd, GetBlockHash

\* With reorgs of at most ReOrgSafeDepth blocks every step keeps the sealed and
\* the verified headers on the best chain.
LEMMA HeaderInvStep ==
    MaxReorg <= ReOrgSafeDepth => (IndInv /\ HeaderInv /\ [Next]_vars => HeaderInv')
<1> SUFFICES ASSUME MaxReorg <= ReOrgSafeDepth, IndInv, HeaderInv, [Next]_vars
             PROVE  HeaderInv'
  OBVIOUS
<1> USE DEF IndInv
<1>0. "header" \in Producer
  BY ProducerAssumption
<1>1. CASE \E p \in Producer : Step(p) \/ RpcError(p) \/ TipCheckFails(p)
  <2>1. PICK p \in Producer : Step(p) \/ RpcError(p) \/ TipCheckFails(p)
    BY <1>1
  <2>2. CASE p = "header" /\ (Verify(p) \/ WriteSealedFile(p))
    BY <2>2, VerifyKeepsHeaders, WriteKeepsHeaders
  <2>3. CASE p = "header" /\ ~Verify(p) /\ ~WriteSealedFile(p)
    BY <2>1, <2>3, StepIsLocal, OnlyVerifyLeadsToWrite, OthersKeepHeaders
  <2>4. CASE p # "header"
    BY <1>0, <2>1, <2>4, StepIsLocal, OthersKeepHeaders
  <2> QED BY <2>1, <2>2, <2>3, <2>4
<1>2. CASE \E c \in Caller : CallerFetch(c) \/ CallerInsert(c)
  BY <1>2, OthersKeepHeaders DEF CallerFetch, CallerInsert
<1>3. CASE ChainMoves /\ UNCHANGED <<h2hVars, server, quit, producerVars, disk>>
  BY <1>3, ReorgKeepsHeaders DEF producerVars
<1>4. CASE StopOnError \/ Interrupt
  BY <1>4, OthersKeepHeaders DEF StopOnError, Interrupt, producerVars
<1>5. CASE Exit \/ Crash
  BY <1>0, <1>5, OthersKeepHeaders DEF Exit, Crash, NoProcess
<1>6. CASE LoadCache \/ Launch
  BY <1>0, <1>6, OthersKeepHeaders DEF LoadCache, Launch, producerVars
<1>7. CASE UNCHANGED vars
  BY <1>7, OthersKeepHeaders DEF vars, producerVars
<1> QED BY <1>1, <1>2, <1>3, <1>4, <1>5, <1>6, <1>7 DEF Next

\* As long as no reorg is deeper than ReOrgSafeDepth, every header in a
\* sealed file is on the best chain for ever, whatever stale hashes the
\* shared cache held while the file was being put together.
THEOREM SealedHeadersOnBestChain ==
    ASSUME MaxReorg <= ReOrgSafeDepth
    PROVE  Spec => []HeaderFilesOnBestChain
<1>1. Init => HeaderInv
  <2>1. "header" \in Producer
    BY ProducerAssumption
  <2> QED BY <2>1 DEF Init, NoEntries, HeaderInv, HeaderFilesOnBestChain
<1>2. IndInv /\ HeaderInv /\ [Next]_vars => HeaderInv'
  BY HeaderInvStep
<1>3. HeaderInv => HeaderFilesOnBestChain
  BY DEF HeaderInv
<1> QED BY <1>1, <1>2, <1>3, IndInvInit, IndInvStep, PTL DEF Spec

-----------------------------------------------------------------------------
(* What a producer holds: its files up to lastSealedHeight, its memory above. *)

\* The file to be sealed next starts right above the last one.
LEMMA FileAboveSealed ==
    ASSUME TypeOK, NEW p \in Producer
    PROVE  NextEnd(p) = lastSealed[p] + EntriesPerFile[p] /\ FileStart(p) = lastSealed[p] + 1
<1>1. lastSealed[p] \in -1..MaxHeight /\ MaxHeight \in Nat /\ EntriesPerFile[p] \in Nat
  BY PointTypes, ProducerAssumption
<1> QED BY <1>1 DEF NextEnd, FileStart

\* The invariants of a producer read its own fields and the process state only.
LEMMA OthersKeepData ==
    ASSUME NEW p \in Producer, DataInv(p), HashInv(p), server' = server,
           pc'[p] = pc[p], next'[p] = next[p], target'[p] = target[p],
           current'[p] = current[p], lastSealed'[p] = lastSealed[p],
           mem'[p] = mem[p], got'[p] = got[p], disk'[p] = disk[p]
    PROVE  DataInv(p)' /\ HashInv(p)'
<1>1. DataInv(p)'
  BY DEF DataInv, FilesWhole, SealedTop, Tip, NextEnd
<1>2. HashInv(p)'
  BY DEF HashInv, InLookup, Looping, Wanted, FileStart, NextEnd
<1> QED BY <1>1, <1>2

\* A step that neither moves what the producer holds nor the tip of it.
LEMMA SameTipKeepsData ==
    ASSUME TypeOK, NEW p \in Producer, DataInv(p), server' = server,
           disk'[p] = disk[p], lastSealed'[p] = lastSealed[p], mem'[p] = mem[p],
           pc[p] \notin Stopped, pc[p] # "promote", pc'[p] # "promote",
           pc'[p] \notin Stopped =>
              /\ Tip(p)' = Tip(p)
              /\ pc'[p] \in {"ingest", "store"} /\ next'[p] > 0 => current'[p] = next'[p] - 1
    PROVE  DataInv(p)'
<1>1. server = "up"
  BY DEF DataInv, Stopped
<1>2. FilesWhole(p)'
  BY DEF DataInv, FilesWhole
<1>3. SealedTop(p)' = SealedTop(p)
  BY DEF SealedTop
<1> QED BY <1>1, <1>2, <1>3 DEF DataInv

\* Only a process that is up has running goroutines.
LEMMA RunningMeansUp ==
    ASSUME NEW p \in Producer, DataInv(p), pc[p] \notin Stopped
    PROVE  server = "up"
BY DEF DataInv, Stopped

\* The memory of a running producer is exactly what is between the two.
LEMMA MemoryRange ==
    ASSUME TypeOK, NEW p \in Producer, DataInv(p), pc[p] \notin Stopped
    PROVE  \A h \in Heights : mem[p][h] # NoBlock <=> lastSealed[p] < h /\ h <= Tip(p)
<1>1. server = "up"
  BY RunningMeansUp
<1>2. lastSealed[p] \in Int /\ (\A k \in Heights : k \in Int)
  BY PointTypes DEF Heights
<1>3. \A h \in Heights : mem[p][h] # NoBlock => h > lastSealed[p] /\ h <= Tip(p)
  BY <1>1 DEF DataInv
<1>4. \A h \in Heights : lastSealed[p] < h /\ h <= Tip(p) => mem[p][h] # NoBlock
  BY <1>1 DEF DataInv
<1> QED BY <1>2, <1>3, <1>4

\* getBlockHash moves the program counter of its caller only.
LEMMA LookupKeepsData ==
    ASSUME IndInv, NEW p \in Producer, DataInv(p),
           LookupHit(p) \/ LookupFetch(p) \/ LookupInsert(p)
    PROVE  DataInv(p)'
<1> USE DEF IndInv
<1>1. pc[p] \in {"ingest", "startAnchor", "endAnchor"}
  BY DEF LookupHit, LookupFetch, LookupInsert, StartsLookup, InLookup, Looping
<1>2. pc[p] \notin Stopped /\ pc[p] # "promote"
  BY <1>1 DEF Stopped, Failed
<1>3. UNCHANGED <<server, disk, lastSealed, mem, next, current>>
  BY DEF LookupHit, LookupFetch, LookupInsert
<1>4. IF pc[p] = "ingest" THEN pc'[p] \in {"ingest", "store"}
                          ELSE pc'[p] \in {"startAnchor", "endAnchor", "verify"}
  BY <1>1 DEF LookupHit, LookupFetch, LookupInsert, ReturnHash, Goto, TypeOK
<1>5. Tip(p)' = Tip(p) /\ pc'[p] # "promote"
  BY <1>1, <1>3, <1>4 DEF Tip
<1>6. server = "up"
  BY <1>2, RunningMeansUp
<1>7. pc'[p] \in {"ingest", "store"} /\ next'[p] > 0 => current'[p] = next'[p] - 1
  BY <1>1, <1>2, <1>3, <1>4, <1>6 DEF DataInv
<1> QED BY <1>2, <1>3, <1>5, <1>7, SameTipKeepsData

\* The ingest hook stores the entry above the producer's tip.
LEMMA StoreKeepsData ==
    ASSUME IndInv, NEW p \in Producer, DataInv(p), HashInv(p), Store(p)
    PROVE  DataInv(p)'
<1> USE DEF IndInv
<1>1. /\ pc[p] = "store" /\ pc'[p] = "seal" /\ current'[p] = next[p] /\ next'[p] = next[p]
      /\ UNCHANGED <<server, lastSealed, disk>>
  BY DEF Store, Goto, TypeOK
<1>2. next[p] \in Heights /\ got[p] # NoBlock
  BY <1>1, PointTypes DEF LoopsInRange, HashInv, Heights
<1>3. \A h \in Heights : mem'[p][h] = IF h = next[p] THEN got[p] ELSE mem[p][h]
  BY <1>2 DEF Store, TypeOK
<1>4. server = "up"
  BY <1>1, RunningMeansUp DEF Stopped, Failed
<1>5. lastSealed[p] \in Int /\ next[p] \in Int /\ (\A k \in Heights : k \in Int)
  BY PointTypes, <1>2 DEF Heights
<1>6. Tip(p) = next[p] - 1 /\ Tip(p)' = next[p] /\ SealedTop(p)' = lastSealed[p] /\ SealedTop(p) = lastSealed[p]
  BY <1>1 DEF Tip, SealedTop
<1>7. lastSealed[p] <= next[p] - 1 /\ pc[p] \notin Stopped
  BY <1>1, <1>4, <1>6 DEF DataInv, Stopped, Failed
<1>8. FilesWhole(p)'
  BY <1>1 DEF DataInv, FilesWhole
<1>9. \A h \in Heights : mem[p][h] # NoBlock <=> lastSealed[p] < h /\ h <= next[p] - 1
  BY <1>6, <1>7, MemoryRange
<1>10. \A h \in Heights : mem'[p][h] # NoBlock <=> lastSealed[p] < h /\ h <= next[p]
  <2> SUFFICES ASSUME NEW h \in Heights
               PROVE  mem'[p][h] # NoBlock <=> lastSealed[p] < h /\ h <= next[p]
    OBVIOUS
  <2>1. CASE h = next[p]
    BY <1>2, <1>3, <1>5, <1>7, <2>1
  <2>2. CASE h # next[p]
    <3>1. mem'[p][h] = mem[p][h]
      BY <1>3, <2>2
    <3>2. h <= next[p] <=> h <= next[p] - 1
      BY <1>5, <2>2
    <3> QED BY <1>9, <3>1, <3>2
  <2> QED BY <2>1, <2>2
<1> QED BY <1>1, <1>4, <1>5, <1>6, <1>7, <1>8, <1>10 DEF DataInv

\* Deciding whether to seal, verifying, and leaving the loop move no entry.
LEMMA LoopKeepsData ==
    ASSUME IndInv, NEW p \in Producer, DataInv(p),
           BeginSeal(p) \/ NothingToSeal(p) \/ Verify(p) \/ RoundDone(p)
    PROVE  DataInv(p)'
<1> USE DEF IndInv
<1>1. pc[p] \in {"seal", "verify", "ingest"}
  BY DEF BeginSeal, NothingToSeal, Verify, RoundDone
<1>2. pc[p] \notin Stopped /\ pc[p] # "promote"
  BY <1>1 DEF Stopped, Failed
<1>3. UNCHANGED <<server, disk, lastSealed, mem, current>>
  BY DEF BeginSeal, NothingToSeal, Verify, RoundDone
<1>4. server = "up"
  BY <1>2, RunningMeansUp
<1>5. next[p] \in Nat /\ current[p] \in Nat /\ target[p] \in Nat
  BY PointTypes
<1>6. CASE BeginSeal(p)
  <2>1. pc[p] = "seal" /\ pc'[p] \in {"startAnchor", "endAnchor", "verify", "write"}
    BY <1>6 DEF BeginSeal, Goto, TypeOK
  <2>2. Tip(p)' = Tip(p)
    BY <1>3, <2>1 DEF Tip
  <2> QED BY <1>2, <1>3, <2>1, <2>2, SameTipKeepsData
<1>7. CASE NothingToSeal(p)
  <2>1. pc[p] = "seal" /\ pc'[p] = "ingest" /\ next'[p] = next[p] + 1
    BY <1>7 DEF NothingToSeal, Goto, TypeOK
  <2>2. next[p] = current[p]
    BY <2>1 DEF LoopsInRange
  <2>3. Tip(p)' = Tip(p) /\ current'[p] = next'[p] - 1
    BY <1>3, <1>5, <2>1, <2>2 DEF Tip
  <2> QED BY <1>2, <1>3, <2>1, <2>3, SameTipKeepsData
<1>8. CASE Verify(p)
  <2>1. pc[p] = "verify" /\ pc'[p] \in {"write", "refused"}
    BY <1>8 DEF Verify, Goto, TypeOK
  <2>2. Tip(p)' = Tip(p)
    BY <1>3, <2>1 DEF Tip
  <2> QED BY <1>2, <1>3, <2>1, <2>2, SameTipKeepsData
<1>9. CASE RoundDone(p)
  <2>1. pc[p] = "ingest" /\ pc'[p] = "poll" /\ next[p] > target[p]
    BY <1>9 DEF RoundDone, Goto, TypeOK
  <2>2. current[p] = next[p] - 1
    BY <1>2, <1>4, <1>5, <2>1 DEF DataInv
  <2>3. Tip(p)' = Tip(p)
    BY <1>3, <2>1, <2>2 DEF Tip
  <2> QED BY <1>2, <1>3, <2>1, <2>3, SameTipKeepsData
<1> QED BY <1>6, <1>7, <1>8, <1>9

\* writeSealedFile writes the file right above the last one, in full.
LEMMA WriteKeepsData ==
    ASSUME IndInv, NEW p \in Producer, DataInv(p), WriteSealedFile(p)
    PROVE  DataInv(p)'
<1> USE DEF IndInv
<1> DEFINE n == EntriesPerFile[p]
           s == lastSealed[p]
           e == NextEnd(p)
<1>1. /\ pc[p] = "write" /\ pc'[p] = "promote"
      /\ UNCHANGED <<server, lastSealed, mem, current, next>>
  BY DEF WriteSealedFile, Goto, TypeOK
<1>2. \A h \in Heights : disk'[p][h] = IF h \in FileRange(p) THEN mem[p][h] ELSE disk[p][h]
  BY DEF WriteSealedFile, TypeOK
<1>3. server = "up" /\ pc[p] \notin Stopped
  BY <1>1, RunningMeansUp DEF Stopped, Failed
<1>4. /\ s \in Int /\ s >= -1 /\ n \in Nat \ {0} /\ e = s + n /\ FileRange(p) = (s + 1)..e
      /\ (\A k \in Heights : k \in Int) /\ Heights = 0..MaxHeight /\ MaxHeight \in Nat
  BY PointTypes, FileAboveSealed, ProducerAssumption DEF FileRange, Heights
<1>5. e \in Heights /\ e <= current[p] /\ current[p] \in Int
  BY <1>1, FileBounds, PointTypes DEF LoopsInRange, Sealing
<1>6. Tip(p) = current[p] /\ Tip(p)' = current[p] /\ SealedTop(p) = s /\ SealedTop(p)' = e
  BY <1>1 DEF Tip, SealedTop, NextEnd
<1>7. \A h \in Heights : h \in FileRange(p) => mem[p][h] # NoBlock
  BY <1>3, <1>4, <1>5, <1>6 DEF DataInv
<1>8. \A h \in Heights : disk[p][h] # NoBlock <=> h <= s
  BY <1>3, <1>6 DEF DataInv
<1>9. \A h \in Heights : disk'[p][h] # NoBlock <=> h <= e
  BY <1>2, <1>4, <1>7, <1>8
<1>10. (s + 1) % n = 0
  BY <1>3 DEF DataInv
<1>11. (e + 1) % n = 0
  <2>1. (s + 1 + n) % n = 0
    BY <1>4, <1>10, NextMultiple
  <2> QED BY <1>4, <2>1
<1>12. FilesWhole(p)'
  <2> SUFFICES ASSUME NEW h \in Heights, disk'[p][h] # NoBlock
               PROVE  /\ \A k \in 0..h : disk'[p][k] # NoBlock
                      /\ (h + 1) % n # 0 => h < MaxHeight /\ disk'[p][h + 1] # NoBlock
    BY DEF FilesWhole
  <2>1. h <= e
    BY <1>9
  <2>2. \A k \in 0..h : k \in Heights /\ k <= e
    BY <1>4, <1>5, <2>1
  <2>3. ASSUME (h + 1) % n # 0 PROVE h + 1 \in Heights /\ h + 1 <= e
    <3>1. h # e
      BY <1>11, <2>3
    <3> QED BY <1>4, <1>5, <2>1, <3>1
  <2> QED BY <1>4, <1>9, <2>2, <2>3
<1> HIDE DEF n, s, e
<1> QED BY <1>1, <1>3, <1>6, <1>9, <1>10, <1>12 DEF DataInv, n, s, e

\* Prune and promotion: what leaves the memory is what lastSealedHeight covers.
LEMMA PromoteKeepsData ==
    ASSUME IndInv, NEW p \in Producer, DataInv(p), Promote(p)
    PROVE  DataInv(p)'
<1> USE DEF IndInv
<1> DEFINE n == EntriesPerFile[p]
           s == lastSealed[p]
           e == NextEnd(p)
<1>1. /\ pc[p] = "promote" /\ pc'[p] = "seal" /\ lastSealed'[p] = e
      /\ UNCHANGED <<server, current, next, disk>>
  BY DEF Promote, Goto, TypeOK
<1>2. \A h \in Heights : mem'[p][h] = IF s + 1 <= h /\ h <= e THEN NoBlock ELSE mem[p][h]
  BY FileAboveSealed DEF Promote, PruneLocked, TypeOK
<1>3. server = "up" /\ pc[p] \notin Stopped
  BY <1>1, RunningMeansUp DEF Stopped, Failed
<1>4. s \in Int /\ s >= -1 /\ n \in Nat \ {0} /\ e = s + n /\ (\A k \in Heights : k \in Int)
  BY PointTypes, FileAboveSealed, ProducerAssumption DEF Heights
<1>5. e \in Int /\ e <= current[p] /\ current[p] \in Int
  BY <1>1, <1>4, FileBounds, PointTypes DEF LoopsInRange, Sealing
<1>6. Tip(p) = current[p] /\ Tip(p)' = current[p] /\ SealedTop(p) = e /\ SealedTop(p)' = e
  BY <1>1 DEF Tip, SealedTop
<1>7. (e + 1) % n = 0
  <2>1. (s + 1) % n = 0
    BY <1>3 DEF DataInv
  <2>2. (s + 1 + n) % n = 0
    BY <1>4, <2>1, NextMultiple
  <2> QED BY <1>4, <2>2
<1>8. FilesWhole(p)'
  BY <1>1 DEF DataInv, FilesWhole
<1>9. \A h \in Heights : disk'[p][h] # NoBlock <=> h <= e
  BY <1>1, <1>3, <1>6 DEF DataInv
<1>10. \A h \in Heights : mem'[p][h] # NoBlock => h > e /\ h <= current[p]
  BY <1>2, <1>3, <1>4, <1>5, <1>6 DEF DataInv
<1>11. \A h \in Heights : e < h /\ h <= current[p] => mem'[p][h] # NoBlock
  BY <1>2, <1>3, <1>4, <1>5, <1>6 DEF DataInv
<1> HIDE DEF n, s, e
<1> QED BY <1>1, <1>3, <1>5, <1>6, <1>7, <1>8, <1>9, <1>10, <1>11 DEF DataInv, n

\* Polling and comparing hashes move no entry.
LEMMA PollKeepsData ==
    ASSUME IndInv, NEW p \in Producer, DataInv(p),
           \/ Poll(p) \/ TipReorged(p) \/ TipCheckFails(p) \/ HandleReorg(p)
           \/ WalkBack(p) \/ DeepReorg(p) \/ InvalidateCache(p)
    PROVE  DataInv(p)'
<1> USE DEF IndInv
<1>1. pc[p] \in {"poll", "tipCheck", "reorg", "walk", "invalidate"}
  BY DEF Poll, TipReorged, TipCheckFails, HandleReorg, WalkBack, DeepReorg, InvalidateCache
<1>2. pc[p] \notin Stopped /\ pc[p] # "promote"
  BY <1>1 DEF Stopped, Failed
<1>3. UNCHANGED <<server, disk, lastSealed, mem, current>>
  BY DEF Poll, TipReorged, TipCheckFails, HandleReorg, WalkBack, DeepReorg, InvalidateCache, Advance
<1>4. /\ pc'[p] \in {"poll", "tipCheck", "reorg", "walk", "deepReorg", "ingest"}
      /\ pc'[p] = "ingest" => next'[p] = current[p] + 1
  BY <1>1 DEF Poll, TipReorged, TipCheckFails, HandleReorg, WalkBack, DeepReorg,
              InvalidateCache, Advance, Goto, TypeOK
<1>5. current[p] \in Nat
  BY PointTypes
<1>6. Tip(p)' = Tip(p) /\ pc'[p] # "promote"
      /\ (pc'[p] \in {"ingest", "store"} /\ next'[p] > 0 => current'[p] = next'[p] - 1)
  BY <1>1, <1>3, <1>4, <1>5 DEF Tip
<1> QED BY <1>2, <1>3, <1>6, SameTipKeepsData

\* rollback prunes exactly what is above the common ancestor.
LEMMA RollbackKeepsData ==
    ASSUME IndInv, NEW p \in Producer, DataInv(p), Rollback(p)
    PROVE  DataInv(p)'
<1> USE DEF IndInv
<1> DEFINE a == at[p]
           s == lastSealed[p]
<1>1. /\ pc[p] = "walk" /\ pc'[p] = "invalidate" /\ a > s /\ current'[p] = a
      /\ UNCHANGED <<server, lastSealed, disk>>
  BY DEF Rollback, Goto, TypeOK
<1>2. \A h \in Heights : mem'[p][h] = IF a + 1 <= h /\ h <= current[p] THEN NoBlock ELSE mem[p][h]
  BY DEF Rollback, PruneLocked, TypeOK
<1>3. server = "up" /\ pc[p] \notin Stopped
  BY <1>1, RunningMeansUp DEF Stopped, Failed
<1>4. s \in Int /\ a \in Int /\ current[p] \in Int /\ (\A k \in Heights : k \in Int) /\ a <= current[p]
  BY <1>1, PointTypes DEF Heights, LoopsInRange
<1>5. Tip(p) = current[p] /\ Tip(p)' = a /\ SealedTop(p) = s /\ SealedTop(p)' = s
  BY <1>1 DEF Tip, SealedTop
<1>6. FilesWhole(p)'
  BY <1>1 DEF DataInv, FilesWhole
<1>7. \A h \in Heights : mem[p][h] # NoBlock <=> s < h /\ h <= current[p]
  BY <1>3, <1>5, MemoryRange
<1> HIDE DEF a, s
<1>8. \A h \in Heights : mem'[p][h] # NoBlock <=> s < h /\ h <= a
  <2> SUFFICES ASSUME NEW h \in Heights PROVE mem'[p][h] # NoBlock <=> s < h /\ h <= a
    OBVIOUS
  <2>1. CASE h <= a
    BY <1>2, <1>4, <1>7, <2>1
  <2>2. CASE ~ (h <= a)
    <3>1. a + 1 <= h
      BY <1>4, <2>2
    <3>2. mem'[p][h] = NoBlock
      BY <1>2, <1>4, <1>7, <3>1
    <3> QED BY <2>2, <3>2
  <2> QED BY <2>1, <2>2
<1>9. lastSealed'[p] = s /\ s <= a
  BY <1>1, <1>4 DEF s
<1>10. (\A h \in Heights : disk'[p][h] # NoBlock <=> h <= s) /\ (s + 1) % EntriesPerFile[p] = 0
  BY <1>1, <1>3, <1>5 DEF DataInv, s
<1>11. server' = "up" /\ pc'[p] = "invalidate"
  BY <1>1, <1>3
<1> QED BY <1>5, <1>6, <1>8, <1>9, <1>10, <1>11 DEF DataInv

\* A goroutine that returns leaves its fields as they are; the SP tweak
\* producer may have recorded the hash of the height above its tip.
LEMMA ReturnKeepsData ==
    ASSUME IndInv, NEW p \in Producer, DataInv(p), Shutdown(p) \/ RpcError(p)
    PROVE  DataInv(p)'
<1> USE DEF IndInv
<1>1. /\ pc'[p] \in Stopped /\ pc'[p] # "promote"
      /\ UNCHANGED <<server, lastSealed, disk>>
  BY DEF Shutdown, RpcError, Goto, TypeOK, Stopped, Failed
<1>2. pc[p] \in {"poll", "ingest", "startAnchor", "endAnchor", "store", "verify", "reorg", "walk"}
  BY DEF Shutdown, RpcError, StartsLookup, InLookup, Looping
<1>3. pc[p] \notin Stopped /\ pc[p] # "promote"
  BY <1>2 DEF Stopped, Failed
<1>4. CASE mem'[p] = mem[p]
  BY <1>1, <1>3, <1>4, SameTipKeepsData
<1>5. CASE mem'[p] # mem[p]
  <2>1. pc[p] = "store" /\ mem' = [mem EXCEPT ![p][next[p]] = got[p]]
    BY <1>5 DEF Shutdown, RpcError
  <2>2. server = "up"
    BY <1>3, RunningMeansUp
  <2>3. next[p] \in Int /\ lastSealed[p] \in Int /\ (\A k \in Heights : k \in Int)
    BY PointTypes DEF Heights
  <2>4. Tip(p) = next[p] - 1 /\ lastSealed[p] <= Tip(p)
    BY <1>3, <2>1, <2>2 DEF Tip, DataInv
  <2>5. \A h \in Heights : h # next[p] => mem'[p][h] = mem[p][h]
    BY <2>1 DEF TypeOK
  <2>6. \A h \in Heights : mem'[p][h] # NoBlock => h > lastSealed[p]
    BY <2>3, <2>4, <2>5 DEF DataInv
  <2>7. FilesWhole(p)'
    BY <1>1 DEF DataInv, FilesWhole
  <2>8. SealedTop(p)' = SealedTop(p)
    BY <1>1, <1>3 DEF SealedTop
  <2> QED BY <1>1, <2>2, <2>6, <2>7, <2>8 DEF DataInv
<1> QED BY <1>4, <1>5

-----------------------------------------------------------------------------
(* Hashes are where their block's height says: cache, memory and files. *)

\* bitcoind answers a request by height with a block of that height.
LEMMA HashAtHeight ==
    ASSUME NEW b \in Block, NEW h \in Heights, h <= Height[b]
    PROVE  Anc[b][h] \in Block /\ Height[Anc[b][h]] = h
<1>1. h \in 0..Height[b] /\ Anc[b][h] \in Block
  BY BlockAssumption DEF Heights
<1> QED BY <1>1, ChainAssumption

\* A hash that is inserted into the cache goes to its own height.
LEMMA InsertKeepsPlaces ==
    ASSUME TypeOK, CacheInPlace, NEW b \in Block, InsertHash(b)
    PROVE  CacheInPlace'
<1>1. Height[b] \in Heights
  BY BlockAssumption
<1>2. \A h \in Heights : heightToHash'[h] = IF h = Height[b] THEN b ELSE heightToHash[h]
  BY <1>1 DEF InsertHash, TypeOK
<1> QED BY <1>2 DEF CacheInPlace, Cached

\* A goroutine that is not about to use a hash it has obtained.
LEMMA NoHashKeeps ==
    ASSUME NEW p \in Producer, got'[p] = NoBlock, pc'[p] # "store",
           pc'[p] = "verify" => p = "header",
           \A h \in Heights : mem'[p][h] # NoBlock => Height[mem'[p][h]] = h,
           \A h \in Heights : disk'[p][h] # NoBlock => Height[disk'[p][h]] = h
    PROVE  HashInv(p)'
BY DEF HashInv

\* getBlockHash returns a block of the height it was asked for.
LEMMA LookupKeepsHash ==
    ASSUME IndInv, CacheInPlace, NEW p \in Producer, HashInv(p),
           LookupHit(p) \/ LookupFetch(p) \/ LookupInsert(p)
    PROVE  HashInv(p)'
<1> USE DEF IndInv
<1>1. UNCHANGED <<next, target, lastSealed, mem, disk>>
  BY DEF LookupHit, LookupFetch, LookupInsert
<1>2. InLookup(p) /\ Wanted(p) \in Heights /\ Wanted(p) <= Height[best] /\ best \in Block
  BY WantedKnown DEF LookupHit, LookupFetch, LookupInsert, StartsLookup, TypeOK
<1>3. pc[p] \in {"ingest", "startAnchor", "endAnchor"}
  BY <1>2 DEF InLookup, Looping
<1>4. CASE LookupFetch(p)
  <2>1. pc' = pc /\ got'[p] = Anc[best][Wanted(p)]
    BY <1>4 DEF LookupFetch, GetBlockHash, TypeOK
  <2>2. Height[got'[p]] = Wanted(p)
    BY <1>2, <2>1, HashAtHeight
  <2>3. InLookup(p)' /\ Wanted(p)' = Wanted(p)
    BY <1>1, <1>2, <2>1 DEF InLookup, Looping, Wanted, FileStart, NextEnd
  <2> QED BY <1>1, <1>3, <2>1, <2>2, <2>3 DEF HashInv
<1>5. CASE LookupHit(p) \/ LookupInsert(p)
  <2>1. PICK b : ReturnHash(p, b) /\ b # NoBlock /\ Height[b] = Wanted(p)
    <3>1. CASE LookupHit(p)
      BY <1>2, <3>1 DEF LookupHit, Cached, CacheInPlace
    <3>2. CASE LookupInsert(p)
      BY <1>3, <3>2 DEF LookupInsert, HashInv
    <3> QED BY <1>5, <3>1, <3>2
  <2>2. pc'[p] = CASE pc[p] = "ingest"      -> "store"
                   [] pc[p] = "startAnchor" -> "endAnchor"
                   [] pc[p] = "endAnchor"   -> "verify"
    BY <2>1 DEF ReturnHash, Goto, TypeOK
  <2>3. got'[p] = IF pc[p] = "startAnchor" THEN NoBlock ELSE b
    BY <2>1 DEF ReturnHash, TypeOK
  <2>4. NextEnd(p)' = NextEnd(p)
    BY <1>1 DEF NextEnd
  <2>5. CASE pc[p] = "ingest"
    BY <1>1, <2>1, <2>2, <2>3, <2>5 DEF HashInv, Wanted
  <2>6. CASE pc[p] = "startAnchor"
    BY <1>1, <2>2, <2>3, <2>6, NoHashKeeps DEF HashInv
  <2>7. CASE pc[p] = "endAnchor"
    BY <1>1, <2>1, <2>2, <2>3, <2>4, <2>7 DEF HashInv, Wanted
  <2> QED BY <1>3, <2>5, <2>6, <2>7
<1> QED BY <1>4, <1>5

\* The ingest hook stores a block of the height it ingests; the SP tweak
\* producer also does when it fails afterwards.
LEMMA StoreKeepsHash ==
    ASSUME IndInv, NEW p \in Producer, HashInv(p), Store(p) \/ RpcError(p)
    PROVE  HashInv(p)'
<1> USE DEF IndInv
<1>1. UNCHANGED disk /\ got'[p] = NoBlock /\ pc'[p] \in {"seal", "rpcError"}
  BY DEF Store, RpcError, Goto, TypeOK
<1>2. mem' = mem \/ (pc[p] = "store" /\ mem' = [mem EXCEPT ![p][next[p]] = got[p]])
  BY DEF Store, RpcError
<1>3. \A h \in Heights : mem'[p][h] # NoBlock => Height[mem'[p][h]] = h
  BY <1>2 DEF HashInv, TypeOK
<1> QED BY <1>1, <1>3, NoHashKeeps DEF HashInv

\* Outside of getBlockHash, store and verify a producer has no hash in hand.
LEMMA NoHashInHand ==
    ASSUME TypeOK, NEW p \in Producer, HashInv(p), pc[p] \notin {"store", "verify"}, ~InLookup(p)
    PROVE  got[p] = NoBlock
BY DEF HashInv

\* Sealing moves entries from memory to disk, each at its own height.
LEMMA SealKeepsHash ==
    ASSUME IndInv, NEW p \in Producer, HashInv(p),
           \/ BeginSeal(p) \/ NothingToSeal(p) \/ Verify(p) \/ WriteSealedFile(p)
           \/ Promote(p) \/ RoundDone(p)
    PROVE  HashInv(p)'
<1> USE DEF IndInv
<1>1. next[p] \in Int /\ target[p] \in Int
  BY PointTypes
<1>2. Verify(p) \/ got[p] = NoBlock
  BY <1>1, NoHashInHand
  DEF BeginSeal, NothingToSeal, WriteSealedFile, Promote, RoundDone, InLookup, Looping
<1>3. got'[p] = NoBlock
  BY <1>2 DEF BeginSeal, NothingToSeal, Verify, WriteSealedFile, Promote, RoundDone, TypeOK
<1>4. pc'[p] # "store" /\ (pc'[p] = "verify" => p = "header")
  BY DEF BeginSeal, NothingToSeal, Verify, WriteSealedFile, Promote, RoundDone, Goto, TypeOK
<1>5. \A h \in Heights : mem'[p][h] \in {mem[p][h], NoBlock}
  BY DEF BeginSeal, NothingToSeal, Verify, WriteSealedFile, Promote, RoundDone, PruneLocked, TypeOK
<1>6. \A h \in Heights : disk'[p][h] \in {disk[p][h], mem[p][h]}
  BY DEF BeginSeal, NothingToSeal, Verify, WriteSealedFile, Promote, RoundDone, TypeOK
<1> QED BY <1>3, <1>4, <1>5, <1>6, NoHashKeeps DEF HashInv

\* The poll loop prunes entries at most.
LEMMA PollKeepsHash ==
    ASSUME IndInv, NEW p \in Producer, HashInv(p),
           \/ Poll(p) \/ TipReorged(p) \/ TipCheckFails(p) \/ HandleReorg(p)
           \/ WalkBack(p) \/ DeepReorg(p) \/ Rollback(p) \/ InvalidateCache(p) \/ Shutdown(p)
    PROVE  HashInv(p)'
<1> USE DEF IndInv
<1>1. got[p] = NoBlock
  BY NoHashInHand
  DEF Poll, TipReorged, TipCheckFails, HandleReorg, WalkBack, DeepReorg, Rollback,
      InvalidateCache, Shutdown, InLookup, Looping
<1>2. got' = got /\ disk' = disk
  BY DEF Poll, TipReorged, TipCheckFails, HandleReorg, WalkBack, DeepReorg, Rollback,
         InvalidateCache, Shutdown
<1>3. pc'[p] \notin {"store", "verify"}
  BY DEF Poll, TipReorged, TipCheckFails, HandleReorg, WalkBack, DeepReorg, Rollback,
         InvalidateCache, Shutdown, Advance, Goto, TypeOK
<1>4. \A h \in Heights : mem'[p][h] \in {mem[p][h], NoBlock}
  BY DEF Poll, TipReorged, TipCheckFails, HandleReorg, WalkBack, DeepReorg, Rollback,
         InvalidateCache, Shutdown, PruneLocked, TypeOK
<1> QED BY <1>1, <1>2, <1>3, <1>4, NoHashKeeps DEF HashInv

\* No step of a goroutine puts a hash at a height that is not its own.
LEMMA StepKeepsPlaces ==
    ASSUME IndInv, CacheInPlace, NEW p \in Producer, Step(p) \/ RpcError(p) \/ TipCheckFails(p)
    PROVE  CacheInPlace'
<1> USE DEF IndInv
<1>1. CASE LookupInsert(p)
  <2>1. got[p] \in Block
    BY <1>1, PointTypes DEF LookupInsert, MaybeBlock
  <2> QED BY <1>1, <2>1, InsertKeepsPlaces DEF LookupInsert
<1>2. CASE InvalidateCache(p)
  <2>1. \A h \in Heights : heightToHash'[h] \in {heightToHash[h], NoBlock}
    BY <1>2 DEF InvalidateCache, Invalidate
  <2> QED BY <2>1 DEF CacheInPlace, Cached
<1>3. CASE ~LookupInsert(p) /\ ~InvalidateCache(p)
  <2>1. heightToHash' = heightToHash
    BY <1>3
    DEF Step, LookupHit, LookupFetch, Store, BeginSeal, NothingToSeal, Verify, WriteSealedFile,
        Promote, RoundDone, Poll, TipReorged, HandleReorg, WalkBack, DeepReorg, Rollback,
        Shutdown, RpcError, TipCheckFails, h2hVars
  <2> QED BY <2>1 DEF CacheInPlace, Cached
<1> QED BY <1>1, <1>2, <1>3

-----------------------------------------------------------------------------
(* All of it together, for every step of the system. *)

\* A goroutine's step keeps what it and everybody else holds.
LEMMA StepKeepsStore ==
    ASSUME IndInv, StoreInv, NEW p \in Producer, Step(p) \/ RpcError(p) \/ TipCheckFails(p)
    PROVE  StoreInv'
<1>1. DataInv(p) /\ HashInv(p) /\ CacheInPlace
  BY DEF StoreInv
<1>2. CacheInPlace'
  BY <1>1, StepKeepsPlaces
<1>3. DataInv(p)'
  BY <1>1, LookupKeepsData, StoreKeepsData, LoopKeepsData, WriteKeepsData, PromoteKeepsData,
     PollKeepsData, RollbackKeepsData, ReturnKeepsData DEF Step
<1>4. HashInv(p)'
  BY <1>1, LookupKeepsHash, StoreKeepsHash, SealKeepsHash, PollKeepsHash DEF Step
<1>5. ASSUME NEW q \in Producer \ {p} PROVE DataInv(q)' /\ HashInv(q)'
  <2>1. DataInv(q) /\ HashInv(q)
    BY DEF StoreInv
  <2> QED BY <2>1, StepIsLocal, OthersKeepData DEF IndInv
<1> QED BY <1>2, <1>3, <1>4, <1>5 DEF StoreInv

\* A process that ends leaves its files, whole ones.
LEMMA NoProcessKeepsStore ==
    ASSUME TypeOK, StoreInv, NoProcess, UNCHANGED disk
    PROVE  StoreInv'
<1>1. CacheInPlace'
  BY DEF NoProcess, NoEntries, CacheInPlace, Cached
<1>2. ASSUME NEW p \in Producer PROVE DataInv(p)' /\ HashInv(p)'
  <2>1. /\ server' = "down" /\ pc'[p] = "shutdown" /\ mem'[p] = NoEntries /\ got'[p] = NoBlock
        /\ \A h \in Heights : mem'[p][h] = NoBlock
    BY DEF NoProcess, NoEntries
  <2>2. FilesWhole(p)'
    BY DEF StoreInv, DataInv, FilesWhole
  <2>3. DataInv(p)'
    BY <2>1, <2>2 DEF DataInv
  <2>4. \A h \in Heights : disk'[p][h] # NoBlock => Height[disk'[p][h]] = h
    BY DEF StoreInv, HashInv
  <2> QED BY <2>1, <2>3, <2>4, NoHashKeeps
<1> QED BY <1>1, <1>2 DEF StoreInv

\* start reads the header files into the cache.
LEMMA LoadCacheKeepsStore ==
    ASSUME IndInv, StoreInv, LoadCache
    PROVE  StoreInv'
<1>1. "header" \in Producer
  BY ProducerAssumption
<1>2. CacheInPlace'
  <2>1. heightToHash' \in {heightToHash, disk["header"]}
    BY DEF LoadCache, LoadFromHeaders, h2hVars
  <2> QED BY <1>1, <2>1 DEF StoreInv, HashInv, CacheInPlace, Cached
<1>3. UNCHANGED <<producerVars, disk>> /\ server # "up" /\ server' # "up"
  BY DEF LoadCache, h2hVars
<1>4. ASSUME NEW p \in Producer PROVE DataInv(p)'
  <2>1. DataInv(p)
    BY DEF StoreInv
  <2>2. FilesWhole(p)'
    BY <1>3, <2>1 DEF DataInv, FilesWhole
  <2> QED BY <1>3, <2>1, <2>2 DEF DataInv, producerVars
<1>5. ASSUME NEW p \in Producer PROVE HashInv(p)'
  BY <1>3 DEF StoreInv, HashInv, InLookup, Looping, Wanted, FileStart, NextEnd, producerVars
<1> QED BY <1>2, <1>4, <1>5 DEF StoreInv

\* updateFiles resumes right behind the last file: a file that is there is
\* there in full, so the last height on disk is the end of a file.  (A file
\* of one entry would end at height 0, which lastFile also answers for "none".)
LEMMA LaunchKeepsStore ==
    ASSUME IndInv, StoreInv, Launch, \A p \in Producer : EntriesPerFile[p] > 1
    PROVE  StoreInv'
<1> USE DEF IndInv
<1>1. CacheInPlace'
  BY DEF Launch, h2hVars, StoreInv, CacheInPlace, Cached
<1>2. ASSUME NEW p \in Producer PROVE DataInv(p)' /\ HashInv(p)'
  <2> DEFINE L == IF LastFile(p) > 0 THEN LastFile(p) ELSE -1
             n == EntriesPerFile[p]
  <2>1. /\ FilesWhole(p) /\ mem[p] = NoEntries /\ HashInv(p) /\ pc[p] = "shutdown"
        /\ \A h \in Heights : mem[p][h] = NoBlock
    BY DEF StoreInv, DataInv, Launch, NoEntries
  <2>2. /\ server' = "up" /\ pc'[p] = "ingest" /\ UNCHANGED <<mem, disk, got>>
        /\ lastSealed'[p] = L /\ next'[p] = L + 1
        /\ (next'[p] > 0 => current'[p] = L)
    <3>1. LastFile(p) \in Heights /\ Heights \subseteq Nat
      BY LastFileIsLast DEF Heights
    <3> QED BY <3>1 DEF Launch
  <2>3. got[p] = NoBlock
    BY <2>1, NoHashInHand DEF InLookup, Looping
  <2>4. HashInv(p)'
    BY <2>1, <2>2, <2>3, NoHashKeeps DEF HashInv
  <2>5. n \in Nat /\ n > 1 /\ Heights = 0..MaxHeight /\ MaxHeight \in Nat
    BY ProducerAssumption, BlockAssumption DEF Heights
  <2>6. (\A h \in Heights : disk[p][h] # NoBlock <=> h <= L) /\ (L + 1) % n = 0
    <3>1. CASE \A h \in Heights : disk[p][h] = NoBlock
      <4>1. LastFile(p) = 0
        BY <3>1 DEF LastFile
      <4>2. 0 % n = 0
        BY <2>5
      <4> QED BY <2>5, <3>1, <4>1, <4>2
    <3>2. CASE \E h \in Heights : disk[p][h] # NoBlock
      <4> DEFINE l == LastFile(p)
      <4>1. l \in Heights /\ disk[p][l] # NoBlock /\ \A h \in Heights : disk[p][h] # NoBlock => h <= l
        BY <3>2, LastFileIsLast
      <4> HIDE DEF l
      <4>2. \A k \in 0..l : disk[p][k] # NoBlock
        BY <2>1, <4>1 DEF FilesWhole
      <4>3. (l + 1) % n = 0
        <5>1. ASSUME (l + 1) % n # 0 PROVE FALSE
          <6>1. l < MaxHeight /\ disk[p][l + 1] # NoBlock
            BY <2>1, <4>1, <5>1 DEF FilesWhole
          <6>2. l + 1 \in Heights /\ ~ (l + 1 <= l)
            BY <2>5, <4>1, <6>1
          <6> QED BY <4>1, <6>1, <6>2
        <5> QED BY <5>1
      <4>4. l # 0
        BY <2>5, <4>3
      <4>5. L = l
        BY <2>5, <4>1, <4>4 DEF l
      <4>6. \A h \in Heights : h <= l => h \in 0..l
        BY <2>5, <4>1
      <4> QED BY <4>1, <4>2, <4>3, <4>5, <4>6
    <3> QED BY <3>1, <3>2
  <2>7. FilesWhole(p)'
    BY <2>1, <2>2 DEF FilesWhole
  <2>8. L \in Int /\ Tip(p)' = L /\ SealedTop(p)' = L
    <3>1. LastFile(p) \in Int
      BY LastFileIsLast, <2>5
    <3> QED BY <2>2, <3>1 DEF Tip, SealedTop
  <2> HIDE DEF L, n
  <2>9. \A h \in Heights : ~ (L < h /\ h <= L)
    BY <2>5, <2>8
  <2>10. DataInv(p)'
    BY <2>1, <2>2, <2>6, <2>7, <2>8, <2>9 DEF DataInv, n
  <2> QED BY <2>4, <2>10
<1> QED BY <1>1, <1>2 DEF StoreInv

\* A step that changes nothing StoreInv reads: the chain, quit.
LEMMA NobodyKeepsStore ==
    ASSUME StoreInv, UNCHANGED <<h2hVars, server, producerVars, disk>>
    PROVE  StoreInv'
<1>1. CacheInPlace'
  BY DEF StoreInv, CacheInPlace, Cached, h2hVars
<1>2. ASSUME NEW p \in Producer PROVE DataInv(p)' /\ HashInv(p)'
  BY OthersKeepData DEF StoreInv, producerVars
<1> QED BY <1>1, <1>2 DEF StoreInv

\* A request handler fetches and inserts hashes, nothing else.
LEMMA CallerKeepsStore ==
    ASSUME IndInv, StoreInv, NEW c \in Caller, CallerFetch(c) \/ CallerInsert(c)
    PROVE  StoreInv'
<1> USE DEF IndInv
<1>1. CacheInPlace'
  <2>1. CASE CallerFetch(c)
    BY <2>1 DEF CallerFetch, StoreInv, CacheInPlace, Cached, h2hVars
  <2>2. CASE CallerInsert(c)
    <3>1. got[c] \in Block
      BY <2>2 DEF CallerInsert, TypeOK, MaybeBlock
    <3> QED BY <2>2, <3>1, InsertKeepsPlaces DEF CallerInsert, StoreInv
  <2> QED BY <2>1, <2>2
<1>2. ASSUME NEW p \in Producer PROVE DataInv(p)' /\ HashInv(p)'
  <2>1. p # c
    BY ProducerAssumption
  <2>2. got'[p] = got[p]
    BY <2>1 DEF CallerFetch, CallerInsert, TypeOK
  <2>3. DataInv(p) /\ HashInv(p)
    BY DEF StoreInv
  <2> QED BY <2>2, <2>3, OthersKeepData DEF CallerFetch, CallerInsert
<1> QED BY <1>1, <1>2 DEF StoreInv

\* A server that has never run holds nothing.
LEMMA StoreInvInit == Init => StoreInv
<1> SUFFICES ASSUME Init PROVE StoreInv
  OBVIOUS
<1>1. CacheInPlace
  BY DEF Init, H2HInit, CacheInPlace, Cached
<1>2. ASSUME NEW p \in Producer PROVE DataInv(p) /\ HashInv(p)
  <2>1. /\ server = "down" /\ pc[p] = "shutdown" /\ mem[p] = NoEntries /\ got[p] = NoBlock
        /\ \A h \in Heights : mem[p][h] = NoBlock /\ disk[p][h] = NoBlock
    BY DEF Init, NoEntries
  <2> QED BY <2>1 DEF DataInv, FilesWhole, HashInv
<1> QED BY <1>1, <1>2 DEF StoreInv

\* Every step of the system keeps memory, files and cache in order.
LEMMA StoreInvStep ==
    (\A p \in Producer : EntriesPerFile[p] > 1) =>
        (IndInv /\ StoreInv /\ [Next]_vars => StoreInv')
<1> SUFFICES ASSUME \A p \in Producer : EntriesPerFile[p] > 1, IndInv, StoreInv, [Next]_vars
             PROVE  StoreInv'
  OBVIOUS
<1>1. CASE \E p \in Producer : Step(p) \/ RpcError(p) \/ TipCheckFails(p)
  BY <1>1, StepKeepsStore
<1>2. CASE \E c \in Caller : CallerFetch(c) \/ CallerInsert(c)
  BY <1>2, CallerKeepsStore
<1>3. CASE ChainMoves /\ UNCHANGED <<h2hVars, server, quit, producerVars, disk>>
  BY <1>3, NobodyKeepsStore
<1>4. CASE StopOnError \/ Interrupt
  BY <1>4, NobodyKeepsStore DEF StopOnError, Interrupt
<1>5. CASE Exit \/ Crash
  BY <1>5, NoProcessKeepsStore DEF Exit, Crash, IndInv
<1>6. CASE LoadCache \/ Launch
  BY <1>6, LoadCacheKeepsStore, LaunchKeepsStore
<1>7. CASE UNCHANGED vars
  BY <1>7, NobodyKeepsStore DEF vars
<1> QED BY <1>1, <1>2, <1>3, <1>4, <1>5, <1>6, <1>7 DEF Next

-----------------------------------------------------------------------------
(* No gap, no leftover, no second writing. *)

\* pruneLocked and lastSealedHeight move together, whatever happens in between.
THEOREM MemoryAboveSealed ==
    ASSUME \A p \in Producer : EntriesPerFile[p] > 1
    PROVE  Spec => []MemoryIsTail
<1>1. StoreInv => MemoryIsTail
  BY DEF StoreInv, DataInv, MemoryIsTail
<1>2. IndInv /\ StoreInv /\ [Next]_vars => StoreInv'
  BY StoreInvStep
<1> QED BY <1>1, <1>2, IndInvInit, IndInvStep, StoreInvInit, PTL DEF Spec

\* Neither a seal, nor a roll back, nor a crash between any two steps leaves
\* a running producer without an entry up to its height, or with one above it.
THEOREM NoGapNoLeftover ==
    ASSUME \A p \in Producer : EntriesPerFile[p] > 1
    PROVE  Spec => []NothingMissing
<1>1. IndInv /\ StoreInv => NothingMissing
  <2> SUFFICES ASSUME IndInv, StoreInv, NEW p \in Producer,
                      server = "up", pc[p] \notin Stopped, next[p] > 0
               PROVE  Held(p) = 0..current[p]
    BY DEF NothingMissing
  <2> USE DEF IndInv
  <2>1. DataInv(p)
    BY DEF StoreInv
  <2>2. /\ lastSealed[p] \in Int /\ current[p] \in 0..MaxHeight /\ MaxHeight \in Nat
        /\ Heights = 0..MaxHeight
    BY PointTypes DEF Heights
  <2>3. Tip(p) = current[p]
    BY <2>1 DEF DataInv, Tip
  <2>4. \A h \in Heights : mem[p][h] # NoBlock <=> lastSealed[p] < h /\ h <= current[p]
    BY <2>1, <2>3, MemoryRange
  <2>5. \A h \in Heights : disk[p][h] # NoBlock <=> h <= SealedTop(p)
    BY <2>1 DEF DataInv
  <2>6. lastSealed[p] <= SealedTop(p) /\ SealedTop(p) <= current[p] /\ SealedTop(p) \in Int
    <3>1. CASE pc[p] = "promote"
      <4>1. NextEnd(p) \in Nat /\ NextEnd(p) + ReOrgSafeDepth <= current[p] /\ ReOrgSafeDepth \in Nat
        BY <3>1, FileBounds, PointTypes DEF LoopsInRange, Sealing
      <4>2. lastSealed[p] <= NextEnd(p)
        BY <2>2, FileAboveSealed, ProducerAssumption
      <4> QED BY <2>2, <3>1, <4>1, <4>2 DEF SealedTop
    <3>2. CASE pc[p] # "promote"
      BY <2>1, <2>2, <2>3, <3>2 DEF DataInv, SealedTop
    <3> QED BY <3>1, <3>2
  <2>7. \A h \in Heights : (disk[p][h] # NoBlock \/ mem[p][h] # NoBlock) <=> h <= current[p]
    BY <2>2, <2>4, <2>5, <2>6
  <2> QED BY <2>2, <2>7 DEF Held
<1>2. IndInv /\ StoreInv /\ [Next]_vars => StoreInv'
  BY StoreInvStep
<1> QED BY <1>1, <1>2, IndInvInit, IndInvStep, StoreInvInit, PTL DEF Spec

\* The file that is about to be written is above everything on disk.
LEMMA WriteIsFresh ==
    ASSUME IndInv, NEW p \in Producer, DataInv(p), WriteSealedFile(p)
    PROVE  /\ \A h \in Heights : disk[p][h] # NoBlock <=> h < FileStart(p)
           /\ \A h \in Heights : disk'[p][h] = IF h \in FileRange(p) THEN mem[p][h] ELSE disk[p][h]
<1>1. pc[p] = "write" /\ pc[p] \notin Stopped
  BY DEF WriteSealedFile, Stopped, Failed
<1>2. \A h \in Heights : disk[p][h] # NoBlock <=> h <= lastSealed[p]
  BY <1>1, RunningMeansUp DEF DataInv, SealedTop
<1>3. FileStart(p) = lastSealed[p] + 1 /\ lastSealed[p] \in Int /\ (\A k \in Heights : k \in Int)
  BY FileAboveSealed, PointTypes DEF IndInv, Heights
<1>4. \A h \in Heights : h <= lastSealed[p] <=> h < FileStart(p)
  BY <1>3
<1> QED BY <1>2, <1>4 DEF WriteSealedFile, IndInv, TypeOK

\* A sealed file is never rewritten, not even when a restart resumes on
\* another branch or the reorg is deeper than ReOrgSafeDepth.
THEOREM FilesWrittenOnce ==
    ASSUME \A p \in Producer : EntriesPerFile[p] > 1
    PROVE  Spec => SealedFilesImmutable
<1> DEFINE Kept == \A p \in Producer : \A h \in Heights :
                      disk[p][h] # NoBlock => disk'[p][h] = disk[p][h]
<1>1. IndInv /\ StoreInv /\ [Next]_vars => [Kept]_vars
  <2> SUFFICES ASSUME IndInv, StoreInv, Next PROVE Kept
    OBVIOUS
  <2>1. CASE disk' = disk
    BY <2>1
  <2>2. CASE disk' # disk
    <3>1. PICK p \in Producer : WriteSealedFile(p)
      BY <2>2, OnlySealsWrite
      DEF Next, CallerFetch, CallerInsert, StopOnError, Interrupt, Exit, Crash, LoadCache, Launch
    <3>2. \A q \in Producer \ {p} : disk'[q] = disk[q]
      BY <3>1, StepIsLocal DEF IndInv, Step
    <3>3. \A h \in Heights : disk[p][h] # NoBlock => disk'[p][h] = disk[p][h]
      <4>1. FileStart(p) \in Int /\ NextEnd(p) \in Int /\ (\A k \in Heights : k \in Int)
        BY FileBounds DEF IndInv, Heights
      <4> QED BY <3>1, <4>1, WriteIsFresh DEF StoreInv, FileRange
    <3> QED BY <3>2, <3>3
  <2> QED BY <2>1, <2>2
<1>2. IndInv /\ StoreInv /\ [Next]_vars => StoreInv'
  BY StoreInvStep
<1> QED BY <1>1, <1>2, IndInvInit, IndInvStep, StoreInvInit, PTL DEF Spec, SealedFilesImmutable

-----------------------------------------------------------------------------
(* The header files implement the append-only log. *)

\* Writing a header file appends it to the log.
LEMMA WriteIsSealFile ==
    ASSUME IndInv, StoreInv, HeaderInv, WriteSealedFile("header")
    PROVE  HeaderLog!SealFile
<1> USE DEF IndInv
<1> DEFINE p == "header"
           n == FileStart(p)
           end == n + EntriesPerFile[p] - 1
<1>1. p \in Producer /\ DataInv(p) /\ pc[p] = "write"
  BY ProducerAssumption DEF StoreInv, WriteSealedFile
<1>2. /\ n \in Nat /\ n <= NextEnd(p) /\ NextEnd(p) \in Heights
      /\ NextEnd(p) + ReOrgSafeDepth <= current[p]
  BY <1>1, FileBounds DEF LoopsInRange, Sealing
<1>3. /\ n \in Heights /\ end = NextEnd(p) /\ Heights = 0..MaxHeight /\ MaxHeight \in Nat
      /\ FileRange(p) = n..end /\ n \in Int /\ end \in Int
  <2>1. EntriesPerFile[p] \in Nat /\ MaxHeight \in Nat
    BY <1>1, ProducerAssumption, BlockAssumption
  <2>2. end = NextEnd(p)
    BY <1>2, <2>1 DEF FileStart, Heights
  <2> QED BY <1>2, <2>1, <2>2 DEF Heights, FileRange
<1>4. end + ReOrgSafeDepth <= Height[best]
  <2>1. /\ current[p] <= Height[best] /\ current[p] \in Int /\ Height[best] \in Int
        /\ ReOrgSafeDepth \in Int
    BY <1>1, PointTypes DEF HeightsKnown
  <2> QED BY <1>2, <1>3, <2>1
<1>5. {h \in Heights : disk[p][h] # NoBlock} = 0..(n - 1)
  <2>1. \A h \in Heights : disk[p][h] # NoBlock <=> h < n
    BY <1>1, WriteIsFresh
  <2>2. \A h : h \in 0..(n - 1) <=> h \in Heights /\ h < n
    BY <1>3
  <2> HIDE DEF n
  <2> QED BY <2>1, <2>2
<1>6. disk'[p] = [h \in Heights |-> IF n <= h /\ h <= end THEN GetBlockHash(h) ELSE disk[p][h]]
  <2>1. disk'[p] = [h \in Heights |-> IF h \in FileRange(p) THEN mem[p][h] ELSE disk[p][h]]
    BY <1>1 DEF WriteSealedFile, TypeOK
  <2>2. \A h \in FileRange(p) : mem[p][h] = GetBlockHash(h)
    BY <1>1 DEF HeaderInv
  <2>3. \A h \in Heights : h \in FileRange(p) <=> n <= h /\ h <= end
    BY <1>3
  <2> HIDE DEF n, end
  <2> QED BY <2>1, <2>2, <2>3
<1>7. best' = best
  BY DEF WriteSealedFile
<1> HIDE DEF n
<1> QED BY <1>3, <1>4, <1>5, <1>6, <1>7
  DEF HeaderLog!SealFile, GetBlockCount, GetBlockHash, HeaderLog!GetBlockCount,
      HeaderLog!GetBlockHash, HeaderLog!Heights, Heights

\* Every step of the system is a step of the log or leaves it alone.
LEMMA LogStep ==
    IndInv /\ StoreInv /\ HeaderInv /\ [Next]_vars => [HeaderLog!LogNext]_(HeaderLog!logVars)
<1> SUFFICES ASSUME IndInv, StoreInv, HeaderInv, [Next]_vars
             PROVE  [HeaderLog!LogNext]_(HeaderLog!logVars)
  OBVIOUS
<1>1. CASE WriteSealedFile("header")
  BY <1>1, WriteIsSealFile DEF HeaderLog!LogNext
<1>2. CASE ChainMoves /\ UNCHANGED <<h2hVars, server, quit, producerVars, disk>>
  BY <1>2 DEF HeaderLog!LogNext, HeaderLog!ChainMoves, ChainMoves
<1>3. CASE \E p \in Producer : (Step(p) \/ RpcError(p) \/ TipCheckFails(p)) /\ ~WriteSealedFile("header")
  <2>1. PICK p \in Producer : (Step(p) \/ RpcError(p) \/ TipCheckFails(p)) /\ ~WriteSealedFile("header")
    BY <1>3
  <2>2. best' = best
    BY <2>1, StepIsLocal DEF IndInv
  <2>3. disk'["header"] = disk["header"]
    BY <2>1, StepIsLocal, OnlySealsWrite, ProducerAssumption DEF IndInv
  <2> QED BY <2>2, <2>3 DEF HeaderLog!logVars
<1>4. CASE UNCHANGED <<best, disk>>
  BY <1>4 DEF HeaderLog!logVars
<1> QED BY <1>1, <1>2, <1>3, <1>4
  DEF Next, vars, CallerFetch, CallerInsert, StopOnError, Interrupt, Exit, Crash, LoadCache, Launch

\* With reorgs of at most ReOrgSafeDepth blocks the header producer, with
\* the cache it shares, its crashes and restarts, implements SealedLog: whole
\* files of best-chain headers, one after the other and never touched again.
THEOREM HeaderFilesImplementLog ==
    ASSUME MaxReorg <= ReOrgSafeDepth, \A p \in Producer : EntriesPerFile[p] > 1
    PROVE  Spec => HeaderFilesAreSealedLog
<1>1. Init => HeaderLog!LogInit /\ HeaderInv
  <2>1. "header" \in Producer
    BY ProducerAssumption
  <2> QED BY <2>1
    DEF Init, NoEntries, BackendInit, HeaderLog!LogInit, HeaderLog!BackendInit, HeaderLog!Heights,
        Heights, HeaderInv, HeaderFilesOnBestChain
<1>2. IndInv /\ StoreInv /\ [Next]_vars => StoreInv'
  BY StoreInvStep
<1>3. IndInv /\ HeaderInv /\ [Next]_vars => HeaderInv'
  BY HeaderInvStep
<1> QED BY <1>1, <1>2, <1>3, IndInvInit, IndInvStep, StoreInvInit, LogStep, PTL
  DEF Spec, HeaderFilesAreSealedLog, HeaderLog!LogSpec

-----------------------------------------------------------------------------
(* A filter file is of one chain. *)

\* The blocks of a chain link to each other.
LEMMA ChainLinks ==
    ASSUME NEW b \in Block, NEW h \in Heights, h > 0, h <= Height[b]
    PROVE  PrevBlock(Anc[b][h]) = Anc[b][h - 1]
<1>1. h \in 0..Height[b] /\ h - 1 \in 0..h /\ Height[b] \in Nat
  BY BlockAssumption DEF Heights
<1>2. Anc[Anc[b][h]][h - 1] = Anc[b][h - 1] /\ Height[Anc[b][h]] = h
  BY <1>1, ChainAssumption
<1> QED BY <1>2 DEF PrevBlock

\* verifyFilters lets only the filters of one chain through, stale or not.
LEMMA VerifyKeepsFilters ==
    ASSUME IndInv, StoreInv, FilterInv, "filter" \in Producer, Verify("filter")
    PROVE  FilterInv'
<1> USE DEF IndInv
<1> DEFINE p == "filter"
           b == got[p]
<1>1. pc[p] = "verify" /\ UNCHANGED <<mem, lastSealed, disk>>
  BY DEF Verify
<1>2. b \in Block /\ Height[b] = NextEnd(p)
  BY <1>1, PointTypes DEF StoreInv, HashInv, MaybeBlock
<1>3. pc'[p] = "write" => FiltersVerified(p)
  BY DEF Verify, Goto, Verified, TypeOK
<1>4. ASSUME FiltersVerified(p), NEW h \in FileRange(p), h > FileStart(p)
      PROVE  mem[p][h - 1] = PrevBlock(mem[p][h])
  <2>1. NextEnd(p) \in Heights /\ FileStart(p) \in Nat
    BY <1>1, FileBounds DEF LoopsInRange, Sealing
  <2>2. h \in Heights /\ h > 0 /\ h <= Height[b] /\ h - 1 \in FileRange(p)
    <3>1. h \in FileStart(p)..NextEnd(p) /\ Height[b] = NextEnd(p)
      BY <1>2, <1>4 DEF FileRange
    <3>2. NextEnd(p) \in 0..MaxHeight /\ MaxHeight \in Nat
      BY <2>1, BlockAssumption DEF Heights
    <3> QED BY <1>4, <2>1, <3>1, <3>2 DEF FileRange, Heights
  <2>3. mem[p][h] = Anc[b][h] /\ mem[p][h - 1] = Anc[b][h - 1]
    BY <1>4, <2>2 DEF FiltersVerified
  <2> QED BY <1>2, <2>2, <2>3, ChainLinks
<1> QED BY <1>1, <1>3, <1>4
  DEF FilterInv, FilterFilesOnOneChain, FileRange, FileStart, NextEnd

\* The file that is written starts at a file boundary, so no link across it
\* is promised, and is made of the verified filters.
LEMMA WriteKeepsFilters ==
    ASSUME IndInv, StoreInv, FilterInv, "filter" \in Producer, WriteSealedFile("filter")
    PROVE  FilterInv'
<1> USE DEF IndInv
<1> DEFINE p == "filter"
           n == EntriesPerFile[p]
           s == FileStart(p)
           e == NextEnd(p)
<1>1. DataInv(p) /\ pc[p] = "write" /\ pc'[p] # "write" /\ pc[p] \notin Stopped
  BY DEF StoreInv, WriteSealedFile, Goto, TypeOK, Stopped, Failed
<1>2. s % n = 0
  BY <1>1, RunningMeansUp, FileAboveSealed DEF DataInv
<1>3. /\ \A h \in Heights : disk[p][h] # NoBlock <=> h < s
      /\ \A h \in Heights : disk'[p][h] = IF h \in FileRange(p) THEN mem[p][h] ELSE disk[p][h]
  BY <1>1, WriteIsFresh
<1>4. s \in Nat /\ e \in Nat /\ Heights = 0..MaxHeight /\ MaxHeight \in Nat /\ FileRange(p) = s..e
  BY FileBounds, BlockAssumption DEF FileRange, Heights
<1>5. \A h \in s..e : h > s => mem[p][h - 1] = PrevBlock(mem[p][h])
  BY <1>1, <1>4 DEF FilterInv
<1>6. ASSUME NEW h \in Heights, (h + 1) % n # 0, h < MaxHeight, disk'[p][h + 1] # NoBlock
      PROVE  disk'[p][h] = PrevBlock(disk'[p][h + 1])
  <2> HIDE DEF s, e, n
  <2>1. h + 1 \in Heights /\ h + 1 # s
    BY <1>2, <1>4, <1>6
  <2>2. CASE h + 1 \in s..e
    <3>1. h \in s..e /\ h + 1 > s /\ (h + 1) - 1 = h
      BY <1>4, <2>1, <2>2
    <3>2. mem[p][h] = PrevBlock(mem[p][h + 1])
      BY <1>5, <2>2, <3>1
    <3> QED BY <1>3, <1>4, <2>1, <2>2, <3>1, <3>2
  <2>3. CASE h + 1 \notin s..e
    <3>1. disk'[p][h + 1] = disk[p][h + 1] /\ disk[p][h + 1] # NoBlock
      BY <1>3, <1>4, <1>6, <2>1, <2>3
    <3>2. h + 1 < s
      BY <1>3, <2>1, <3>1
    <3>3. h \notin s..e
      BY <1>4, <3>2
    <3>4. disk'[p][h] = disk[p][h]
      BY <1>3, <1>4, <3>3
    <3>5. disk[p][h] = PrevBlock(disk[p][h + 1])
      BY <1>6, <3>1 DEF FilterInv, FilterFilesOnOneChain, n
    <3> QED BY <3>1, <3>4, <3>5
  <2> QED BY <2>2, <2>3
<1> QED BY <1>1, <1>6 DEF FilterInv, FilterFilesOnOneChain

\* A step that neither writes a filter file nor leads to the writing of one.
LEMMA OthersKeepFilters ==
    ASSUME FilterInv, disk'["filter"] = disk["filter"],
           \/ pc'["filter"] # "write"
           \/ pc'["filter"] = pc["filter"] /\ mem'["filter"] = mem["filter"]
              /\ lastSealed'["filter"] = lastSealed["filter"]
    PROVE  FilterInv'
BY DEF FilterInv, FilterFilesOnOneChain, FileRange, FileStart, NextEnd

\* Every step keeps the sealed and the verified filters of one chain.
LEMMA FilterInvStep ==
    "filter" \in Producer => (IndInv /\ StoreInv /\ FilterInv /\ [Next]_vars => FilterInv')
<1> SUFFICES ASSUME "filter" \in Producer, IndInv, StoreInv, FilterInv, [Next]_vars
             PROVE  FilterInv'
  OBVIOUS
<1>1. CASE \E p \in Producer : Step(p) \/ RpcError(p) \/ TipCheckFails(p)
  <2>1. PICK p \in Producer : Step(p) \/ RpcError(p) \/ TipCheckFails(p)
    BY <1>1
  <2>2. CASE p = "filter" /\ (Verify(p) \/ WriteSealedFile(p))
    BY <2>2, VerifyKeepsFilters, WriteKeepsFilters
  <2>3. CASE p = "filter" /\ ~Verify(p) /\ ~WriteSealedFile(p)
    BY <2>1, <2>3, OnlyVerifyLeadsToWrite, OthersKeepFilters DEF IndInv
  <2>4. CASE p # "filter"
    BY <2>1, <2>4, StepIsLocal, OthersKeepFilters DEF IndInv
  <2> QED BY <2>2, <2>3, <2>4
<1>2. CASE UNCHANGED <<pc, mem, lastSealed, disk>>
  BY <1>2, OthersKeepFilters
<1>3. CASE disk' = disk /\ pc'["filter"] # "write"
  BY <1>3, OthersKeepFilters
<1> QED BY <1>1, <1>2, <1>3
  DEF Next, vars, producerVars, CallerFetch, CallerInsert, StopOnError, Interrupt, Exit, Crash,
      NoProcess, LoadCache, Launch

\* However deep the reorgs are and whatever the shared cache held, the
\* filters of one sealed file belong to one chain of blocks.
THEOREM FilterFileOfOneChain ==
    ASSUME "filter" \in Producer, \A p \in Producer : EntriesPerFile[p] > 1
    PROVE  Spec => []FilterFilesOnOneChain
<1>1. Init => FilterInv
  <2> SUFFICES ASSUME Init PROVE FilterInv
    OBVIOUS
  <2>1. MaxHeight \in Nat /\ Heights = 0..MaxHeight
    BY BlockAssumption DEF Heights
  <2>2. \A h \in Heights : h < MaxHeight => h + 1 \in Heights
    BY <2>1
  <2>3. \A h \in Heights : disk["filter"][h] = NoBlock
    BY DEF Init, NoEntries
  <2>4. pc["filter"] # "write"
    BY DEF Init
  <2> QED BY <2>2, <2>3, <2>4 DEF FilterInv, FilterFilesOnOneChain
<1>2. IndInv /\ StoreInv /\ [Next]_vars => StoreInv'
  BY StoreInvStep
<1>3. IndInv /\ StoreInv /\ FilterInv /\ [Next]_vars => FilterInv'
  BY FilterInvStep
<1>4. FilterInv => FilterFilesOnOneChain
  BY DEF FilterInv
<1> QED BY <1>1, <1>2, <1>3, <1>4, IndInvInit, IndInvStep, StoreInvInit, PTL DEF Spec

-----------------------------------------------------------------------------
(* When a producer gives up. *)

\* As long as p's files are ReOrgSafeDepth deep, a shallower reorg does not
\* reach the height above them.
LEMMA ReorgKeepsStale ==
    ASSUME IndInv, NEW p \in Producer, DataInv(p), MaxReorg < ReOrgSafeDepth,
           pc[p] \in {"walk", "deepReorg"}, StaleForGood(p), ChainMoves, UNCHANGED <<mem, lastSealed>>
    PROVE  StaleForGood(p)'
<1> USE DEF IndInv
<1> DEFINE s == lastSealed[p]
<1>1. /\ MaxHeight \in Nat /\ MaxReorg \in Nat /\ ReOrgSafeDepth \in Nat
      /\ Height[best] \in Int /\ s \in 0..(MaxHeight - 1) /\ s \in Heights
  BY BlockAssumption, PointTypes DEF StaleForGood, Heights
<1>2. server = "up" /\ SealedTop(p) = s
  BY DEF DataInv, SealedTop
<1>3. disk[p][s] # NoBlock
  BY <1>1, <1>2 DEF DataInv
<1>4. s + ReOrgSafeDepth <= Height[best]
  BY <1>1, <1>3 DEF FilesBuried
<1>5. s + 1 \in 0..(Height[best] - MaxReorg)
  BY <1>1, <1>4
<1>6. Anc[best'][s + 1] = Anc[best][s + 1]
  BY <1>5 DEF ChainMoves
<1> QED BY <1>6 DEF StaleForGood, Disagrees, GetBlockHash

\* findCommonAncestor passes the lowest unsealed height only if the entry
\* there is not bitcoind's; an entry for height 0 always is.
LEMMA WalkFindsStale ==
    ASSUME IndInv, StoreInv, NEW p \in Producer, WalkBack(p), at'[p] <= lastSealed[p]
    PROVE  StaleForGood(p)
<1> USE DEF IndInv
<1> DEFINE s == lastSealed[p]
<1>1. /\ MaxHeight \in Nat /\ s \in -1..MaxHeight /\ at[p] \in -1..MaxHeight
      /\ current[p] \in 0..MaxHeight /\ Heights = 0..MaxHeight
  BY PointTypes DEF Heights
<1>2. pc[p] = "walk" /\ at[p] > s /\ at'[p] = at[p] - 1 /\ at[p] <= current[p]
  BY DEF WalkBack, TypeOK, LoopsInRange
<1>3. at[p] = s + 1 /\ s + 1 \in Heights
  BY <1>1, <1>2
<1>4. Tip(p) = current[p] /\ DataInv(p) /\ HashInv(p) /\ pc[p] \notin Stopped
  BY <1>2 DEF Tip, StoreInv, Stopped, Failed
<1>5. mem[p][s + 1] # NoBlock
  <2>1. s < s + 1 /\ s + 1 <= Tip(p)
    BY <1>1, <1>2, <1>3, <1>4
  <2> QED BY <1>3, <1>4, <2>1, MemoryRange
<1>6. Disagrees(p, s + 1)
  BY <1>3, <1>5 DEF WalkBack
<1>7. s # -1
  <2> SUFFICES ASSUME s = -1 PROVE FALSE
    OBVIOUS
  <2>1. s + 1 = 0
    BY <1>1
  <2>2. mem[p][0] \in Block /\ best \in Block /\ Height[mem[p][0]] = 0
    BY <1>3, <1>4, <1>5, <2>1, PointTypes DEF HashInv, MaybeBlock, TypeOK
  <2>3. mem[p][0] = Anc[mem[p][0]][0]
    BY <2>2, ChainAssumption
  <2>4. Anc[mem[p][0]][0] = Anc[best][0]
    BY <2>2, GenesisAssumption
  <2> QED BY <1>6, <2>1, <2>3, <2>4 DEF Disagrees, GetBlockHash
<1> QED BY <1>1, <1>3, <1>6, <1>7 DEF StaleForGood

\* The walk and the error it may end with.
GiveUpInv == WalkInv /\ DeepReorgOnlyIfStale

\* A goroutine starts to walk above its files, and gives up where the walk
\* has found the stale entry.
LEMMA StepKeepsGiveUp ==
    ASSUME IndInv, StoreInv, GiveUpInv, NEW p \in Producer,
           Step(p) \/ RpcError(p) \/ TipCheckFails(p)
    PROVE  GiveUpInv'
<1> USE DEF IndInv
<1>1. best' = best
  BY StepIsLocal
<1>2. ASSUME NEW q \in Producer \ {p}
      PROVE  /\ pc'[q] = "walk" /\ at'[q] <= lastSealed'[q] => StaleForGood(q)'
             /\ pc'[q] = "deepReorg" => StaleForGood(q)'
  BY <1>1, StepIsLocal
  DEF GiveUpInv, WalkInv, DeepReorgOnlyIfStale, StaleForGood, Disagrees, GetBlockHash
<1>3. /\ pc'[p] = "walk" /\ at'[p] <= lastSealed'[p] => StaleForGood(p)'
      /\ pc'[p] = "deepReorg" => StaleForGood(p)'
  <2>1. CASE WalkBack(p)
    <3>1. UNCHANGED <<mem, lastSealed, best>> /\ pc'[p] # "deepReorg"
      BY <2>1 DEF WalkBack
    <3> QED BY <2>1, <3>1, WalkFindsStale DEF StaleForGood, Disagrees, GetBlockHash
  <2>2. CASE DeepReorg(p)
    <3>1. UNCHANGED <<mem, lastSealed, best>> /\ pc'[p] = "deepReorg" /\ StaleForGood(p)
      BY <2>2 DEF DeepReorg, Goto, GiveUpInv, WalkInv, TypeOK
    <3> QED BY <3>1 DEF StaleForGood, Disagrees, GetBlockHash
  <2>3. CASE HandleReorg(p)
    <3>1. pc'[p] # "deepReorg" /\ lastSealed' = lastSealed
      BY <2>3 DEF HandleReorg, Advance, Goto, TypeOK
    <3>2. pc'[p] = "walk" => at'[p] = current[p] /\ mem[p][current[p]] # NoBlock
      BY <2>3 DEF HandleReorg, Advance, Goto, Disagrees, TypeOK
    <3>3. current[p] \in Heights /\ lastSealed[p] \in Int /\ current[p] \in Int
      BY PointTypes DEF Heights
    <3>4. \A h \in Heights : mem[p][h] # NoBlock => h > lastSealed[p]
      BY DEF StoreInv, DataInv
    <3>5. mem[p][current[p]] # NoBlock => ~ (current[p] <= lastSealed[p])
      BY <3>3, <3>4
    <3> QED BY <3>1, <3>2, <3>5
  <2>4. CASE ~WalkBack(p) /\ ~DeepReorg(p) /\ ~HandleReorg(p)
    <3>1. pc'[p] # "walk" /\ pc'[p] # "deepReorg"
      <4>1. CASE LookupHit(p) \/ LookupInsert(p) \/ LookupFetch(p)
        BY <4>1 DEF LookupHit, LookupInsert, LookupFetch, ReturnHash, Goto, StartsLookup, InLookup,
                    Looping, TypeOK
      <4>2. CASE Store(p) \/ BeginSeal(p) \/ NothingToSeal(p) \/ RoundDone(p)
        BY <4>2 DEF Store, BeginSeal, NothingToSeal, RoundDone, Goto, TypeOK
      <4>3. CASE Verify(p) \/ WriteSealedFile(p) \/ Promote(p)
        BY <4>3 DEF Verify, WriteSealedFile, Promote, Goto, TypeOK
      <4>4. CASE Poll(p) \/ TipReorged(p) \/ TipCheckFails(p) \/ Rollback(p) \/ InvalidateCache(p)
        BY <4>4
        DEF Poll, TipReorged, TipCheckFails, Rollback, InvalidateCache, Advance, Goto, TypeOK
      <4>5. CASE Shutdown(p) \/ RpcError(p)
        BY <4>5 DEF Shutdown, RpcError, Goto, TypeOK
      <4> QED BY <2>4, <4>1, <4>2, <4>3, <4>4, <4>5 DEF Step
    <3> QED BY <3>1
  <2> QED BY <2>1, <2>2, <2>3, <2>4
<1> QED BY <1>2, <1>3 DEF GiveUpInv, WalkInv, DeepReorgOnlyIfStale

\* With reorgs of fewer than ReOrgSafeDepth blocks every step keeps the
\* reason for which a producer gives up.
LEMMA GiveUpStep ==
    MaxReorg < ReOrgSafeDepth => (IndInv /\ StoreInv /\ GiveUpInv /\ [Next]_vars => GiveUpInv')
<1> SUFFICES ASSUME MaxReorg < ReOrgSafeDepth, IndInv, StoreInv, GiveUpInv, [Next]_vars
             PROVE  GiveUpInv'
  OBVIOUS
<1>1. CASE \E p \in Producer : Step(p) \/ RpcError(p) \/ TipCheckFails(p)
  BY <1>1, StepKeepsGiveUp
<1>2. CASE ChainMoves /\ UNCHANGED <<h2hVars, server, quit, producerVars, disk>>
  <2>1. UNCHANGED <<pc, at, mem, lastSealed>>
    BY <1>2 DEF producerVars
  <2>2. ASSUME NEW p \in Producer, pc[p] \in {"walk", "deepReorg"}, StaleForGood(p)
        PROVE  StaleForGood(p)'
    BY <1>2, <2>1, <2>2, ReorgKeepsStale DEF StoreInv
  <2> QED BY <2>1, <2>2 DEF GiveUpInv, WalkInv, DeepReorgOnlyIfStale
<1>3. CASE UNCHANGED <<best, pc, at, mem, lastSealed>>
  BY <1>3 DEF GiveUpInv, WalkInv, DeepReorgOnlyIfStale, StaleForGood, Disagrees, GetBlockHash
<1>4. CASE \A p \in Producer : pc'[p] \notin {"walk", "deepReorg"}
  BY <1>4 DEF GiveUpInv, WalkInv, DeepReorgOnlyIfStale
<1> QED BY <1>1, <1>2, <1>3, <1>4
  DEF Next, vars, producerVars, CallerFetch, CallerInsert, StopOnError, Interrupt, Exit, Crash,
      NoProcess, LoadCache, Launch

\* As long as every reorg is shallower than ReOrgSafeDepth, errDeepReorg is
\* never the answer to a reorg: the entry above the sealed file was stale
\* when that file was sealed, and stays so.
THEOREM GivesUpOnlyIfStale ==
    ASSUME MaxReorg < ReOrgSafeDepth, \A p \in Producer : EntriesPerFile[p] > 1
    PROVE  Spec => []DeepReorgOnlyIfStale
<1>1. Init => GiveUpInv
  BY DEF Init, GiveUpInv, WalkInv, DeepReorgOnlyIfStale
<1>2. IndInv /\ StoreInv /\ [Next]_vars => StoreInv'
  BY StoreInvStep
<1>3. IndInv /\ StoreInv /\ GiveUpInv /\ [Next]_vars => GiveUpInv'
  BY GiveUpStep
<1>4. GiveUpInv => DeepReorgOnlyIfStale
  BY DEF GiveUpInv
<1> QED BY <1>1, <1>2, <1>3, <1>4, IndInvInit, IndInvStep, StoreInvInit, PTL DEF Spec
=============================================================================
