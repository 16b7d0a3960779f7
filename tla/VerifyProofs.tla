---------------------------- MODULE VerifyProofs ---------------------------
(***************************************************************************)
(* Theorems about the verify command, for every chain, every corruption    *)
(* the model knows, every pair of file sizes and every depth.              *)
(***************************************************************************)
EXTENDS Verify, IntervalLemmas

-----------------------------------------------------------------------------
(* Heights and files. *)

\* The highest height that is safe from reorgs.
Buried == top - ReOrgSafeDepth

\* The sizes and the heights are numbers.
LEMMA Numbers ==
    ASSUME TypeOK
    PROVE  /\ MaxHeight \in Nat /\ Heights = 0..MaxHeight /\ (\A h \in Heights : h \in Nat)
           /\ ReOrgSafeDepth \in Nat /\ ReOrgSafeDepth > 0
           /\ HeadersPerFile \in Nat /\ HeadersPerFile > 0
           /\ FiltersPerFile \in Nat /\ FiltersPerFile > 0
           /\ HeadersPerFile % FiltersPerFile = 0
           /\ pos \in Nat /\ pos <= MaxHeight /\ top \in Nat /\ top <= MaxHeight
           /\ Buried = top - ReOrgSafeDepth /\ Buried \in Int /\ Buried < MaxHeight
<1>1. MaxHeight \in Nat /\ ReOrgSafeDepth \in Nat /\ ReOrgSafeDepth > 0
  BY SizeAssumption
<1>2. /\ HeadersPerFile \in Nat /\ HeadersPerFile > 0 /\ FiltersPerFile \in Nat /\ FiltersPerFile > 0
      /\ HeadersPerFile % FiltersPerFile = 0
  BY SizeAssumption
<1>3. Heights = 0..MaxHeight /\ pos \in 0..MaxHeight /\ top \in 0..MaxHeight
  BY DEF TypeOK, Heights
<1>4. Buried = top - ReOrgSafeDepth
  BY DEF Buried
<1> QED BY <1>1, <1>2, <1>3, <1>4

\* Exactly the files that end at the anchor height or below are sealed.
LEMMA SealedIff ==
    ASSUME TypeOK, NEW n \in {HeadersPerFile, FiltersPerFile}, NEW k \in Nat
    PROVE  /\ NumFiles(n) \in Int
           /\ k < NumFiles(n) <=> End(k, n) <= Buried
           /\ End(k, n) \in Nat /\ k <= End(k, n) /\ End(k, n) = k * n + n - 1 /\ k * n \in Nat
           /\ Range(k, n) = (k * n)..End(k, n)
<1>1. n \in Nat \ {0} /\ top - ReOrgSafeDepth + 1 \in Int /\ Buried = top - ReOrgSafeDepth
  BY Numbers
<1>2. NumFiles(n) \in Int
  BY <1>1 DEF NumFiles
<1>3. k < NumFiles(n) <=> k * n + n <= top - ReOrgSafeDepth + 1
  BY <1>1, DivBound DEF NumFiles
<1>4. k * n \in Nat /\ k <= k * n
  BY <1>1
<1>5. End(k, n) = k * n + n - 1 /\ Range(k, n) = (k * n)..(k * n + n - 1)
  BY DEF End, Range
<1>6. End(k, n) \in Nat /\ k <= End(k, n)
  BY <1>1, <1>4, <1>5
<1>7. k * n + n <= top - ReOrgSafeDepth + 1 <=> k * n + n - 1 <= Buried
  <2> DEFINE x == k * n
  <2>1. x \in Nat /\ top \in Int /\ ReOrgSafeDepth \in Int
    BY <1>4, Numbers
  <2> HIDE DEF x
  <2>2. x + n <= top - ReOrgSafeDepth + 1 <=> x + n - 1 <= Buried
    BY <1>1, <2>1
  <2> QED BY <2>2 DEF x
<1> QED BY <1>2, <1>3, <1>4, <1>5, <1>6, <1>7

\* The heights of a filter file are those of one header file.
LEMMA FilterFileInside ==
    ASSUME TypeOK, NEW k \in Nat
    PROVE  LET K == (k * FiltersPerFile) \div HeadersPerFile
           IN  /\ K \in Nat /\ K <= k
               /\ End(k, FiltersPerFile) \div HeadersPerFile = K
               /\ K * HeadersPerFile <= k * FiltersPerFile
               /\ End(k, FiltersPerFile) <= End(K, HeadersPerFile)
<1> DEFINE H == HeadersPerFile
           F == FiltersPerFile
           s == k * F
           K == s \div H
<1>1. H \in Nat \ {0} /\ F \in Nat \ {0} /\ H % F = 0
  BY Numbers
<1>2. PICK r \in Nat : H = F * r
  BY <1>1, Quotient
<1>3. s \in Nat /\ s = F * k
  BY <1>1
<1>4. K \in Nat /\ H * K <= s /\ s < H * K + H
  <2> HIDE DEF s, H
  <2> QED BY <1>1, <1>3
<1> HIDE DEF K, s, H, F
<1>5. K <= k
  <2>1. 1 <= r
    BY <1>1, <1>2
  <2>2. F <= H
    BY <1>1, <1>2, <2>1
  <2>3. F * K <= H * K
    BY <1>1, <1>4, <2>2
  <2>4. F * K <= F * k
    BY <1>1, <1>3, <1>4, <2>3
  <2> SUFFICES ASSUME k < K PROVE FALSE
    BY <1>4
  <2>5. F * (k + 1) <= F * K
    BY <1>1, <1>4
  <2> QED BY <1>1, <1>4, <2>4, <2>5
<1>6. s + F <= H * K + H
  <2> DEFINE m == r * (K + 1)
  <2>1. H * K + H = F * m /\ m \in Nat
    BY <1>1, <1>2, <1>4
  <2> HIDE DEF m
  <2>2. k < m
    <3> SUFFICES ASSUME m <= k PROVE FALSE
      BY <2>1
    <3>1. F * m <= F * k
      BY <1>1, <2>1
    <3> QED BY <1>1, <1>3, <1>4, <2>1, <3>1
  <2>3. F * (k + 1) <= F * m
    BY <1>1, <2>1, <2>2
  <2> QED BY <1>1, <1>3, <2>1, <2>3
<1>7. End(k, F) = s + F - 1 /\ End(K, H) = K * H + H - 1 /\ K * H = H * K /\ H * K \in Nat
  BY <1>1, <1>4 DEF End, s
<1>8. End(k, F) \in Int /\ K * H <= End(k, F) /\ End(k, F) < K * H + H
  BY <1>1, <1>3, <1>4, <1>6, <1>7
<1>9. End(k, F) \div H = K
  BY <1>1, <1>4, <1>8, DivIs
<1>10. K * H <= s /\ End(k, F) <= End(K, H)
  BY <1>1, <1>3, <1>4, <1>6, <1>7
<1> QED BY <1>4, <1>5, <1>9, <1>10 DEF K, s, H, F

\* A header file ends where a filter file ends.
LEMMA HeaderEndIsFilterEnd ==
    ASSUME TypeOK, NEW K \in Nat
    PROVE  \E k \in Nat : End(k, FiltersPerFile) = End(K, HeadersPerFile)
<1> DEFINE H == HeadersPerFile
           F == FiltersPerFile
<1>1. H \in Nat \ {0} /\ F \in Nat \ {0} /\ H % F = 0
  BY Numbers
<1>2. PICK r \in Nat : H = F * r
  BY <1>1, Quotient
<1> DEFINE m == r * (K + 1)
<1>3. K * H + H = F * m /\ m \in Nat /\ m # 0
  BY <1>1, <1>2
<1> HIDE DEF m
<1>4. m - 1 \in Nat /\ (m - 1) * F + F = F * m
  BY <1>1, <1>3
<1>5. End(m - 1, F) = End(K, H)
  BY <1>1, <1>3, <1>4 DEF End
<1> QED BY <1>4, <1>5

\* The server's memory starts at a height.
LEMMA MemoryStart ==
    ASSUME TypeOK
    PROVE  NumFiles(HeadersPerFile) \in Int /\ NumFiles(HeadersPerFile) * HeadersPerFile \in Int
<1>1. NumFiles(HeadersPerFile) \in Int
  BY SealedIff
<1>2. HeadersPerFile \in Int
  BY Numbers
<1> QED BY <1>1, <1>2

\* What is sealed lies below what is only in the server's memory.
LEMMA SealedBelowMemory ==
    ASSUME TypeOK, NEW k \in Nat, k < NumFiles(HeadersPerFile)
    PROVE  /\ End(k, HeadersPerFile) \in Heights
           /\ End(k, HeadersPerFile) < NumFiles(HeadersPerFile) * HeadersPerFile
           /\ Range(k, HeadersPerFile) \subseteq Heights
           /\ \A h \in Range(k, HeadersPerFile) : h < NumFiles(HeadersPerFile) * HeadersPerFile
<1> DEFINE H == HeadersPerFile
           N == NumFiles(H)
           e == End(k, H)
<1>1. H \in Nat /\ H > 0 /\ N \in Int /\ k * H \in Nat /\ e = k * H + H - 1 /\ e <= Buried
      /\ Range(k, H) = (k * H)..e /\ e \in Nat
  BY Numbers, SealedIff
<1>2. Heights = 0..MaxHeight /\ MaxHeight \in Nat /\ Buried \in Int /\ Buried < MaxHeight
  BY Numbers
<1> HIDE DEF H, N, e
<1>3. k + 1 <= N
  BY <1>1 DEF N, H
<1>4. (k + 1) * H <= N * H
  BY <1>1, <1>3
<1>5. (k + 1) * H = k * H + H /\ N * H \in Int
  BY <1>1
<1>6. e < N * H /\ e \in Heights
  BY <1>1, <1>2, <1>4, <1>5
<1>7. \A h \in Range(k, H) : h \in Heights /\ h < N * H
  BY <1>1, <1>2, <1>5, <1>6
<1> QED BY <1>6, <1>7 DEF H, N, e

\* A sealed filter file has its heights, and the filter headers they are
\* checked against, within the range of the model.
LEMMA SealedFilterFile ==
    ASSUME TypeOK, NEW k \in Nat, k < NumFiles(FiltersPerFile)
    PROVE  /\ End(k, FiltersPerFile) \in Heights /\ k + 1 \in Heights
           /\ Range(k, FiltersPerFile) \subseteq Heights
           /\ \A h \in Range(k, FiltersPerFile) :
                 h \in Range((k * FiltersPerFile) \div HeadersPerFile, HeadersPerFile)
<1> DEFINE F == FiltersPerFile
           H == HeadersPerFile
           s == k * F
           e == End(k, F)
           K == s \div H
<1>1. s \in Nat /\ e \in Nat /\ k <= e /\ e <= Buried /\ Range(k, F) = s..e
  BY SealedIff
<1>2. Heights = 0..MaxHeight /\ MaxHeight \in Nat /\ Buried \in Int /\ Buried < MaxHeight
  BY Numbers
<1>3. K \in Nat /\ K * H <= s /\ e <= End(K, H)
  BY FilterFileInside
<1>4. Range(K, H) = (K * H)..End(K, H) /\ K * H \in Nat /\ End(K, H) \in Nat
  BY <1>3, SealedIff
<1> HIDE DEF F, H, s, e, K
<1>5. e \in Heights /\ k + 1 \in Heights /\ Range(k, F) \subseteq Heights
  BY <1>1, <1>2
<1>6. \A h \in Range(k, F) : h \in Range(K, H)
  BY <1>1, <1>3, <1>4
<1> QED BY <1>5, <1>6 DEF F, H, s, e, K

-----------------------------------------------------------------------------
(* Chains. *)

\* bitcoind's filter header of a height stands for the blocks of its chain.
LEMMA AuthIsBest ==
    ASSUME NEW h \in Heights
    PROVE  /\ Best[h] \in Block
           /\ \A b \in Block : Commitment(h, b) \in [0..h -> Block]
           /\ AuthFilterHeader(h) \in [0..h -> Block]
           /\ \A j \in 0..h : AuthFilterHeader(h)[j] = Best[j]
<1>1. Best[h] \in Block /\ \A k \in 0..h : Anc[Best[h]][k] = Best[k]
  BY ChainAssumption
<1>2. \A k \in 0..h : k \in Heights
  BY SizeAssumption DEF Heights
<1>3. \A b \in Block : Commitment(h, b) \in [0..h -> Block]
  BY <1>2, ChainAssumption DEF Commitment
<1> QED BY <1>1, <1>3 DEF AuthFilterHeader, Commitment

\* Two functions with the same values are the same.
LEMMA SameFunction ==
    ASSUME NEW S, NEW T, NEW f \in [S -> T], NEW g \in [S -> T], \A x \in S : f[x] = g[x]
    PROVE  f = g
OBVIOUS

\* Records that link to each other are those of bitcoind's chain if one of
\* them is, up to that one: the checks of verifyOneHeaderFile and
\* checkMemoryHeaders.
LEMMA LinkedDown ==
    ASSUME TypeOK, NEW a \in Nat, NEW b \in Heights, NEW c \in Int, b <= c, Linked(a, c),
           headers[b] = Best[b]
    PROVE  \A h \in a..b : headers[h] = Best[h]
<1> DEFINE S == {h \in a..b : headers[h] # Best[h]}
<1> SUFFICES ASSUME S # {} PROVE FALSE
  OBVIOUS
<1>1. Heights = 0..MaxHeight /\ MaxHeight \in Nat /\ b \in Nat /\ b <= MaxHeight
  BY Numbers
<1>2. S \in SUBSET (0..b)
  BY <1>1
<1>3. PICK g \in S : \A h \in S : h <= g
  <2> HIDE DEF S
  <2> QED BY <1>1, <1>2, GreatestElement
<1>4. g \in a..b /\ headers[g] # Best[g] /\ g # b
  BY <1>3
<1>5. g + 1 \in a..c /\ g + 1 \in a..b /\ g + 1 # 0 /\ g + 1 # a /\ g + 1 \in Heights /\ g \in 0..(g + 1)
      /\ (g + 1) - 1 = g /\ g \in Int
  BY <1>1, <1>4
<1>6. headers[g + 1] = Best[g + 1]
  BY <1>3, <1>5
<1>7. Anc[headers[g + 1]][(g + 1) - 1] = headers[(g + 1) - 1]
  BY <1>5 DEF Linked
<1>8. Anc[Best[g + 1]][g] = Best[g]
  BY <1>5, ChainAssumption
<1> QED BY <1>4, <1>5, <1>6, <1>7, <1>8

-----------------------------------------------------------------------------
(* The cache of filter headers. *)

\* A height lies in the file that storedFilterHeader looks it up in.
LEMMA LookupRange ==
    ASSUME TypeOK, NEW h \in Nat
    PROVE  /\ h \div HeadersPerFile \in Nat
           /\ h \in Range(h \div HeadersPerFile, HeadersPerFile)
<1> DEFINE H == HeadersPerFile
           K == h \div H
<1>1. H \in Nat \ {0}
  BY Numbers
<1>2. K \in Nat /\ H * K <= h /\ h < H * K + H
  <2> HIDE DEF H
  <2> QED BY <1>1
<1> HIDE DEF K, H
<1>3. h \in (K * H)..(K * H + H - 1)
  BY <1>1, <1>2
<1> QED BY <1>2, <1>3 DEF Range, K, H

\* storedFilterHeader returns what is stored, from a cache that holds what is
\* stored, whether it was loaded from a file or from the server's memory.
LEMMA LookupHolds ==
    ASSUME TypeOK, NEW c, CacheHoldsStored(c), NEW h \in Nat
    PROVE  /\ CacheHoldsStored(Lookup(c, h))
           /\ Lookup(c, h).start = h \div HeadersPerFile
           /\ h \in Heights => Lookup(c, h).data[h] = fheaders[h]
<1> DEFINE K == h \div HeadersPerFile
<1>1. K \in Nat /\ h \in Range(K, HeadersPerFile)
  BY LookupRange
<1>2. CacheHoldsStored(Loaded(K)) /\ Loaded(K).start = K
  <2> HIDE DEF K
  <2>1. Loaded(K).start = K /\ Loaded(K).data = [g \in Range(K, HeadersPerFile) \cap Heights |-> fheaders[g]]
    BY DEF Loaded
  <2> QED BY <1>1, <2>1 DEF CacheHoldsStored
<1>3. CacheHoldsStored(Lookup(c, h)) /\ Lookup(c, h).start = K
  BY <1>2 DEF Lookup
<1> HIDE DEF K
<1>4. h \in Heights => Lookup(c, h).data[h] = fheaders[h]
  BY <1>1, <1>3 DEF CacheHoldsStored
<1> QED BY <1>3, <1>4 DEF K

\* An empty cache holds no height.
LEMMA EmptyCache ==
    NoCache.start \in Int /\ \A h \in Heights : h \notin Range(NoCache.start, HeadersPerFile)
<1> DEFINE m == NoCache.start
<1>1. m \in Int /\ m = -1
  BY DEF NoCache
<1>2. HeadersPerFile \in Nat /\ HeadersPerFile > 0 /\ \A h \in Heights : h \in Nat
  BY SizeAssumption DEF Heights
<1> HIDE DEF m
<1>3. m * HeadersPerFile + HeadersPerFile - 1 = -1 /\ m * HeadersPerFile \in Int
  BY <1>1, <1>2
<1>4. \A h \in Heights : h \notin Range(m, HeadersPerFile)
  BY <1>2, <1>3 DEF Range
<1> QED BY <1>1, <1>4 DEF m

\* So do the look-ups of checkFilterChain.
LEMMA CacheAfterHolds ==
    ASSUME TypeOK, CacheHoldsStored(cache), NEW k \in Nat
    PROVE  CacheHoldsStored(CacheAt(k)) /\ CacheHoldsStored(CacheAfter(k))
<1>1. End(k, FiltersPerFile) \in Nat /\ k * FiltersPerFile \in Nat /\ FiltersPerFile \in Nat /\ FiltersPerFile > 0
  BY SealedIff, Numbers
<1>2. CacheHoldsStored(CacheAt(k))
  <2>1. CASE k = 0
    BY <2>1 DEF CacheAt
  <2>2. CASE k # 0
    <3>1. k * FiltersPerFile - 1 \in Nat
      <4>1. k * FiltersPerFile # 0
        BY <1>1, <2>2
      <4> QED BY <1>1, <4>1
    <3>2. CacheHoldsStored(Lookup(cache, k * FiltersPerFile - 1))
      BY <3>1, LookupHolds
    <3> QED BY <2>2, <3>2 DEF CacheAt
  <2> QED BY <2>1, <2>2
<1>3. CacheHoldsStored(Lookup(CacheAt(k), End(k, FiltersPerFile)))
  BY <1>1, <1>2, LookupHolds
<1> QED BY <1>2, <1>3 DEF CacheAfter

\* A filter file that checkFilterChain accepts continues the stored filter
\* header before it, and ends at the one at its end.
LEMMA ChainClosed ==
    ASSUME TypeOK, CacheHoldsStored(cache), NEW k \in Nat, k < NumFiles(FiltersPerFile),
           FilterChainCloses(k)
    PROVE  /\ FilterFile(k) \notin cut
           /\ \A j \in 0..End(k, FiltersPerFile) :
                 fheaders[End(k, FiltersPerFile)][j] =
                     IF j < k * FiltersPerFile THEN fheaders[k * FiltersPerFile - 1][j] ELSE filters[j]
<1> DEFINE F == FiltersPerFile
           s == k * F
           e == End(k, F)
<1>1. e \in Nat /\ s \in Nat /\ e = s + F - 1 /\ F \in Nat /\ F > 0 /\ e \in Heights
  BY SealedIff, SealedFilterFile, Numbers
<1>2. CacheAfter(k).data[e] = fheaders[e]
  BY <1>1, CacheAfterHolds, LookupHolds DEF CacheAfter
<1>3. FilterFile(k) \notin cut
  BY DEF FilterChainCloses, FiltersReadable
<1>4. CacheAfter(k).data[e] = ChainOver(IF s = 0 THEN <<>> ELSE CacheAt(k).data[s - 1], s, e)
  BY DEF FilterChainCloses
<1>5. ASSUME s > 0 PROVE CacheAt(k).data[s - 1] = fheaders[s - 1]
  <2>1. k # 0
    BY <1>1, <1>5
  <2>2. s - 1 \in Nat /\ s - 1 \in Heights
    BY <1>1, <1>5, Numbers
  <2>3. CacheAt(k) = Lookup(cache, s - 1)
    BY <2>1 DEF CacheAt
  <2> HIDE DEF s
  <2> QED BY <2>2, <2>3, LookupHolds
<1> HIDE DEF s, e, F
<1>6. ASSUME NEW j \in 0..e
      PROVE  fheaders[e][j] = IF j < s THEN fheaders[s - 1][j] ELSE filters[j]
  <2>1. fheaders[e][j] = IF j < s THEN (IF s = 0 THEN <<>> ELSE CacheAt(k).data[s - 1])[j] ELSE filters[j]
    BY <1>2, <1>4 DEF ChainOver
  <2>2. j < s => s > 0 /\ s # 0
    BY <1>1
  <2> QED BY <1>5, <2>1, <2>2
<1> QED BY <1>3, <1>6 DEF s, e, F

-----------------------------------------------------------------------------
(* The header walk. *)

\* A step of verify itself that rewrites nothing.
LEMMA SameStores ==
    ASSUME UNCHANGED <<top, dataVars>>
    PROVE  /\ UNCHANGED <<headers, fheaders, filters, cut>>
           /\ NumFiles(HeadersPerFile)' = NumFiles(HeadersPerFile)
           /\ NumFiles(FiltersPerFile)' = NumFiles(FiltersPerFile)
           /\ Sealed' = Sealed
           /\ \A n : HeadersChecked(n)' <=> HeadersChecked(n)
           /\ \A c : CacheHoldsStored(c)' <=> CacheHoldsStored(c)
<1>1. UNCHANGED <<headers, fheaders, filters, cut>>
  BY DEF dataVars
<1>2. /\ NumFiles(HeadersPerFile)' = NumFiles(HeadersPerFile)
      /\ NumFiles(FiltersPerFile)' = NumFiles(FiltersPerFile)
  BY DEF NumFiles
<1>3. Sealed' = Sealed
  BY <1>2 DEF Sealed
<1>4. \A n : HeadersChecked(n)' <=> HeadersChecked(n)
  BY <1>1 DEF HeadersChecked
<1>5. \A c : CacheHoldsStored(c)' <=> CacheHoldsStored(c)
  BY <1>1 DEF CacheHoldsStored
<1> QED BY <1>1, <1>2, <1>3, <1>4, <1>5

\* Such a step keeps the stores as they should be if the cache is.
LEMMA SameStoresKeep ==
    ASSUME StoreInv, UNCHANGED <<top, dataVars>>, cache' = cache
    PROVE  StoreInv'
<1>1. /\ UNCHANGED <<headers, fheaders, filters, cut>> /\ Sealed' = Sealed
      /\ NumFiles(HeadersPerFile)' = NumFiles(HeadersPerFile)
  BY SameStores
<1>2. CacheHoldsStored(cache)'
  BY <1>1 DEF StoreInv, CacheHoldsStored
<1> QED BY <1>1, <1>2 DEF StoreInv

\* The file the walk is at.
LEMMA FilesOfWalk ==
    ASSUME TypeOK
    PROVE  /\ pos \in Nat /\ pos \in Heights
           /\ HeaderFile(pos) \in Files /\ FHeaderFile(pos) \in Files /\ FilterFile(pos) \in Files
BY Numbers DEF TypeOK, Files

\* A header file that links up to bitcoind's block at its end is of its chain.
LEMMA GoodHeaders ==
    ASSUME TypeOK, pos < NumFiles(HeadersPerFile), HeaderFileGood(pos)
    PROVE  HeaderFile(pos) \notin cut /\ \A h \in Range(pos, HeadersPerFile) : headers[h] = Best[h]
<1> DEFINE H == HeadersPerFile
           e == End(pos, H)
<1>1. pos \in Nat
  BY FilesOfWalk
<1>2. HeaderFile(pos) \notin cut /\ Linked(pos * H, e) /\ headers[e] = Best[e]
  BY DEF HeaderFileGood
<1>3. pos * H \in Nat /\ Range(pos, H) = (pos * H)..e /\ e \in Int
  BY <1>1, SealedIff
<1>4. e \in Heights
  BY <1>1, SealedBelowMemory
<1>5. \A h \in (pos * H)..e : headers[h] = Best[h]
  <2> HIDE DEF e
  <2> QED BY <1>2, <1>3, <1>4, LinkedDown
<1> QED BY <1>2, <1>3, <1>5

\* verifyOneHeaderFile: what it accepts is of bitcoind's chain.
LEMMA VerifyOneHeaderFileKeeps ==
    ASSUME IndInv, NEW answered \in BOOLEAN, VerifyOneHeaderFile(answered)
    PROVE  IndInv'
<1> USE DEF IndInv
<1> DEFINE H == HeadersPerFile
           e == End(pos, H)
<1>1. /\ pc = "headers" /\ pos < NumFiles(H)
      /\ UNCHANGED <<fix, safe, fixed, cache, top, dataVars, headers, fheaders, filters, cut>>
      /\ UNCHANGED <<pos, todo>>
      /\ \/ HeaderFileGood(pos) /\ running' = headers[e] /\ pc' = "anchor" /\ bad' = bad
         \/ fix /\ running' = running /\ pc' = "fixHeaders" /\ bad' = bad
         \/ ~fix /\ running' = running /\ pc' = "anchor" /\ bad' = bad \cup {HeaderFile(pos)}
  BY DEF VerifyOneHeaderFile, Goto, dataVars
<1>2. pos \in Nat /\ pos \in Heights /\ HeaderFile(pos) \in Files
  BY FilesOfWalk
<1>3. e \in Heights
  BY <1>1, <1>2, SealedBelowMemory
<1>4. TypeOK'
  <2>1. running' \in Block \cup {NoBlock}
    BY <1>1, <1>3 DEF TypeOK
  <2>2. bad' \subseteq (IF fix' THEN {} ELSE Files) \cup {Memory("headers"), Memory("filter headers")}
    BY <1>1, <1>2 DEF TypeOK
  <2>3. pc' \in {"anchor", "fixHeaders"}
    BY <1>1
  <2> QED BY <1>1, <2>1, <2>2, <2>3 DEF TypeOK
<1>5. PhaseInv'
  BY <1>1, SameStores DEF PhaseInv
<1>6. StoreInv'
  BY <1>1, SameStoresKeep
<1>7. BlameInv'
  BY <1>1 DEF BlameInv
<1>8. WalkInv'
  <2> SUFFICES ASSUME bad' = {} PROVE WalkInv'
    BY DEF WalkInv
  <2>1. bad = {} /\ ((HeaderFileGood(pos) /\ pc' = "anchor") \/ pc' = "fixHeaders")
    BY <1>1
  <2>2. HeadersChecked(pos)
    BY <1>1, <2>1 DEF WalkInv
  <2>3. HeadersChecked(pos)'
    BY <1>1, <2>2 DEF HeadersChecked
  <2>4. pc' = "anchor" => HeaderFile(pos) \notin cut /\ \A h \in Range(pos, H) : headers[h] = Best[h]
    BY <1>1, <2>1, GoodHeaders
  <2> QED BY <1>1, <2>1, <2>3, <2>4 DEF WalkInv, FilterWalk, OkMeansAuthentic
<1> QED BY <1>4, <1>5, <1>6, <1>7, <1>8

\* regenerate, for block headers.
LEMMA FixHeaderFileKeeps ==
    ASSUME IndInv, FixHeaderFile
    PROVE  IndInv'
<1> USE DEF IndInv
<1> DEFINE H == HeadersPerFile
<1>1. /\ pc = "fixHeaders" /\ pc' = "recheckHeaders" /\ fix /\ pos < NumFiles(H)
      /\ UNCHANGED <<pos, running, todo, fix, safe, bad, cache, top, fheaders, filters>>
      /\ headers' = [h \in Heights |-> IF h \in Range(pos, H) THEN Best[h] ELSE headers[h]]
      /\ fixed' = fixed \cup {HeaderFile(pos)} /\ cut' = cut \ {HeaderFile(pos)}
  BY DEF FixHeaderFile, RewriteHeaders, Regenerate, Goto, PhaseInv
<1>2. pos \in Nat /\ HeaderFile(pos) \in Files
  BY FilesOfWalk
<1>3. TypeOK'
  <2>1. headers' \in [Heights -> Block]
    BY <1>1, AuthIsBest DEF TypeOK
  <2>2. fixed' \subseteq (IF fix' THEN Files ELSE {}) /\ cut' \subseteq Files
    BY <1>1, <1>2 DEF TypeOK
  <2> QED BY <1>1, <2>1, <2>2 DEF TypeOK
<1>4. NumFiles(H)' = NumFiles(H) /\ NumFiles(FiltersPerFile)' = NumFiles(FiltersPerFile)
  BY <1>1 DEF NumFiles
<1>5. PhaseInv'
  BY <1>1, <1>4 DEF PhaseInv
<1>6. StoreInv'
  <2>1. Sealed' = Sealed
    BY <1>4 DEF Sealed
  <2>2. cut' \subseteq Sealed'
    BY <1>1, <2>1 DEF StoreInv
  <2>3. CacheHoldsStored(cache)'
    BY <1>1 DEF StoreInv, CacheHoldsStored
  <2>4. ASSUME NEW h \in Heights, h >= NumFiles(H) * H
        PROVE  fheaders'[h] = Commitment(h, headers'[h])
    <3>1. h \notin Range(pos, H)
      <4>1. \A g \in Range(pos, H) : g < NumFiles(H) * H
        BY <1>1, <1>2, SealedBelowMemory
      <4>2. NumFiles(H) * H \in Int /\ h \in Int
        BY MemoryStart, Numbers
      <4> QED BY <2>4, <4>1, <4>2
    <3>2. headers'[h] = headers[h]
      BY <1>1, <3>1
    <3> QED BY <1>1, <2>4, <3>2 DEF StoreInv
  <2> QED BY <1>4, <2>2, <2>3, <2>4 DEF StoreInv
<1>7. BlameInv'
  BY <1>1 DEF BlameInv
<1>8. WalkInv'
  <2> SUFFICES ASSUME bad = {} PROVE WalkInv'
    BY <1>1 DEF WalkInv
  <2>1. HeadersChecked(pos)
    BY <1>1 DEF WalkInv
  <2>2. ASSUME NEW h \in Heights, h < pos * H PROVE headers'[h] = Best[h]
    <3>1. h \notin Range(pos, H)
      <4>1. Range(pos, H) = (pos * H)..End(pos, H) /\ pos * H \in Nat /\ h \in Nat
        BY <1>2, SealedIff, Numbers
      <4> QED BY <2>2, <4>1
    <3> QED BY <1>1, <2>1, <2>2, <3>1 DEF HeadersChecked
  <2>3. HeadersChecked(pos)'
    BY <1>1, <2>1, <2>2 DEF HeadersChecked, AuthFilterHeader, Commitment
  <2> QED BY <1>1, <2>3 DEF WalkInv, FilterWalk, OkMeansAuthentic
<1> QED BY <1>3, <1>5, <1>6, <1>7, <1>8

\* The file is read again.
LEMMA RecheckHeaderFileKeeps ==
    ASSUME IndInv, NEW answered \in BOOLEAN, RecheckHeaderFile(answered)
    PROVE  IndInv'
<1> USE DEF IndInv
<1> DEFINE e == End(pos, HeadersPerFile)
<1>1. /\ pc = "recheckHeaders" /\ fix /\ pos < NumFiles(HeadersPerFile)
      /\ UNCHANGED <<pos, todo, fix, safe, bad, fixed, cache, top, dataVars, headers, fheaders, filters, cut>>
      /\ \/ HeaderFileGood(pos) /\ running' = headers[e] /\ pc' = "anchor"
         \/ running' = running /\ pc' = "still corrupt"
  BY DEF RecheckHeaderFile, Goto, dataVars, PhaseInv
<1>2. e \in Heights
  BY <1>1, FilesOfWalk, SealedBelowMemory
<1>3. TypeOK'
  <2>1. running' \in Block \cup {NoBlock}
    BY <1>1, <1>2 DEF TypeOK
  <2>2. pc' \in {"anchor", "still corrupt"}
    BY <1>1
  <2> QED BY <1>1, <2>1, <2>2 DEF TypeOK, Ended
<1>4. PhaseInv'
  BY <1>1, SameStores DEF PhaseInv
<1>5. StoreInv'
  BY <1>1, SameStoresKeep
<1>6. BlameInv'
  BY <1>1 DEF BlameInv
<1>7. WalkInv'
  <2> SUFFICES ASSUME bad = {} PROVE WalkInv'
    BY <1>1 DEF WalkInv
  <2>1. HeadersChecked(pos)
    BY <1>1 DEF WalkInv
  <2>2. HeadersChecked(pos)'
    BY <1>1, <2>1 DEF HeadersChecked
  <2>3. pc' = "anchor" =>
            HeaderFile(pos) \notin cut /\ \A h \in Range(pos, HeadersPerFile) : headers[h] = Best[h]
    BY <1>1, GoodHeaders
  <2> QED BY <1>1, <2>2, <2>3 DEF WalkInv, FilterWalk, OkMeansAuthentic
<1> QED BY <1>3, <1>4, <1>5, <1>6, <1>7

\* The walk moves on to the next pair of header files.
LEMMA NextHeaderFile ==
    ASSUME TypeOK, pos < NumFiles(HeadersPerFile)
    PROVE  /\ pos + 1 \in Heights /\ pos + 1 <= NumFiles(HeadersPerFile)
           /\ (pos + 1) * HeadersPerFile = End(pos, HeadersPerFile) + 1
           /\ Range(pos, HeadersPerFile) = (pos * HeadersPerFile)..End(pos, HeadersPerFile)
           /\ pos * HeadersPerFile \in Nat
<1> DEFINE H == HeadersPerFile
<1>1. /\ pos \in Nat /\ H \in Nat /\ Heights = 0..MaxHeight /\ MaxHeight \in Nat
      /\ Buried \in Int /\ Buried < MaxHeight
  BY Numbers
<1>2. /\ NumFiles(H) \in Int /\ End(pos, H) <= Buried /\ pos <= End(pos, H) /\ End(pos, H) \in Nat
      /\ End(pos, H) = pos * H + H - 1 /\ pos * H \in Nat /\ Range(pos, H) = (pos * H)..End(pos, H)
  BY <1>1, SealedIff
<1>3. pos + 1 \in Heights /\ pos + 1 <= NumFiles(H)
  BY <1>1, <1>2
<1>4. (pos + 1) * H = pos * H + H
  BY <1>1
<1>5. (pos + 1) * H = End(pos, H) + 1
  <2> DEFINE x == pos * H
  <2> HIDE DEF x, H
  <2> QED BY <1>1, <1>2, <1>4 DEF x
<1> QED BY <1>2, <1>3, <1>5

\* A pair of header files that both checks accept is one more that is good.
LEMMA OneMoreHeaderFile ==
    ASSUME TypeOK, pos < NumFiles(HeadersPerFile), HeadersChecked(pos), HeaderFile(pos) \notin cut,
           \A h \in Range(pos, HeadersPerFile) : headers[h] = Best[h], FHeaderFileGood(pos)
    PROVE  HeadersChecked(pos + 1)
<1> DEFINE H == HeadersPerFile
           e == End(pos, H)
<1>1. pos \in Nat
  BY FilesOfWalk
<1>2. (pos + 1) * H = e + 1 /\ Range(pos, H) = (pos * H)..e /\ pos * H \in Nat
  BY NextHeaderFile
<1>3. FHeaderFile(pos) \notin cut /\ fheaders[e] = AuthFilterHeader(e)
  BY DEF FHeaderFileGood
<1>4. ASSUME NEW k \in 0..((pos + 1) - 1)
      PROVE  /\ HeaderFile(k) \notin cut /\ FHeaderFile(k) \notin cut
             /\ fheaders[End(k, H)] = AuthFilterHeader(End(k, H))
  <2>1. k = pos \/ k \in 0..(pos - 1)
    BY <1>1
  <2> QED BY <1>3, <2>1 DEF HeadersChecked
<1>5. ASSUME NEW h \in Heights, h < (pos + 1) * H PROVE headers[h] = Best[h]
  <2>1. h \in Range(pos, H) \/ h < pos * H
    <3>1. e \in Int /\ h \in Nat
      BY <1>1, SealedIff, Numbers
    <3> DEFINE x == pos * H
    <3> HIDE DEF e, x
    <3> QED BY <1>2, <1>5, <3>1 DEF x
  <2> QED BY <2>1 DEF HeadersChecked
<1> QED BY <1>4, <1>5 DEF HeadersChecked

\* verifyFilterHeaderAnchor: only the last entry is compared with bitcoind.
LEMMA VerifyFilterHeaderAnchorKeeps ==
    ASSUME IndInv, NEW answered \in BOOLEAN, VerifyFilterHeaderAnchor(answered)
    PROVE  IndInv'
<1> USE DEF IndInv
<1> DEFINE H == HeadersPerFile
           e == End(pos, H)
<1>1. /\ pc = "anchor" /\ pos < NumFiles(H)
      /\ UNCHANGED <<running, todo, fix, safe, fixed, cache, top, dataVars, headers, fheaders, filters, cut>>
      /\ \/ FHeaderFileGood(pos) /\ pos' = pos + 1 /\ pc' = "headers" /\ bad' = bad
         \/ ~fix /\ pos' = pos + 1 /\ pc' = "headers" /\ bad' = bad \cup {FHeaderFile(pos)}
         \/ fix /\ pos' = pos /\ pc' = "fixAnchor" /\ bad' = bad
  BY DEF VerifyFilterHeaderAnchor, Goto, dataVars, PhaseInv
<1>2. pos \in Nat /\ FHeaderFile(pos) \in Files
  BY FilesOfWalk
<1>3. /\ pos + 1 \in Heights /\ pos + 1 <= NumFiles(H) /\ (pos + 1) * H = e + 1
      /\ Range(pos, H) = (pos * H)..e /\ pos * H \in Nat
  BY <1>1, NextHeaderFile
<1>4. TypeOK'
  <2>1. pos' \in Heights
    BY <1>1, <1>3 DEF TypeOK
  <2>2. bad' \subseteq (IF fix' THEN {} ELSE Files) \cup {Memory("headers"), Memory("filter headers")}
    BY <1>1, <1>2 DEF TypeOK
  <2>3. pc' \in {"headers", "fixAnchor"}
    BY <1>1
  <2> QED BY <1>1, <2>1, <2>2, <2>3 DEF TypeOK
<1>5. PhaseInv'
  <2>1. pc' = "headers" => pos' <= NumFiles(H)
    BY <1>1, <1>3
  <2> QED BY <1>1, <2>1, SameStores DEF PhaseInv
<1>6. StoreInv'
  BY <1>1, SameStoresKeep
<1>7. BlameInv'
  BY <1>1 DEF BlameInv
<1>8. WalkInv'
  <2> SUFFICES ASSUME bad' = {} PROVE WalkInv'
    BY DEF WalkInv
  <2>1. /\ bad = {}
        /\ \/ FHeaderFileGood(pos) /\ pc' = "headers" /\ pos' = pos + 1
           \/ pc' = "fixAnchor" /\ pos' = pos
    BY <1>1
  <2>2. /\ HeadersChecked(pos) /\ HeaderFile(pos) \notin cut
        /\ \A h \in Range(pos, H) : headers[h] = Best[h]
    BY <1>1, <2>1 DEF WalkInv
  <2>3. CASE FHeaderFileGood(pos) /\ pc' = "headers" /\ pos' = pos + 1
    <3>1. HeadersChecked(pos + 1)
      BY <1>1, <2>2, <2>3, OneMoreHeaderFile
    <3>2. HeadersChecked(pos)'
      BY <1>1, <2>3, <3>1 DEF HeadersChecked
    <3> QED BY <2>3, <3>2 DEF WalkInv, FilterWalk, OkMeansAuthentic
  <2>4. CASE pc' = "fixAnchor" /\ pos' = pos
    <3>1. HeadersChecked(pos)'
      BY <1>1, <2>2, <2>4 DEF HeadersChecked
    <3> QED BY <1>1, <2>2, <2>4, <3>1 DEF WalkInv, FilterWalk, OkMeansAuthentic
  <2> QED BY <2>1, <2>3, <2>4
<1> QED BY <1>4, <1>5, <1>6, <1>7, <1>8

\* regenerate, for filter headers: the cache is dropped.
LEMMA RewriteFHeadersKeeps ==
    ASSUME IndInv, fix, NEW k \in Nat, k < NumFiles(HeadersPerFile), k \in Heights,
           RewriteFHeaders(k), UNCHANGED <<top, headers, filters, fix>>
    PROVE  /\ fixed' \subseteq (IF fix' THEN Files ELSE {}) /\ cut' \subseteq Files
           /\ \A h \in Heights : fheaders'[h] \in [0..h -> Block]
           /\ StoreInv'
           /\ cut' \subseteq cut /\ FHeaderFile(k) \in fixed'
           /\ \A j \in Nat : j < NumFiles(HeadersPerFile) =>
                 LET e == End(j, HeadersPerFile)
                 IN  fheaders[e] = AuthFilterHeader(e) => fheaders'[e] = AuthFilterHeader(e)
<1> USE DEF IndInv
<1> DEFINE H == HeadersPerFile
<1>1. /\ fheaders' = [h \in Heights |-> IF h \in Range(k, H) THEN AuthFilterHeader(h) ELSE fheaders[h]]
      /\ fixed' = fixed \cup {FHeaderFile(k)} /\ cut' = cut \ {FHeaderFile(k)} /\ cache' = NoCache
  BY DEF RewriteFHeaders, Regenerate
<1>2. FHeaderFile(k) \in Files
  BY DEF Files
<1>3. fixed' \subseteq (IF fix' THEN Files ELSE {}) /\ cut' \subseteq Files
  BY <1>1, <1>2 DEF TypeOK
<1>4. \A h \in Heights : fheaders'[h] \in [0..h -> Block]
  BY <1>1, AuthIsBest DEF TypeOK
<1>5. NumFiles(H)' = NumFiles(H) /\ NumFiles(FiltersPerFile)' = NumFiles(FiltersPerFile)
  BY DEF NumFiles
<1>6. cut' \subseteq Sealed'
  <2>1. Sealed' = Sealed
    BY <1>5 DEF Sealed
  <2> QED BY <1>1, <2>1 DEF StoreInv
<1>7. CacheHoldsStored(cache)'
  BY <1>1, EmptyCache DEF CacheHoldsStored
<1>8. ASSUME NEW h \in Heights, h >= NumFiles(H) * H
      PROVE  fheaders'[h] = Commitment(h, headers'[h])
  <2>1. \A g \in Range(k, H) : g < NumFiles(H) * H
    BY SealedBelowMemory
  <2>2. NumFiles(H) * H \in Int /\ h \in Int
    BY MemoryStart, Numbers
  <2>3. h \notin Range(k, H)
    BY <1>8, <2>1, <2>2
  <2> QED BY <1>1, <1>8, <2>3 DEF StoreInv
<1>9. StoreInv'
  BY <1>5, <1>6, <1>7, <1>8 DEF StoreInv
<1>10. ASSUME NEW j \in Nat, j < NumFiles(H), fheaders[End(j, H)] = AuthFilterHeader(End(j, H))
       PROVE  fheaders'[End(j, H)] = AuthFilterHeader(End(j, H))
  <2>1. End(j, H) \in Heights
    BY <1>10, SealedBelowMemory
  <2> QED BY <1>1, <1>10, <2>1
<1> QED BY <1>1, <1>3, <1>4, <1>9, <1>10

\* In verifyFilterHeaderAnchor.
LEMMA FixFilterHeaderFileKeeps ==
    ASSUME IndInv, FixFilterHeaderFile
    PROVE  IndInv'
<1> USE DEF IndInv
<1>1. /\ pc = "fixAnchor" /\ pc' = "recheckAnchor" /\ fix /\ pos < NumFiles(HeadersPerFile)
      /\ UNCHANGED <<pos, running, todo, fix, safe, bad, top, headers, filters>> /\ RewriteFHeaders(pos)
  BY DEF FixFilterHeaderFile, Goto, PhaseInv
<1>2. pos \in Nat /\ pos \in Heights
  BY FilesOfWalk
<1>3. /\ fixed' \subseteq (IF fix' THEN Files ELSE {}) /\ cut' \subseteq Files
      /\ \A h \in Heights : fheaders'[h] \in [0..h -> Block]
      /\ StoreInv'
  BY <1>1, <1>2, RewriteFHeadersKeeps
<1>4. TypeOK'
  BY <1>1, <1>3 DEF TypeOK
<1>5. NumFiles(HeadersPerFile)' = NumFiles(HeadersPerFile)
  BY <1>1 DEF NumFiles
<1>6. PhaseInv' /\ BlameInv'
  BY <1>1, <1>5 DEF PhaseInv, BlameInv
<1>7. WalkInv'
  <2> SUFFICES ASSUME bad = {} PROVE WalkInv'
    BY <1>1 DEF WalkInv
  <2>1. /\ HeadersChecked(pos) /\ HeaderFile(pos) \notin cut
        /\ \A h \in Range(pos, HeadersPerFile) : headers[h] = Best[h]
    BY <1>1 DEF WalkInv
  <2>2. cut' \subseteq cut /\ pos' = pos /\ headers' = headers
    BY <1>1, <1>2, RewriteFHeadersKeeps
  <2>3. ASSUME NEW k \in 0..(pos - 1)
        PROVE  /\ HeaderFile(k) \notin cut' /\ FHeaderFile(k) \notin cut'
               /\ fheaders'[End(k, HeadersPerFile)] = AuthFilterHeader(End(k, HeadersPerFile))
    <3>1. k \in Nat /\ k < NumFiles(HeadersPerFile)
      <4>1. NumFiles(HeadersPerFile) \in Int
        BY MemoryStart
      <4> QED BY <1>1, <1>2, <4>1
    <3>2. /\ HeaderFile(k) \notin cut /\ FHeaderFile(k) \notin cut
          /\ fheaders[End(k, HeadersPerFile)] = AuthFilterHeader(End(k, HeadersPerFile))
      BY <2>1 DEF HeadersChecked
    <3> QED BY <1>1, <1>2, <2>2, <3>1, <3>2, RewriteFHeadersKeeps
  <2>4. HeadersChecked(pos)'
    BY <2>1, <2>2, <2>3 DEF HeadersChecked, AuthFilterHeader, Commitment
  <2> QED BY <1>1, <2>1, <2>2, <2>4 DEF WalkInv, FilterWalk, OkMeansAuthentic
<1> QED BY <1>3, <1>4, <1>6, <1>7

\* The file is read again.
LEMMA RecheckFilterHeaderFileKeeps ==
    ASSUME IndInv, NEW answered \in BOOLEAN, RecheckFilterHeaderFile(answered)
    PROVE  IndInv'
<1> USE DEF IndInv
<1>1. /\ pc = "recheckAnchor" /\ fix /\ pos < NumFiles(HeadersPerFile)
      /\ UNCHANGED <<running, todo, fix, safe, bad, fixed, cache, top, dataVars, headers, fheaders, filters, cut>>
      /\ \/ FHeaderFileGood(pos) /\ pos' = pos + 1 /\ pc' = "headers"
         \/ pos' = pos /\ pc' = "still corrupt"
  BY DEF RecheckFilterHeaderFile, Goto, dataVars, PhaseInv
<1>2. pos + 1 \in Heights /\ pos + 1 <= NumFiles(HeadersPerFile)
  BY <1>1, NextHeaderFile
<1>3. TypeOK'
  <2>1. pos' \in Heights /\ pc' \in {"headers", "still corrupt"}
    BY <1>1, <1>2 DEF TypeOK
  <2> QED BY <1>1, <2>1 DEF TypeOK, Ended
<1>4. PhaseInv'
  <2>1. pc' = "headers" => pos' <= NumFiles(HeadersPerFile)
    BY <1>1, <1>2
  <2> QED BY <1>1, <2>1, SameStores DEF PhaseInv
<1>5. StoreInv'
  BY <1>1, SameStoresKeep
<1>6. BlameInv'
  BY <1>1 DEF BlameInv
<1>7. WalkInv'
  <2> SUFFICES ASSUME bad = {} PROVE WalkInv'
    BY <1>1 DEF WalkInv
  <2>1. /\ HeadersChecked(pos) /\ HeaderFile(pos) \notin cut
        /\ \A h \in Range(pos, HeadersPerFile) : headers[h] = Best[h]
    BY <1>1 DEF WalkInv
  <2>2. CASE FHeaderFileGood(pos) /\ pos' = pos + 1 /\ pc' = "headers"
    <3>1. HeadersChecked(pos + 1)
      BY <1>1, <2>1, <2>2, OneMoreHeaderFile
    <3>2. HeadersChecked(pos)'
      BY <1>1, <2>2, <3>1 DEF HeadersChecked
    <3> QED BY <2>2, <3>2 DEF WalkInv, FilterWalk, OkMeansAuthentic
  <2>3. CASE pc' = "still corrupt"
    BY <2>3 DEF WalkInv, FilterWalk, OkMeansAuthentic
  <2> QED BY <1>1, <2>2, <2>3
<1> QED BY <1>3, <1>4, <1>5, <1>6, <1>7

\* Every file has been seen.
LEMMA NoHeaderFileKeeps ==
    ASSUME IndInv, NoHeaderFile
    PROVE  IndInv'
<1> USE DEF IndInv
<1> DEFINE H == HeadersPerFile
           N == NumFiles(H)
<1>1. /\ pc = "headers" /\ pc' = "tail" /\ pos >= N
      /\ UNCHANGED <<pos, running, todo, fix, safe, bad, fixed, cache, top, dataVars, headers, fheaders, filters, cut>>
  BY DEF NoHeaderFile, Goto, dataVars
<1>2. TypeOK'
  BY <1>1 DEF TypeOK
<1>3. PhaseInv' /\ BlameInv'
  BY <1>1, SameStores DEF PhaseInv, BlameInv
<1>4. StoreInv'
  BY <1>1, SameStoresKeep
<1>5. WalkInv'
  <2> SUFFICES ASSUME bad = {} PROVE WalkInv'
    BY <1>1 DEF WalkInv
  <2>1. HeadersChecked(pos)
    BY <1>1 DEF WalkInv
  <2>2. pos \in Nat /\ H \in Nat /\ H > 0 /\ \A h \in Heights : h \in Nat
    BY Numbers
  <2>3. N \in Int /\ pos * H \in Nat
    BY <2>2, SealedIff
  <2>4. \A k \in 0..(N - 1) : k \in 0..(pos - 1)
    <3> HIDE DEF N
    <3> QED BY <1>1, <2>2, <2>3
  <2>5. ASSUME NEW h \in Heights, h < N * H PROVE headers[h] = Best[h]
    <3>1. N * H <= pos * H /\ N * H \in Int
      <4> HIDE DEF N
      <4> QED BY <1>1, <2>2, <2>3
    <3>2. h < pos * H
      BY <2>2, <2>3, <2>5, <3>1
    <3> QED BY <2>1, <3>2 DEF HeadersChecked
  <2>6. HeadersChecked(N)
    BY <2>1, <2>4, <2>5 DEF HeadersChecked
  <2>7. HeadersChecked(NumFiles(HeadersPerFile))'
    BY <1>1, <2>6, SameStores DEF HeadersChecked
  <2> QED BY <1>1, <2>7 DEF WalkInv, FilterWalk, OkMeansAuthentic
<1> QED BY <1>2, <1>3, <1>4, <1>5

\* checkMemoryHeaders: with the files before, everything up to the anchor
\* height is of bitcoind's chain, also when the server has sealed the range
\* since and answers with the file.
LEMMA MemoryAnchored ==
    ASSUME TypeOK, HeadersChecked(NumFiles(HeadersPerFile)), pos = 0 \/ pos <= NumFiles(HeadersPerFile),
           NEW answered, MemoryHeadersGood(answered), NEW h \in Heights, h <= AnchorHeight
    PROVE  headers[h] = Best[h]
<1> DEFINE H == HeadersPerFile
           N == NumFiles(H)
           A == AnchorHeight
<1>1. /\ pos \in Nat /\ H \in Nat /\ H > 0 /\ Heights = 0..MaxHeight /\ MaxHeight \in Nat
      /\ top \in Nat /\ top <= MaxHeight /\ ReOrgSafeDepth \in Nat /\ h \in Nat
  BY Numbers
<1>2. N \in Int /\ pos * H \in Nat /\ N * H \in Int
  BY <1>1, SealedIff, MemoryStart
<1>3. CASE pos < N
  <2> DEFINE e == End(pos, H)
  <2>1. e \in Nat /\ e < N * H
    BY <1>1, <1>3, SealedIff, SealedBelowMemory
  <2>2. A = e - ReOrgSafeDepth
    BY <1>3 DEF AnchorHeight, MemoryEnd
  <2>3. h < N * H
    <3> DEFINE x == N * H
    <3>1. x \in Int /\ e < x /\ h <= e - ReOrgSafeDepth
      BY <1>2, <2>1, <2>2
    <3> HIDE DEF x, e
    <3>2. h < x
      BY <1>1, <2>1, <3>1
    <3> QED BY <3>2 DEF x
  <2> QED BY <2>3 DEF HeadersChecked
<1>4. CASE ~ (pos < N)
  <2>1. A = top - ReOrgSafeDepth /\ MemoryEnd = top
    BY <1>4 DEF AnchorHeight, MemoryEnd
  <2>2. CASE h < N * H
    BY <2>2 DEF HeadersChecked
  <2>3. CASE ~ (h < N * H)
    <3>1. pos * H <= h
      <4>1. pos = 0 \/ pos = N
        <5>1. pos = 0 \/ pos <= N
          OBVIOUS
        <5> HIDE DEF N
        <5> QED BY <1>1, <1>2, <1>4, <5>1
      <4>2. CASE pos = 0
        BY <1>1, <4>2
      <4>3. CASE pos = N
        BY <1>1, <1>2, <2>3, <4>3
      <4> QED BY <4>1, <4>2, <4>3
    <3> DEFINE x == pos * H
    <3>2. A \in Heights /\ A >= x /\ A \in Int /\ A <= top /\ h \in x..A /\ x \in Nat
      <4>1. x <= h /\ x \in Nat /\ h <= A
        BY <1>2, <3>1
      <4> HIDE DEF x, A
      <4> QED BY <1>1, <2>1, <4>1
    <3>3. headers[A] = Best[A] /\ Linked(x, top)
      BY <2>1, <3>2 DEF MemoryHeadersGood, Anchored
    <3> HIDE DEF x, A
    <3> QED BY <1>1, <3>2, <3>3, LinkedDown
  <2> QED BY <2>2, <2>3
<1> QED BY <1>3, <1>4

\* checkMemoryHeaders.
LEMMA CheckMemoryHeadersKeeps ==
    ASSUME IndInv, NEW answered \in BOOLEAN, CheckMemoryHeaders(answered)
    PROVE  IndInv'
<1> USE DEF IndInv
<1> DEFINE H == HeadersPerFile
           N == NumFiles(H)
<1>1. /\ pc = "tail" /\ pc' = "memory" /\ safe' = AnchorHeight
      /\ UNCHANGED <<pos, running, todo, fix, fixed, cache, top, dataVars, headers, fheaders, filters, cut>>
      /\ \/ MemoryHeadersGood(answered) /\ bad' = bad
         \/ bad' = bad \cup {Memory("headers")}
  BY DEF CheckMemoryHeaders, Goto, dataVars
<1>2. TypeOK'
  <2>1. bad' \subseteq (IF fix' THEN {} ELSE Files) \cup {Memory("headers"), Memory("filter headers")}
    BY <1>1 DEF TypeOK
  <2>2. safe' \in (-1 - ReOrgSafeDepth)..MaxHeight
    <3>1. /\ pos \in Nat /\ MaxHeight \in Nat /\ Heights = 0..MaxHeight
          /\ top \in Nat /\ top <= MaxHeight /\ ReOrgSafeDepth \in Nat
      BY Numbers
    <3>2. MemoryEnd \in 0..MaxHeight
      <4>1. pos < N => End(pos, H) \in Heights
        BY <3>1, SealedBelowMemory
      <4> QED BY <3>1, <4>1 DEF MemoryEnd
    <3> QED BY <1>1, <3>1, <3>2 DEF AnchorHeight
  <2> QED BY <1>1, <2>1, <2>2 DEF TypeOK
<1>3. PhaseInv' /\ BlameInv'
  BY <1>1, SameStores DEF PhaseInv, BlameInv
<1>4. StoreInv'
  BY <1>1, SameStoresKeep
<1>5. WalkInv'
  <2> SUFFICES ASSUME bad' = {} PROVE WalkInv'
    BY DEF WalkInv
  <2>1. MemoryHeadersGood(answered) /\ bad = {}
    BY <1>1
  <2>2. HeadersChecked(N) /\ (pos = 0 \/ pos <= N)
    BY <1>1, <2>1 DEF WalkInv, PhaseInv
  <2>3. \A h \in Heights : h <= safe' => headers'[h] = Best[h]
    BY <1>1, <2>1, <2>2, MemoryAnchored
  <2>4. HeadersChecked(NumFiles(HeadersPerFile))'
    BY <1>1, <2>2, SameStores DEF HeadersChecked
  <2> QED BY <1>1, <2>3, <2>4 DEF WalkInv, FilterWalk, OkMeansAuthentic
<1> QED BY <1>2, <1>3, <1>4, <1>5

\* checkMemoryFilterHeaders.
LEMMA CheckMemoryFilterHeadersKeeps ==
    ASSUME IndInv, NEW answered \in BOOLEAN, CheckMemoryFilterHeaders(answered)
    PROVE  IndInv'
<1> USE DEF IndInv
<1>1. /\ pc = "memory" /\ pc' = "filters" /\ pos' = 0
      /\ UNCHANGED <<running, todo, fix, safe, fixed, cache, top, dataVars, headers, fheaders, filters, cut>>
      /\ bad' = bad \/ bad' = bad \cup {Memory("filter headers")}
  BY DEF CheckMemoryFilterHeaders, dataVars
<1>2. TypeOK'
  <2>1. bad' \subseteq (IF fix' THEN {} ELSE Files) \cup {Memory("headers"), Memory("filter headers")}
    BY <1>1 DEF TypeOK
  <2>2. 0 \in Heights
    BY SizeAssumption DEF Heights
  <2> QED BY <1>1, <2>1, <2>2 DEF TypeOK
<1>3. PhaseInv' /\ BlameInv'
  BY <1>1 DEF PhaseInv, BlameInv
<1>4. StoreInv'
  BY <1>1, SameStoresKeep
<1>5. WalkInv'
  <2> SUFFICES ASSUME bad' = {} PROVE WalkInv'
    BY DEF WalkInv
  <2>1. bad = {}
    BY <1>1
  <2>2. /\ HeadersChecked(NumFiles(HeadersPerFile))
        /\ \A h \in Heights : h <= safe => headers[h] = Best[h]
    BY <1>1, <2>1 DEF WalkInv
  <2>3. HeadersChecked(NumFiles(HeadersPerFile))'
    BY <1>1, <2>2, SameStores DEF HeadersChecked
  <2>4. FiltersChecked(pos)'
    <3>1. pos' = 0
      BY <1>1
    <3>2. 0..(pos' - 1) = {}
      BY <3>1
    <3> QED BY <3>2 DEF FiltersChecked
  <2> QED BY <1>1, <2>2, <2>3, <2>4 DEF WalkInv, FilterWalk, OkMeansAuthentic
<1> QED BY <1>2, <1>3, <1>4, <1>5

-----------------------------------------------------------------------------
(* The filter walk. *)

\* What a filter walk that found nothing knows.
LEMMA FilterWalkKnows ==
    ASSUME IndInv, bad = {}, pc \in FilterWalk
    PROVE  /\ HeadersChecked(NumFiles(HeadersPerFile)) /\ FiltersChecked(pos)
           /\ \A h \in Heights : h <= safe => headers[h] = Best[h]
BY DEF IndInv, WalkInv

\* What it has to keep.
LEMMA FilterWalkGoesOn ==
    ASSUME pc' \in FilterWalk, HeadersChecked(NumFiles(HeadersPerFile))', FiltersChecked(pos)',
           \A h \in Heights : h <= safe' => headers'[h] = Best[h]
    PROVE  WalkInv'
<1>1. pc' \notin {"headers", "fixHeaders", "recheckHeaders", "anchor", "fixAnchor", "recheckAnchor", "ok"}
  BY DEF FilterWalk
<1> QED BY <1>1 DEF WalkInv, OkMeansAuthentic

\* A walk that ends otherwise promises nothing.
LEMMA WalkEnds ==
    ASSUME pc' \in {"still corrupt", "error", "corrupt"}
    PROVE  WalkInv'
BY DEF WalkInv, FilterWalk, OkMeansAuthentic

\* verifyOneFilterFile: a file that closes extends the chain of filters that
\* the stored filter headers commit to.
LEMMA OneMoreFilterFile ==
    ASSUME TypeOK, CacheHoldsStored(cache), pos < NumFiles(FiltersPerFile),
           FilterChainCloses(pos), FiltersChecked(pos)
    PROVE  FiltersChecked(pos + 1)
<1> DEFINE F == FiltersPerFile
           s == pos * F
           e == End(pos, F)
<1>1. pos \in Nat /\ F \in Nat /\ F > 0
  BY Numbers
<1>2. /\ FilterFile(pos) \notin cut
      /\ \A j \in 0..e : fheaders[e][j] = IF j < s THEN fheaders[s - 1][j] ELSE filters[j]
  BY <1>1, ChainClosed
<1>3. ASSUME FHeadersAsFound, NEW j \in 0..e PROVE fheaders[e][j] = filters[j]
  <2>1. CASE ~ (j < s)
    BY <1>2, <2>1
  <2>2. CASE j < s
    <3>1. s \in Nat
      BY <1>1
    <3>2. pos # 0
      BY <1>1, <2>2, <3>1
    <3>3. pos - 1 \in 0..(pos - 1) /\ End(pos - 1, F) = s - 1
      <4>1. pos - 1 \in 0..(pos - 1)
        BY <1>1, <3>2
      <4>2. (pos - 1) * F + F = s
        BY <1>1
      <4>3. (pos - 1) * F \in Int
        BY <1>1
      <4> DEFINE x == (pos - 1) * F
      <4> HIDE DEF x, s
      <4>4. x + F - 1 = s - 1
        BY <1>1, <4>2, <4>3 DEF x
      <4> QED BY <4>1, <4>4 DEF End, x
    <3>4. j \in 0..End(pos - 1, F)
      <4> HIDE DEF s
      <4> QED BY <2>2, <3>1, <3>3
    <3>5. fheaders[s - 1][j] = filters[j]
      BY <1>3, <3>3, <3>4 DEF FiltersChecked
    <3> QED BY <1>2, <2>2, <3>5
  <2> QED BY <2>1, <2>2
<1>4. ASSUME NEW k \in 0..((pos + 1) - 1)
      PROVE  /\ FilterFile(k) \notin cut
             /\ FHeadersAsFound => \A j \in 0..End(k, F) : fheaders[End(k, F)][j] = filters[j]
  <2>1. k = pos \/ k \in 0..(pos - 1)
    BY <1>1
  <2> QED BY <1>2, <1>3, <2>1 DEF FiltersChecked
<1> QED BY <1>4 DEF FiltersChecked

\* verifyOneFilterFile, its first check.
LEMMA VerifyOneFilterFileKeeps ==
    ASSUME IndInv, NEW answered \in BOOLEAN, VerifyOneFilterFile(answered)
    PROVE  IndInv'
<1> USE DEF IndInv
<1> DEFINE F == FiltersPerFile
<1>1. /\ pc = "filters" /\ pos < NumFiles(F)
      /\ UNCHANGED <<running, todo, fix, safe, fixed, top, dataVars, headers, fheaders, filters, cut>>
      /\ cache' = CacheAfter(pos) \/ cache' = cache
      /\ \/ FilterChainCloses(pos) /\ pos' = pos + 1 /\ pc' = "filters" /\ bad' = bad
         \/ ~fix /\ pos' = pos + 1 /\ pc' = "filters" /\ bad' = bad \cup {FilterFile(pos)}
         \/ fix /\ pos' = pos /\ pc' = "diagnose" /\ bad' = bad
  BY DEF VerifyOneFilterFile, Goto, dataVars
<1>2. pos \in Nat /\ FilterFile(pos) \in Files
  BY FilesOfWalk
<1>3. pos + 1 \in Heights /\ pos + 1 <= NumFiles(F)
  <2>1. NumFiles(F) \in Int
    BY <1>2, SealedIff
  <2> QED BY <1>1, <1>2, <2>1, SealedFilterFile
<1>4. TypeOK'
  <2>1. pos' \in Heights
    BY <1>1, <1>3 DEF TypeOK
  <2>2. bad' \subseteq (IF fix' THEN {} ELSE Files) \cup {Memory("headers"), Memory("filter headers")}
    BY <1>1, <1>2 DEF TypeOK
  <2>3. pc' \in {"filters", "diagnose"}
    BY <1>1
  <2> QED BY <1>1, <2>1, <2>2, <2>3 DEF TypeOK
<1>5. PhaseInv'
  <2>1. pc' = "filters" => pos' <= NumFiles(F)
    BY <1>1, <1>3
  <2> QED BY <1>1, <2>1, SameStores DEF PhaseInv
<1>6. StoreInv'
  <2>1. CacheHoldsStored(cache)'
    <3>1. CacheHoldsStored(CacheAfter(pos)) /\ CacheHoldsStored(cache)
      BY <1>2, CacheAfterHolds DEF StoreInv
    <3> QED BY <1>1, <3>1 DEF CacheHoldsStored
  <2> QED BY <1>1, <2>1, SameStores DEF StoreInv
<1>7. BlameInv'
  BY <1>1 DEF BlameInv
<1>8. WalkInv'
  <2> SUFFICES ASSUME bad' = {} PROVE WalkInv'
    BY DEF WalkInv
  <2>1. bad = {} /\ pc \in FilterWalk /\ pc' \in FilterWalk
    BY <1>1 DEF FilterWalk
  <2>2. /\ HeadersChecked(NumFiles(HeadersPerFile)) /\ FiltersChecked(pos)
        /\ \A h \in Heights : h <= safe => headers[h] = Best[h]
    BY <2>1, FilterWalkKnows
  <2>3. FiltersChecked(pos)'
    <3>1. CASE FilterChainCloses(pos) /\ pos' = pos + 1
      <4>1. FiltersChecked(pos + 1)
        BY <1>1, <2>2, <3>1, OneMoreFilterFile DEF StoreInv
      <4> QED BY <1>1, <3>1, <4>1 DEF FiltersChecked, FHeadersAsFound
    <3>2. CASE pos' = pos
      BY <1>1, <2>2, <3>2 DEF FiltersChecked, FHeadersAsFound
    <3> QED BY <1>1, <3>1, <3>2
  <2>4. HeadersChecked(NumFiles(HeadersPerFile))'
    BY <1>1, <2>2, SameStores DEF HeadersChecked
  <2> QED BY <1>1, <2>1, <2>2, <2>3, <2>4, FilterWalkGoesOn
<1> QED BY <1>4, <1>5, <1>6, <1>7, <1>8

\* diagnoseRange: every filter of the file, and every filter header of its
\* range, is compared with bitcoind's.
LEMMA DiagnoseRangeKeeps ==
    ASSUME IndInv, DiagnoseRange
    PROVE  IndInv'
<1> USE DEF IndInv
<1> DEFINE F == FiltersPerFile
           e == End(pos, F)
<1>1. /\ pc = "diagnose" /\ pc' = "fixFilters" /\ fix /\ pos < NumFiles(F)
      /\ UNCHANGED <<pos, running, fix, safe, bad, fixed, top, dataVars, headers, fheaders, filters, cut>>
      /\ cache' = Lookup(cache, e) /\ todo' = Blame(pos, cache')
  BY DEF DiagnoseRange, dataVars, PhaseInv
<1>2. pos \in Nat
  BY FilesOfWalk
<1>3. TypeOK'
  <2>1. todo' \subseteq {"filters", "filter headers"}
    BY <1>1 DEF Blame
  <2> QED BY <1>1, <2>1 DEF TypeOK
<1>4. PhaseInv'
  BY <1>1, SameStores DEF PhaseInv
<1>5. CacheHoldsStored(cache') /\ cache'.start = (pos * F) \div HeadersPerFile
  <2>1. e \in Nat /\ e \div HeadersPerFile = (pos * F) \div HeadersPerFile
    BY <1>2, SealedIff, FilterFileInside
  <2>2. CacheHoldsStored(Lookup(cache, e)) /\ Lookup(cache, e).start = e \div HeadersPerFile
    BY <2>1, LookupHolds DEF StoreInv
  <2> QED BY <1>1, <2>1, <2>2
<1>6. StoreInv'
  <2>1. CacheHoldsStored(cache)'
    BY <1>1, <1>5 DEF CacheHoldsStored
  <2> QED BY <1>1, <2>1, SameStores DEF StoreInv
<1>7. BlameInv'
  <2>1. ASSUME "filters" \in todo' PROVE Corrupt(FilterFile(pos))'
    <3>1. FilterFile(pos) \in cut \/ \E h \in Range(pos, F) : filters[h] # Best[h]
      BY <1>1, <2>1 DEF Blame, FiltersReadable
    <3> QED BY <1>1, <3>1 DEF Corrupt, FilterFile
  <2>2. ASSUME "filter headers" \in todo'
        PROVE  \E h \in Range(pos, F) : fheaders[h] # AuthFilterHeader(h)
    <3>1. PICK h \in Range(pos, F) : cache'.data[h] # AuthFilterHeader(h)
      BY <1>1, <2>2 DEF Blame
    <3>2. h \in Heights /\ h \in Range((pos * F) \div HeadersPerFile, HeadersPerFile)
      BY <1>1, <1>2, SealedFilterFile
    <3>3. cache'.data[h] = fheaders[h]
      BY <1>5, <3>2 DEF CacheHoldsStored
    <3> QED BY <3>1, <3>3
  <2> QED BY <1>1, <2>1, <2>2 DEF BlameInv
<1>8. WalkInv'
  <2> SUFFICES ASSUME bad = {} PROVE WalkInv'
    BY <1>1 DEF WalkInv
  <2>1. pc \in FilterWalk /\ pc' \in FilterWalk
    BY <1>1 DEF FilterWalk
  <2>2. /\ HeadersChecked(NumFiles(HeadersPerFile)) /\ FiltersChecked(pos)
        /\ \A h \in Heights : h <= safe => headers[h] = Best[h]
    BY <2>1, FilterWalkKnows
  <2>3. FiltersChecked(pos)'
    BY <1>1, <2>2 DEF FiltersChecked, FHeadersAsFound
  <2>4. HeadersChecked(NumFiles(HeadersPerFile))'
    BY <1>1, <2>2, SameStores DEF HeadersChecked
  <2> QED BY <1>1, <2>1, <2>2, <2>3, <2>4, FilterWalkGoesOn
<1> QED BY <1>3, <1>4, <1>6, <1>7, <1>8

\* regenerate, for the filters of the range.
LEMMA FixFilterFileKeeps ==
    ASSUME IndInv, FixFilterFile
    PROVE  IndInv'
<1> USE DEF IndInv
<1> DEFINE F == FiltersPerFile
<1>1. /\ pc = "fixFilters" /\ pc' = "fixFHeaders" /\ fix /\ pos < NumFiles(F)
      /\ UNCHANGED <<pos, running, todo, fix, safe, bad, cache, top, headers, fheaders>>
      /\ \/ /\ filters' = [h \in Heights |-> IF h \in Range(pos, F) THEN Best[h] ELSE filters[h]]
            /\ fixed' = fixed \cup {FilterFile(pos)} /\ cut' = cut \ {FilterFile(pos)}
         \/ UNCHANGED <<filters, fixed, cut>>
  BY DEF FixFilterFile, RewriteFilters, Regenerate, Goto, PhaseInv
<1>2. pos \in Nat /\ FilterFile(pos) \in Files
  BY FilesOfWalk
<1>3. TypeOK'
  <2>1. filters' \in [Heights -> Block]
    BY <1>1, AuthIsBest DEF TypeOK
  <2>2. fixed' \subseteq (IF fix' THEN Files ELSE {}) /\ cut' \subseteq Files
    BY <1>1, <1>2 DEF TypeOK
  <2> QED BY <1>1, <2>1, <2>2 DEF TypeOK
<1>4. NumFiles(HeadersPerFile)' = NumFiles(HeadersPerFile) /\ NumFiles(F)' = NumFiles(F)
  BY <1>1 DEF NumFiles
<1>5. PhaseInv'
  BY <1>1, <1>4 DEF PhaseInv
<1>6. StoreInv'
  <2>1. Sealed' = Sealed
    BY <1>4 DEF Sealed
  <2>2. cut' \subseteq Sealed'
    BY <1>1, <2>1 DEF StoreInv
  <2>3. CacheHoldsStored(cache)'
    BY <1>1 DEF StoreInv, CacheHoldsStored
  <2> QED BY <1>1, <1>4, <2>2, <2>3 DEF StoreInv
<1>7. BlameInv'
  BY <1>1 DEF BlameInv
<1>8. WalkInv'
  <2> SUFFICES ASSUME bad = {} PROVE WalkInv'
    BY <1>1 DEF WalkInv
  <2>1. pc \in FilterWalk /\ pc' \in FilterWalk
    BY <1>1 DEF FilterWalk
  <2>2. /\ HeadersChecked(NumFiles(HeadersPerFile)) /\ FiltersChecked(pos)
        /\ \A h \in Heights : h <= safe => headers[h] = Best[h]
    BY <2>1, FilterWalkKnows
  <2>3. cut' \subseteq cut /\ fixed \subseteq fixed'
    BY <1>1
  <2>4. ASSUME NEW k \in 0..(pos - 1), NEW j \in 0..End(k, F) PROVE filters'[j] = filters[j]
    <3>1. k \in Nat /\ k < pos /\ k < NumFiles(F)
      <4>1. NumFiles(F) \in Int
        BY <1>2, SealedIff
      <4> DEFINE f == NumFiles(F)
      <4>2. f \in Int /\ pos < f
        BY <1>1, <4>1
      <4> HIDE DEF f
      <4>3. k \in Nat /\ k < pos /\ k < f
        BY <1>2, <4>2
      <4> QED BY <4>3 DEF f
    <3>2. End(k, F) \in Heights /\ Heights = 0..MaxHeight /\ MaxHeight \in Nat /\ F \in Nat
      BY <3>1, SealedFilterFile, Numbers
    <3>3. j \in Heights
      BY <3>2
    <3>4. (k + 1) * F <= pos * F /\ (k + 1) * F = k * F + F /\ k * F \in Nat
      <4>1. k + 1 <= pos /\ k + 1 \in Nat
        BY <1>2, <3>1
      <4>2. (k + 1) * F <= pos * F
        BY <1>2, <3>2, <4>1
      <4> QED BY <3>1, <3>2, <4>2
    <3>5. End(k, F) = k * F + F - 1 /\ Range(pos, F) = (pos * F)..End(pos, F) /\ pos * F \in Nat
      BY <1>2, <3>1, SealedIff
    <3>6. j \notin Range(pos, F)
      <4> DEFINE x == k * F
                 y == pos * F
      <4>1. x \in Nat /\ y \in Nat /\ x + F <= y /\ j <= x + F - 1 /\ Range(pos, F) = y..End(pos, F) /\ j \in Int
        BY <3>4, <3>5
      <4> HIDE DEF x, y
      <4> QED BY <3>2, <4>1
    <3> QED BY <1>1, <3>3, <3>6
  <2>5. FiltersChecked(pos)'
    <3> SUFFICES ASSUME NEW k \in 0..(pos - 1)
                 PROVE  /\ FilterFile(k) \notin cut'
                        /\ FHeadersAsFound' => \A j \in 0..End(k, F) : fheaders[End(k, F)][j] = filters'[j]
      BY <1>1 DEF FiltersChecked
    <3>1. FilterFile(k) \notin cut'
      BY <2>2, <2>3 DEF FiltersChecked
    <3>2. FHeadersAsFound' => FHeadersAsFound
      BY <2>3 DEF FHeadersAsFound
    <3> QED BY <2>2, <2>4, <3>1, <3>2 DEF FiltersChecked
  <2>6. HeadersChecked(NumFiles(HeadersPerFile))'
    BY <1>1, <1>4, <2>2, <2>3 DEF HeadersChecked
  <2> QED BY <1>1, <2>1, <2>2, <2>5, <2>6, FilterWalkGoesOn
<1> QED BY <1>3, <1>5, <1>6, <1>7, <1>8

\* regenerate, for the filter headers of the range.
LEMMA FixFHeadersOfRangeKeeps ==
    ASSUME IndInv, FixFHeadersOfRange
    PROVE  IndInv'
<1> USE DEF IndInv
<1> DEFINE k == (pos * FiltersPerFile) \div HeadersPerFile
<1>1. /\ pc = "fixFHeaders" /\ fix /\ pos < NumFiles(FiltersPerFile)
      /\ UNCHANGED <<pos, running, todo, fix, safe, bad, top, headers, filters>>
      /\ \/ pc' = "recheckFilters" /\ k < NumFiles(HeadersPerFile) /\ RewriteFHeaders(k)
         \/ pc' \in {"recheckFilters", "error"} /\ UNCHANGED <<fheaders, fixed, cut, cache>>
  BY DEF FixFHeadersOfRange, Goto, PhaseInv
<1>2. k \in Nat /\ k \in Heights
  <2>1. pos \in Nat /\ Heights = 0..MaxHeight /\ MaxHeight \in Nat /\ pos <= MaxHeight
    BY Numbers
  <2>2. k \in Nat /\ k <= pos
    BY <2>1, FilterFileInside
  <2> HIDE DEF k
  <2> QED BY <2>1, <2>2
<1> HIDE DEF k
<1>3. /\ fixed' \subseteq (IF fix' THEN Files ELSE {}) /\ cut' \subseteq Files
      /\ \A h \in Heights : fheaders'[h] \in [0..h -> Block]
      /\ StoreInv'
  <2>1. CASE k < NumFiles(HeadersPerFile) /\ RewriteFHeaders(k)
    BY <1>1, <1>2, <2>1, RewriteFHeadersKeeps
  <2>2. CASE UNCHANGED <<fheaders, fixed, cut, cache>>
    <3>1. UNCHANGED <<top, dataVars>> /\ cache' = cache
      BY <1>1, <2>2 DEF dataVars
    <3>2. StoreInv'
      BY <3>1, SameStoresKeep
    <3> QED BY <1>1, <2>2, <3>2 DEF TypeOK
  <2> QED BY <1>1, <2>1, <2>2
<1>4. TypeOK'
  <2>1. pc' \in {"recheckFilters", "error"}
    BY <1>1
  <2> QED BY <1>1, <1>3, <2>1 DEF TypeOK, Ended
<1>5. NumFiles(FiltersPerFile)' = NumFiles(FiltersPerFile)
  BY <1>1 DEF NumFiles
<1>6. PhaseInv' /\ BlameInv'
  BY <1>1, <1>5 DEF PhaseInv, BlameInv
<1>7. WalkInv'
  <2> SUFFICES ASSUME bad = {}, pc' = "recheckFilters" PROVE WalkInv'
    BY <1>1, WalkEnds DEF WalkInv
  <2>1. pc \in FilterWalk /\ pc' \in FilterWalk
    BY <1>1 DEF FilterWalk
  <2>2. /\ HeadersChecked(NumFiles(HeadersPerFile)) /\ FiltersChecked(pos)
        /\ \A h \in Heights : h <= safe => headers[h] = Best[h]
    BY <2>1, FilterWalkKnows
  <2>3. NumFiles(HeadersPerFile)' = NumFiles(HeadersPerFile)
    BY <1>1 DEF NumFiles
  <2>4. HeadersChecked(NumFiles(HeadersPerFile))' /\ FiltersChecked(pos)'
    <3>1. CASE k < NumFiles(HeadersPerFile) /\ RewriteFHeaders(k)
      <4>1. cut' \subseteq cut /\ FHeaderFile(k) \in fixed'
        BY <1>1, <1>2, <3>1, RewriteFHeadersKeeps
      <4>2. ASSUME NEW i \in 0..(NumFiles(HeadersPerFile) - 1)
            PROVE  /\ HeaderFile(i) \notin cut' /\ FHeaderFile(i) \notin cut'
                   /\ fheaders'[End(i, HeadersPerFile)] = AuthFilterHeader(End(i, HeadersPerFile))
        <5>1. i \in Nat /\ i < NumFiles(HeadersPerFile)
          <6>1. NumFiles(HeadersPerFile) \in Int
            BY MemoryStart
          <6> QED BY <6>1
        <5>2. /\ HeaderFile(i) \notin cut /\ FHeaderFile(i) \notin cut
              /\ fheaders[End(i, HeadersPerFile)] = AuthFilterHeader(End(i, HeadersPerFile))
          BY <2>2 DEF HeadersChecked
        <5> QED BY <1>1, <1>2, <3>1, <4>1, <5>1, <5>2, RewriteFHeadersKeeps
      <4>3. HeadersChecked(NumFiles(HeadersPerFile))'
        BY <1>1, <2>2, <2>3, <4>2 DEF HeadersChecked, AuthFilterHeader, Commitment
      <4>4. ~ FHeadersAsFound'
        BY <1>2, <4>1 DEF FHeadersAsFound
      <4>5. FiltersChecked(pos)'
        BY <1>1, <2>2, <4>1, <4>4 DEF FiltersChecked
      <4> QED BY <4>3, <4>5
    <3>2. CASE UNCHANGED <<fheaders, fixed, cut, cache>>
      BY <1>1, <2>2, <2>3, <3>2 DEF HeadersChecked, FiltersChecked, FHeadersAsFound
    <3> QED BY <1>1, <3>1, <3>2
  <2> QED BY <1>1, <2>1, <2>2, <2>4, FilterWalkGoesOn
<1> QED BY <1>3, <1>4, <1>6, <1>7

\* The range is checked again.
LEMMA RecheckFilterFileKeeps ==
    ASSUME IndInv, NEW answered \in BOOLEAN, RecheckFilterFile(answered)
    PROVE  IndInv'
<1> USE DEF IndInv
<1>1. /\ pc = "recheckFilters" /\ fix /\ pos < NumFiles(FiltersPerFile)
      /\ UNCHANGED <<running, fix, safe, bad, fixed, top, dataVars, headers, fheaders, filters, cut>>
      /\ cache' = CacheAfter(pos) \/ cache' = cache
      /\ \/ FilterChainCloses(pos) /\ pos' = pos + 1 /\ pc' = "filters" /\ todo' = {}
         \/ pos' = pos /\ pc' = "still corrupt" /\ todo' = todo
  BY DEF RecheckFilterFile, Goto, dataVars, PhaseInv
<1>2. pos \in Nat /\ pos + 1 \in Heights /\ pos + 1 <= NumFiles(FiltersPerFile)
  <2>1. pos \in Nat
    BY FilesOfWalk
  <2>2. NumFiles(FiltersPerFile) \in Int
    BY <2>1, SealedIff
  <2>3. pos + 1 \in Heights
    BY <1>1, <2>1, SealedFilterFile
  <2>4. pos + 1 <= NumFiles(FiltersPerFile)
    <3> DEFINE n == NumFiles(FiltersPerFile)
    <3>1. pos < n /\ n \in Int
      BY <1>1, <2>2
    <3> HIDE DEF n
    <3>2. pos + 1 <= n
      BY <2>1, <3>1
    <3> QED BY <3>2 DEF n
  <2> QED BY <2>1, <2>3, <2>4
<1>3. TypeOK'
  <2>1. pos' \in Heights /\ pc' \in {"filters", "still corrupt"} /\ todo' \subseteq {"filters", "filter headers"}
    BY <1>1, <1>2 DEF TypeOK
  <2> QED BY <1>1, <2>1 DEF TypeOK, Ended
<1>4. PhaseInv'
  <2>1. pc' = "filters" => pos' <= NumFiles(FiltersPerFile)
    BY <1>1, <1>2
  <2> QED BY <1>1, <2>1, SameStores DEF PhaseInv
<1>5. StoreInv'
  <2>1. CacheHoldsStored(cache)'
    <3>1. CacheHoldsStored(CacheAfter(pos)) /\ CacheHoldsStored(cache)
      BY <1>2, CacheAfterHolds DEF StoreInv
    <3> QED BY <1>1, <3>1 DEF CacheHoldsStored
  <2> QED BY <1>1, <2>1, SameStores DEF StoreInv
<1>6. BlameInv'
  BY <1>1 DEF BlameInv
<1>7. WalkInv'
  <2> SUFFICES ASSUME bad = {}, pc' = "filters" PROVE WalkInv'
    BY <1>1, WalkEnds DEF WalkInv
  <2>1. pc \in FilterWalk /\ pc' \in FilterWalk /\ FilterChainCloses(pos) /\ pos' = pos + 1
    BY <1>1 DEF FilterWalk
  <2>2. /\ HeadersChecked(NumFiles(HeadersPerFile)) /\ FiltersChecked(pos)
        /\ \A h \in Heights : h <= safe => headers[h] = Best[h]
    BY <2>1, FilterWalkKnows
  <2>3. FiltersChecked(pos + 1)
    BY <1>1, <2>1, <2>2, OneMoreFilterFile DEF StoreInv
  <2>4. FiltersChecked(pos)'
    BY <1>1, <2>1, <2>3 DEF FiltersChecked, FHeadersAsFound
  <2>5. HeadersChecked(NumFiles(HeadersPerFile))'
    BY <1>1, <2>2, SameStores DEF HeadersChecked
  <2> QED BY <1>1, <2>1, <2>2, <2>4, <2>5, FilterWalkGoesOn
<1> QED BY <1>3, <1>4, <1>5, <1>6, <1>7

-----------------------------------------------------------------------------
(* The end of the walk, the server, and the next run. *)

\* runVerify: what a walk that found nothing has seen.  The filters of a file
\* are those that its last filter header commits to; that one is bitcoind's
\* either because its block is, or, in a sealed file, because the last filter
\* header of the last sealed file commits to the same filters.
LEMMA NothingFoundIsAuthentic ==
    ASSUME TypeOK, StoreInv, HeadersChecked(NumFiles(HeadersPerFile)),
           \A h \in Heights : h <= safe => headers[h] = Best[h],
           FiltersChecked(pos), pos >= NumFiles(FiltersPerFile)
    PROVE  /\ \A k \in 0..(NumFiles(HeadersPerFile) - 1) : HeaderFileAuthentic(k)
           /\ \A k \in 0..(NumFiles(FiltersPerFile) - 1) :
                 /\ FilterFile(k) \notin cut
                 /\ FHeadersAsFound /\ Covered(End(k, FiltersPerFile)) => FilterFileAuthentic(k)
<1> DEFINE H == HeadersPerFile
           F == FiltersPerFile
           N == NumFiles(H)
<1>1. N \in Int /\ NumFiles(F) \in Int /\ N * H \in Int /\ pos \in Nat /\ H \in Nat /\ H > 0
  <2>1. NumFiles(F) \in Int
    BY SealedIff
  <2> QED BY <2>1, Numbers, MemoryStart
<1>2. ASSUME NEW k \in 0..(N - 1) PROVE HeaderFileAuthentic(k)
  <2>1. k \in Nat /\ k < N
    BY <1>1
  <2>2. \A h \in Range(k, H) : h \in Heights /\ h < N * H
    BY <2>1, SealedBelowMemory
  <2> QED BY <2>2 DEF HeadersChecked, HeaderFileAuthentic
<1>3. ASSUME NEW k \in 0..(NumFiles(F) - 1)
      PROVE  /\ FilterFile(k) \notin cut
             /\ FHeadersAsFound /\ Covered(End(k, F)) => FilterFileAuthentic(k)
  <2> DEFINE e == End(k, F)
  <2>1. k \in Nat /\ k < NumFiles(F) /\ k \in 0..(pos - 1)
    BY <1>1
  <2>2. e \in Nat /\ Range(k, F) = (k * F)..e /\ k * F \in Nat
    BY <2>1, SealedIff
  <2>3. e \in Heights
    BY <2>1, SealedFilterFile
  <2>4. FilterFile(k) \notin cut /\ (FHeadersAsFound => \A j \in 0..e : fheaders[e][j] = filters[j])
    BY <2>1 DEF FiltersChecked
  <2>5. ASSUME FHeadersAsFound, Covered(e) PROVE FilterFileAuthentic(k)
    <3>1. ASSUME NEW j \in 0..e PROVE filters[j] = Best[j]
      <4>1. CASE e >= N * H /\ e <= safe
        <5>1. fheaders[e] = AuthFilterHeader(e)
          BY <2>3, <4>1 DEF StoreInv, AuthFilterHeader
        <5> QED BY <2>3, <2>4, <2>5, <5>1, AuthIsBest
      <4>2. CASE e < N * H
        <5> DEFINE E == End(N - 1, H)
        <5>1. N - 1 \in Nat /\ N - 1 < N
          <6>1. N > 0
            BY <1>1, <2>2, <4>2
          <6> QED BY <1>1, <6>1
        <5>2. N - 1 \in 0..(N - 1) /\ fheaders[E] = AuthFilterHeader(E) /\ E \in Heights
          <6>1. N - 1 \in 0..(N - 1)
            BY <1>1, <5>1
          <6>2. E \in Heights
            BY <5>1, SealedBelowMemory
          <6> QED BY <6>1, <6>2 DEF HeadersChecked
        <5>3. E = N * H - 1
          <6>1. (N - 1) * H + H = N * H
            BY <1>1
          <6>2. (N - 1) * H \in Int
            BY <1>1
          <6> DEFINE x == (N - 1) * H
                     y == N * H
          <6>3. x + H = y /\ x \in Int /\ y \in Int
            BY <1>1, <6>1, <6>2
          <6> HIDE DEF x, y
          <6>4. x + H - 1 = y - 1
            BY <1>1, <6>3
          <6> QED BY <6>4 DEF End, x, y
        <5>4. PICK m \in Nat : End(m, F) = E
          BY <5>1, HeaderEndIsFilterEnd
        <5>5. E <= Buried
          BY <5>1, SealedIff
        <5>6. m < NumFiles(F)
          BY <5>4, <5>5, SealedIff
        <5>7. m \in 0..(pos - 1)
          BY <1>1, <5>6
        <5>8. \A i \in 0..E : fheaders[E][i] = filters[i]
          BY <2>5, <5>4, <5>7 DEF FiltersChecked
        <5>9. j \in 0..E
          <6> HIDE DEF E, N
          <6> QED BY <1>1, <2>2, <4>2, <5>3
        <5> QED BY <5>2, <5>8, <5>9, AuthIsBest
      <4> QED BY <1>1, <2>2, <2>5, <4>1, <4>2 DEF Covered
    <3>2. \A h \in Range(k, F) : h \in 0..e
      BY <2>2
    <3>3. fheaders[e] = AuthFilterHeader(e)
      <4>1. fheaders[e] \in [0..e -> Block] /\ AuthFilterHeader(e) \in [0..e -> Block]
        BY <2>3, AuthIsBest DEF TypeOK
      <4>2. \A j \in 0..e : fheaders[e][j] = AuthFilterHeader(e)[j]
        BY <2>3, <2>4, <2>5, <3>1, AuthIsBest
      <4> DEFINE f == fheaders[e]
                 g == AuthFilterHeader(e)
                 S == 0..e
      <4>3. f \in [S -> Block] /\ g \in [S -> Block] /\ \A x \in S : f[x] = g[x]
        BY <4>1, <4>2
      <4> HIDE DEF f, g, S
      <4>4. f = g
        BY <4>3, SameFunction
      <4> QED BY <4>4 DEF f, g
    <3> QED BY <3>1, <3>2, <3>3 DEF FilterFileAuthentic
  <2> QED BY <2>4, <2>5
<1> QED BY <1>2, <1>3

\* runVerify reports.
LEMMA ReportKeeps ==
    ASSUME IndInv, Report
    PROVE  IndInv'
<1> USE DEF IndInv
<1>1. /\ pc = "filters" /\ pos >= NumFiles(FiltersPerFile) /\ pc' = (IF bad = {} THEN "ok" ELSE "corrupt")
      /\ UNCHANGED <<pos, running, todo, fix, safe, bad, fixed, cache, top, dataVars, headers, fheaders, filters, cut>>
  BY DEF Report, Goto, dataVars
<1>2. pc' \in {"ok", "corrupt"}
  BY <1>1
<1>3. TypeOK'
  BY <1>1, <1>2 DEF TypeOK, Ended
<1>4. PhaseInv' /\ BlameInv'
  BY <1>1, <1>2 DEF PhaseInv, BlameInv
<1>5. StoreInv'
  BY <1>1, SameStoresKeep
<1>6. WalkInv'
  <2> SUFFICES ASSUME bad = {} PROVE WalkInv'
    BY <1>1 DEF WalkInv
  <2>1. pc \in FilterWalk /\ pc' = "ok"
    BY <1>1 DEF FilterWalk
  <2>2. /\ HeadersChecked(NumFiles(HeadersPerFile)) /\ FiltersChecked(pos)
        /\ \A h \in Heights : h <= safe => headers[h] = Best[h]
    BY <2>1, FilterWalkKnows
  <2>3. /\ \A k \in 0..(NumFiles(HeadersPerFile) - 1) : HeaderFileAuthentic(k)
        /\ \A k \in 0..(NumFiles(FiltersPerFile) - 1) :
              /\ FilterFile(k) \notin cut
              /\ FHeadersAsFound /\ Covered(End(k, FiltersPerFile)) => FilterFileAuthentic(k)
    BY <1>1, <2>2, NothingFoundIsAuthentic
  <2>4. OkMeansAuthentic'
    BY <1>1, <2>3, SameStores
    DEF OkMeansAuthentic, HeaderFileAuthentic, FilterFileAuthentic, Covered, FHeadersAsFound
  <2> QED BY <2>1, <2>4 DEF WalkInv, FilterWalk
<1> QED BY <1>3, <1>4, <1>5, <1>6

\* An error ends the run.
LEMMA FailsKeeps ==
    ASSUME IndInv, Fails
    PROVE  IndInv'
<1> USE DEF IndInv
<1>1. /\ pc' = "error"
      /\ UNCHANGED <<pos, running, todo, fix, safe, bad, fixed, cache, top, dataVars, headers, fheaders, filters, cut>>
  BY DEF Fails, Goto, dataVars
<1>2. TypeOK'
  BY <1>1 DEF TypeOK, Ended
<1>3. PhaseInv' /\ BlameInv' /\ WalkInv'
  BY <1>1, WalkEnds DEF PhaseInv, BlameInv
<1>4. StoreInv'
  BY <1>1, SameStoresKeep
<1> QED BY <1>2, <1>3, <1>4

\* One block more makes one file more at most, and only one that it buries.
LEMMA MoreFiles ==
    ASSUME TypeOK, top' = top + 1, NEW n \in {HeadersPerFile, FiltersPerFile}
    PROVE  /\ NumFiles(n) \in Int /\ NumFiles(n)' \in Int
           /\ NumFiles(n) <= NumFiles(n)' /\ NumFiles(n)' <= NumFiles(n) + 1
           /\ \A k \in Nat : k < NumFiles(n)' => Buries(k, n)
<1> DEFINE x == top - ReOrgSafeDepth + 1
           q == x \div n
           r == (x + 1) \div n
<1>1. n \in Nat \ {0} /\ x \in Int
  BY Numbers
<1>2. NumFiles(n) = q /\ NumFiles(n)' = r /\ top + 1 - ReOrgSafeDepth = x
  <2>1. top' - ReOrgSafeDepth + 1 = x + 1 /\ top + 1 - ReOrgSafeDepth = x
    BY Numbers
  <2> QED BY <2>1 DEF NumFiles
<1> HIDE DEF x
<1>3. q \in Int /\ r \in Int /\ x + 1 \in Int
  BY <1>1
<1>4. q - 1 < q /\ q - 1 \in Int /\ r - 1 < r /\ r - 1 \in Int /\ r - 2 \in Int
  BY <1>3
<1>5. (q - 1) * n + n <= x
  BY <1>1, <1>4, DivBound
<1>6. (r - 1) * n + n <= x + 1
  BY <1>1, <1>3, <1>4, DivBound
<1>7. (q - 1) * n + n <= x + 1
  <2> HIDE DEF q
  <2>1. (q - 1) * n \in Int
    BY <1>1, <1>4
  <2> QED BY <1>1, <1>5, <2>1
<1>8. q - 1 < r
  BY <1>1, <1>3, <1>4, <1>7, DivBound
<1>9. (r - 2) * n + n <= x
  <2> HIDE DEF r
  <2>1. (r - 2) * n + n = (r - 1) * n /\ (r - 1) * n \in Int
    BY <1>1, <1>3
  <2> DEFINE y == (r - 1) * n
  <2>2. y + n <= x + 1 /\ y \in Int
    BY <1>6, <2>1
  <2> HIDE DEF y
  <2>3. y <= x
    BY <1>1, <2>2
  <2> QED BY <2>1, <2>3 DEF y
<1>10. r - 2 < q
  BY <1>1, <1>4, <1>9, DivBound
<1>11. ASSUME NEW k \in Nat, k < r PROVE Buries(k, n)
  <2>1. k * n + n <= x + 1 /\ k * n \in Int
    BY <1>1, <1>3, <1>11, DivBound
  <2> DEFINE y == k * n
  <2>2. End(k, n) = y + n - 1
    BY DEF End
  <2> HIDE DEF y
  <2>3. y + n - 1 <= x
    BY <1>1, <2>1 DEF y
  <2> QED BY <1>2, <2>2, <2>3 DEF Buries
<1> HIDE DEF q, r
<1>12. q <= r /\ r <= q + 1
  BY <1>3, <1>8, <1>10
<1> QED BY <1>2, <1>3, <1>11, <1>12

\* The server seals while verify runs.  A pair of header files that it seals
\* after the header walk is good as well: verifyHeaders has compared it with
\* bitcoind, and its filter headers are those of the blocks next to them.
LEMMA ServerAdvancesKeeps ==
    ASSUME IndInv, ServerAdvances
    PROVE  IndInv'
<1> USE DEF IndInv
<1> DEFINE H == HeadersPerFile
           F == FiltersPerFile
           N == NumFiles(H)
           M == NumFiles(H)'
<1>1. /\ top < MaxHeight /\ top' = top + 1 /\ pc \notin Ended
      /\ UNCHANGED <<pc, pos, running, todo, fix, safe, bad, fixed, cache, headers, fheaders, filters, cut>>
      /\ Buries(N, H) => \A h \in Range(N, H) : headers[h] = Best[h]
  BY DEF ServerAdvances, walkVars, dataVars
<1>2. /\ MaxHeight \in Nat /\ Heights = 0..MaxHeight /\ H \in Nat /\ H > 0 /\ pos \in Nat /\ top \in Nat
  BY Numbers
<1>3. /\ N \in Int /\ M \in Int /\ N <= M /\ M <= N + 1 /\ \A k \in Nat : k < M => Buries(k, H)
      /\ NumFiles(F) \in Int /\ NumFiles(F)' \in Int /\ NumFiles(F) <= NumFiles(F)'
  <2>1. N \in Int /\ M \in Int /\ N <= M /\ M <= N + 1 /\ \A k \in Nat : k < M => Buries(k, H)
    BY <1>1, MoreFiles
  <2>2. NumFiles(F) \in Int /\ NumFiles(F)' \in Int /\ NumFiles(F) <= NumFiles(F)'
    BY <1>1, MoreFiles
  <2> QED BY <2>1, <2>2
<1>4. N * H <= M * H /\ N * H \in Int /\ M * H \in Int
  <2> HIDE DEF N, M, H
  <2> QED BY <1>2, <1>3
<1>6. TypeOK'
  <2>1. top' \in Heights
    BY <1>1, <1>2
  <2> QED BY <1>1, <2>1 DEF TypeOK
<1>7. PhaseInv'
  <2> DEFINE f == NumFiles(F)
             g == NumFiles(F)'
  <2>1. \A i \in Nat : (i < N => i < M) /\ (i <= N => i <= M) /\ (i < f => i < g) /\ (i <= f => i <= g)
    <3>1. f \in Int /\ g \in Int /\ f <= g
      BY <1>3
    <3> HIDE DEF N, M, f, g
    <3> QED BY <1>3, <3>1
  <2> QED BY <1>1, <1>2, <2>1 DEF PhaseInv
<1>8. StoreInv'
  <2>1. Sealed \subseteq Sealed'
    <3>1. 0..(N - 1) \subseteq 0..(M - 1)
      <4> HIDE DEF N, M
      <4> QED BY <1>3
    <3>2. 0..(NumFiles(F) - 1) \subseteq 0..(NumFiles(F)' - 1)
      <4> DEFINE f == NumFiles(F)
                 g == NumFiles(F)'
      <4>1. f \in Int /\ g \in Int /\ f <= g
        BY <1>3
      <4> HIDE DEF f, g
      <4>2. 0..(f - 1) \subseteq 0..(g - 1)
        BY <4>1
      <4> QED BY <4>2 DEF f, g
    <3> QED BY <3>1, <3>2 DEF Sealed, HeaderFile, FHeaderFile, FilterFile
  <2>2. ASSUME NEW h \in Heights, h >= M * H PROVE fheaders[h] = Commitment(h, headers[h])
    <3>1. h >= N * H
      <4> DEFINE a == N * H
                 b == M * H
      <4>1. a <= b /\ a \in Int /\ b \in Int /\ h >= b /\ h \in Int
        BY <1>2, <1>4, <2>2
      <4> HIDE DEF a, b
      <4>2. h >= a
        BY <4>1
      <4> QED BY <4>2 DEF a
    <3> QED BY <3>1 DEF StoreInv
  <2>3. CacheHoldsStored(cache)'
    BY <1>1 DEF StoreInv, CacheHoldsStored
  <2> QED BY <1>1, <2>1, <2>2, <2>3 DEF StoreInv, Commitment
<1>9. BlameInv'
  BY <1>1 DEF BlameInv, Corrupt, AuthFilterHeader, Commitment
<1>10. ASSUME HeadersChecked(N) PROVE HeadersChecked(NumFiles(HeadersPerFile))'
  <2>1. ASSUME NEW k \in Nat, k < M, ~ (k < N)
        PROVE  k = N /\ \A h \in Range(k, H) : headers[h] = Best[h]
    <3>1. k = N
      <4> HIDE DEF N, M
      <4> QED BY <1>3, <2>1
    <3>2. Buries(N, H)
      BY <1>3, <2>1, <3>1
    <3> QED BY <1>1, <3>1, <3>2
  <2>2. ASSUME NEW h \in Heights, h < M * H PROVE headers[h] = Best[h]
    <3>1. CASE h < N * H
      BY <1>10, <3>1 DEF HeadersChecked
    <3>2. CASE ~ (h < N * H)
      <4>1. N < M
        <5>1. h \in Nat
          BY <1>2
        <5> HIDE DEF N, M, H
        <5>2. N = M => h < N * H
          BY <2>2
        <5> QED BY <1>3, <3>2, <5>2
      <4>2. N \in Nat
        <5>1. M * H > 0
          <6> DEFINE b == M * H
          <6>1. b \in Int /\ h < b /\ h \in Nat
            BY <1>2, <1>4, <2>2
          <6> HIDE DEF b
          <6>2. b > 0
            BY <6>1
          <6> QED BY <6>2 DEF b
        <5> HIDE DEF N, M, H
        <5>2. M > 0
          BY <1>2, <1>3, <5>1
        <5> QED BY <1>3, <5>2
      <4>3. \A g \in Range(N, H) : headers[g] = Best[g]
        <5> HIDE DEF N, M
        <5> QED BY <1>3, <2>1, <4>1, <4>2
      <4>4. h \in Range(N, H)
        <5>1. M = N + 1
          <6> HIDE DEF N, M
          <6> QED BY <1>3, <4>1
        <5>2. M * H = N * H + H
          <6> HIDE DEF N, M, H
          <6> QED BY <1>2, <1>3, <5>1
        <5> DEFINE a == N * H
        <5>3. a \in Int /\ h < a + H /\ ~ (h < a) /\ h \in Nat
          BY <1>2, <1>4, <2>2, <3>2, <5>2
        <5>4. Range(N, H) = a..(a + H - 1)
          BY DEF Range
        <5> HIDE DEF a, H
        <5> QED BY <1>2, <5>3, <5>4
      <4> QED BY <4>3, <4>4
    <3> QED BY <3>1, <3>2
  <2>3. ASSUME NEW k \in 0..(M - 1)
        PROVE  /\ HeaderFile(k) \notin cut /\ FHeaderFile(k) \notin cut
               /\ fheaders[End(k, H)] = AuthFilterHeader(End(k, H))
    <3>1. CASE k \in 0..(N - 1)
      BY <1>10, <3>1 DEF HeadersChecked
    <3>2. CASE k \notin 0..(N - 1)
      <4>1. k \in Nat /\ k < M /\ ~ (k < N)
        <5> HIDE DEF N, M
        <5> QED BY <1>3, <3>2
      <4>2. HeaderFile(k) \notin Sealed /\ FHeaderFile(k) \notin Sealed
        BY <3>2 DEF Sealed, HeaderFile, FHeaderFile, FilterFile
      <4>3. k = N /\ \A h \in Range(k, H) : headers[h] = Best[h]
        BY <2>1, <4>1
      <4> DEFINE e == End(k, H)
                 x == k * H
      <4>4. /\ e = x + H - 1 /\ x \in Nat /\ Range(k, H) = x..e /\ e \in Nat
        BY <4>1, SealedIff
      <4>5. e <= top + 1 - ReOrgSafeDepth
        BY <1>3, <4>1 DEF Buries
      <4>6. x = N * H
        BY <4>3
      <4>7. ReOrgSafeDepth \in Nat /\ ReOrgSafeDepth > 0
        BY Numbers
      <4> HIDE DEF e, x
      <4>8. e \in Heights /\ e >= x /\ e \in Range(k, H)
        BY <1>1, <1>2, <4>4, <4>5, <4>7
      <4>9. fheaders[e] = Commitment(e, headers[e])
        BY <4>6, <4>8 DEF StoreInv
      <4> QED BY <4>2, <4>3, <4>8, <4>9 DEF StoreInv, AuthFilterHeader, e
    <3> QED BY <3>1, <3>2
  <2> QED BY <1>1, <2>2, <2>3 DEF HeadersChecked, AuthFilterHeader, Commitment
<1>11. WalkInv'
  <2> SUFFICES ASSUME bad = {} PROVE WalkInv'
    BY <1>1 DEF WalkInv
  <2>1. HeadersChecked(pos) => HeadersChecked(pos)'
    BY <1>1 DEF HeadersChecked, AuthFilterHeader, Commitment
  <2>2. FiltersChecked(pos) => FiltersChecked(pos)'
    BY <1>1 DEF FiltersChecked, FHeadersAsFound
  <2>3. pc' \in {"headers", "fixHeaders", "recheckHeaders"} => HeadersChecked(pos)'
    BY <1>1, <2>1 DEF WalkInv
  <2>4. pc' \in {"anchor", "fixAnchor", "recheckAnchor"} =>
            /\ HeadersChecked(pos)' /\ HeaderFile(pos') \notin cut'
            /\ \A h \in Range(pos', HeadersPerFile) : headers'[h] = Best[h]
    BY <1>1, <2>1 DEF WalkInv
  <2>5. pc' \in {"tail", "memory"} \cup FilterWalk => HeadersChecked(NumFiles(HeadersPerFile))'
    BY <1>1, <1>10 DEF WalkInv
  <2>6. pc' \in {"memory"} \cup FilterWalk => \A h \in Heights : h <= safe' => headers'[h] = Best[h]
    BY <1>1 DEF WalkInv
  <2>7. pc' \in FilterWalk => FiltersChecked(pos)'
    BY <1>1, <2>2 DEF WalkInv
  <2>8. OkMeansAuthentic'
    BY <1>1 DEF OkMeansAuthentic, Ended
  <2> QED BY <2>3, <2>4, <2>5, <2>6, <2>7, <2>8 DEF WalkInv, FilterWalk
<1> QED BY <1>6, <1>7, <1>8, <1>9, <1>11

\* The command is run again.
LEMMA RerunKeeps ==
    ASSUME IndInv, Rerun
    PROVE  IndInv'
<1> USE DEF IndInv
<1>1. /\ pc' = "headers" /\ pos' = 0 /\ running' = NoBlock /\ todo' = {} /\ fix' \in BOOLEAN
      /\ safe' = -1 /\ bad' = {} /\ fixed' = {} /\ cache' = NoCache
      /\ UNCHANGED <<top, dataVars, headers, fheaders, filters, cut>>
  BY DEF Rerun, dataVars
<1>2. TypeOK'
  <2>1. 0 \in Heights
    BY SizeAssumption DEF Heights
  <2>2. safe' \in (-1 - ReOrgSafeDepth)..MaxHeight
    BY <1>1, SizeAssumption
  <2> QED BY <1>1, <2>1, <2>2 DEF TypeOK
<1>3. PhaseInv' /\ BlameInv'
  BY <1>1 DEF PhaseInv, BlameInv
<1>4. StoreInv'
  <2>1. CacheHoldsStored(cache)'
    BY <1>1, EmptyCache DEF CacheHoldsStored
  <2> QED BY <1>1, <2>1, SameStores DEF StoreInv
<1>5. HeadersChecked(pos)'
  <2>1. pos' = 0
    BY <1>1
  <2>2. 0..(pos' - 1) = {}
    BY <2>1
  <2>3. \A h \in Heights : ~ (h < pos' * HeadersPerFile)
    BY <2>1, Numbers
  <2> QED BY <2>2, <2>3 DEF HeadersChecked
<1>6. WalkInv'
  BY <1>1, <1>5 DEF WalkInv, FilterWalk, OkMeansAuthentic
<1> QED BY <1>2, <1>3, <1>4, <1>6

-----------------------------------------------------------------------------
(* The invariant. *)

\* At first any heights of the stale ones may hold an entry of a stale block,
\* and some of the sealed files are cut off.
LEMMA InitIndInv ==
    ASSUME Init
    PROVE  IndInv
<1>1. /\ pc = "headers" /\ pos = 0 /\ fix \in BOOLEAN /\ safe = -1 /\ running = NoBlock /\ todo = {}
      /\ bad = {} /\ fixed = {} /\ cache = NoCache /\ top = FirstTop /\ cut \subseteq Sealed
  BY DEF Init
<1>2. PICK hs \in SUBSET Stale, fs \in SUBSET Stale :
        /\ headers = [h \in Heights |-> IF h \in hs THEN Other[h] ELSE Best[h]]
        /\ fheaders = [h \in Heights |-> Commitment(h, headers[h])]
        /\ filters = [h \in Heights |-> IF h \in fs THEN Other[h] ELSE Best[h]]
  BY DEF Init
<1>3. 0 \in Heights /\ top \in Heights /\ \A h \in Heights : h \in Nat
  BY <1>1, SizeAssumption DEF Heights
<1>4. headers \in [Heights -> Block] /\ filters \in [Heights -> Block]
  BY <1>2, ChainAssumption
<1>5. \A h \in Heights : fheaders[h] \in [0..h -> Block]
  <2> TAKE h \in Heights
  <2>1. headers[h] \in Block /\ fheaders[h] = Commitment(h, headers[h])
    BY <1>2, <1>4
  <2> QED BY <2>1, AuthIsBest
<1>6. Sealed \subseteq Files
  <2> DEFINE x == top - ReOrgSafeDepth + 1
  <2>1. /\ x \in Int /\ x <= MaxHeight /\ MaxHeight \in Nat /\ Heights = 0..MaxHeight
        /\ HeadersPerFile \in Nat \ {0} /\ FiltersPerFile \in Nat \ {0}
    BY <1>3, SizeAssumption DEF Heights
  <2>2. ASSUME NEW n \in Nat \ {0} PROVE 0..(NumFiles(n) - 1) \subseteq Heights
    <3>1. NumFiles(n) = x \div n /\ x \div n \in Int
      BY <2>1 DEF NumFiles
    <3>2. ASSUME NEW k \in Nat, k < x \div n PROVE k <= MaxHeight
      <4> HIDE DEF x
      <4>1. k * n + n <= x
        BY <2>1, <3>2, DivBound
      <4>2. k <= k * n /\ k * n \in Nat
        OBVIOUS
      <4> QED BY <2>1, <4>1, <4>2
    <3> DEFINE q == x \div n
    <3> HIDE DEF q, x
    <3>3. \A k \in 0..(q - 1) : k \in Nat /\ k < q
      BY <3>1 DEF q
    <3> QED BY <2>1, <3>1, <3>2, <3>3 DEF q
  <2>3. /\ 0..(NumFiles(HeadersPerFile) - 1) \subseteq Heights
        /\ 0..(NumFiles(FiltersPerFile) - 1) \subseteq Heights
    BY <2>1, <2>2
  <2> QED BY <2>3 DEF Sealed, Files
<1>7. TypeOK
  <2>1. safe \in (-1 - ReOrgSafeDepth)..MaxHeight
    BY <1>1, SizeAssumption
  <2> QED BY <1>1, <1>3, <1>4, <1>5, <1>6, <2>1 DEF TypeOK
<1>8. PhaseInv /\ BlameInv
  BY <1>1 DEF PhaseInv, BlameInv
<1>9. StoreInv
  <2>1. CacheHoldsStored(cache)
    BY <1>1, EmptyCache DEF CacheHoldsStored
  <2> QED BY <1>1, <1>2, <2>1 DEF StoreInv
<1>10. HeadersChecked(pos)
  <2>1. 0..(pos - 1) = {}
    BY <1>1
  <2>2. \A h \in Heights : ~ (h < pos * HeadersPerFile)
    BY <1>1, <1>7, Numbers
  <2> QED BY <2>1, <2>2 DEF HeadersChecked
<1>11. WalkInv
  BY <1>1, <1>10 DEF WalkInv, FilterWalk, OkMeansAuthentic
<1> QED BY <1>7, <1>8, <1>9, <1>11 DEF IndInv

\* Every step keeps the invariant.
LEMMA IndInvStep ==
    ASSUME IndInv, [Next]_vars
    PROVE  IndInv'
<1>1. ASSUME NEW answered \in BOOLEAN, VerifyOneHeaderFile(answered) PROVE IndInv'
  BY <1>1, VerifyOneHeaderFileKeeps
<1>2. ASSUME NEW answered \in BOOLEAN, RecheckHeaderFile(answered) PROVE IndInv'
  BY <1>2, RecheckHeaderFileKeeps
<1>3. ASSUME NEW answered \in BOOLEAN, VerifyFilterHeaderAnchor(answered) PROVE IndInv'
  BY <1>3, VerifyFilterHeaderAnchorKeeps
<1>4. ASSUME NEW answered \in BOOLEAN, RecheckFilterHeaderFile(answered) PROVE IndInv'
  BY <1>4, RecheckFilterHeaderFileKeeps
<1>5. ASSUME NEW answered \in BOOLEAN, CheckMemoryHeaders(answered) PROVE IndInv'
  BY <1>5, CheckMemoryHeadersKeeps
<1>6. ASSUME NEW answered \in BOOLEAN, CheckMemoryFilterHeaders(answered) PROVE IndInv'
  BY <1>6, CheckMemoryFilterHeadersKeeps
<1>7. ASSUME NEW answered \in BOOLEAN, VerifyOneFilterFile(answered) PROVE IndInv'
  BY <1>7, VerifyOneFilterFileKeeps
<1>8. ASSUME NEW answered \in BOOLEAN, RecheckFilterFile(answered) PROVE IndInv'
  BY <1>8, RecheckFilterFileKeeps
<1>9. CASE FixHeaderFile
  BY <1>9, FixHeaderFileKeeps
<1>10. CASE FixFilterHeaderFile
  BY <1>10, FixFilterHeaderFileKeeps
<1>11. CASE DiagnoseRange
  BY <1>11, DiagnoseRangeKeeps
<1>12. CASE FixFilterFile
  BY <1>12, FixFilterFileKeeps
<1>13. CASE FixFHeadersOfRange
  BY <1>13, FixFHeadersOfRangeKeeps
<1>14. CASE Report
  BY <1>14, ReportKeeps
<1>15. CASE Fails
  BY <1>15, FailsKeeps
<1>16. CASE ServerAdvances
  BY <1>16, ServerAdvancesKeeps
<1>17. CASE Rerun
  BY <1>17, RerunKeeps
<1>18. CASE NoHeaderFile
  BY <1>18, NoHeaderFileKeeps
<1>19. CASE UNCHANGED vars
  <2>1. UNCHANGED <<pc, pos, running, todo, fix, safe, bad, fixed, cache, top, dataVars, headers, fheaders, filters, cut>>
    BY <1>19 DEF vars, walkVars, dataVars
  <2>2. TypeOK' /\ BlameInv'
    BY <2>1 DEF IndInv, TypeOK, BlameInv, Corrupt, AuthFilterHeader, Commitment
  <2>3. PhaseInv'
    BY <2>1, SameStores DEF IndInv, PhaseInv
  <2>4. StoreInv'
    BY <2>1, SameStoresKeep DEF IndInv
  <2>5. WalkInv'
    <3>1. /\ HeadersChecked(NumFiles(HeadersPerFile))' <=> HeadersChecked(NumFiles(HeadersPerFile))
          /\ HeadersChecked(pos)' <=> HeadersChecked(pos)
      BY <2>1, SameStores DEF HeadersChecked
    <3>2. FiltersChecked(pos)' <=> FiltersChecked(pos)
      BY <2>1, SameStores DEF FiltersChecked, FHeadersAsFound
    <3>3. OkMeansAuthentic' <=> OkMeansAuthentic
      BY <2>1, SameStores
      DEF OkMeansAuthentic, HeaderFileAuthentic, FilterFileAuthentic, Covered, FHeadersAsFound
    <3> QED BY <2>1, <3>1, <3>2, <3>3 DEF IndInv, WalkInv
  <2> QED BY <2>2, <2>3, <2>4, <2>5 DEF IndInv
<1> QED
  BY <1>1, <1>2, <1>3, <1>4, <1>5, <1>6, <1>7, <1>8, <1>9, <1>10, <1>11, <1>12, <1>13, <1>14, <1>15,
     <1>16, <1>17, <1>18, <1>19 DEF Next

\* It always holds.
LEMMA AlwaysIndInv == Spec => []IndInv
<1>1. Init => IndInv
  BY InitIndInv
<1>2. IndInv /\ [Next]_vars => IndInv'
  BY IndInvStep
<1> QED BY <1>1, <1>2, PTL DEF Spec

\* verify keeps its types: with --fix only what the server has in memory is
\* left to report, without it no file is rewritten, and the walk and the server
\* stay within the heights of the chain.
THEOREM VerifyTypeCorrect == Spec => []TypeOK
<1>1. IndInv => TypeOK
  BY DEF IndInv
<1> QED BY <1>1, AlwaysIndInv, PTL

\* runVerify says "all sealed files verified OK" only if every sealed file is
\* whole, every sealed header and the last filter header of each file are
\* bitcoind's, and, unless a filter header file was regenerated, so is every
\* filter of a file that was there when the memory was checked, with the stored
\* filter header at its end.  It is so whatever is corrupt, whatever the server
\* seals meanwhile, with and without --fix, and for every pair of file sizes.
THEOREM OkIsAuthentic == Spec => []OkMeansAuthentic
<1>1. IndInv => OkMeansAuthentic
  <2> SUFFICES ASSUME IndInv, pc = "ok" PROVE OkMeansAuthentic
    BY DEF OkMeansAuthentic
  <2>1. bad = {}
    BY DEF IndInv, PhaseInv
  <2> QED BY <2>1 DEF IndInv, WalkInv
<1> QED BY <1>1, AlwaysIndInv, PTL

\* A file that fixFilterRange replaces is at fault: a filter file is cut off
\* or holds a filter of another chain, a filter header file holds a filter
\* header of another chain, although the check that led there may have failed
\* for the other one, for a file before, or because bitcoind did not answer.
THEOREM RewritesOnlyTheCorrupt == Spec => DiagnosedBeforeRewritten
<1>1. ASSUME IndInv, [Next]_vars, NEW file \in fixed' \ fixed, pc \in {"fixFilters", "fixFHeaders"}
      PROVE  Corrupt(file)
  <2> DEFINE F == FiltersPerFile
             k == (pos * F) \div HeadersPerFile
  <2>1. pos \in Nat /\ pos < NumFiles(F)
    BY <1>1, FilesOfWalk DEF IndInv, PhaseInv
  <2>2. CASE FixFilterFile
    <3>1. pc = "fixFilters" /\ "filters" \in todo /\ file = FilterFile(pos)
      BY <1>1, <2>2 DEF FixFilterFile, RewriteFilters, Regenerate
    <3> QED BY <1>1, <3>1 DEF IndInv, BlameInv
  <2>3. CASE FixFHeadersOfRange
    <3>1. pc = "fixFHeaders" /\ "filter headers" \in todo /\ file = FHeaderFile(k)
      BY <1>1, <2>3 DEF FixFHeadersOfRange, RewriteFHeaders, Regenerate
    <3>2. PICK h \in Range(pos, F) : fheaders[h] # AuthFilterHeader(h)
      BY <1>1, <3>1 DEF IndInv, BlameInv
    <3>3. h \in Range(k, HeadersPerFile)
      BY <1>1, <2>1, SealedFilterFile DEF IndInv
    <3> HIDE DEF k
    <3>4. file[1] = "filter headers" /\ file[2] = k
      BY <3>1 DEF FHeaderFile
    <3> QED BY <3>2, <3>3, <3>4 DEF Corrupt
  <2>4. CASE UNCHANGED fixed
    BY <1>1, <2>4
  <2>5. FixFilterFile \/ FixFHeadersOfRange \/ UNCHANGED fixed
    BY <1>1 DEF Next, vars, VerifyOneHeaderFile, RecheckHeaderFile, VerifyFilterHeaderAnchor,
                RecheckFilterHeaderFile, CheckMemoryHeaders, CheckMemoryFilterHeaders,
                VerifyOneFilterFile, RecheckFilterFile, FixHeaderFile, FixFilterHeaderFile,
                NoHeaderFile, DiagnoseRange, Report, Fails, ServerAdvances, Rerun, Ended
  <2> QED BY <2>2, <2>3, <2>4, <2>5
<1>2. IndInv /\ [Next]_vars
        => [\A file \in fixed' \ fixed : pc \in {"fixFilters", "fixFHeaders"} => Corrupt(file)]_vars
  BY <1>1
<1> QED BY <1>2, AlwaysIndInv, PTL DEF Spec, DiagnosedBeforeRewritten
=============================================================================
