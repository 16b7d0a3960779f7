------------------------ MODULE CustomHeadersProofs ------------------------
(***************************************************************************)
(* Theorems about CustomHeaders, for every number of configurations, every *)
(* pair of file sizes that updateFiles accepts, and every depth.           *)
(***************************************************************************)
EXTENDS CustomHeaders, IntervalLemmas

-----------------------------------------------------------------------------
(* Where the header files end. *)

\* anchorCount is the greatest multiple of the header file size up to n.
LEMMA AnchorBounds ==
    ASSUME NEW a \in Nat
    PROVE  /\ AnchorCount(a) \in Nat /\ AnchorCount(a) <= a /\ a < AnchorCount(a) + HeadersPerFile
           /\ AnchorCount(a) % HeadersPerFile = 0
<1> DEFINE H == HeadersPerFile
           q == a \div H
<1>1. H \in Nat \ {0}
  BY SizeAssumption
<1>2. q \in Nat /\ a = H * q + (a % H) /\ a % H \in 0..(H - 1)
  <2> HIDE DEF H
  <2> QED BY <1>1
<1>3. AnchorCount(a) = H * q
  <2>1. AnchorCount(a) = q * H
    BY DEF AnchorCount
  <2> HIDE DEF q, H
  <2> QED BY <1>1, <1>2, <2>1
<1>4. (H * q) % H = 0
  <2> HIDE DEF q, H
  <2> QED BY <1>1, <1>2, Multiple
<1>5. H * q \in Nat
  <2> HIDE DEF q, H
  <2> QED BY <1>1, <1>2
<1> HIDE DEF q
<1> QED BY <1>1, <1>2, <1>3, <1>4, <1>5

\* It is the only multiple less than a header file below.
LEMMA AnchorUnique ==
    ASSUME NEW a \in Nat, NEW m \in Nat, m % HeadersPerFile = 0, m <= a, a < m + HeadersPerFile
    PROVE  AnchorCount(a) = m
<1> DEFINE H == HeadersPerFile
           c == AnchorCount(a)
<1>1. H \in Nat \ {0}
  BY SizeAssumption
<1>2. c \in Nat /\ c <= a /\ a < c + H /\ c % H = 0
  BY AnchorBounds
<1> HIDE DEF H, c
<1>3. ASSUME c < m PROVE FALSE
  <2>1. c + H <= m
    BY <1>1, <1>2, <1>3, NextMultiple DEF H
  <2> QED BY <1>1, <1>2, <2>1
<1>4. ASSUME m < c PROVE FALSE
  <2>1. m + H <= c
    BY <1>1, <1>2, <1>4, NextMultiple DEF H
  <2> QED BY <1>1, <1>2, <2>1 DEF H
<1> QED BY <1>2, <1>3, <1>4 DEF c

\* Where anchorCount is after one more batch of filters: right behind it if
\* the batch completes a span of headers, else where it was.
LEMMA AnchorMoves ==
    ASSUME NEW a \in Nat, a % EntriesPerFile = 0
    PROVE  LET e == a + EntriesPerFile IN
           IF e % HeadersPerFile = 0
             THEN /\ AnchorCount(e) = e
                  /\ e - HeadersPerFile \in Nat /\ AnchorCount(a) = e - HeadersPerFile
             ELSE AnchorCount(e) = AnchorCount(a)
<1> DEFINE n == EntriesPerFile
           H == HeadersPerFile
           e == a + n
           c == AnchorCount(a)
<1>1. n \in Nat \ {0} /\ H \in Nat \ {0} /\ H % n = 0 /\ 0 % n = 0
  BY SizeAssumption
<1>2. n <= H
  <2>1. 0 + n <= H
    BY <1>1, NextMultiple
  <2> QED BY <1>1, <2>1
<1>3. e \in Nat /\ e > 0 /\ e % n = 0
  <2>1. (a + n) % n = 0
    BY <1>1, NextMultiple
  <2> QED BY <1>1, <2>1
<1>4. c \in Nat /\ c <= a /\ a < c + H /\ c % H = 0
  BY AnchorBounds
<1>5. CASE e % H = 0
  <2>1. e >= H /\ (e - H) % H = 0
    <3> HIDE DEF e, H
    <3> QED BY <1>1, <1>3, <1>5, NextMultiple
  <2>2. AnchorCount(e) = e
    BY <1>1, <1>3, <1>5, AnchorUnique
  <2>3. e - H \in Nat /\ e - H <= a /\ a < e - H + H
    BY <1>1, <1>2, <1>3, <2>1
  <2>4. AnchorCount(a) = e - H
    BY <2>1, <2>3, AnchorUnique
  <2> QED BY <1>5, <2>2, <2>3, <2>4
<1>6. CASE e % H # 0
  <2>1. (c + H) % H = 0 /\ c + H \in Nat
    BY <1>1, <1>4, NextMultiple
  <2>2. (c + H) % n = 0
    BY <1>1, <2>1, MultipleOfMultiple
  <2>3. a + n <= c + H
    BY <1>1, <1>4, <2>1, <2>2, NextMultiple
  <2>4. e # c + H
    BY <1>6, <2>1
  <2>5. c <= e /\ e < c + H
    <3> HIDE DEF c, H
    <3> QED BY <1>1, <1>4, <2>3, <2>4
  <2>6. AnchorCount(e) = c
    BY <1>3, <1>4, <2>5, AnchorUnique
  <2> QED BY <1>6, <2>6
<1> QED BY <1>5, <1>6

-----------------------------------------------------------------------------
(* What the invariant says of heights, files and headers. *)

\* The sizes and the heights are numbers.
LEMMA Numbers ==
    ASSUME TypeOK
    PROVE  /\ MaxHeight \in Nat /\ Heights = 0..MaxHeight /\ ReOrgSafeDepth \in Nat
           /\ EntriesPerFile \in Nat /\ EntriesPerFile > 1
           /\ HeadersPerFile \in Nat /\ HeadersPerFile > 0 /\ HeadersPerFile % EntriesPerFile = 0
           /\ NumConfigs \in Nat /\ Config = 1..NumConfigs /\ 1 \in Config /\ NumConfigs \in Config
           /\ cfg \in 1..NumConfigs
           /\ next \in 0..(MaxHeight + 1) /\ lastSealed \in -1..MaxHeight
           /\ NextEnd = lastSealed + EntriesPerFile /\ NextEnd \in Nat
BY SizeAssumption DEF TypeOK, Heights, Config, NextEnd

\* lastFile answers with the end of a file of the resume configuration.
LEMMA LastFileIsEnd ==
    ASSUME TypeOK
    PROVE  /\ LastFile \in Heights
           /\ FileEnds # {} => LastFile \in FileEnds /\ \A h \in FileEnds : h <= LastFile
           /\ FileEnds = {} => LastFile = 0
<1>1. CASE FileEnds = {}
  <2>1. 0 \in Heights
    BY SizeAssumption DEF Heights
  <2> QED BY <1>1, <2>1 DEF LastFile
<1>2. CASE FileEnds # {}
  <2>1. FileEnds \in SUBSET (0..MaxHeight) /\ MaxHeight \in Nat
    BY SizeAssumption DEF FileEnds, Heights
  <2>2. \E h \in FileEnds : \A g \in FileEnds : g <= h
    BY <1>2, <2>1, GreatestElement
  <2>3. LastFile \in FileEnds /\ \A g \in FileEnds : g <= LastFile
    BY <1>2, <2>2 DEF LastFile
  <2>4. LastFile \in Heights
    BY <2>3 DEF FileEnds
  <2> QED BY <1>2, <2>3, <2>4
<1> QED BY <1>1, <1>2

\* What counts as sealed ends where a file ends.
LEMMA SealedTopIsEnd ==
    ASSUME TypeOK
    PROVE  /\ SealedTop \in -1..MaxHeight /\ SealedTop + 1 \in Nat
           /\ (SealedTop + 1) % EntriesPerFile = 0
           /\ \A h \in Heights : Sealed(h) <=> h <= SealedTop
<1>1. LastFile \in 0..MaxHeight /\ MaxHeight \in Nat /\ Heights = 0..MaxHeight
  BY LastFileIsEnd, Numbers
<1>2. LastFile > 0 => (LastFile + 1) % EntriesPerFile = 0
  BY LastFileIsEnd DEF FileEnds
<1>3. 0 % EntriesPerFile = 0
  BY Numbers
<1>4. CASE LastFile > 0
  BY <1>1, <1>2, <1>4 DEF SealedTop, Sealed
<1>5. CASE ~ (LastFile > 0)
  <2>1. SealedTop = -1 /\ -1 + 1 = 0
    BY <1>5 DEF SealedTop
  <2>2. \A h \in Heights : ~ (h <= -1) /\ ~Sealed(h)
    BY <1>1, <1>5 DEF Sealed
  <2> QED BY <1>1, <1>3, <2>1, <2>2
<1> QED BY <1>4, <1>5

\* lastSealedHeight is what is sealed, or one batch behind it.
LEMMA SealedBelow ==
    ASSUME IndInv
    PROVE  lastSealed <= SealedTop
<1> USE DEF IndInv
<1>1. SealedTop \in -1..MaxHeight /\ lastSealed \in Int /\ MaxHeight \in Nat /\ EntriesPerFile \in Nat
  BY SealedTopIsEnd, Numbers
<1>2. pc \in {"down", "promote", "ingest", "seal", "headers", "filters"}
  BY DEF TypeOK, NothingLacking
<1>3. CASE pc = "down"
  BY <1>1, <1>3 DEF ControlInv
<1>4. CASE pc = "promote"
  BY <1>1, <1>4 DEF ControlInv, NextEnd
<1>5. CASE pc \in {"ingest", "seal", "headers", "filters"}
  BY <1>1, <1>5 DEF ControlInv
<1> QED BY <1>2, <1>3, <1>4, <1>5

\* A header over the filters the producer has is one.
LEMMA HeaderOverType ==
    ASSUME IndInv, NEW i \in Config, NEW h \in Heights, h < next
    PROVE  HeaderOver(i, h) \in HeaderOf(h)
<1> USE DEF IndInv
<1>1. /\ Heights = 0..MaxHeight /\ MaxHeight \in Nat /\ lastSealed \in Int /\ next \in Int
      /\ SealedTop \in Int /\ lastSealed <= SealedTop
  BY Numbers, SealedTopIsEnd, SealedBelow
<1>2. ASSUME NEW k \in 0..h
      PROVE  (IF k <= lastSealed THEN filterFile[i][k] ELSE filters[k]) \in Block
  <2>1. k \in Heights /\ k < next /\ k \in Int
    BY <1>1
  <2>2. CASE k <= lastSealed
    <3>1. k <= SealedTop
      BY <1>1, <2>1, <2>2
    <3>2. filterFile[i][k] # NoBlock
      BY <2>1, <3>1 DEF FilesInv
    <3>3. filterFile[i][k] \in Block \cup {NoBlock}
      BY <2>1 DEF TypeOK
    <3> QED BY <2>2, <3>2, <3>3
  <2>3. CASE ~ (k <= lastSealed)
    <3>1. lastSealed < k
      BY <1>1, <2>1, <2>3
    <3>2. filters[k] # NoBlock /\ filters[k] \in Block \cup {NoBlock}
      BY <2>1, <3>1 DEF MemoryInv, TypeOK
    <3> QED BY <2>3, <3>2
  <2> QED BY <2>2, <2>3
<1> QED BY <1>2 DEF HeaderOver, HeaderOf

\* A step that writes no file.
LEMMA SameFiles ==
    ASSUME UNCHANGED fileVars
    PROVE  /\ LastFile' = LastFile /\ SealedTop' = SealedTop
           /\ FilesInv => FilesInv'
<1>1. LastFile' = LastFile /\ SealedTop' = SealedTop
  BY DEF fileVars, LastFile, FileEnds, SealedTop
<1> QED BY <1>1 DEF fileVars, FilesInv, AnchorCount

-----------------------------------------------------------------------------
(* Ingesting. *)

\* The headers in memory can only be missing right behind the sealed filters.
LEMMA MissingOnlyAtStart ==
    ASSUME IndInv, pc = "ingest", next <= MaxHeight, ~InMemory(next)
    PROVE  next = lastSealed + 1 /\ lastSealed = SealedTop /\ next > 0
<1> USE DEF IndInv
<1>1. /\ next \in Nat /\ lastSealed \in Int /\ lastSealed + 1 \in Nat /\ lastSealed < next
      /\ Heights = 0..MaxHeight /\ MaxHeight \in Nat
  BY Numbers DEF ControlInv
<1>2. next > 0 /\ filterHeaders[next - 1] = NoBlock
  BY <1>1 DEF InMemory
<1>3. ASSUME next > lastSealed + 1 PROVE FALSE
  <2>1. HeadersFrom(AnchorCount(lastSealed + 1))
    BY <1>2, <1>3 DEF HeadersInv
  <2>2. AnchorCount(lastSealed + 1) \in Nat /\ AnchorCount(lastSealed + 1) <= lastSealed + 1
    BY <1>1, AnchorBounds
  <2>3. AnchorCount(lastSealed + 1) <= next - 1 /\ next - 1 < next /\ next - 1 \in Heights
    BY <1>1, <1>2, <1>3, <2>2
  <2> QED BY <1>2, <2>1, <2>3 DEF HeadersFrom
<1>4. lastSealed = SealedTop
  BY DEF ControlInv
<1> QED BY <1>1, <1>2, <1>3, <1>4

\* resumeFilterHeaders finds the files it reads.
LEMMA ResumeReads ==
    ASSUME IndInv, pc = "ingest", next <= MaxHeight
    PROVE  InMemory(next) \/ FilesReadable(next)
<1> USE DEF IndInv
<1> SUFFICES ASSUME ~InMemory(next) PROVE FilesReadable(next)
  OBVIOUS
<1> DEFINE A == AnchorCount(next)
<1>1. next = SealedTop + 1 /\ next \in Nat /\ SealedTop \in Int
  BY MissingOnlyAtStart, SealedTopIsEnd, Numbers
<1>2. A \in Nat /\ A <= next /\ Heights = 0..MaxHeight /\ MaxHeight \in Nat
  BY <1>1, AnchorBounds, Numbers
<1>3. ASSUME NEW i \in Config, A > 0 PROVE headerFile[i][A - 1] # NoBlock
  <2>1. A - 1 \in Heights /\ A - 1 < A
    BY <1>1, <1>2, <1>3
  <2>2. A = AnchorCount(SealedTop + 1)
    BY <1>1
  <2> HIDE DEF A
  <2> QED BY <2>1, <2>2 DEF FilesInv
<1>4. ASSUME NEW i \in Config, NEW h \in A..(next - 1) PROVE filterFile[i][h] # NoBlock
  <2>1. h \in Heights /\ h <= SealedTop
    BY <1>1, <1>2
  <2> QED BY <2>1 DEF FilesInv
<1> QED BY <1>3, <1>4 DEF FilesReadable

\* rebuildFilterHeaders computes the headers over the sealed filters.
LEMMA RebuiltIsHeaderOver ==
    ASSUME IndInv, pc = "ingest", next <= MaxHeight, ~InMemory(next),
           NEW i \in Config, NEW h \in Heights, h < next
    PROVE  Rebuilt(i, h, next) = HeaderOver(i, h)
<1> USE DEF IndInv
<1> DEFINE A == AnchorCount(next)
<1>1. next = SealedTop + 1 /\ lastSealed = SealedTop /\ next \in Nat /\ SealedTop \in Int
  BY MissingOnlyAtStart, SealedTopIsEnd, Numbers
<1>2. A \in Nat /\ A <= next /\ Heights = 0..MaxHeight /\ MaxHeight \in Nat
  BY <1>1, AnchorBounds, Numbers
<1>3. ASSUME A > 0 PROVE headerFile[i][A - 1] = [k \in 0..(A - 1) |-> filterFile[i][k]]
  <2>1. A - 1 \in Heights /\ A - 1 < A /\ A - 1 <= SealedTop
    BY <1>1, <1>2, <1>3
  <2>2. A = AnchorCount(SealedTop + 1)
    BY <1>1
  <2> HIDE DEF A
  <2> QED BY <2>1, <2>2 DEF FilesInv
<1>4. ASSUME NEW k \in 0..h
      PROVE  (IF k < A THEN headerFile[i][A - 1][k] ELSE filterFile[i][k])
              = (IF k <= lastSealed THEN filterFile[i][k] ELSE filters[k])
  <2>1. k <= lastSealed /\ k \in Nat
    BY <1>1, <1>2
  <2>2. CASE k < A
    <3>1. A > 0 /\ k \in 0..(A - 1)
      BY <1>2, <2>1, <2>2
    <3> HIDE DEF A
    <3> QED BY <1>3, <2>1, <2>2, <3>1
  <2>3. CASE ~ (k < A)
    BY <2>1, <2>3
  <2> QED BY <2>2, <2>3
<1> HIDE DEF A
<1> QED BY <1>4 DEF Rebuilt, HeaderOver, A

\* prevFilterHeaders returns the headers over the filters up to the height before.
LEMMA PrevIsHeaderOver ==
    ASSUME IndInv, pc = "ingest", next <= MaxHeight, next > 0, NEW i \in Config
    PROVE  PrevFilterHeaders(next)[i] = HeaderOver(i, next - 1)
<1> USE DEF IndInv
<1>1. next \in Nat /\ next - 1 \in Heights /\ next - 1 < next
  BY Numbers
<1>2. CASE InMemory(next)
  <2>1. filterHeaders[next - 1] # NoBlock /\ PrevFilterHeaders(next) = filterHeaders[next - 1]
    BY <1>2 DEF InMemory, PrevFilterHeaders
  <2>2. filterHeaders[next - 1] = [j \in Config |-> HeaderOver(j, next - 1)]
    BY <1>1, <2>1 DEF MemoryInv
  <2> QED BY <2>1, <2>2
<1>3. CASE ~InMemory(next)
  <2>1. PrevFilterHeaders(next)[i] = Rebuilt(i, next - 1, next)
    BY <1>3 DEF PrevFilterHeaders
  <2> QED BY <1>1, <1>3, <2>1, RebuiltIsHeaderOver
<1> QED BY <1>2, <1>3

\* The headers in memory after prevFilterHeaders are those from before, and
\* where they were missing the ones over the sealed filters.
LEMMA RepopulatedIsHeaderOver ==
    ASSUME IndInv, pc = "ingest", next <= MaxHeight, NEW h \in Heights
    PROVE  \/ Repopulated(next)[h] = filterHeaders[h]
           \/ /\ h < next
              /\ Repopulated(next)[h] = [i \in Config |-> HeaderOver(i, h)]
<1> USE DEF IndInv
<1>1. CASE InMemory(next)
  BY <1>1 DEF Repopulated
<1>2. CASE ~InMemory(next)
  <2>1. next \in Nat /\ AnchorCount(next) \in Nat
    BY Numbers, AnchorBounds
  <2>2. CASE h \in AnchorCount(next)..(next - 1)
    <3>1. h < next
      BY <2>1, <2>2
    <3>2. Repopulated(next)[h] = [i \in Config |-> Rebuilt(i, h, next)]
      BY <1>2, <2>2 DEF Repopulated
    <3>3. \A i \in Config : Rebuilt(i, h, next) = HeaderOver(i, h)
      BY <1>2, <3>1, RebuiltIsHeaderOver
    <3>4. [i \in Config |-> Rebuilt(i, h, next)] = [i \in Config |-> HeaderOver(i, h)]
      BY <3>3
    <3> QED BY <3>1, <3>2, <3>4
  <2>3. CASE h \notin AnchorCount(next)..(next - 1)
    BY <2>3 DEF Repopulated
  <2> QED BY <2>2, <2>3
<1> QED BY <1>1, <1>2

\* What ingest does, once its files are known to be readable.
LEMMA IngestEffect ==
    ASSUME IndInv, NEW b \in Block, Ingest(b)
    PROVE  /\ pc = "ingest" /\ pc' = "seal" /\ next <= MaxHeight /\ next' = next + 1
           /\ UNCHANGED <<lastSealed, cfg, fileVars>>
           /\ filters' = [filters EXCEPT ![next] = b]
           /\ \A h \in Heights : filters'[h] = IF h = next THEN b ELSE filters[h]
           /\ next \in Heights /\ next \in Nat
           /\ filterHeaders'[next] =
                [i \in Config |-> FilterHeader(next, b, PrevFilterHeaders(next)[i])]
           /\ \A h \in Heights \ {next} : filterHeaders'[h] = Repopulated(next)[h]
<1> USE DEF IndInv
<1>1. pc = "ingest" /\ next <= MaxHeight
  BY DEF Ingest
<1>2. next \in Heights /\ next \in Nat
  BY <1>1, Numbers
<1>3. /\ StoreHeaders(next, b) /\ filters' = [filters EXCEPT ![next] = b]
      /\ next' = next + 1 /\ pc' = "seal"
  BY <1>1, ResumeReads DEF Ingest
<1>4. UNCHANGED <<lastSealed, cfg, fileVars>>
  BY DEF Ingest
<1>5. \A h \in Heights : filters'[h] = IF h = next THEN b ELSE filters[h]
  BY <1>2, <1>3 DEF TypeOK
<1> DEFINE new == [i \in Config |-> FilterHeader(next, b, PrevFilterHeaders(next)[i])]
<1>6. filterHeaders' = [Repopulated(next) EXCEPT ![next] = new]
  BY <1>3 DEF StoreHeaders
<1>7. Repopulated(next) = [h \in Heights |-> Repopulated(next)[h]]
  BY DEF Repopulated
<1> HIDE DEF new
<1>8. filterHeaders'[next] = new /\ \A h \in Heights \ {next} : filterHeaders'[h] = Repopulated(next)[h]
  BY <1>2, <1>6, <1>7
<1> QED BY <1>1, <1>2, <1>3, <1>4, <1>5, <1>8 DEF new

\* The header that ingest adds commits to the new filter and all before it.
LEMMA IngestExtends ==
    ASSUME IndInv, NEW b \in Block, Ingest(b), NEW i \in Config,
           NEW n \in Heights, n = next
    PROVE  /\ \A h \in Heights : h < next => HeaderOver(i, h)' = HeaderOver(i, h)
           /\ HeaderOver(i, n)' = FilterHeader(next, b, PrevFilterHeaders(next)[i])
           /\ FilterHeader(next, b, PrevFilterHeaders(next)[i]) \in HeaderOf(next)
<1> USE DEF IndInv
<1>1. /\ pc = "ingest" /\ next <= MaxHeight /\ UNCHANGED <<lastSealed, filterFile>>
      /\ \A h \in Heights : filters'[h] = IF h = next THEN b ELSE filters[h]
      /\ next \in Heights /\ next \in Nat
  BY IngestEffect DEF fileVars
<1>2. lastSealed < next /\ lastSealed \in Int /\ Heights = 0..MaxHeight /\ MaxHeight \in Nat
  BY Numbers DEF ControlInv
<1>3. ASSUME NEW h \in Heights, h < next PROVE HeaderOver(i, h)' = HeaderOver(i, h)
  <2>1. \A k \in 0..h : filters'[k] = filters[k]
    <3>1. \A k \in 0..h : k \in Heights /\ k # next
      BY <1>1, <1>2, <1>3
    <3> QED BY <1>1, <3>1
  <2> QED BY <1>1, <2>1 DEF HeaderOver
<1> DEFINE prev == PrevFilterHeaders(next)[i]
<1>4. ASSUME NEW k \in 0..next
      PROVE  /\ (IF k <= lastSealed THEN filterFile[i][k] ELSE filters'[k])
                 = (IF k = next THEN b ELSE prev[k])
             /\ (IF k = next THEN b ELSE prev[k]) \in Block
  <2>1. CASE k = next
    BY <1>1, <1>2, <2>1
  <2>2. CASE k # next
    <3>1. next > 0 /\ k \in 0..(next - 1) /\ next - 1 \in Heights /\ next - 1 < next /\ k \in Heights
      BY <1>1, <1>2, <2>2
    <3>2. prev = HeaderOver(i, next - 1)
      BY <1>1, <3>1, PrevIsHeaderOver
    <3>3. prev \in HeaderOf(next - 1)
      BY <3>1, <3>2, HeaderOverType
    <3> HIDE DEF prev
    <3>4. prev[k] = (IF k <= lastSealed THEN filterFile[i][k] ELSE filters[k])
      BY <3>1, <3>2 DEF HeaderOver
    <3>5. filters'[k] = filters[k]
      BY <1>1, <2>2, <3>1
    <3>6. prev[k] \in Block
      BY <3>1, <3>3 DEF HeaderOf
    <3> QED BY <2>2, <3>4, <3>5, <3>6
  <2> QED BY <2>1, <2>2
<1> HIDE DEF prev
<1>5. \A k \in 0..n : (IF k <= lastSealed' THEN filterFile'[i][k] ELSE filters'[k])
                           = (IF k = next THEN b ELSE prev[k])
  BY <1>1, <1>4
<1>6. HeaderOver(i, n)' = [k \in 0..n |-> IF k = next THEN b ELSE prev[k]]
  BY <1>5 DEF HeaderOver
<1>7. FilterHeader(next, b, prev) = [k \in 0..n |-> IF k = next THEN b ELSE prev[k]]
  BY DEF FilterHeader
<1>8. FilterHeader(next, b, prev) \in HeaderOf(next)
  BY <1>4 DEF FilterHeader, HeaderOf
<1> QED BY <1>3, <1>6, <1>7, <1>8 DEF prev

\* An entry of headers over the filters the producer has is an entry.
LEMMA EntryType ==
    ASSUME IndInv, NEW h \in Heights, h < next
    PROVE  /\ [i \in Config |-> HeaderOver(i, h)] \in [Config -> HeaderOf(h)]
           /\ [i \in Config |-> HeaderOver(i, h)] # NoBlock
<1>1. \A i \in Config : HeaderOver(i, h) \in HeaderOf(h)
  BY HeaderOverType
<1>2. [i \in Config |-> HeaderOver(i, h)] \in [Config -> HeaderOf(h)]
  BY <1>1
<1> QED BY <1>2, AbsentAssumption

\* ingest keeps the chain of headers: also when it has to rebuild it, and
\* when it overwrites what a roll back has left behind.
LEMMA IngestKeeps ==
    ASSUME IndInv, NEW b \in Block, Ingest(b)
    PROVE  IndInv'
<1> USE DEF IndInv
<1>1. PICK n \in Heights : n = next
  BY IngestEffect
<1>2. /\ pc = "ingest" /\ pc' = "seal" /\ n <= MaxHeight /\ next' = n + 1 /\ n \in Nat
      /\ UNCHANGED <<lastSealed, cfg, fileVars, filterFile, headerFile>>
      /\ filters' = [filters EXCEPT ![n] = b]
      /\ \A h \in Heights : filters'[h] = IF h = n THEN b ELSE filters[h]
      /\ \A h \in Heights \ {n} : filterHeaders'[h] = Repopulated(next)[h]
  BY <1>1, IngestEffect DEF fileVars
<1>3. /\ Heights = 0..MaxHeight /\ MaxHeight \in Nat /\ lastSealed \in -1..MaxHeight /\ lastSealed < n
      /\ lastSealed + 1 \in Nat
  BY <1>1, Numbers DEF ControlInv
<1>4. \A h \in Heights : h \in Int
  BY <1>3
<1>5. /\ \A i \in Config : \A h \in Heights : h < n => HeaderOver(i, h)' = HeaderOver(i, h)
      /\ filterHeaders'[n] = [i \in Config |-> HeaderOver(i, n)']
      /\ filterHeaders'[n] \in [Config -> HeaderOf(n)]
  <2>1. filterHeaders'[n] = [i \in Config |-> FilterHeader(next, b, PrevFilterHeaders(next)[i])]
    BY <1>1, IngestEffect
  <2>2. \A i \in Config : /\ HeaderOver(i, n)' = FilterHeader(next, b, PrevFilterHeaders(next)[i])
                          /\ FilterHeader(next, b, PrevFilterHeaders(next)[i]) \in HeaderOf(n)
    BY <1>1, IngestExtends
  <2>3. \A i \in Config : \A h \in Heights : h < n => HeaderOver(i, h)' = HeaderOver(i, h)
    BY <1>1, IngestExtends
  <2> QED BY <2>1, <2>2, <2>3
<1>6. ASSUME NEW h \in Heights, h # n
      PROVE  \/ filterHeaders'[h] = filterHeaders[h]
             \/ h < n /\ filterHeaders'[h] = [i \in Config |-> HeaderOver(i, h)]
  BY <1>1, <1>2, <1>6, RepopulatedIsHeaderOver
<1>7. TypeOK'
  <2>1. pc' \in {"down", "ingest", "seal", "headers", "filters", "promote", "failed"}
        /\ next' \in 0..(MaxHeight + 1) /\ lastSealed' \in -1..MaxHeight /\ cfg' \in Config
    BY <1>2, <1>3 DEF TypeOK
  <2>2. filters' \in [Heights -> Block \cup {NoBlock}]
    BY <1>2 DEF TypeOK
  <2>3. filterFile' \in [Config -> [Heights -> Block \cup {NoBlock}]]
    BY <1>2 DEF TypeOK
  <2>4. \A h \in Heights : filterHeaders'[h] = NoBlock \/ filterHeaders'[h] \in [Config -> HeaderOf(h)]
    BY <1>1, <1>5, <1>6, EntryType DEF TypeOK
  <2>5. \A h \in Heights : \A i \in Config : headerFile'[i][h] = NoBlock \/ headerFile'[i][h] \in HeaderOf(h)
    BY <1>2 DEF TypeOK
  <2> QED BY <2>1, <2>2, <2>3, <2>4, <2>5 DEF TypeOK
<1>8. NothingLacking' /\ FilesInv' /\ SealedTop' = SealedTop
  BY <1>2, SameFiles DEF NothingLacking
<1>9. MemoryInv'
  <2>1. \A h \in Heights : filters'[h] # NoBlock <=> lastSealed < h /\ h < n + 1
    <3> SUFFICES ASSUME NEW h \in Heights
                 PROVE  filters'[h] # NoBlock <=> lastSealed < h /\ h < n + 1
      OBVIOUS
    <3>1. CASE h = n
      BY <1>2, <1>3, <3>1, ChoiceAssumption
    <3>2. CASE h # n
      <4>1. filters'[h] = filters[h] /\ (filters[h] # NoBlock <=> lastSealed < h /\ h < n)
        BY <1>1, <1>2, <3>2 DEF MemoryInv
      <4>2. h < n + 1 <=> h < n
        BY <1>2, <1>4, <3>2
      <4> QED BY <4>1, <4>2
    <3> QED BY <3>1, <3>2
  <2>2. ASSUME NEW h \in Heights, h < n + 1, filterHeaders'[h] # NoBlock
        PROVE  filterHeaders'[h] = [i \in Config |-> HeaderOver(i, h)']
    <3>1. CASE h = n
      BY <1>5, <3>1
    <3>2. CASE h # n
      <4>1. h < n
        BY <1>2, <1>4, <2>2, <3>2
      <4>2. filterHeaders'[h] = [i \in Config |-> HeaderOver(i, h)]
        BY <1>1, <1>6, <2>2, <3>2, <4>1 DEF MemoryInv
      <4> QED BY <1>5, <4>1, <4>2
    <3> QED BY <3>1, <3>2
  <2> QED BY <1>2, <2>1, <2>2 DEF MemoryInv
<1>10. HeadersInv'
  <2> DEFINE A == AnchorCount(lastSealed + 1)
  <2>1. A \in Nat /\ A <= lastSealed + 1
    BY <1>3, AnchorBounds
  <2>2. ASSUME NEW h \in Heights, A <= h, h < n + 1 PROVE filterHeaders'[h] # NoBlock
    <3>1. CASE h = n
      BY <1>5, <3>1, AbsentAssumption
    <3>2. CASE h # n
      <4>1. h < n /\ n > 0
        BY <1>2, <1>4, <2>2, <3>2, <1>3
      <4>2. CASE filterHeaders[h] # NoBlock
        BY <1>1, <1>6, <3>2, <4>1, <4>2, EntryType
      <4>3. CASE filterHeaders[h] = NoBlock
        <5>1. ~ HeadersFrom(A)
          BY <1>1, <2>2, <4>1, <4>3 DEF HeadersFrom
        <5>2. filterHeaders[n - 1] = NoBlock
          BY <1>1, <1>2, <4>1, <5>1 DEF HeadersInv
        <5>3. ~InMemory(next)
          BY <1>1, <1>2, <4>1, <5>2 DEF InMemory
        <5>4. n = lastSealed + 1
          BY <1>1, <1>2, <5>3, MissingOnlyAtStart
        <5>5. h \in AnchorCount(next)..(next - 1)
          BY <1>1, <1>2, <1>4, <2>1, <2>2, <4>1, <5>4
        <5>6. Repopulated(next)[h] = [i \in Config |-> Rebuilt(i, h, next)]
          BY <5>3, <5>5 DEF Repopulated
        <5>7. \A i \in Config : Rebuilt(i, h, next) = HeaderOver(i, h)
          BY <1>1, <1>2, <4>1, <5>3, RebuiltIsHeaderOver
        <5>8. filterHeaders'[h] = [i \in Config |-> HeaderOver(i, h)]
          BY <1>2, <3>2, <5>6, <5>7
        <5> QED BY <1>1, <4>1, <5>8, EntryType
      <4> QED BY <4>2, <4>3
    <3> QED BY <3>1, <3>2
  <2>3. HeadersFrom(AnchorCount(lastSealed + 1))'
    BY <1>2, <2>2 DEF HeadersFrom, AnchorCount
  <2> QED BY <1>2, <2>3 DEF HeadersInv
<1>11. ControlInv'
  BY <1>1, <1>2, <1>3, <1>8 DEF ControlInv
<1>12. BatchInv'
  BY <1>2 DEF BatchInv
<1> QED BY <1>7, <1>8, <1>9, <1>10, <1>11, <1>12

-----------------------------------------------------------------------------
(* Rolling back, sealing, restarting. *)

\* A roll back prunes filters and leaves their headers, all above the new tip.
LEMMA RollbackKeeps ==
    ASSUME IndInv, NEW c \in Heights, Rollback(c)
    PROVE  IndInv'
<1> USE DEF IndInv
<1>1. /\ pc = "ingest" /\ pc' = "ingest" /\ lastSealed < c /\ c < next - 1 /\ next' = c + 1
      /\ UNCHANGED <<lastSealed, cfg, fileVars, filterFile, headerFile, filterHeaders>>
      /\ filters' = [h \in Heights |-> IF h \in (c + 1)..(next - 1) THEN NoBlock ELSE filters[h]]
  BY DEF Rollback, PruneLocked, fileVars
<1>2. /\ Heights = 0..MaxHeight /\ MaxHeight \in Nat /\ lastSealed \in -1..MaxHeight
      /\ next \in 0..(MaxHeight + 1) /\ c \in Int /\ (\A h \in Heights : h \in Int)
  BY Numbers
<1>3. TypeOK'
  <2>1. filters' \in [Heights -> Block \cup {NoBlock}]
    BY <1>1 DEF TypeOK
  <2>2. next' \in 0..(MaxHeight + 1)
    BY <1>1, <1>2
  <2> QED BY <1>1, <2>1, <2>2 DEF TypeOK
<1>4. NothingLacking' /\ FilesInv' /\ SealedTop' = SealedTop
  BY <1>1, SameFiles DEF NothingLacking
<1>5. \A h \in Heights : filters'[h] # NoBlock <=> lastSealed < h /\ h < c + 1
  <2> SUFFICES ASSUME NEW h \in Heights
               PROVE  filters'[h] # NoBlock <=> lastSealed < h /\ h < c + 1
    OBVIOUS
  <2>1. filters[h] # NoBlock <=> lastSealed < h /\ h < next
    BY DEF MemoryInv
  <2>2. CASE h < c + 1
    <3>1. filters'[h] = filters[h] /\ h < next
      BY <1>1, <1>2, <2>2
    <3> QED BY <2>1, <2>2, <3>1
  <2>3. CASE ~ (h < c + 1)
    <3>1. h \in (c + 1)..(next - 1) \/ ~ (h < next)
      BY <1>2, <2>3
    <3>2. filters'[h] = NoBlock
      BY <1>1, <2>1, <3>1
    <3> QED BY <2>3, <3>2
  <2> QED BY <2>2, <2>3
<1>6. ASSUME NEW i \in Config, NEW h \in Heights, h < c + 1 PROVE HeaderOver(i, h)' = HeaderOver(i, h)
  <2>1. \A k \in 0..h : filters'[k] = filters[k]
    <3>1. \A k \in 0..h : k \in Heights /\ k \notin (c + 1)..(next - 1)
      BY <1>2, <1>6
    <3> QED BY <1>1, <3>1
  <2> QED BY <1>1, <2>1 DEF HeaderOver
<1>7. MemoryInv'
  <2>1. \A h \in Heights : h < c + 1 => h < next
    BY <1>1, <1>2
  <2>2. \A h \in Heights : h < c + 1 /\ filterHeaders[h] # NoBlock =>
            filterHeaders[h] = [i \in Config |-> HeaderOver(i, h)]
    BY <2>1 DEF MemoryInv
  <2>3. \A h \in Heights : h < c + 1 /\ filterHeaders[h] # NoBlock =>
            filterHeaders[h] = [i \in Config |-> HeaderOver(i, h)']
    BY <1>6, <2>2
  <2> QED BY <1>1, <1>5, <2>3 DEF MemoryInv
<1>8. HeadersInv'
  <2>1. next > 0 /\ next > lastSealed + 1
    BY <1>1, <1>2
  <2>2. HeadersFrom(AnchorCount(lastSealed + 1))
    BY <1>1, <2>1 DEF HeadersInv
  <2>3. \A h \in Heights : h < c + 1 => h < next
    BY <1>1, <1>2
  <2>4. HeadersFrom(AnchorCount(lastSealed + 1))'
    BY <1>1, <2>2, <2>3 DEF HeadersFrom, AnchorCount
  <2> QED BY <1>1, <2>4 DEF HeadersInv
<1>9. ControlInv'
  BY <1>1, <1>2, <1>4 DEF ControlInv
<1>10. BatchInv'
  BY <1>1 DEF BatchInv
<1> QED BY <1>3, <1>4, <1>7, <1>8, <1>9, <1>10

\* A step that moves neither heights nor entries nor files.
LEMMA SameData ==
    ASSUME UNCHANGED <<next, lastSealed, filters, filterHeaders, fileVars>>
    PROVE  /\ MemoryInv => MemoryInv'
           /\ \A i, h : HeaderOver(i, h)' = HeaderOver(i, h)
           /\ NextEnd' = NextEnd /\ FilterRange' = FilterRange /\ HeaderRange' = HeaderRange
           /\ (CompletesSpan' <=> CompletesSpan) /\ (SealReady' <=> SealReady)
           /\ \A a : HeadersFrom(a)' <=> HeadersFrom(a)
<1>1. \A i, h : HeaderOver(i, h)' = HeaderOver(i, h)
  BY DEF HeaderOver, fileVars
<1>2. MemoryInv => MemoryInv'
  BY <1>1 DEF MemoryInv
<1>3. \A a : HeadersFrom(a)' <=> HeadersFrom(a)
  BY DEF HeadersFrom
<1> QED BY <1>1, <1>2, <1>3 DEF NextEnd, FilterRange, HeaderRange, CompletesSpan, SealReady

\* sealReadyFiles decides what is written first.
LEMMA BeginSealKeeps ==
    ASSUME IndInv, BeginSeal
    PROVE  IndInv'
<1> USE DEF IndInv
<1>1. /\ pc = "seal" /\ UNCHANGED <<next, lastSealed, filters, filterHeaders, fileVars, filterFile, headerFile>>
      /\ \/ pc' = "ingest" /\ cfg' = cfg
         \/ pc' = "headers" /\ cfg' = 1 /\ CompletesSpan /\ SealReady
         \/ pc' = "filters" /\ cfg' = NumConfigs /\ ~CompletesSpan /\ SealReady
  BY DEF BeginSeal, fileVars
<1>2. 1 \in Config /\ NumConfigs \in Config /\ Config = 1..NumConfigs /\ NumConfigs \in Nat
  BY Numbers
<1>3. TypeOK'
  <2>1. cfg' \in Config
    BY <1>1, <1>2 DEF TypeOK
  <2> QED BY <1>1, <2>1 DEF TypeOK
<1>4. NothingLacking' /\ FilesInv' /\ SealedTop' = SealedTop
  BY <1>1, SameFiles DEF NothingLacking
<1>5. MemoryInv'
  BY <1>1, SameData
<1>6. HeadersInv'
  <2>1. HeadersFrom(AnchorCount(lastSealed + 1))
    BY <1>1 DEF HeadersInv
  <2>2. HeadersFrom(AnchorCount(lastSealed + 1))'
    BY <1>1, <2>1 DEF HeadersFrom, AnchorCount
  <2>3. pc' = "filters" => ~CompletesSpan'
    BY <1>1, SameData
  <2> QED BY <1>1, <2>2, <2>3 DEF HeadersInv
<1>7. ControlInv'
  BY <1>1, <1>4, SameData DEF ControlInv
<1>8. BatchInv'
  <2>1. \A i \in Config : ~ (i < 1) /\ ~ (i > NumConfigs)
    BY <1>2
  <2> QED BY <1>1, <2>1, SameData DEF BatchInv
<1> QED BY <1>3, <1>4, <1>5, <1>6, <1>7, <1>8

\* The file bounds when a batch is being written.
LEMMA BatchBounds ==
    ASSUME IndInv, pc \in {"headers", "filters", "promote"}
    PROVE  /\ NextEnd \in Heights /\ NextEnd < next /\ lastSealed < NextEnd
           /\ FilterRange = (lastSealed + 1)..NextEnd /\ FilterRange \subseteq Heights
           /\ (NextEnd + 1) % EntriesPerFile = 0
           /\ IF CompletesSpan
                THEN /\ HeaderRange = AnchorCount(lastSealed + 1)..NextEnd /\ HeaderRange \subseteq Heights
                     /\ AnchorCount(NextEnd + 1) = NextEnd + 1
                     /\ AnchorCount(lastSealed + 1) \in Nat
                     /\ AnchorCount(lastSealed + 1) <= lastSealed + 1
                ELSE AnchorCount(NextEnd + 1) = AnchorCount(lastSealed + 1)
<1> USE DEF IndInv
<1> DEFINE a == lastSealed + 1
<1>1. /\ MaxHeight \in Nat /\ Heights = 0..MaxHeight /\ ReOrgSafeDepth \in Nat
      /\ EntriesPerFile \in Nat /\ EntriesPerFile > 1 /\ HeadersPerFile \in Nat
      /\ next \in 0..(MaxHeight + 1) /\ lastSealed \in -1..MaxHeight
      /\ NextEnd = lastSealed + EntriesPerFile /\ NextEnd \in Nat
  BY Numbers
<1>2. NextEnd <= next - 1 - ReOrgSafeDepth
  BY DEF ControlInv, SealReady
<1>3. NextEnd \in Heights /\ NextEnd < next /\ lastSealed < NextEnd
  BY <1>1, <1>2
<1>4. FilterRange = (lastSealed + 1)..NextEnd /\ FilterRange \subseteq Heights
  BY <1>1, <1>3 DEF FilterRange
<1>5. a \in Nat /\ a % EntriesPerFile = 0 /\ NextEnd + 1 = a + EntriesPerFile
  BY <1>1 DEF ControlInv
<1>6. (NextEnd + 1) % EntriesPerFile = 0
  <2>1. EntriesPerFile \in Nat \ {0}
    BY <1>1
  <2>2. (a + EntriesPerFile) % EntriesPerFile = 0
    <3> HIDE DEF a
    <3> QED BY <1>5, <2>1, NextMultiple
  <2> QED BY <1>5, <2>2
<1>7. AnchorCount(a) \in Nat /\ AnchorCount(a) <= a
  BY <1>5, AnchorBounds
<1>8. LET e == a + EntriesPerFile IN
      IF e % HeadersPerFile = 0
        THEN /\ AnchorCount(e) = e
             /\ e - HeadersPerFile \in Nat /\ AnchorCount(a) = e - HeadersPerFile
        ELSE AnchorCount(e) = AnchorCount(a)
  <2> HIDE DEF a
  <2> QED BY <1>5, AnchorMoves
<1> HIDE DEF a
<1>9. CASE CompletesSpan
  <2>1. (a + EntriesPerFile) % HeadersPerFile = 0
    BY <1>1, <1>5, <1>9 DEF CompletesSpan
  <2>2. AnchorCount(NextEnd + 1) = NextEnd + 1 /\ AnchorCount(a) = NextEnd + 1 - HeadersPerFile
    BY <1>1, <1>5, <1>8, <2>1
  <2>3. HeaderRange = AnchorCount(a)..NextEnd
    BY <2>2 DEF HeaderRange
  <2>4. HeaderRange \subseteq Heights
    BY <1>1, <1>3, <1>7, <2>3
  <2> QED BY <1>3, <1>4, <1>6, <1>7, <1>9, <2>2, <2>3, <2>4 DEF a
<1>10. CASE ~CompletesSpan
  <2>1. (a + EntriesPerFile) % HeadersPerFile # 0
    BY <1>1, <1>5, <1>10 DEF CompletesSpan
  <2>2. AnchorCount(NextEnd + 1) = AnchorCount(a)
    BY <1>1, <1>5, <1>8, <2>1
  <2> QED BY <1>3, <1>4, <1>6, <1>10, <2>2 DEF a
<1> QED BY <1>9, <1>10

\* writeFilterHeaderFiles has every header of the span, and writes those over
\* the filters that are sealed or about to be.
LEMMA WriteFilterHeaderFileKeeps ==
    ASSUME IndInv, WriteFilterHeaderFile
    PROVE  IndInv'
<1> USE DEF IndInv
<1> DEFINE A == AnchorCount(lastSealed + 1)
<1>1. pc = "headers" /\ CompletesSpan /\ lastSealed = SealedTop
  BY DEF WriteFilterHeaderFile, ControlInv
<1>2. /\ NextEnd \in Heights /\ NextEnd < next /\ HeaderRange = A..NextEnd /\ HeaderRange \subseteq Heights
      /\ A \in Nat /\ A <= lastSealed + 1
  BY <1>1, BatchBounds
<1> HIDE DEF A
<1>3. /\ Heights = 0..MaxHeight /\ MaxHeight \in Nat /\ lastSealed \in -1..MaxHeight
      /\ next \in 0..(MaxHeight + 1) /\ (\A h \in Heights : h \in Int)
      /\ Config = 1..NumConfigs /\ NumConfigs \in Nat /\ cfg \in 1..NumConfigs /\ cfg \in Config
      /\ NumConfigs \in Config
      /\ NextEnd = lastSealed + EntriesPerFile /\ EntriesPerFile \in Nat
  BY Numbers
<1>4. \A h \in HeaderRange : h \in Heights /\ h < next /\ A <= h /\ h <= NextEnd
  BY <1>2, <1>3
<1>5. HeadersComplete
  BY <1>1, <1>4 DEF HeadersInv, HeadersFrom, HeadersComplete, A
<1>6. \A h \in HeaderRange : filterHeaders[h] = [i \in Config |-> HeaderOver(i, h)]
  BY <1>4, <1>5 DEF HeadersComplete, MemoryInv
<1>7. \A h \in HeaderRange : filterHeaders[h][cfg] = HeaderOver(cfg, h)
  BY <1>3, <1>6
<1>8. /\ UNCHANGED <<next, lastSealed, filters, filterFile>>
      /\ headerFile' = [headerFile EXCEPT ![cfg] =
             [h \in Heights |-> IF h \in HeaderRange THEN filterHeaders[h][cfg] ELSE @[h]]]
      /\ \/ /\ cfg = NumConfigs /\ cfg' = cfg /\ pc' = "filters"
            /\ filterHeaders' = [h \in Heights |-> IF h \in HeaderRange THEN NoBlock ELSE filterHeaders[h]]
         \/ cfg # NumConfigs /\ cfg' = cfg + 1 /\ pc' = "headers" /\ filterHeaders' = filterHeaders
  BY <1>1, <1>5 DEF WriteFilterHeaderFile
<1>9. \A i \in Config : \A h \in Heights :
          headerFile'[i][h] = IF i = cfg /\ h \in HeaderRange THEN HeaderOver(i, h) ELSE headerFile[i][h]
  BY <1>3, <1>7, <1>8 DEF FilesInv
<1>10. \A i, h : HeaderOver(i, h)' = HeaderOver(i, h)
  BY <1>8 DEF HeaderOver
<1>11. \A h \in Heights : /\ filterHeaders'[h] \in {NoBlock, filterHeaders[h]}
                          /\ h > NextEnd => filterHeaders'[h] = filterHeaders[h]
  BY <1>3, <1>4, <1>8
<1>12. \A i \in Config : \A h \in HeaderRange : HeaderOver(i, h) \in HeaderOf(h) /\ HeaderOver(i, h) # NoBlock
  BY <1>4, HeaderOverType, AbsentAssumption
<1>13. TypeOK'
  <2>1. cfg' \in Config
    BY <1>3, <1>8
  <2>2. \A h \in Heights : filterHeaders'[h] = NoBlock \/ filterHeaders'[h] \in [Config -> HeaderOf(h)]
    BY <1>11 DEF TypeOK
  <2>3. \A h \in Heights : \A i \in Config : headerFile'[i][h] = NoBlock \/ headerFile'[i][h] \in HeaderOf(h)
    BY <1>9, <1>12 DEF TypeOK
  <2>4. pc' \in {"headers", "filters"}
    BY <1>8
  <2> QED BY <1>8, <2>1, <2>2, <2>3, <2>4 DEF TypeOK
<1>14. SealedTop' = SealedTop
  BY <1>8 DEF SealedTop, LastFile, FileEnds
<1>15. FilesInv'
  <2>1. DOMAIN headerFile' = Config
    BY <1>8 DEF FilesInv
  <2>2. ASSUME NEW i \in Config, NEW h \in Heights
        PROVE  /\ h <= SealedTop => filterFile[i][h] # NoBlock
               /\ h < AnchorCount(SealedTop + 1) => headerFile'[i][h] # NoBlock
               /\ headerFile'[i][h] # NoBlock =>
                    IF h <= SealedTop THEN headerFile'[i][h] = [k \in 0..h |-> filterFile[i][k]]
                    ELSE /\ h <= SealedTop + EntriesPerFile
                         /\ (SealedTop + EntriesPerFile + 1) % HeadersPerFile = 0
    <3>1. CASE i = cfg /\ h \in HeaderRange
      <4>1. headerFile'[i][h] = HeaderOver(i, h) /\ headerFile'[i][h] # NoBlock
        BY <1>9, <1>12, <3>1
      <4>2. h <= SealedTop + EntriesPerFile /\ (SealedTop + EntriesPerFile + 1) % HeadersPerFile = 0
        BY <1>1, <1>3, <1>4, <3>1 DEF CompletesSpan
      <4>3. ASSUME h <= SealedTop PROVE HeaderOver(i, h) = [k \in 0..h |-> filterFile[i][k]]
        <5>1. \A k \in 0..h : k <= lastSealed
          BY <1>1, <1>3, <4>3
        <5> QED BY <5>1 DEF HeaderOver
      <4> QED BY <4>1, <4>2, <4>3 DEF FilesInv
    <3>2. CASE ~ (i = cfg /\ h \in HeaderRange)
      <4>1. headerFile'[i][h] = headerFile[i][h]
        BY <1>9, <3>2
      <4> QED BY <4>1 DEF FilesInv
    <3> QED BY <3>1, <3>2
  <2>3. \A h \in Heights : filterFile'[1][h] # NoBlock => h <= SealedTop'
    BY <1>8, <1>14 DEF FilesInv
  <2> HIDE DEF IndInv
  <2> QED BY <1>8, <1>14, <2>1, <2>2, <2>3 DEF FilesInv, AnchorCount
<1>16. MemoryInv'
  <2>1. \A h \in Heights : filters[h] # NoBlock <=> lastSealed < h /\ h < next
    BY DEF MemoryInv
  <2>2. \A h \in Heights : h < next /\ filterHeaders'[h] # NoBlock =>
            filterHeaders'[h] = [i \in Config |-> HeaderOver(i, h)]
    BY <1>11 DEF MemoryInv
  <2> QED BY <1>8, <1>10, <2>1, <2>2 DEF MemoryInv
<1>17. NextEnd' = NextEnd /\ HeaderRange' = HeaderRange /\ FilterRange' = FilterRange
       /\ CompletesSpan' /\ SealReady'
  BY <1>1, <1>8 DEF NextEnd, HeaderRange, FilterRange, CompletesSpan, SealReady, ControlInv
<1>18. HeadersInv'
  <2>1. HeadersFrom(A)
    BY <1>1 DEF HeadersInv, A
  <2>2. CASE pc' = "headers"
    <3>1. HeadersFrom(AnchorCount(lastSealed + 1))'
      BY <1>8, <2>1, <2>2 DEF HeadersFrom, A, AnchorCount
    <3> QED BY <2>2, <3>1 DEF HeadersInv
  <2>3. CASE pc' = "filters"
    <3>1. ASSUME NEW h \in Heights, NextEnd + 1 <= h, h < next PROVE filterHeaders'[h] # NoBlock
      <4>1. h > NextEnd /\ A <= h
        BY <1>2, <1>3, <3>1
      <4> QED BY <1>11, <2>1, <3>1, <4>1 DEF HeadersFrom
    <3>2. HeadersFrom(NextEnd + 1)'
      BY <1>8, <1>17, <3>1 DEF HeadersFrom
    <3> QED BY <1>17, <2>3, <3>2 DEF HeadersInv
  <2> QED BY <1>8, <2>2, <2>3
<1>19. ControlInv'
  BY <1>1, <1>8, <1>14, <1>17 DEF ControlInv
<1>20. BatchInv'
  <2>1. ASSUME NEW i \in Config, NEW h \in HeaderRange, i < cfg \/ i = cfg
        PROVE  headerFile'[i][h] = HeaderOver(i, h)
    BY <1>1, <1>4, <1>9, <2>1 DEF BatchInv
  <2>2. \A i \in Config : pc' = "headers" /\ i < cfg' => i < cfg \/ i = cfg
    BY <1>3, <1>8
  <2>3. \A i \in Config : pc' = "filters" => i < cfg \/ i = cfg
    BY <1>3, <1>8
  <2>4. \A i \in Config : ~ (pc' = "filters" /\ i > cfg') /\ pc' # "promote"
    BY <1>3, <1>8
  <2> QED BY <1>8, <1>10, <1>17, <2>1, <2>2, <2>3, <2>4 DEF BatchInv
<1>21. NothingLacking'
  BY <1>8 DEF NothingLacking
<1> QED BY <1>13, <1>15, <1>16, <1>18, <1>19, <1>20, <1>21

\* writeFilterFiles, one configuration.  The resume configuration's file comes
\* last, and moves what a restart takes for sealed to the end of the batch: by
\* then every other configuration has its file, and the header files their span.
LEMMA WriteFilterFileKeeps ==
    ASSUME IndInv, WriteFilterFile
    PROVE  IndInv'
<1> USE DEF IndInv
<1> DEFINE A == AnchorCount(lastSealed + 1)
<1>1. pc = "filters" /\ lastSealed = SealedTop /\ SealReady
  BY DEF WriteFilterFile, ControlInv
<1>2. /\ NextEnd \in Heights /\ NextEnd < next /\ lastSealed < NextEnd
      /\ FilterRange = (lastSealed + 1)..NextEnd /\ FilterRange \subseteq Heights
      /\ (NextEnd + 1) % EntriesPerFile = 0
  BY <1>1, BatchBounds
<1>3. /\ Heights = 0..MaxHeight /\ MaxHeight \in Nat /\ lastSealed \in -1..MaxHeight
      /\ next \in 0..(MaxHeight + 1) /\ (\A h \in Heights : h \in Int)
      /\ Config = 1..NumConfigs /\ NumConfigs \in Nat /\ cfg \in 1..NumConfigs /\ cfg \in Config
      /\ 1 \in Config
      /\ NextEnd = lastSealed + EntriesPerFile /\ EntriesPerFile \in Nat /\ EntriesPerFile > 1
  BY Numbers
<1>4. \A h \in FilterRange : h \in Heights /\ h < next /\ lastSealed < h /\ h <= NextEnd
  BY <1>2, <1>3
<1>5. \A h \in Heights : filters[h] # NoBlock <=> lastSealed < h /\ h < next
  BY DEF MemoryInv
<1>6. FiltersComplete
  BY <1>4, <1>5 DEF FiltersComplete
<1>7. /\ UNCHANGED <<next, lastSealed, filters, filterHeaders, headerFile>>
      /\ filterFile' = [filterFile EXCEPT ![cfg] =
             [h \in Heights |-> IF h \in FilterRange THEN filters[h] ELSE @[h]]]
      /\ \/ cfg = 1 /\ cfg' = cfg /\ pc' = "promote"
         \/ cfg # 1 /\ cfg' = cfg - 1 /\ pc' = "filters"
  BY <1>1, <1>6 DEF WriteFilterFile
<1>8. \A i \in Config : \A h \in Heights :
          filterFile'[i][h] = IF i = cfg /\ h \in FilterRange THEN filters[h] ELSE filterFile[i][h]
  BY <1>3, <1>7 DEF TypeOK
<1>9. \A i \in Config : \A h \in Heights : h <= lastSealed => filterFile'[i][h] = filterFile[i][h]
  BY <1>3, <1>4, <1>8
<1>10. \A i \in Config : \A h \in Heights : HeaderOver(i, h)' = HeaderOver(i, h)
  <2> SUFFICES ASSUME NEW i \in Config, NEW h \in Heights
               PROVE  HeaderOver(i, h)' = HeaderOver(i, h)
    OBVIOUS
  <2>1. \A k \in 0..h : k \in Heights
    BY <1>3
  <2>2. \A k \in 0..h : k <= lastSealed => filterFile'[i][k] = filterFile[i][k]
    BY <1>9, <2>1
  <2> QED BY <1>7, <2>2 DEF HeaderOver
<1>11. TypeOK'
  <2>1. cfg' \in Config
    BY <1>3, <1>7
  <2>2. filterFile' \in [Config -> [Heights -> Block \cup {NoBlock}]]
    <3>1. \A h \in FilterRange : filters[h] \in Block \cup {NoBlock}
      BY <1>4 DEF TypeOK
    <3>2. [h \in Heights |-> IF h \in FilterRange THEN filters[h] ELSE filterFile[cfg][h]]
             \in [Heights -> Block \cup {NoBlock}]
      BY <1>3, <3>1 DEF TypeOK
    <3> QED BY <1>3, <1>7, <3>2 DEF TypeOK
  <2>3. pc' \in {"filters", "promote"}
    BY <1>7
  <2> QED BY <1>7, <2>1, <2>2, <2>3 DEF TypeOK
<1>12. MemoryInv'
  <2>1. \A h \in Heights : h < next /\ filterHeaders[h] # NoBlock =>
            filterHeaders[h] = [i \in Config |-> HeaderOver(i, h)]
    BY DEF MemoryInv
  <2>2. \A h \in Heights : h < next /\ filterHeaders[h] # NoBlock =>
            filterHeaders[h] = [i \in Config |-> HeaderOver(i, h)']
    BY <1>10, <2>1
  <2> QED BY <1>5, <1>7, <2>2 DEF MemoryInv
<1>13. /\ NextEnd' = NextEnd /\ HeaderRange' = HeaderRange /\ FilterRange' = FilterRange
       /\ (CompletesSpan' <=> CompletesSpan) /\ SealReady'
  BY <1>1, <1>7 DEF NextEnd, HeaderRange, FilterRange, CompletesSpan, SealReady
<1>14. HeadersInv'
  <2>1. HeadersFrom(IF CompletesSpan THEN NextEnd + 1 ELSE AnchorCount(lastSealed + 1))
    BY <1>1 DEF HeadersInv
  <2>2. HeadersFrom(IF CompletesSpan THEN NextEnd + 1 ELSE AnchorCount(lastSealed + 1))'
    BY <1>7, <1>13, <2>1 DEF HeadersFrom, AnchorCount
  <2> QED BY <1>7, <2>2 DEF HeadersInv
<1>15. ASSUME CompletesSpan, NEW i \in Config, NEW h \in HeaderRange
       PROVE  /\ h \in Heights /\ headerFile[i][h] = HeaderOver(i, h)
              /\ headerFile[i][h] # NoBlock
  <2>1. HeaderRange = A..NextEnd /\ HeaderRange \subseteq Heights /\ A \in Nat
    BY <1>1, <1>15, BatchBounds
  <2>2. h \in Heights /\ h < next
    <3> HIDE DEF A
    <3> QED BY <1>2, <1>3, <2>1
  <2>3. headerFile[i][h] = HeaderOver(i, h)
    BY <1>1, <1>15 DEF BatchInv
  <2>4. HeaderOver(i, h) \in HeaderOf(h)
    BY <2>2, HeaderOverType
  <2> QED BY <2>2, <2>3, <2>4, AbsentAssumption
<1>16. ASSUME cfg = 1, NEW i \in Config, NEW h \in FilterRange
       PROVE  filterFile'[i][h] = filters[h]
  <2>1. h \in Heights
    BY <1>4
  <2>2. i = cfg \/ i > cfg
    BY <1>3, <1>16
  <2>3. i > cfg => filterFile[i][h] = filters[h]
    BY <1>1 DEF BatchInv
  <2> QED BY <1>8, <2>1, <2>2, <2>3
<1>17. SealedTop' = IF cfg = 1 THEN NextEnd ELSE SealedTop
  <2>1. CASE cfg # 1
    <3>1. \A h \in Heights : filterFile'[1][h] = filterFile[1][h]
      BY <1>3, <1>8, <2>1
    <3>2. FileEnds' = FileEnds
      BY <3>1 DEF FileEnds
    <3> QED BY <2>1, <3>2 DEF SealedTop, LastFile
  <2>2. CASE cfg = 1
    <3>1. NextEnd \in FilterRange
      BY <1>2, <1>3
    <3>2. filterFile'[1][NextEnd] # NoBlock
      BY <1>3, <1>6, <2>2, <3>1, <1>16 DEF FiltersComplete
    <3>3. NextEnd \in FileEnds'
      BY <1>2, <3>2 DEF FileEnds
    <3>4. ASSUME NEW g \in FileEnds' PROVE g <= NextEnd
      <4>1. g \in Heights /\ filterFile'[1][g] # NoBlock
        BY DEF FileEnds
      <4>2. CASE g \in FilterRange
        BY <1>4, <4>2
      <4>3. CASE g \notin FilterRange
        <5>1. filterFile[1][g] # NoBlock
          BY <1>3, <1>8, <4>1, <4>3
        <5>2. g <= SealedTop
          BY <4>1, <5>1 DEF FilesInv
        <5> QED BY <1>1, <1>2, <1>3, <4>1, <5>2
      <4> QED BY <4>2, <4>3
    <3>5. \E h \in FileEnds' : \A g \in FileEnds' : g <= h
      BY <3>3, <3>4
    <3>6. LastFile' \in FileEnds' /\ \A g \in FileEnds' : g <= LastFile'
      BY <3>3, <3>5 DEF LastFile
    <3>7. LastFile' \in Heights
      BY <3>6 DEF FileEnds
    <3>8. LastFile' <= NextEnd /\ NextEnd <= LastFile'
      BY <3>3, <3>4, <3>6
    <3>9. LastFile' = NextEnd /\ LastFile' > 0
      BY <1>2, <1>3, <3>7, <3>8
    <3> QED BY <2>2, <3>9 DEF SealedTop
  <2> QED BY <2>1, <2>2
<1>18. FilesInv'
  <2>1. DOMAIN headerFile' = Config
    BY <1>7 DEF FilesInv
  <2>2. CASE cfg # 1
    <3>1. SealedTop' = SealedTop
      BY <1>17, <2>2
    <3>2. \A h \in Heights : filterFile'[1][h] # NoBlock => h <= SealedTop
      BY <1>3, <1>8, <2>2 DEF FilesInv
    <3>3. ASSUME NEW i \in Config, NEW h \in Heights
          PROVE  /\ h <= SealedTop => filterFile'[i][h] # NoBlock
                 /\ h < AnchorCount(SealedTop + 1) => headerFile[i][h] # NoBlock
                 /\ headerFile[i][h] # NoBlock =>
                      IF h <= SealedTop THEN headerFile[i][h] = [k \in 0..h |-> filterFile'[i][k]]
                      ELSE /\ h <= SealedTop + EntriesPerFile
                           /\ (SealedTop + EntriesPerFile + 1) % HeadersPerFile = 0
      <4>1. ASSUME h <= SealedTop
            PROVE  /\ filterFile'[i][h] = filterFile[i][h]
                   /\ [k \in 0..h |-> filterFile'[i][k]] = [k \in 0..h |-> filterFile[i][k]]
        <5>1. \A k \in 0..h : k \in Heights /\ k <= lastSealed
          BY <1>1, <1>3, <4>1
        <5> QED BY <1>1, <1>9, <4>1, <5>1
      <4> QED BY <4>1 DEF FilesInv
    <3> HIDE DEF IndInv
    <3> QED BY <1>7, <2>1, <3>1, <3>2, <3>3 DEF FilesInv, AnchorCount
  <2>3. CASE cfg = 1
    <3>1. SealedTop' = NextEnd
      BY <1>17, <2>3
    <3>2. \A h \in Heights : filterFile'[1][h] # NoBlock => h <= NextEnd
      <4> SUFFICES ASSUME NEW h \in Heights, filterFile'[1][h] # NoBlock PROVE h <= NextEnd
        OBVIOUS
      <4>1. CASE h \in FilterRange
        BY <1>4, <4>1
      <4>2. CASE h \notin FilterRange
        <5>1. filterFile[1][h] # NoBlock
          BY <1>3, <1>8, <4>2
        <5>2. h <= SealedTop
          BY <5>1 DEF FilesInv
        <5> QED BY <1>1, <1>2, <1>3, <5>2
      <4> QED BY <4>1, <4>2
    <3>3. ASSUME NEW i \in Config, NEW h \in Heights, h <= NextEnd
          PROVE  filterFile'[i][h] # NoBlock
      <4>1. CASE h <= lastSealed
        BY <1>1, <1>9, <4>1 DEF FilesInv
      <4>2. CASE ~ (h <= lastSealed)
        <5>1. h \in FilterRange
          BY <1>2, <1>3, <3>3, <4>2
        <5> QED BY <1>6, <1>16, <2>3, <5>1 DEF FiltersComplete
      <4> QED BY <4>1, <4>2
    <3>4. ASSUME NEW i \in Config, NEW h \in Heights, h < AnchorCount(NextEnd + 1)
          PROVE  headerFile[i][h] # NoBlock
      <4>1. h < AnchorCount(lastSealed + 1) => headerFile[i][h] # NoBlock
        BY <1>1 DEF FilesInv
      <4>2. CASE CompletesSpan
        <5>1. HeaderRange = A..NextEnd /\ AnchorCount(NextEnd + 1) = NextEnd + 1 /\ A \in Nat
          BY <1>1, <4>2, BatchBounds
        <5>2. h \in HeaderRange \/ h < A
          <6> HIDE DEF A
          <6> QED BY <1>2, <1>3, <3>4, <5>1
        <5> QED BY <1>15, <4>1, <4>2, <5>2
      <4>3. CASE ~CompletesSpan
        BY <1>1, <3>4, <4>1, <4>3, BatchBounds
      <4> QED BY <4>2, <4>3
    <3>5. ASSUME NEW i \in Config, NEW h \in Heights, headerFile[i][h] # NoBlock
          PROVE  h <= NextEnd /\ headerFile[i][h] = [k \in 0..h |-> filterFile'[i][k]]
      <4>1. \A k \in 0..h : k \in Heights /\ k \in Int
        BY <1>3
      <4>2. CASE h <= lastSealed
        <5>1. headerFile[i][h] = [k \in 0..h |-> filterFile[i][k]]
          BY <1>1, <3>5, <4>2 DEF FilesInv
        <5>2. \A k \in 0..h : k <= lastSealed
          BY <1>3, <4>2
        <5>3. \A k \in 0..h : filterFile'[i][k] = filterFile[i][k]
          BY <1>9, <4>1, <5>2
        <5>4. h <= NextEnd
          BY <1>2, <1>3, <4>2
        <5> QED BY <5>1, <5>3, <5>4
      <4>3. CASE ~ (h <= lastSealed)
        <5>1. h <= SealedTop + EntriesPerFile /\ (SealedTop + EntriesPerFile + 1) % HeadersPerFile = 0
          BY <1>1, <3>5, <4>3 DEF FilesInv
        <5>2. CompletesSpan /\ h <= NextEnd
          BY <1>1, <1>3, <5>1 DEF CompletesSpan
        <5>3. HeaderRange = A..NextEnd /\ A \in Nat /\ A <= lastSealed + 1
          BY <1>1, <5>2, BatchBounds
        <5>4. h \in HeaderRange
          <6> HIDE DEF A
          <6> QED BY <1>2, <1>3, <4>3, <5>2, <5>3
        <5>5. headerFile[i][h] = HeaderOver(i, h)
          BY <1>15, <5>2, <5>4
        <5>6. ASSUME NEW k \in 0..h
              PROVE  (IF k <= lastSealed THEN filterFile[i][k] ELSE filters[k]) = filterFile'[i][k]
          <6>1. k <= lastSealed \/ k \in FilterRange
            BY <1>2, <1>3, <4>1, <5>2
          <6>2. k \in FilterRange => ~ (k <= lastSealed)
            BY <1>3, <1>4, <4>1
          <6> QED BY <1>9, <1>16, <2>3, <4>1, <6>1, <6>2
        <5> QED BY <5>2, <5>5, <5>6 DEF HeaderOver
      <4> QED BY <4>2, <4>3
    <3> HIDE DEF IndInv
    <3> QED BY <1>7, <2>1, <3>1, <3>2, <3>3, <3>4, <3>5 DEF FilesInv, AnchorCount
  <2> QED BY <2>2, <2>3
<1>19. ControlInv'
  <2>1. lastSealed < next /\ (lastSealed + 1) % EntriesPerFile = 0
    BY DEF ControlInv
  <2> QED BY <1>1, <1>7, <1>13, <1>17, <2>1 DEF ControlInv
<1>20. BatchInv'
  <2>1. \A i \in Config : \A h \in HeaderRange :
            CompletesSpan => headerFile'[i][h] = HeaderOver(i, h)'
    BY <1>7, <1>10, <1>15
  <2>2. \A i \in Config : \A h \in FilterRange : pc' = "promote" => filterFile'[i][h] = filters[h]
    BY <1>7, <1>16
  <2>3. ASSUME NEW i \in Config, NEW h \in FilterRange, pc' = "filters", i > cfg'
        PROVE  filterFile'[i][h] = filters[h]
    <3>1. i > cfg \/ i = cfg
      BY <1>3, <1>7, <2>3
    <3>2. i > cfg => filterFile[i][h] = filters[h]
      BY <1>1 DEF BatchInv
    <3> QED BY <1>4, <1>8, <3>1, <3>2
  <2> QED BY <1>7, <1>13, <2>1, <2>2, <2>3 DEF BatchInv
<1>21. NothingLacking'
  BY <1>7 DEF NothingLacking
<1> QED BY <1>11, <1>12, <1>14, <1>18, <1>19, <1>20, <1>21

\* promote: what is sealed in memory catches up with what is sealed on disk.
\* The headers stay what they were, since the files hold the pruned filters.
LEMMA PromoteKeeps ==
    ASSUME IndInv, Promote
    PROVE  IndInv'
<1> USE DEF IndInv
<1>1. /\ pc = "promote" /\ pc' = "seal" /\ lastSealed' = NextEnd /\ NextEnd = SealedTop
      /\ UNCHANGED <<next, cfg, fileVars, filterFile, headerFile, filterHeaders>>
      /\ filters' = [h \in Heights |-> IF h \in FilterRange THEN NoBlock ELSE filters[h]]
  BY DEF Promote, PruneLocked, ControlInv, fileVars
<1>2. /\ NextEnd \in Heights /\ NextEnd < next /\ lastSealed < NextEnd
      /\ FilterRange = (lastSealed + 1)..NextEnd /\ FilterRange \subseteq Heights
      /\ (NextEnd + 1) % EntriesPerFile = 0
  BY <1>1, BatchBounds
<1>3. /\ Heights = 0..MaxHeight /\ MaxHeight \in Nat /\ lastSealed \in -1..MaxHeight
      /\ next \in 0..(MaxHeight + 1) /\ (\A h \in Heights : h \in Int)
  BY Numbers
<1>4. TypeOK'
  <2>1. filters' \in [Heights -> Block \cup {NoBlock}]
    BY <1>1 DEF TypeOK
  <2>2. lastSealed' \in -1..MaxHeight
    BY <1>1, <1>2, <1>3
  <2> QED BY <1>1, <2>1, <2>2 DEF TypeOK
<1>5. NothingLacking' /\ FilesInv' /\ SealedTop' = SealedTop
  BY <1>1, SameFiles DEF NothingLacking
<1>6. \A h \in Heights : filters[h] # NoBlock <=> lastSealed < h /\ h < next
  BY DEF MemoryInv
<1>7. \A h \in Heights : filters'[h] # NoBlock <=> NextEnd < h /\ h < next
  <2> SUFFICES ASSUME NEW h \in Heights
               PROVE  filters'[h] # NoBlock <=> NextEnd < h /\ h < next
    OBVIOUS
  <2>1. CASE h \in FilterRange
    <3>1. filters'[h] = NoBlock /\ ~ (NextEnd < h)
      BY <1>1, <1>2, <1>3, <2>1
    <3> QED BY <3>1
  <2>2. CASE h \notin FilterRange
    <3>1. filters'[h] = filters[h] /\ (lastSealed < h <=> NextEnd < h)
      BY <1>1, <1>2, <1>3, <2>2
    <3> QED BY <1>6, <3>1
  <2> QED BY <2>1, <2>2
<1>8. \A i \in Config : \A h \in Heights : HeaderOver(i, h)' = HeaderOver(i, h)
  <2> SUFFICES ASSUME NEW i \in Config, NEW h \in Heights
               PROVE  HeaderOver(i, h)' = HeaderOver(i, h)
    OBVIOUS
  <2>1. \A k \in FilterRange : filterFile[i][k] = filters[k]
    BY <1>1 DEF BatchInv
  <2>2. ASSUME NEW k \in 0..h
        PROVE  (IF k <= NextEnd THEN filterFile[i][k] ELSE filters'[k])
                = (IF k <= lastSealed THEN filterFile[i][k] ELSE filters[k])
    <3>1. k \in Heights /\ k \in Int
      BY <1>3
    <3>2. CASE k <= lastSealed
      BY <1>2, <1>3, <3>1, <3>2
    <3>3. CASE k \in FilterRange
      <4>1. k <= NextEnd /\ ~ (k <= lastSealed)
        BY <1>2, <1>3, <3>1, <3>3
      <4> QED BY <2>1, <3>3, <4>1
    <3>4. CASE ~ (k <= lastSealed) /\ k \notin FilterRange
      <4>1. ~ (k <= NextEnd) /\ filters'[k] = filters[k]
        BY <1>1, <1>2, <1>3, <3>1, <3>4
      <4> QED BY <3>4, <4>1
    <3> QED BY <3>2, <3>3, <3>4
  <2> QED BY <1>1, <2>2 DEF HeaderOver
<1>9. MemoryInv'
  <2>1. \A h \in Heights : h < next /\ filterHeaders[h] # NoBlock =>
            filterHeaders[h] = [i \in Config |-> HeaderOver(i, h)]
    BY DEF MemoryInv
  <2>2. \A h \in Heights : h < next /\ filterHeaders[h] # NoBlock =>
            filterHeaders[h] = [i \in Config |-> HeaderOver(i, h)']
    BY <1>8, <2>1
  <2> QED BY <1>1, <1>7, <2>2 DEF MemoryInv
<1>10. HeadersInv'
  <2>1. HeadersFrom(AnchorCount(NextEnd + 1))
    BY <1>1, BatchBounds DEF HeadersInv
  <2>2. AnchorCount(lastSealed + 1)' = AnchorCount(NextEnd + 1)
    BY <1>1 DEF AnchorCount
  <2>3. HeadersFrom(AnchorCount(lastSealed + 1))'
    BY <1>1, <2>1, <2>2 DEF HeadersFrom
  <2> QED BY <1>1, <2>3 DEF HeadersInv
<1>11. ControlInv'
  BY <1>1, <1>2, <1>5 DEF ControlInv
<1>12. BatchInv'
  BY <1>1 DEF BatchInv
<1> QED BY <1>4, <1>5, <1>9, <1>10, <1>11, <1>12

\* The process ends: what is on disk stays as it is.
LEMMA StopKeeps ==
    ASSUME IndInv, Stop
    PROVE  IndInv'
<1> USE DEF IndInv
<1>1. /\ pc' = "down" /\ next' = 0 /\ lastSealed' = -1 /\ cfg' = 1
      /\ filters' = Empty /\ filterHeaders' = Empty
      /\ UNCHANGED <<fileVars, filterFile, headerFile>>
  BY DEF Stop, fileVars
<1>2. /\ Heights = 0..MaxHeight /\ MaxHeight \in Nat /\ 1 \in Config
      /\ EntriesPerFile \in Nat /\ EntriesPerFile > 1 /\ (\A h \in Heights : h \in Nat)
  BY Numbers
<1>3. \A h \in Heights : Empty[h] = NoBlock
  BY DEF Empty
<1>4. TypeOK'
  <2>1. Empty \in [Heights -> Block \cup {NoBlock}]
    BY DEF Empty
  <2>2. next' \in 0..(MaxHeight + 1) /\ lastSealed' \in -1..MaxHeight
    BY <1>1, <1>2
  <2> QED BY <1>1, <1>2, <1>3, <2>1, <2>2 DEF TypeOK
<1>5. NothingLacking' /\ FilesInv'
  BY <1>1, SameFiles DEF NothingLacking
<1>6. MemoryInv'
  <2>1. \A h \in Heights : ~ (h < 0)
    BY <1>2
  <2> QED BY <1>1, <1>3, <2>1 DEF MemoryInv
<1>7. HeadersInv' /\ BatchInv'
  BY <1>1 DEF HeadersInv, BatchInv
<1>8. ControlInv'
  <2>1. (-1 + 1) % EntriesPerFile = 0 /\ -1 < 0
    BY <1>2
  <2> QED BY <1>1, <2>1 DEF ControlInv, Empty, Heights
<1> QED BY <1>4, <1>5, <1>6, <1>7, <1>8

\* start: lastFile finds the end of what is sealed; the first ingest will have
\* to compute the headers from the files.
LEMMA StartKeeps ==
    ASSUME IndInv, Start
    PROVE  IndInv'
<1> USE DEF IndInv
<1>1. /\ pc = "down" /\ next = 0 /\ lastSealed = -1 /\ filters = Empty /\ filterHeaders = Empty
  BY DEF Start, ControlInv
<1>2. /\ pc' = "ingest" /\ UNCHANGED <<cfg, filters, filterHeaders, fileVars, filterFile, headerFile>>
      /\ IF LastFile > 0 THEN lastSealed' = LastFile /\ next' = LastFile + 1
                         ELSE UNCHANGED <<lastSealed, next>>
  BY DEF Start, fileVars
<1>3. /\ Heights = 0..MaxHeight /\ MaxHeight \in Nat /\ (\A h \in Heights : h \in Nat)
  BY Numbers
<1>4. /\ SealedTop \in -1..MaxHeight /\ (SealedTop + 1) % EntriesPerFile = 0
  BY SealedTopIsEnd
<1>5. lastSealed' = SealedTop /\ next' = SealedTop + 1
  BY <1>1, <1>2 DEF SealedTop
<1>6. \A h \in Heights : Empty[h] = NoBlock
  BY DEF Empty
<1>7. TypeOK'
  <2>1. lastSealed' \in -1..MaxHeight /\ next' \in 0..(MaxHeight + 1)
    BY <1>3, <1>4, <1>5
  <2> QED BY <1>2, <2>1 DEF TypeOK
<1>8. NothingLacking' /\ FilesInv' /\ SealedTop' = SealedTop
  BY <1>2, SameFiles DEF NothingLacking
<1>9. MemoryInv'
  <2>1. \A h \in Heights : ~ (SealedTop < h /\ h < SealedTop + 1)
    BY <1>3, <1>4
  <2> QED BY <1>1, <1>2, <1>5, <1>6, <2>1 DEF MemoryInv
<1>10. HeadersInv'
  <2>1. ~ (next' > lastSealed' + 1)
    BY <1>4, <1>5
  <2>2. next' > 0 => filterHeaders'[next' - 1] = NoBlock
    <3>1. ASSUME next' > 0 PROVE next' - 1 \in Heights
      BY <1>3, <1>4, <1>5, <3>1
    <3> QED BY <1>1, <1>2, <1>6, <3>1
  <2> QED BY <1>2, <2>1, <2>2 DEF HeadersInv
<1>11. ControlInv'
  <2>1. lastSealed' < next'
    BY <1>4, <1>5
  <2> QED BY <1>2, <1>4, <1>5, <1>8, <2>1 DEF ControlInv
<1>12. BatchInv'
  BY <1>2 DEF BatchInv
<1> QED BY <1>7, <1>8, <1>9, <1>10, <1>11, <1>12

-----------------------------------------------------------------------------
(* The theorems. *)

\* Nothing on disk, nothing in memory.
LEMMA InitIndInv == Init => IndInv
<1> SUFFICES ASSUME Init PROVE IndInv
  OBVIOUS
<1>1. /\ pc = "down" /\ next = 0 /\ lastSealed = -1 /\ cfg = 1
      /\ filters = Empty /\ filterHeaders = Empty
      /\ filterFile = [i \in Config |-> Empty] /\ headerFile = [i \in Config |-> Empty]
  BY DEF Init
<1>2. \A h \in Heights : Empty[h] = NoBlock
  BY DEF Empty
<1>3. /\ Heights = 0..MaxHeight /\ MaxHeight \in Nat /\ 1 \in Config
      /\ EntriesPerFile \in Nat /\ EntriesPerFile > 1 /\ HeadersPerFile \in Nat \ {0}
      /\ (\A h \in Heights : h \in Nat)
  BY SizeAssumption DEF Heights, Config
<1>4. TypeOK
  <2>1. Empty \in [Heights -> Block \cup {NoBlock}]
    BY DEF Empty
  <2>2. next \in 0..(MaxHeight + 1) /\ lastSealed \in -1..MaxHeight
    BY <1>1, <1>3
  <2> QED BY <1>1, <1>2, <1>3, <2>1, <2>2 DEF TypeOK
<1>5. SealedTop = -1
  <2>1. FileEnds = {}
    BY <1>1, <1>2, <1>3 DEF FileEnds
  <2> QED BY <2>1 DEF SealedTop, LastFile
<1>6. FilesInv
  <2>1. AnchorCount(SealedTop + 1) = 0
    <3>1. 0 % HeadersPerFile = 0 /\ 0 < 0 + HeadersPerFile
      BY <1>3
    <3>2. AnchorCount(0) = 0
      BY <3>1, AnchorUnique
    <3> QED BY <1>5, <3>2
  <2>2. \A h \in Heights : ~ (h <= SealedTop) /\ ~ (h < 0)
    BY <1>3, <1>5
  <2>3. \A i \in Config : \A h \in Heights : filterFile[i][h] = NoBlock /\ headerFile[i][h] = NoBlock
    BY <1>1, <1>2
  <2> QED BY <1>1, <1>3, <2>1, <2>2, <2>3 DEF FilesInv
<1>7. MemoryInv
  <2>1. \A h \in Heights : ~ (h < 0)
    BY <1>3
  <2> QED BY <1>1, <1>2, <2>1 DEF MemoryInv
<1>8. ControlInv
  <2>1. (-1 + 1) % EntriesPerFile = 0 /\ -1 < 0
    BY <1>3
  <2> QED BY <1>1, <2>1 DEF ControlInv
<1>9. HeadersInv /\ BatchInv /\ NothingLacking
  BY <1>1 DEF HeadersInv, BatchInv, NothingLacking
<1> QED BY <1>4, <1>6, <1>7, <1>8, <1>9 DEF IndInv

\* Every step keeps the invariant.
LEMMA IndInvStep ==
    ASSUME IndInv, [Next]_vars
    PROVE  IndInv'
<1>1. ASSUME NEW b \in Block, Ingest(b) PROVE IndInv'
  BY <1>1, IngestKeeps
<1>2. ASSUME NEW c \in Heights, Rollback(c) PROVE IndInv'
  BY <1>2, RollbackKeeps
<1>3. CASE BeginSeal
  BY <1>3, BeginSealKeeps
<1>4. CASE WriteFilterHeaderFile
  BY <1>4, WriteFilterHeaderFileKeeps
<1>5. CASE WriteFilterFile
  BY <1>5, WriteFilterFileKeeps
<1>6. CASE Promote
  BY <1>6, PromoteKeeps
<1>7. CASE Stop
  BY <1>7, StopKeeps
<1>8. CASE Start
  BY <1>8, StartKeeps
<1>9. CASE UNCHANGED vars
  <2> USE DEF IndInv
  <2>1. /\ UNCHANGED <<pc, next, lastSealed, cfg, filters, filterHeaders, fileVars>>
        /\ UNCHANGED <<filterFile, headerFile>>
    BY <1>9 DEF vars, fileVars
  <2>2. TypeOK' /\ NothingLacking'
    BY <2>1 DEF TypeOK, NothingLacking
  <2>3. FilesInv' /\ SealedTop' = SealedTop
    BY <2>1, SameFiles
  <2>4. MemoryInv'
    BY <2>1, SameData
  <2>5. HeadersInv'
    BY <2>1, SameData DEF HeadersInv, HeadersFrom, AnchorCount
  <2>6. ControlInv'
    BY <2>1, <2>3, SameData DEF ControlInv, Empty
  <2>7. BatchInv'
    BY <2>1, SameData DEF BatchInv
  <2> QED BY <2>2, <2>3, <2>4, <2>5, <2>6, <2>7
<1> QED BY <1>1, <1>2, <1>3, <1>4, <1>5, <1>6, <1>7, <1>8, <1>9 DEF Next

\* The inductive invariant holds in every reachable state of the producer.
LEMMA AlwaysIndInv == Spec => []IndInv
<1>1. IndInv /\ [Next]_vars => IndInv'
  BY IndInvStep
<1> QED BY InitIndInv, <1>1, PTL DEF Spec

\* Every filter header, in memory or in a file, is one over as many filters as
\* its height says: no chain of filterHeaderFromBytes was resumed too low or too
\* high, whatever was rolled back, pruned or computed again from the files.
THEOREM HeadersTypeCorrect == Spec => []TypeOK
<1>1. IndInv => TypeOK
  BY DEF IndInv
<1> QED BY AlwaysIndInv, <1>1, PTL

\* Whatever a restart takes for sealed, writeFilterHeaderFiles committed to the
\* very filters that writeFilterFiles put in the files: for every number of
\* configurations and every sizes updateFiles accepts, after any roll backs and
\* any ends of the process between two files of a batch.
THEOREM HeadersCommitToFilters == Spec => []HeaderFilesCommit
<1>1. IndInv => HeaderFilesCommit
  <2> SUFFICES ASSUME IndInv, NEW i \in Config, NEW h \in Heights,
                      Sealed(h), headerFile[i][h] # NoBlock
               PROVE  headerFile[i][h] = [k \in 0..h |-> filterFile[i][k]]
    BY DEF HeaderFilesCommit
  <2>1. h <= SealedTop
    BY SealedTopIsEnd DEF IndInv
  <2> QED BY <2>1 DEF IndInv, FilesInv
<1> QED BY AlwaysIndInv, <1>1, PTL

\* serializeFilters and serializeFilterHeaders never lack an entry, and
\* resumeFilterHeaders never lacks a file: pruneLocked may leave the headers
\* alone, and the span pruned by writeFilterHeaderFiles is never asked for again.
THEOREM SealingLacksNothing == Spec => []NothingLacking
<1>1. IndInv => NothingLacking
  BY DEF IndInv
<1> QED BY AlwaysIndInv, <1>1, PTL
=============================================================================
