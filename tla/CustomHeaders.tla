--------------------------- MODULE CustomHeaders ---------------------------
(***************************************************************************)
(* The filter header chains of the custom filter producer                  *)
(* (custom-filter-files.go).  Filters are sealed in files of               *)
(* EntriesPerFile heights, their headers in files of HeadersPerFile        *)
(* heights, a multiple.  The headers of sealed filters therefore stay in   *)
(* memory for a while, survive roll backs, and are computed again from the *)
(* filter files after a restart.                                           *)
(*                                                                         *)
(* A filter is the block it is built from.  A filter header is a hash of   *)
(* the filter and the header before it, so it stands for all filters up    *)
(* to its height: the header of height h is a function on 0..h.  Which     *)
(* block the producer gets for a height is left open, and so is the height *)
(* it is rolled back to: stale cache entries and reorgs are FileProducer's *)
(* subject, and what is checked here holds for any of them.  Files appear  *)
(* whole (see SealedFiles for files that do not).                          *)
(***************************************************************************)
EXTENDS Integers, FiniteSets

CONSTANTS
    Block,              \* what a height's filter can be built from
    NoBlock,            \* no entry
    Choices,            \* Choices[h]: the blocks the chain may have at height h
    NumConfigs,         \* len(customFilterConfigs); configuration 1 is the resume one
    EntriesPerFile,     \* filters per file
    HeadersPerFile,     \* filter headers per file
    ReOrgSafeDepth,
    MaxHeight           \* bound: the highest block

Heights == 0..MaxHeight
Config == 1..NumConfigs

\* updateFiles refuses a header file size that is not a multiple.
ASSUME SizeAssumption ==
    /\ MaxHeight \in Nat /\ NumConfigs \in Nat \ {0} /\ ReOrgSafeDepth \in Nat
    /\ EntriesPerFile \in Nat \ {0, 1}
    /\ HeadersPerFile \in Nat \ {0}
    /\ HeadersPerFile % EntriesPerFile = 0

ASSUME ChoiceAssumption == NoBlock \notin Block /\ Choices \in [Heights -> SUBSET Block]

\* What a filter header of height h can be, and that it is told from no entry.
HeaderOf(h) == [0..h -> Block]
ASSUME AbsentAssumption ==
    \A h \in Heights : NoBlock \notin HeaderOf(h) /\ NoBlock \notin [Config -> HeaderOf(h)]

VARIABLES
    pc,             \* where the producer goroutine is
    next,           \* the height it ingests next, currentHeight + 1
    lastSealed,     \* lastSealedHeight
    cfg,            \* the configuration whose file is written next
    filters,        \* filters, in memory: height -> block
    filterHeaders,  \* filterHeaders, in memory: height -> one header per configuration
    filterFile,     \* filterFile[i][h]: the entry for h in i's sealed filter files
    headerFile      \* headerFile[i][h]: the entry for h in i's sealed header files

vars == <<pc, next, lastSealed, cfg, filters, filterHeaders, filterFile, headerFile>>
fileVars == <<filterFile, headerFile>>

-----------------------------------------------------------------------------
(* Filter headers.  NoBlock stands for an entry that is not there.           *)

\* Mutant: the header before is not hashed.
FilterHeaderUnchained(h, b, prev) == [k \in h..h |-> b]

\* filterHeaderFromBytes: the header of height h over filter b and header prev.
FilterHeader(h, b, prev) == [k \in 0..h |-> IF k = h THEN b ELSE prev[k]]

NextEnd == lastSealed + EntriesPerFile
FilterRange == (lastSealed + 1)..NextEnd
HeaderRange == (NextEnd + 1 - HeadersPerFile)..NextEnd

\* resumeFilterHeaders: header files cover the heights below anchorCount.
AnchorCount(n) == (n \div HeadersPerFile) * HeadersPerFile

\* Neither readHeaderFileAnchor nor readFilterFile misses a file.
FilesReadable(n) ==
    \A i \in Config :
        /\ AnchorCount(n) > 0 => headerFile[i][AnchorCount(n) - 1] # NoBlock
        /\ \A h \in AnchorCount(n)..(n - 1) : filterFile[i][h] # NoBlock

\* rebuildFilterHeaders: i's header of height h, from the last header file and
\* the filter files behind it.
Rebuilt(i, h, n) ==
    [k \in 0..h |-> IF k < AnchorCount(n) THEN headerFile[i][AnchorCount(n) - 1][k]
                                          ELSE filterFile[i][k]]

InMemory(n) == n = 0 \/ filterHeaders[n - 1] # NoBlock

\* The headers that those of height n chain onto.
PrevFilterHeaders(n) ==
    IF n > 0 /\ InMemory(n) THEN filterHeaders[n - 1]
    ELSE [i \in Config |-> Rebuilt(i, n - 1, n)]

\* The headers in memory once prevFilterHeaders has run for height n.
Repopulated(n) ==
    [h \in Heights |-> IF ~InMemory(n) /\ h \in AnchorCount(n)..(n - 1)
                         THEN [i \in Config |-> Rebuilt(i, h, n)]
                         ELSE filterHeaders[h]]

-----------------------------------------------------------------------------
(* Ingesting and rolling back. *)

\* Mutant: headers that are there already are not computed again.
StoreHeadersOnce(n, b) ==
    filterHeaders' = [Repopulated(n) EXCEPT ![n] =
        IF @ # NoBlock THEN @
        ELSE [i \in Config |-> FilterHeader(n, b, PrevFilterHeaders(n)[i])]]

StoreHeaders(n, b) ==
    filterHeaders' = [Repopulated(n) EXCEPT ![n] =
        [i \in Config |-> FilterHeader(n, b, PrevFilterHeaders(n)[i])]]

\* ingest.  If a file that is needed to resume cannot be read, the producer
\* returns an error.
Ingest(b) ==
    /\ pc = "ingest"
    /\ next <= MaxHeight
    /\ b \in Choices[next]
    /\ IF InMemory(next) \/ FilesReadable(next)
         THEN /\ StoreHeaders(next, b)
              /\ filters' = [filters EXCEPT ![next] = b]
              /\ next' = next + 1
              /\ pc' = "seal"
         ELSE pc' = "failed" /\ UNCHANGED <<filters, filterHeaders, next>>
    /\ UNCHANGED <<lastSealed, cfg, fileVars>>

\* Mutant: headers are pruned together with the filters.
PruneBoth(range) ==
    /\ filters' = [h \in Heights |-> IF h \in range THEN NoBlock ELSE filters[h]]
    /\ filterHeaders' = [h \in Heights |-> IF h \in range THEN NoBlock ELSE filterHeaders[h]]

\* pruneLocked leaves the headers alone.
PruneLocked(range) ==
    /\ filters' = [h \in Heights |-> IF h \in range THEN NoBlock ELSE filters[h]]
    /\ UNCHANGED filterHeaders

\* handleReorg between two rounds, with common ancestor c in memory.
Rollback(c) ==
    /\ pc = "ingest"
    /\ lastSealed < c /\ c < next - 1
    /\ filters[c] # NoBlock
    /\ PruneLocked((c + 1)..(next - 1))
    /\ next' = c + 1
    /\ UNCHANGED <<pc, lastSealed, cfg, fileVars>>

-----------------------------------------------------------------------------
(* Sealing: sealReadyFiles and the hook writeSealedFile.  The header files,  *)
(* if the batch completes a span, then the filter files, the resume one last. *)

SealReady == NextEnd <= next - 1 - ReOrgSafeDepth
CompletesSpan == (NextEnd + 1) % HeadersPerFile = 0

\* serializeFilterHeaders and serializeFilters fail if an entry is missing.
HeadersComplete == \A h \in HeaderRange : filterHeaders[h] # NoBlock
FiltersComplete == \A h \in FilterRange : filters[h] # NoBlock

BeginSeal ==
    /\ pc = "seal"
    /\ IF ~SealReady THEN pc' = "ingest" /\ UNCHANGED cfg
       ELSE IF CompletesSpan THEN pc' = "headers" /\ cfg' = 1
                             ELSE pc' = "filters" /\ cfg' = NumConfigs
    /\ UNCHANGED <<next, lastSealed, filters, filterHeaders, fileVars>>

\* writeFilterHeaderFiles, one configuration; the last one prunes the span.
WriteFilterHeaderFile ==
    /\ pc = "headers"
    /\ IF HeadersComplete
         THEN /\ headerFile' = [headerFile EXCEPT ![cfg] =
                     [h \in Heights |-> IF h \in HeaderRange THEN filterHeaders[h][cfg] ELSE @[h]]]
              /\ IF cfg = NumConfigs
                   THEN /\ pc' = "filters"
                        /\ filterHeaders' = [h \in Heights |->
                               IF h \in HeaderRange THEN NoBlock ELSE filterHeaders[h]]
                        /\ UNCHANGED cfg
                   ELSE /\ cfg' = cfg + 1
                        /\ UNCHANGED <<pc, filterHeaders>>
         ELSE pc' = "failed" /\ UNCHANGED <<cfg, filterHeaders, headerFile>>
    /\ UNCHANGED <<next, lastSealed, filters, filterFile>>

WriteFilterFile ==
    /\ pc = "filters"
    /\ IF FiltersComplete
         THEN /\ filterFile' = [filterFile EXCEPT ![cfg] =
                     [h \in Heights |-> IF h \in FilterRange THEN filters[h] ELSE @[h]]]
              /\ IF cfg = 1 THEN pc' = "promote" /\ UNCHANGED cfg
                            ELSE cfg' = cfg - 1 /\ UNCHANGED pc
         ELSE pc' = "failed" /\ UNCHANGED <<cfg, filterFile>>
    /\ UNCHANGED <<next, lastSealed, filters, filterHeaders, headerFile>>

Promote ==
    /\ pc = "promote"
    /\ PruneLocked(FilterRange)
    /\ lastSealed' = NextEnd
    /\ pc' = "seal"
    /\ UNCHANGED <<next, cfg, fileVars>>

-----------------------------------------------------------------------------
(* The process ends, at any point and for any reason, and is started again. *)

Empty == [h \in Heights |-> NoBlock]

Stop ==
    /\ pc # "down"
    /\ pc' = "down"
    /\ next' = 0 /\ lastSealed' = -1 /\ cfg' = 1
    /\ filters' = Empty /\ filterHeaders' = Empty
    /\ UNCHANGED fileVars

\* lastFile: the highest end of a file in the resume directory, else 0.
FileEnds == {h \in Heights : (h + 1) % EntriesPerFile = 0 /\ filterFile[1][h] # NoBlock}
LastFile == IF FileEnds = {} THEN 0 ELSE CHOOSE h \in FileEnds : \A g \in FileEnds : g <= h

Start ==
    /\ pc = "down"
    /\ pc' = "ingest"
    /\ IF LastFile > 0 THEN lastSealed' = LastFile /\ next' = LastFile + 1
                       ELSE UNCHANGED <<lastSealed, next>>
    /\ UNCHANGED <<cfg, filters, filterHeaders, fileVars>>

Init ==
    /\ pc = "down" /\ next = 0 /\ lastSealed = -1 /\ cfg = 1
    /\ filters = Empty /\ filterHeaders = Empty
    /\ filterFile = [i \in Config |-> Empty]
    /\ headerFile = [i \in Config |-> Empty]

Next ==
    \/ \E b \in Block : Ingest(b)
    \/ \E c \in Heights : Rollback(c)
    \/ BeginSeal \/ WriteFilterHeaderFile \/ WriteFilterFile \/ Promote
    \/ Stop \/ Start

Spec == Init /\ [][Next]_vars

-----------------------------------------------------------------------------
(* Properties. *)

\* A filter header, wherever it is kept, commits to one filter per height up to
\* its own: a chain that was resumed at the wrong place would be too short.
TypeOK ==
    /\ pc \in {"down", "ingest", "seal", "headers", "filters", "promote", "failed"}
    /\ next \in 0..(MaxHeight + 1)
    /\ lastSealed \in -1..MaxHeight
    /\ cfg \in Config
    /\ filters \in [Heights -> Block \cup {NoBlock}]
    /\ filterFile \in [Config -> [Heights -> Block \cup {NoBlock}]]
    /\ \A h \in Heights :
        /\ filterHeaders[h] = NoBlock \/ filterHeaders[h] \in [Config -> HeaderOf(h)]
        /\ \A i \in Config : headerFile[i][h] = NoBlock \/ headerFile[i][h] \in HeaderOf(h)

\* What a restart takes for sealed.
Sealed(h) == LastFile > 0 /\ h <= LastFile

\* The header files commit to exactly the filters in the filter files, after
\* any sequence of reorgs, crashes in the middle of a batch, and restarts on
\* another branch: "the sequential re-ingest overwrites each height before its
\* entry is read again" (pruneLocked).
HeaderFilesCommit ==
    \A i \in Config : \A h \in Heights :
        Sealed(h) /\ headerFile[i][h] # NoBlock
            => headerFile[i][h] = [k \in 0..h |-> filterFile[i][k]]

\* Sealing never lacks an entry, and resuming never lacks a file: none of the
\* errors of serializeFilters, serializeFilterHeaders, readHeaderFileAnchor and
\* rebuildFilterHeaders happens as long as files are written whole.
NothingLacking == pc # "failed"

-----------------------------------------------------------------------------
(* The inductive invariant behind the theorems of CustomHeadersProofs.      *)

SealedTop == IF LastFile > 0 THEN LastFile ELSE -1

\* On disk: all configurations' filters up to the last file of the resume
\* configuration, which has none above; header files that commit to them, for
\* every complete span and at most for the span that the next batch completes.
FilesInv ==
    /\ DOMAIN headerFile = Config
    /\ \A h \in Heights : filterFile[1][h] # NoBlock => h <= SealedTop
    /\ \A i \in Config : \A h \in Heights :
        /\ h <= SealedTop => filterFile[i][h] # NoBlock
        /\ h < AnchorCount(SealedTop + 1) => headerFile[i][h] # NoBlock
        /\ headerFile[i][h] # NoBlock =>
              IF h <= SealedTop THEN headerFile[i][h] = [k \in 0..h |-> filterFile[i][k]]
              ELSE /\ h <= SealedTop + EntriesPerFile
                   /\ (SealedTop + EntriesPerFile + 1) % HeadersPerFile = 0

\* The header of height h over the filters the producer has, sealed or not.
HeaderOver(i, h) ==
    [k \in 0..h |-> IF k <= lastSealed THEN filterFile[i][k] ELSE filters[k]]

HeadersFrom(a) == \A h \in Heights : a <= h /\ h < next => filterHeaders[h] # NoBlock

\* In memory: the filters above the sealed ones, and headers over the filters
\* as they are.  A header at next or above may be left over from a roll back.
MemoryInv ==
    /\ \A h \in Heights : filters[h] # NoBlock <=> lastSealed < h /\ h < next
    /\ \A h \in Heights : h < next /\ filterHeaders[h] # NoBlock =>
          filterHeaders[h] = [i \in Config |-> HeaderOver(i, h)]

\* The headers sealing will ask for are there: of the span that is not yet on
\* disk, once one of them is.
HeadersInv ==
    /\ pc = "ingest" /\ next > 0 /\ (filterHeaders[next - 1] # NoBlock \/ next > lastSealed + 1)
          => HeadersFrom(AnchorCount(lastSealed + 1))
    /\ pc \in {"seal", "headers"} => HeadersFrom(AnchorCount(lastSealed + 1))
    /\ pc \in {"filters", "promote"} =>
          HeadersFrom(IF CompletesSpan THEN NextEnd + 1 ELSE AnchorCount(lastSealed + 1))

\* The heights, and how far a batch has been written.
ControlInv ==
    /\ lastSealed < next
    /\ (lastSealed + 1) % EntriesPerFile = 0
    /\ pc = "down" => next = 0 /\ lastSealed = -1 /\ filters = Empty /\ filterHeaders = Empty
    /\ pc \in {"ingest", "seal", "headers", "filters"} => lastSealed = SealedTop
    /\ pc = "promote" => NextEnd = SealedTop
    /\ pc \in {"headers", "filters", "promote"} => SealReady
    /\ pc = "headers" => CompletesSpan

BatchInv ==
    /\ \A i \in Config : \A h \in HeaderRange :
          (pc = "headers" /\ i < cfg) \/ (pc \in {"filters", "promote"} /\ CompletesSpan)
              => headerFile[i][h] = HeaderOver(i, h)
    /\ \A i \in Config : \A h \in FilterRange :
          (pc = "filters" /\ i > cfg) \/ pc = "promote" => filterFile[i][h] = filters[h]

IndInv ==
    TypeOK /\ NothingLacking /\ FilesInv /\ MemoryInv /\ HeadersInv /\ ControlInv /\ BatchInv
=============================================================================
