------------------------------- MODULE Verify ------------------------------
(***************************************************************************)
(* The verify command (verify.go): it walks the sealed header, filter      *)
(* header and filter files, checks them against each other and against     *)
(* bitcoind, and with --fix regenerates the corrupt ones, while the server *)
(* goes on ingesting and sealing.                                          *)
(*                                                                         *)
(* Corruption is what verify was written for: entries made from a block    *)
(* that was reorged away, and files that are cut off.  A header or filter  *)
(* is the block it was made from.  A filter header of height h commits to  *)
(* all filters below, so it is a function on 0..h.  The best chain does    *)
(* not change while verify runs; what is above the files is in the         *)
(* server's memory.                                                        *)
(***************************************************************************)
EXTENDS Integers, FiniteSets

CONSTANTS
    Block, NoBlock,
    Anc,                \* Anc[b][h]: b's ancestor at height h
    Best,               \* Best[h]: bitcoind's block at height h
    Stale,              \* the heights that may hold an entry of a stale block
    Other,              \* Other[h]: that block
    HeadersPerFile, FiltersPerFile, ReOrgSafeDepth,
    FirstTop, MaxHeight,\* bounds: the server's height before and after the run
    MaxCut              \* bound: files that are cut off at first

Heights == 0..MaxHeight

ASSUME SizeAssumption ==
    /\ MaxHeight \in Nat /\ FirstTop \in 0..MaxHeight /\ ReOrgSafeDepth \in Nat \ {0}
    /\ HeadersPerFile \in Nat \ {0} /\ FiltersPerFile \in Nat \ {0}
    /\ HeadersPerFile % FiltersPerFile = 0
    /\ MaxCut \in Nat

ASSUME ChainAssumption ==
    /\ NoBlock \notin Block /\ Best \in [Heights -> Block]
    /\ Anc \in [Block -> [Heights -> Block]]
    /\ \A h \in Heights : \A k \in 0..h : Anc[Best[h]][k] = Best[k]
    /\ Stale \subseteq 1..FirstTop /\ Other \in [Heights -> Block]

VARIABLES
    pc, pos,    \* the step of the walk, and the number of the file it is at
    fix,        \* --fix
    running,    \* the last header of the file before
    safe,       \* the height the server's memory was anchored at, -1 before
    todo,       \* what diagnoseRange found to be at fault
    bad, fixed, \* badFiles, fixedFiles
    cache,      \* fHeaderCache: the filter headers loaded last
    top,        \* the server's height
    headers,    \* block headers, sealed and in memory
    fheaders,   \* filter headers, sealed and in memory
    filters,    \* filters, sealed
    cut         \* the files that are cut off

walkVars == <<pc, pos, running, todo>>
dataVars == <<headers, fheaders, filters, cut>>
vars == <<walkVars, fix, safe, bad, fixed, cache, top, dataVars>>

-----------------------------------------------------------------------------
(* Files and bitcoind's authoritative data. *)

NumFiles(size) == (top - ReOrgSafeDepth + 1) \div size
HeaderFile(k) == <<"headers", k>>
FHeaderFile(k) == <<"filter headers", k>>
FilterFile(k) == <<"filters", k>>
Memory(kind) == <<"in-memory", kind>>

\* The files on disk.
Sealed ==
    {HeaderFile(k) : k \in 0..(NumFiles(HeadersPerFile) - 1)}
    \cup {FHeaderFile(k) : k \in 0..(NumFiles(HeadersPerFile) - 1)}
    \cup {FilterFile(k) : k \in 0..(NumFiles(FiltersPerFile) - 1)}

Range(k, size) == (k * size)..(k * size + size - 1)
End(k, size) == k * size + size - 1

\* The filter header bitcoind has for block b of height h.
Commitment(h, b) == [k \in 0..h |-> Anc[b][k]]

AuthFilterHeader(h) == Commitment(h, Best[h])

\* The filter header chain from prev over the filters of heights a..b.
ChainOver(prev, a, b) == [k \in 0..b |-> IF k < a THEN prev[k] ELSE filters[k]]

-----------------------------------------------------------------------------
(* The cache of filter headers. *)

NoCache == [start |-> -1, upto |-> -1, data |-> <<>>]

\* loadFilterHeaders: the file if it is sealed, else what the server has.
Loaded(k) ==
    LET sealed == k < NumFiles(HeadersPerFile)
    IN  [start |-> k,
         upto  |-> IF ~sealed THEN top
                   ELSE IF FHeaderFile(k) \in cut THEN -1 ELSE End(k, HeadersPerFile),
         data  |-> [h \in Range(k, HeadersPerFile) \cap Heights |-> fheaders[h]]]

\* storedFilterHeader: the cache after a look-up of height h.  A snapshot that
\* is too short is loaded once more.
Lookup(c, h) ==
    LET k == h \div HeadersPerFile
    IN  IF c.start = k /\ h <= c.upto THEN c ELSE Loaded(k)

\* The two look-ups of checkFilterChain for file k, in their order.
CacheAt(k) == IF k = 0 THEN cache ELSE Lookup(cache, k * FiltersPerFile - 1)
CacheAfter(k) == Lookup(CacheAt(k), End(k, FiltersPerFile))

\* readFilterFile finds every entry and nothing behind them.
FiltersReadable(k) == FilterFile(k) \notin cut

\* Mutant: the chain is compared at the end of the file only.
FilterChainEnds(k) ==
    LET end == End(k, FiltersPerFile)
        after == CacheAfter(k)
    IN  /\ FiltersReadable(k)
        /\ end <= after.upto
        /\ after.data[end] = ChainOver(after.data[end], k * FiltersPerFile, end)

\* checkFilterChain: the file is readable and its chain runs
\* from the stored filter header before it to the one at its end.
FilterChainCloses(k) ==
    LET start == k * FiltersPerFile
        end == End(k, FiltersPerFile)
        before == CacheAt(k)
        after == CacheAfter(k)
    IN  /\ FiltersReadable(k)
        /\ start > 0 => start - 1 <= before.upto
        /\ end <= after.upto
        /\ after.data[end] =
               ChainOver(IF start = 0 THEN <<>> ELSE before.data[start - 1], start, end)

-----------------------------------------------------------------------------
(* verifyHeaderFiles.  A check that gets no answer from bitcoind counts as    *)
(* failed, like one that finds a difference: answered says which.             *)

Goto(label) == pc' = label /\ UNCHANGED <<pos, running, todo>>

\* The records from..to link to each other and to the record before.
Linked(from, to) ==
    \A h \in from..to :
        IF h = 0 THEN headers[0] = Best[0]
        ELSE Anc[headers[h]][h - 1] = IF h = from THEN running ELSE headers[h - 1]

HeaderFileGood(k) ==
    /\ HeaderFile(k) \notin cut
    /\ Linked(k * HeadersPerFile, End(k, HeadersPerFile))
    /\ headers[End(k, HeadersPerFile)] = Best[End(k, HeadersPerFile)]

FHeaderFileGood(k) ==
    /\ FHeaderFile(k) \notin cut
    /\ fheaders[End(k, HeadersPerFile)] = AuthFilterHeader(End(k, HeadersPerFile))

\* regenerate: the file is replaced by one written from bitcoind.
Regenerate(file) ==
    /\ fixed' = fixed \cup {file}
    /\ cut' = cut \ {file}

RewriteHeaders(k) ==
    /\ headers' = [h \in Heights |-> IF h \in Range(k, HeadersPerFile) THEN Best[h] ELSE headers[h]]
    /\ Regenerate(HeaderFile(k))

VerifyOneHeaderFile(answered) ==
    /\ pc = "headers"
    /\ pos < NumFiles(HeadersPerFile)
    /\ IF HeaderFileGood(pos) /\ answered
         THEN /\ running' = headers[End(pos, HeadersPerFile)]
              /\ pc' = "anchor"
              /\ UNCHANGED <<pos, todo, bad>>
         ELSE IF fix THEN Goto("fixHeaders") /\ UNCHANGED bad
         ELSE Goto("anchor") /\ bad' = bad \cup {HeaderFile(pos)}
    /\ UNCHANGED <<fix, safe, fixed, cache, top, dataVars>>

FixHeaderFile ==
    /\ pc = "fixHeaders"
    /\ RewriteHeaders(pos)
    /\ Goto("recheckHeaders")
    /\ UNCHANGED <<fix, safe, bad, cache, top, fheaders, filters>>

RecheckHeaderFile(answered) ==
    /\ pc = "recheckHeaders"
    /\ IF HeaderFileGood(pos) /\ answered
         THEN /\ running' = headers[End(pos, HeadersPerFile)]
              /\ pc' = "anchor"
              /\ UNCHANGED <<pos, todo>>
         ELSE Goto("still corrupt")
    /\ UNCHANGED <<fix, safe, bad, fixed, cache, top, dataVars>>

VerifyFilterHeaderAnchor(answered) ==
    /\ pc = "anchor"
    /\ IF (FHeaderFileGood(pos) /\ answered) \/ ~fix
         THEN /\ bad' = IF FHeaderFileGood(pos) /\ answered THEN bad ELSE bad \cup {FHeaderFile(pos)}
              /\ pos' = pos + 1
              /\ pc' = "headers"
              /\ UNCHANGED <<running, todo>>
         ELSE Goto("fixAnchor") /\ UNCHANGED bad
    /\ UNCHANGED <<fix, safe, fixed, cache, top, dataVars>>

\* Mutant: records of the wrong kind are written.
RewriteFHeadersAsHeaders(k) ==
    /\ fheaders' = [h \in Heights |->
           IF h \in Range(k, HeadersPerFile) THEN Best[h] ELSE fheaders[h]]
    /\ Regenerate(FHeaderFile(k))
    /\ cache' = NoCache

RewriteFHeaders(k) ==
    /\ fheaders' = [h \in Heights |->
           IF h \in Range(k, HeadersPerFile) THEN AuthFilterHeader(h) ELSE fheaders[h]]
    /\ Regenerate(FHeaderFile(k))
    /\ cache' = NoCache

FixFilterHeaderFile ==
    /\ pc = "fixAnchor"
    /\ RewriteFHeaders(pos)
    /\ Goto("recheckAnchor")
    /\ UNCHANGED <<fix, safe, bad, top, headers, filters>>

RecheckFilterHeaderFile(answered) ==
    /\ pc = "recheckAnchor"
    /\ IF FHeaderFileGood(pos) /\ answered
         THEN pos' = pos + 1 /\ pc' = "headers" /\ UNCHANGED <<running, todo>>
         ELSE Goto("still corrupt")
    /\ UNCHANGED <<fix, safe, bad, fixed, cache, top, dataVars>>

\* verifyHeaderFiles finds no further file and turns to the server's memory.
NoHeaderFile ==
    /\ pc = "headers"
    /\ pos >= NumFiles(HeadersPerFile)
    /\ Goto("tail")
    /\ UNCHANGED <<fix, safe, bad, fixed, cache, top, dataVars>>

\* The last height of the server's answer for the range: its tip, or the end of
\* a file that it has sealed since.
MemoryEnd == IF pos < NumFiles(HeadersPerFile) THEN End(pos, HeadersPerFile) ELSE top

\* verifyMemoryTail: the server's memory continues the chain and is anchored at
\* the highest height that is safe from reorgs.
AnchorHeight == MemoryEnd - ReOrgSafeDepth
Anchored == AnchorHeight >= pos * HeadersPerFile

MemoryHeadersGood(answered) ==
    /\ Linked(pos * HeadersPerFile, MemoryEnd)
    /\ Anchored => answered /\ headers[AnchorHeight] = Best[AnchorHeight]

MemoryFHeadersGood(answered) ==
    Anchored => answered /\ fheaders[AnchorHeight] = AuthFilterHeader(AnchorHeight)

CheckMemoryHeaders(answered) ==
    /\ pc = "tail"
    /\ bad' = IF MemoryHeadersGood(answered) THEN bad ELSE bad \cup {Memory("headers")}
    /\ safe' = AnchorHeight
    /\ Goto("memory")
    /\ UNCHANGED <<fix, fixed, cache, top, dataVars>>

CheckMemoryFilterHeaders(answered) ==
    /\ pc = "memory"
    /\ bad' = IF MemoryFHeadersGood(answered) THEN bad ELSE bad \cup {Memory("filter headers")}
    /\ pc' = "filters"
    /\ pos' = 0
    /\ UNCHANGED <<running, todo, fix, safe, fixed, cache, top, dataVars>>

-----------------------------------------------------------------------------
(* verifyFilterFiles. *)

VerifyOneFilterFile(answered) ==
    /\ pc = "filters"
    /\ pos < NumFiles(FiltersPerFile)
    /\ cache' = IF answered /\ FiltersReadable(pos) THEN CacheAfter(pos) ELSE cache
    /\ IF (FilterChainCloses(pos) /\ answered) \/ ~fix
         THEN /\ bad' = IF FilterChainCloses(pos) /\ answered THEN bad ELSE bad \cup {FilterFile(pos)}
              /\ pos' = pos + 1
              /\ UNCHANGED <<pc, running, todo>>
         ELSE Goto("diagnose") /\ UNCHANGED bad
    /\ UNCHANGED <<fix, safe, fixed, top, dataVars>>

\* Mutant: everything that could be at fault is rewritten.
BlameAll(k, c) == {"filters", "filter headers"}

\* Which of the two stores differs from bitcoind in the range of file k?
Blame(k, c) ==
    {w \in {"filters", "filter headers"} :
        CASE w = "filters" -> \/ ~FiltersReadable(k)
                              \/ \E h \in Range(k, FiltersPerFile) : filters[h] # Best[h]
          [] OTHER -> \E h \in Range(k, FiltersPerFile) : c.data[h] # AuthFilterHeader(h)}

DiagnoseRange ==
    /\ pc = "diagnose"
    /\ cache' = Lookup(cache, End(pos, FiltersPerFile))
    /\ todo' = Blame(pos, cache')
    /\ pc' = "fixFilters"
    /\ UNCHANGED <<pos, running, fix, safe, bad, fixed, top, dataVars>>

RewriteFilters(k) ==
    /\ filters' = [h \in Heights |-> IF h \in Range(k, FiltersPerFile) THEN Best[h] ELSE filters[h]]
    /\ Regenerate(FilterFile(k))

FixFilterFile ==
    /\ pc = "fixFilters"
    /\ IF "filters" \in todo
         THEN RewriteFilters(pos)
         ELSE UNCHANGED <<filters, fixed, cut>>
    /\ Goto("fixFHeaders")
    /\ UNCHANGED <<fix, safe, bad, cache, top, headers, fheaders>>

\* Filter headers that are still in the server's memory cannot be fixed.
FixFHeadersOfRange ==
    /\ pc = "fixFHeaders"
    /\ LET k == (pos * FiltersPerFile) \div HeadersPerFile
       IN  IF "filter headers" \notin todo
             THEN Goto("recheckFilters") /\ UNCHANGED <<fheaders, fixed, cut, cache>>
           ELSE IF k < NumFiles(HeadersPerFile)
             THEN Goto("recheckFilters") /\ RewriteFHeaders(k)
           ELSE Goto("error") /\ UNCHANGED <<fheaders, fixed, cut, cache>>
    /\ UNCHANGED <<fix, safe, bad, top, headers, filters>>

RecheckFilterFile(answered) ==
    /\ pc = "recheckFilters"
    /\ cache' = IF answered THEN CacheAfter(pos) ELSE cache
    /\ IF FilterChainCloses(pos) /\ answered
         THEN pos' = pos + 1 /\ pc' = "filters" /\ todo' = {} /\ UNCHANGED running
         ELSE Goto("still corrupt")
    /\ UNCHANGED <<fix, safe, bad, fixed, top, dataVars>>

\* runVerify reports the corrupt files, or that all is well.
Report ==
    /\ pc = "filters"
    /\ pos >= NumFiles(FiltersPerFile)
    /\ Goto(IF bad = {} THEN "ok" ELSE "corrupt")
    /\ UNCHANGED <<fix, safe, bad, fixed, cache, top, dataVars>>

-----------------------------------------------------------------------------

Ended == {"ok", "corrupt", "error", "still corrupt"}

\* A request while a range is diagnosed, regenerated or fetched from the server
\* fails, or a file cannot be written.
Fails ==
    /\ pc \notin Ended
    /\ Goto("error")
    /\ UNCHANGED <<fix, safe, bad, fixed, cache, top, dataVars>>

\* The next block buries file number k.
Buries(k, size) == End(k, size) <= top + 1 - ReOrgSafeDepth

\* The server ingests the next block and seals what that buries.  A header file
\* must link up to bitcoind's block at its end (verifyHeaders), but a filter
\* file is closed between two anchors from the shared cache (verifyFilters), so
\* that it is of one chain, be it stale.  Otherwise the server gives up.
ServerAdvances ==
    /\ pc \notin Ended
    /\ top < MaxHeight
    /\ LET k == NumFiles(HeadersPerFile)
       IN  Buries(k, HeadersPerFile) => \A h \in Range(k, HeadersPerFile) : headers[h] = Best[h]
    /\ LET k == NumFiles(FiltersPerFile)
       IN  Buries(k, FiltersPerFile) =>
               \A h \in Range(k, FiltersPerFile) :
                   filters[h] = Anc[filters[End(k, FiltersPerFile)]][h]
    /\ top' = top + 1
    /\ UNCHANGED <<walkVars, fix, safe, bad, fixed, cache, dataVars>>

\* The command is run again.
Rerun ==
    /\ pc \in Ended
    /\ pc' = "headers" /\ pos' = 0 /\ running' = NoBlock /\ todo' = {}
    /\ fix' \in BOOLEAN /\ safe' = -1
    /\ bad' = {} /\ fixed' = {} /\ cache' = NoCache
    /\ UNCHANGED <<top, dataVars>>

Init ==
    /\ pc = "headers" /\ pos = 0 /\ fix \in BOOLEAN /\ safe = -1 /\ running = NoBlock /\ todo = {}
    /\ bad = {} /\ fixed = {} /\ cache = NoCache /\ top = FirstTop
    /\ \E hs \in SUBSET Stale : \E fs \in SUBSET Stale :
        /\ headers = [h \in Heights |-> IF h \in hs THEN Other[h] ELSE Best[h]]
        /\ fheaders = [h \in Heights |-> Commitment(h, headers[h])]
        /\ filters = [h \in Heights |-> IF h \in fs THEN Other[h] ELSE Best[h]]
    /\ cut \in {c \in SUBSET Sealed : Cardinality(c) <= MaxCut}

Next ==
    \/ \E answered \in BOOLEAN :
        \/ VerifyOneHeaderFile(answered) \/ RecheckHeaderFile(answered)
        \/ VerifyFilterHeaderAnchor(answered) \/ RecheckFilterHeaderFile(answered)
        \/ CheckMemoryHeaders(answered) \/ CheckMemoryFilterHeaders(answered)
        \/ VerifyOneFilterFile(answered) \/ RecheckFilterFile(answered)
    \/ FixHeaderFile \/ FixFilterHeaderFile
    \/ NoHeaderFile \/ DiagnoseRange \/ FixFilterFile \/ FixFHeadersOfRange \/ Report
    \/ Fails \/ ServerAdvances \/ Rerun

Spec == Init /\ [][Next]_vars

-----------------------------------------------------------------------------
(* Properties. *)

Files == {HeaderFile(k) : k \in Heights} \cup {FHeaderFile(k) : k \in Heights}
            \cup {FilterFile(k) : k \in Heights}

\* With --fix only what is in the server's memory is left to report, and
\* without it nothing is rewritten.
TypeOK ==
    /\ pc \in Ended \cup {"headers", "fixHeaders", "recheckHeaders", "anchor", "fixAnchor",
                          "recheckAnchor", "tail", "memory", "filters", "diagnose", "fixFilters",
                          "fixFHeaders", "recheckFilters"}
    /\ pos \in Heights /\ top \in Heights /\ fix \in BOOLEAN
    /\ safe \in (-1 - ReOrgSafeDepth)..MaxHeight
    /\ running \in Block \cup {NoBlock}
    /\ todo \subseteq {"filters", "filter headers"}
    /\ bad \subseteq (IF fix THEN {} ELSE Files) \cup {Memory("headers"), Memory("filter headers")}
    /\ fixed \subseteq (IF fix THEN Files ELSE {})
    /\ headers \in [Heights -> Block] /\ filters \in [Heights -> Block]
    /\ \A h \in Heights : fheaders[h] \in [0..h -> Block]
    /\ cut \subseteq Files

\* The file has bitcoind's headers, and bitcoind's filter header at its end.
HeaderFileAuthentic(k) ==
    /\ {HeaderFile(k), FHeaderFile(k)} \cap cut = {}
    /\ \A h \in Range(k, HeadersPerFile) : headers[h] = Best[h]
    /\ fheaders[End(k, HeadersPerFile)] = AuthFilterHeader(End(k, HeadersPerFile))

\* The file has bitcoind's filters, and the filter header stored for its end is
\* bitcoind's.
FilterFileAuthentic(k) ==
    /\ \A h \in Range(k, FiltersPerFile) : filters[h] = Best[h]
    /\ fheaders[End(k, FiltersPerFile)] = AuthFilterHeader(End(k, FiltersPerFile))

\* The filter headers of the range were checked: in a file, or in memory.
Covered(h) == h < NumFiles(HeadersPerFile) * HeadersPerFile \/ h <= safe

FHeadersAsFound == \A k \in Heights : FHeaderFile(k) \notin fixed

\* What "all sealed files verified OK" can be relied on for, although filters are
\* only compared with stored filter headers, those only with bitcoind's at the
\* ends of their files, requests fail and the server goes on sealing.  With or
\* without --fix, every sealed file is whole, every sealed header is bitcoind's,
\* and so is the last filter header of each file.  Every filter of a file that
\* was there when the server's memory was checked is bitcoind's, and so is the
\* stored filter header at the end of the file, unless --fix has regenerated a
\* filter header file: the filter files before it are not looked at again.
\* Nothing is promised of filter headers inside the range of a filter file.
OkMeansAuthentic ==
    pc = "ok" =>
        /\ \A k \in 0..(NumFiles(HeadersPerFile) - 1) : HeaderFileAuthentic(k)
        /\ \A k \in 0..(NumFiles(FiltersPerFile) - 1) :
              /\ FilterFile(k) \notin cut
              /\ FHeadersAsFound /\ Covered(End(k, FiltersPerFile)) => FilterFileAuthentic(k)

Corrupt(file) ==
    \/ file \in cut
    \/ CASE file[1] = "headers" -> \E h \in Range(file[2], HeadersPerFile) : headers[h] # Best[h]
         [] file[1] = "filters" -> \E h \in Range(file[2], FiltersPerFile) : filters[h] # Best[h]
         [] OTHER -> \E h \in Range(file[2], HeadersPerFile) : fheaders[h] # AuthFilterHeader(h)

\* When a filter file does not check out, or the check is not answered, none of
\* the two files it may be due to is replaced unless it is at fault: "Diagnose
\* which store diverges from the backend before rewriting anything".
DiagnosedBeforeRewritten ==
    [][\A file \in fixed' \ fixed :
        pc \in {"fixFilters", "fixFHeaders"} => Corrupt(file)]_vars

-----------------------------------------------------------------------------
(* The inductive invariant behind the theorems of VerifyProofs.             *)

\* Which file the walk is at, that only --fix leaves the plain walk,
\* and that all is well only if nothing was found.
PhaseInv ==
    /\ pc \in {"fixHeaders", "recheckHeaders", "fixAnchor", "recheckAnchor", "diagnose",
               "fixFilters", "fixFHeaders", "recheckFilters"} => fix
    /\ pc \in {"fixHeaders", "recheckHeaders", "anchor", "fixAnchor", "recheckAnchor"}
          => pos < NumFiles(HeadersPerFile)
    /\ pc \in {"diagnose", "fixFilters", "fixFHeaders", "recheckFilters"}
          => pos < NumFiles(FiltersPerFile)
    /\ pc \in {"headers", "tail", "memory"} => pos = 0 \/ pos <= NumFiles(HeadersPerFile)
    /\ pc = "filters" => pos = 0 \/ pos <= NumFiles(FiltersPerFile)
    /\ pc = "ok" => bad = {}

CacheHoldsStored(c) ==
    /\ c.start \in Int
    /\ \A h \in Heights : h \in Range(c.start, HeadersPerFile) => c.data[h] = fheaders[h]

\* Only files on disk are cut off; in the server's memory a filter header is
\* that of the block next to it; the cache holds what is stored.
StoreInv ==
    /\ cut \subseteq Sealed
    /\ \A h \in Heights : h >= NumFiles(HeadersPerFile) * HeadersPerFile =>
          fheaders[h] = Commitment(h, headers[h])
    /\ CacheHoldsStored(cache)

\* What is blamed is at fault until it is rewritten.
BlameInv ==
    /\ pc = "fixFilters" /\ "filters" \in todo => Corrupt(FilterFile(pos))
    /\ pc \in {"fixFilters", "fixFHeaders"} /\ "filter headers" \in todo =>
          \E h \in Range(pos, FiltersPerFile) : fheaders[h] # AuthFilterHeader(h)

\* The first n pairs of header files have been found good.
HeadersChecked(n) ==
    /\ \A k \in 0..(n - 1) :
        /\ HeaderFile(k) \notin cut /\ FHeaderFile(k) \notin cut
        /\ fheaders[End(k, HeadersPerFile)] = AuthFilterHeader(End(k, HeadersPerFile))
    /\ \A h \in Heights : h < n * HeadersPerFile => headers[h] = Best[h]

\* The first n filter files have been found to chain up to the stored headers.
FiltersChecked(n) ==
    \A k \in 0..(n - 1) :
        /\ FilterFile(k) \notin cut
        /\ FHeadersAsFound =>
              \A j \in 0..End(k, FiltersPerFile) :
                  fheaders[End(k, FiltersPerFile)][j] = filters[j]

FilterWalk == {"filters", "diagnose", "fixFilters", "fixFHeaders", "recheckFilters"}

\* What a walk that has nothing to report so far has established.
WalkInv ==
    bad = {} =>
        /\ pc \in {"headers", "fixHeaders", "recheckHeaders"} => HeadersChecked(pos)
        /\ pc \in {"anchor", "fixAnchor", "recheckAnchor"} =>
              /\ HeadersChecked(pos) /\ HeaderFile(pos) \notin cut
              /\ \A h \in Range(pos, HeadersPerFile) : headers[h] = Best[h]
        /\ pc \in {"tail", "memory"} \cup FilterWalk => HeadersChecked(NumFiles(HeadersPerFile))
        /\ pc \in {"memory"} \cup FilterWalk =>
              \A h \in Heights : h <= safe => headers[h] = Best[h]
        /\ pc \in FilterWalk => FiltersChecked(pos)
        /\ OkMeansAuthentic

IndInv == TypeOK /\ PhaseInv /\ StoreInv /\ BlameInv /\ WalkInv
=============================================================================
