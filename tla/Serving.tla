------------------------------ MODULE Serving ------------------------------
(***************************************************************************)
(* A request for heights, /headers/{height} and the like or an import, and *)
(* the producer whose files and memory it is served from.  The handlers    *)
(* read currentHeight, lastSealedHeight, the directory and the memory one  *)
(* after the other, and the producer goes on in between.                   *)
(*                                                                         *)
(* The producer is reduced to what the handlers see (FileProducer has the  *)
(* rest): its memory grows, is rolled back and grows again with other      *)
(* entries; a file appears, and in a later step its heights leave the      *)
(* memory.  Files appear whole here, SealedFiles takes them apart.         *)
(***************************************************************************)
EXTENDS Integers, Sequences, FiniteSets

CONSTANTS
    Entry,          \* the entries that one height may have, on either branch
    Long,           \* the entries that take two bytes: the others take one
    NoEntry,        \* "no entry": an absent map entry
    NoLength,       \* "no Content-Length"
    EntriesPerFile, \* heights per file
    ReOrgSafeDepth, \* --reorg-safe-depth
    Half,           \* an int32 has 2 * Half values
    MaxHeight       \* bound: the greatest height of a block

ASSUME ServingAssumption ==
    /\ NoEntry \notin Entry
    /\ Long \subseteq Entry
    /\ NoLength \notin Int
    /\ EntriesPerFile \in Nat \ {0}
    /\ ReOrgSafeDepth \in Nat
    /\ MaxHeight \in Nat
    /\ Half \in Nat
    /\ MaxHeight + 1 < Half

Heights == 0..MaxHeight

\* The heights that requests ask for, as 64-bit integers: all the int32 ones
\* that are not negative, and as many that are too wide.
Asked == 0..(3 * Half - 1)
Int32(x) == ((x + Half) % (2 * Half)) - Half

VARIABLES
    ready,      \* startupComplete
    current,    \* currentHeight (0 in the code before the first block, when
                \* nothing is served yet)
    lastSealed, \* lastSealedHeight
    mem,        \* mem[h]: the entry in memory for height h
    disk,       \* disk[h]: the entry for height h in a file
    pc,         \* where the request is
    route,      \* "range" or "import"
    kind,       \* "fixed" or "sized": how the length of a response is found
    asked,      \* the requested height
    at,         \* lastHeight: the first height of the next file of an import
    end,        \* endHeight: the last height of a range from memory
    status,     \* the status of the response
    tier,       \* the cache tier of the response: "disk" or "memory"
    announced,  \* its Content-Length
    failed,     \* reading a file failed, or an error text was written into it
    body        \* the heights and entries written

producerVars == <<ready, current, lastSealed, mem, disk>>
askVars == <<route, kind, asked>>
requestVars == <<pc, askVars, at, end, status, tier, announced, failed, body>>
vars == <<producerVars, requestVars>>

-----------------------------------------------------------------------------
(* The producer. *)

NextEnd == lastSealed + EntriesPerFile
NextFile == (lastSealed + 1)..NextEnd
SealReady == NextEnd <= current - ReOrgSafeDepth
Written == \A h \in NextFile : disk[h] # NoEntry

Ingest ==
    /\ ~SealReady
    /\ current < MaxHeight
    /\ \E e \in Entry : mem' = [mem EXCEPT ![current + 1] = e]
    /\ current' = current + 1
    /\ UNCHANGED <<ready, lastSealed, disk, requestVars>>

CaughtUp ==
    /\ ~ready
    /\ current >= 0
    /\ ready' = TRUE
    /\ UNCHANGED <<current, lastSealed, mem, disk, requestVars>>

Prune(lo, hi) == [h \in Heights |-> IF lo <= h /\ h <= hi THEN NoEntry ELSE mem[h]]

Rollback ==
    /\ ready
    /\ ~SealReady
    /\ \E ancestor \in (lastSealed + 1)..(current - 1) :
        /\ mem' = Prune(ancestor + 1, current)
        /\ current' = ancestor
    /\ UNCHANGED <<ready, lastSealed, disk, requestVars>>

WriteFile ==
    /\ SealReady
    /\ ~Written
    /\ disk' = [h \in Heights |-> IF h \in NextFile THEN mem[h] ELSE disk[h]]
    /\ UNCHANGED <<ready, current, lastSealed, mem, requestVars>>

Promote ==
    /\ SealReady
    /\ Written
    /\ mem' = Prune(lastSealed + 1, NextEnd)
    /\ lastSealed' = NextEnd
    /\ UNCHANGED <<ready, current, disk, requestVars>>

-----------------------------------------------------------------------------
(* What is written into a response. *)

\* The file of EntriesPerFile heights from x on.  Its name has the height as
\* it was asked for, not the int32.
FileHeights(x) == x..(x + EntriesPerFile - 1)
FileExists(x) == \A h \in FileHeights(x) : h \in Heights /\ disk[h] # NoEntry
FileBody(x) == [i \in 1..EntriesPerFile |->
                    [height |-> x + i - 1, entry |-> disk[x + i - 1]]]

InMemory(h) == h \in Heights /\ mem[h] # NoEntry

MemBody(first, n) == [i \in 1..n |-> [height |-> first + i - 1, entry |-> mem[first + i - 1]]]

Bytes(s) ==
    IF kind = "fixed" THEN Len(s)
    ELSE Len(s) + Cardinality({i \in DOMAIN s : s[i].entry \in Long})

\* net/http: what goes beyond the Content-Length is not written.
Fits(s) == announced # NoLength => Bytes(s) <= announced

\* Mutant: an entry is written without a look at whether it is there.
CanWriteBlindly(first, last, n) ==
    /\ \A i \in 0..(n - 1) : first + i <= last /\ first + i \in Heights
    /\ Fits(MemBody(first, n))

\* Can n of the entries from first to last be written?
CanWrite(first, last, n) ==
    /\ \A i \in 0..(n - 1) : first + i <= last /\ InMemory(first + i)
    /\ Fits(MemBody(first, n))

\* serializeHeaders, serializeFilters, serializeSPTweaks: the entries are
\* written up to the first that is missing; the error is only logged.
Serialize(first, last) ==
    \E n \in 0..(MaxHeight + 1) :
        /\ CanWrite(first, last, n)
        /\ ~CanWrite(first, last, n + 1)
        /\ body' = body \o MemBody(first, n)

\* Mutant: the length of what is in memory is announced.
HeadersSizeInMemory(first, last) ==
    IF last < first THEN NoLength
    ELSE Cardinality({h \in Heights : first <= h /\ h <= last /\ InMemory(h)})

\* headersSize: entries of a fixed size, of which only the number matters.
HeadersSize(first, last) == IF last < first THEN NoLength ELSE last - first + 1

\* filtersSize: no length if an entry is missing.
FiltersSize(first, last) ==
    CASE last < first                              -> 0
      [] last >= first /\ \A h \in first..last : InMemory(h) ->
            Bytes(MemBody(first, last - first + 1))
      [] OTHER                                     -> NoLength

-----------------------------------------------------------------------------
(* heightBasedRequestHandler *)

Answer(code) == pc' = "answered" /\ status' = code

StartHeightOk(x) == Int32(x) <= current /\ x % EntriesPerFile = 0

AskRange ==
    /\ pc = "idle"
    /\ route' = "range"
    /\ kind' \in {"fixed", "sized"}
    /\ asked' \in Asked
    /\ \/ ~ready /\ Answer(503)
       \/ ready /\ ~StartHeightOk(asked') /\ Answer(400)
       \/ ready /\ StartHeightOk(asked') /\ pc' = "stat" /\ UNCHANGED status
    /\ UNCHANGED <<producerVars, failed, at, end, tier, announced, body>>

ServeRangeFile ==
    /\ pc = "stat"
    /\ FileExists(asked)
    /\ tier' = "disk"
    /\ body' = FileBody(asked)
    /\ announced' = Bytes(body')
    /\ Answer(200)
    /\ UNCHANGED <<producerVars, failed, askVars, at, end>>

\* It cannot be opened or read.
RangeFileFails ==
    /\ pc = "stat"
    /\ FileExists(asked)
    /\ Answer(500)
    /\ UNCHANGED <<producerVars, failed, askVars, at, end, tier, announced, body>>

NoRangeFile ==
    /\ pc = "stat"
    /\ ~FileExists(asked)
    /\ pc' = "hash"
    /\ UNCHANGED <<producerVars, failed, askVars, at, end, status, tier, announced, body>>

\* getBlockHash for the first height, which fails for a negative one, and
\* may fail for any other; then the last height is read.
RangeHash ==
    /\ pc = "hash"
    /\ \/ /\ Int32(asked) >= 0
          /\ end' = current
          /\ pc' = "size"
          /\ UNCHANGED status
       \/ Answer(400) /\ UNCHANGED end
    /\ UNCHANGED <<producerVars, failed, askVars, at, tier, announced, body>>

Announce ==
    /\ pc = "size"
    /\ announced' = IF kind = "fixed" THEN HeadersSize(Int32(asked), end)
                                      ELSE FiltersSize(Int32(asked), end)
    /\ tier' = "memory"
    /\ pc' = "serialize"
    /\ UNCHANGED <<producerVars, failed, askVars, at, end, status, body>>

SerializeRange ==
    /\ pc = "serialize"
    /\ Serialize(Int32(asked), end)
    /\ Answer(200)
    /\ UNCHANGED <<producerVars, failed, askVars, at, end, tier, announced>>

-----------------------------------------------------------------------------
(* heightBasedImportRequestHandler, heightBasedImportLatestHandler and       *)
(* serveHeightBasedImport                                                    *)

EndHeightOk(x) == Int32(x) <= current + 1 /\ x # 0

AskImport ==
    /\ pc = "idle"
    /\ route' = "import"
    /\ kind' = "fixed"
    /\ asked' \in Asked
    /\ \/ ~ready /\ Answer(503)
       \/ ready /\ ~EndHeightOk(asked') /\ Answer(400)
       \/ ready /\ EndHeightOk(asked') /\ pc' = "tier" /\ UNCHANGED status
    /\ UNCHANGED <<producerVars, failed, at, end, tier, announced, body>>

\* The end height is read, so it needs no check.
AskLatest ==
    /\ pc = "idle"
    /\ route' = "import"
    /\ kind' = "fixed"
    /\ IF ready THEN asked' = current + 1 /\ pc' = "tier" /\ UNCHANGED status
                ELSE Answer(503) /\ UNCHANGED asked
    /\ UNCHANGED <<producerVars, failed, at, end, tier, announced, body>>

\* Mutant: whatever is at or below the tip gets the disk tier.
AllSealedByCurrent == asked <= current + 1

\* Every header asked for is in a sealed file.
AllSealed == asked <= lastSealed + 1

ChooseTier ==
    /\ pc = "tier"
    /\ IF AllSealed /\ asked % EntriesPerFile # 0
         THEN Answer(400) /\ UNCHANGED tier
         ELSE /\ tier' = IF AllSealed THEN "disk" ELSE "memory"
              /\ pc' = "files"
              /\ UNCHANGED status
    /\ UNCHANGED <<producerVars, failed, askVars, at, end, announced, body>>

StreamFile ==
    /\ pc = "files"
    /\ at < asked
    /\ FileExists(at)
    /\ body' = body \o FileBody(at)
    /\ at' = at + EntriesPerFile
    /\ UNCHANGED <<producerVars, failed, pc, askVars, end, status, tier, announced>>

\* Reading the file fails: the response ends there.
StreamFails ==
    /\ pc = "files"
    /\ at < asked
    /\ FileExists(at)
    /\ \E n \in 0..(EntriesPerFile - 1) : body' = body \o SubSeq(FileBody(at), 1, n)
    /\ failed' = TRUE
    /\ Answer(200)
    /\ UNCHANGED <<producerVars, askVars, at, end, tier, announced>>

ImportDone ==
    /\ pc = "files"
    /\ at = asked
    /\ Answer(200)
    /\ UNCHANGED <<producerVars, failed, askVars, at, end, tier, announced, body>>

FilesDone ==
    /\ pc = "files"
    /\ at > asked \/ (at < asked /\ ~FileExists(at))
    /\ pc' = "tailHash"
    /\ UNCHANGED <<producerVars, failed, askVars, at, end, status, tier, announced, body>>

\* getBlockHash for the first height of the tail: when it fails, the text of
\* an error follows what has been written.
TailHash ==
    /\ pc = "tailHash"
    /\ \/ pc' = "tail" /\ UNCHANGED <<status, failed>>
       \/ failed' = TRUE /\ Answer(200)
    /\ UNCHANGED <<producerVars, askVars, at, end, tier, announced, body>>

\* Mutant: the tail starts behind the sealed files.
SerializeTailUnsealed ==
    /\ pc = "tail"
    /\ Serialize(lastSealed + 1, Int32(Int32(asked) - 1))
    /\ Answer(200)
    /\ UNCHANGED <<producerVars, failed, askVars, at, end, tier, announced>>

SerializeTail ==
    /\ pc = "tail"
    /\ Serialize(at, Int32(Int32(asked) - 1))
    /\ Answer(200)
    /\ UNCHANGED <<producerVars, failed, askVars, at, end, tier, announced>>

-----------------------------------------------------------------------------
\* The response has been received, and the next request may come.
NextRequest ==
    /\ pc = "answered"
    /\ pc' = "idle"
    /\ route' = "range" /\ kind' = "fixed" /\ asked' = 0
    /\ at' = 0
    /\ end' = 0
    /\ status' = 0
    /\ tier' = "memory"
    /\ announced' = NoLength
    /\ failed' = FALSE
    /\ body' = <<>>
    /\ UNCHANGED producerVars

Init ==
    /\ ready = FALSE
    /\ current = -1
    /\ lastSealed = -1
    /\ mem = [h \in Heights |-> NoEntry]
    /\ disk = [h \in Heights |-> NoEntry]
    /\ pc = "idle"
    /\ route = "range" /\ kind = "fixed" /\ asked = 0
    /\ at = 0
    /\ end = 0
    /\ status = 0
    /\ tier = "memory"
    /\ announced = NoLength
    /\ failed = FALSE
    /\ body = <<>>

Produce == Ingest \/ CaughtUp \/ Rollback \/ WriteFile \/ Promote
RangeRequest == AskRange \/ ServeRangeFile \/ RangeFileFails \/ NoRangeFile
                \/ RangeHash \/ Announce \/ SerializeRange
ImportRequest == AskImport \/ AskLatest \/ ChooseTier \/ StreamFile \/ StreamFails
                 \/ ImportDone \/ FilesDone \/ TailHash \/ SerializeTail

Next == Produce \/ RangeRequest \/ ImportRequest \/ NextRequest

Spec == Init /\ [][Next]_vars

-----------------------------------------------------------------------------
\* Every variable has its type; in particular nothing is written for a height
\* that has no entry.
TypeOK ==
    /\ ready \in BOOLEAN
    /\ current \in -1..MaxHeight
    /\ lastSealed \in -1..MaxHeight
    /\ mem \in [Heights -> Entry \cup {NoEntry}]
    /\ disk \in [Heights -> Entry \cup {NoEntry}]
    /\ pc \in {"idle", "stat", "hash", "size", "serialize",
               "tier", "files", "tailHash", "tail", "answered"}
    /\ route \in {"range", "import"}
    /\ kind \in {"fixed", "sized"}
    /\ asked \in Asked
    /\ at \in Nat
    /\ end \in Heights
    /\ status \in {0, 200, 400, 500, 503}
    /\ tier \in {"disk", "memory"}
    /\ announced \in Nat \cup {NoLength}
    /\ failed \in BOOLEAN
    /\ body \in Seq([height : Heights, entry : Entry])

HeightsOf(s) == {s[i].height : i \in DOMAIN s}

\* A response has no gap and no height twice, from the height that was asked
\* for (0 for an import), whatever is sealed, pruned or rolled back while it
\* is put together from files and memory.
BodyConsecutive ==
    LET first == IF route = "import" THEN 0
                 ELSE IF tier = "disk" THEN asked ELSE Int32(asked)
    IN  \A i \in DOMAIN body : body[i].height = first + i - 1

\* "The cache-tier choice gates on whether every byte in the response has
\* already been written to a sealed file": a response that may be cached for
\* long holds, unless reading a file failed, exactly the heights asked for,
\* of which none wraps around, as they are on disk, then and ever after.
DiskTierExact ==
    pc = "answered" /\ status = 200 /\ tier = "disk" /\ ~failed =>
        /\ HeightsOf(body) = IF route = "import" THEN 0..(asked - 1) ELSE FileHeights(asked)
        /\ \A i \in DOMAIN body : body[i].entry = disk[body[i].height]

\* The length is announced "to let clients detect truncation": of entries
\* with a fixed size, a response from memory that lacks a height, as its file
\* was sealed or the chain rolled back since the handler looked, is shorter
\* than announced.
TruncationShows ==
    pc = "answered" /\ status = 200 /\ route = "range" /\ kind = "fixed" /\ tier = "memory" =>
        \/ HeightsOf(body) = Int32(asked)..end
        \/ announced \in Nat /\ Bytes(body) < announced

-----------------------------------------------------------------------------
(* The inductive invariant behind the theorems of ServingProofs.            *)

\* Memory and files share the heights up to current between them, but for
\* the file that is written and not yet promoted.
ProducerInv ==
    /\ lastSealed <= current
    /\ ready => current >= 0
    /\ \A h \in Heights : lastSealed < h /\ h <= current => mem[h] # NoEntry
    /\ \A h \in Heights : h <= lastSealed => disk[h] # NoEntry
    /\ \/ \A h \in Heights : h > lastSealed => disk[h] = NoEntry
       \/ /\ SealReady
          /\ \A h \in NextFile : disk[h] # NoEntry
          /\ \A h \in Heights : h > NextEnd => disk[h] = NoEntry

Looking == {"idle", "stat", "hash", "size", "serialize", "tier"}
Importing == {"files", "tailHash", "tail"}

\* What is known of a request from where it is.
RequestInv ==
    /\ pc \in Looking => body = <<>> /\ at = 0 /\ ~failed /\ tier = "memory"
    /\ pc \in {"stat", "hash", "size", "serialize"} => ready /\ route = "range"
    /\ pc \in Importing \cup {"tier"} => route = "import"
    /\ pc \in Importing \cup {"idle", "tier"} => announced = NoLength
    /\ pc = "serialize" /\ kind = "fixed" => announced = HeadersSize(Int32(asked), end)

\* The files streamed so far are the heights below at; and when they are all
\* that was asked for, no other source is turned to.
ImportInv ==
    pc \in Importing =>
        /\ ~failed
        /\ Len(body) = at
        /\ \A i \in 1..at : body[i].height = i - 1 /\ body[i].entry = disk[i - 1]
        /\ tier = "disk" =>
              /\ pc = "files"
              /\ asked <= lastSealed + 1
              /\ at <= asked
              /\ (asked - at) % EntriesPerFile = 0

ServingInv ==
    /\ TypeOK
    /\ ProducerInv
    /\ RequestInv
    /\ ImportInv
    /\ BodyConsecutive
    /\ DiskTierExact
    /\ TruncationShows
=============================================================================
