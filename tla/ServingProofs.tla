--------------------------- MODULE ServingProofs ---------------------------
(***************************************************************************)
(* Proofs about what the handlers serve, for any file size, safe depth,    *)
(* width of an int32 and number of heights.                                *)
(***************************************************************************)
EXTENDS Serving, FiniteSetTheorems, TLAPS

Item == [height : Heights, entry : Entry]

\* Multiples of a file's size: below a greater one there is room for a file.
LEMMA RoomForFile ==
    ASSUME NEW n \in Nat \ {0}, NEW d \in Nat, d > 0, d % n = 0
    PROVE  n <= d /\ (d - n) % n = 0
<1>1. PICK q \in Nat : d = n * q
  <2>1. d = n * (d \div n) /\ d \div n \in Nat
    OBVIOUS
  <2>. QED
    BY <2>1
<1>2. q # 0
  BY <1>1
<1>3. n <= n * q /\ n * q - n = n * (q - 1)
  BY <1>2
<1>4. ASSUME NEW k \in Nat PROVE (n * k) % n = 0
  OBVIOUS
<1>5. (n * (q - 1)) % n = 0
  BY <1>2, <1>4
<1>. QED
  BY <1>1, <1>3, <1>5

\* A bound that rises is a bound still.
LEMMA WeakerBound ==
    ASSUME NEW a \in Int, NEW b \in Int, NEW c \in Int, a <= b + 1, b <= c
    PROVE  a <= c + 1
OBVIOUS

\* The producer's invariant holds when it starts from nothing.
LEMMA ProducerInvInit == Init => ProducerInv
BY ServingAssumption DEF Init, ProducerInv, Heights

ProducerTypes ==
    /\ ready \in BOOLEAN
    /\ current \in -1..MaxHeight
    /\ lastSealed \in -1..MaxHeight
    /\ mem \in [Heights -> Entry \cup {NoEntry}]
    /\ disk \in [Heights -> Entry \cup {NoEntry}]

\* The producer keeps its own invariant, and never takes back or overwrites
\* what is in a file.
LEMMA ProducerStep ==
    ASSUME ProducerTypes, ProducerInv, Produce
    PROVE  /\ ProducerTypes' /\ ProducerInv'
           /\ \A h \in Heights : disk[h] # NoEntry => disk'[h] = disk[h]
           /\ lastSealed <= lastSealed'
           /\ ready => ready'
           /\ UNCHANGED requestVars
<1> USE ServingAssumption DEF ProducerTypes, ProducerInv, Heights, SealReady, NextEnd, NextFile
<1>1. CASE Ingest
  BY <1>1 DEF Ingest
<1>2. CASE CaughtUp
  BY <1>2 DEF CaughtUp
<1>3. CASE Rollback
  BY <1>3 DEF Rollback, Prune
<1>4. CASE WriteFile
  BY <1>4 DEF WriteFile, Written
<1>5. CASE Promote
  BY <1>5 DEF Promote, Written, Prune
<1>. QED
  BY <1>1, <1>2, <1>3, <1>4, <1>5 DEF Produce

-----------------------------------------------------------------------------
(* What is written into a body. *)

\* A run of heights, from a file or from memory.
LEMMA PartType ==
    ASSUME NEW n \in Nat, NEW x \in Int, NEW f,
           \A i \in 1..n : x + i - 1 \in Heights /\ f[x + i - 1] \in Entry
    PROVE  LET s == [i \in 1..n |-> [height |-> x + i - 1, entry |-> f[x + i - 1]]]
           IN  s \in Seq(Item) /\ Len(s) = n
BY DEF Item

\* A file's part of a body.
LEMMA FileBodyType ==
    ASSUME ProducerTypes, NEW x \in Nat, FileExists(x)
    PROVE  /\ FileBody(x) \in Seq(Item)
           /\ Len(FileBody(x)) = EntriesPerFile
           /\ \A i \in 1..EntriesPerFile :
                 /\ x + i - 1 \in Heights
                 /\ FileBody(x)[i] = [height |-> x + i - 1, entry |-> disk[x + i - 1]]
<1>1. \A i \in 1..EntriesPerFile :
        /\ x + i - 1 \in Heights
        /\ disk[x + i - 1] \in Entry
  <2>1. \A h \in x..(x + EntriesPerFile - 1) : h \in Heights /\ disk[h] \in Entry
    BY DEF FileExists, FileHeights, ProducerTypes
  <2>2. \A i \in 1..EntriesPerFile : x + i - 1 \in x..(x + EntriesPerFile - 1)
    BY ServingAssumption
  <2>. QED
    BY <2>1, <2>2
<1>2. EntriesPerFile \in Nat
  BY ServingAssumption
<1>3. \A i \in 1..EntriesPerFile :
        FileBody(x)[i] = [height |-> x + i - 1, entry |-> disk[x + i - 1]]
  BY DEF FileBody
<1>4. FileBody(x) \in Seq(Item) /\ Len(FileBody(x)) = EntriesPerFile
  <2>1. x \in Int
    OBVIOUS
  <2>. QED
    BY <1>1, <1>2, <2>1, PartType, Zenon DEF FileBody
<1>. QED
  BY <1>1, <1>3, <1>4

\* The memory's part of a body.
LEMMA MemBodyType ==
    ASSUME ProducerTypes, NEW first \in Int, NEW last \in Int, NEW n \in Nat,
           CanWrite(first, last, n)
    PROVE  /\ MemBody(first, n) \in Seq(Item)
           /\ Len(MemBody(first, n)) = n
           /\ \A i \in 1..n :
                 /\ MemBody(first, n)[i].height = first + i - 1
                 /\ first + i - 1 <= last
<1>1. \A i \in 1..n : /\ first + i - 1 \in Heights
                      /\ mem[first + i - 1] \in Entry
                      /\ first + i - 1 <= last
  <2>1. \A j \in 0..(n - 1) : /\ first + j \in Heights
                               /\ mem[first + j] \in Entry
                               /\ first + j <= last
    BY DEF CanWrite, InMemory, ProducerTypes
  <2>2. \A i \in 1..n : i - 1 \in 0..(n - 1) /\ first + (i - 1) = first + i - 1
    OBVIOUS
  <2>. QED
    BY <2>1, <2>2
<1>. QED
  BY <1>1 DEF MemBody, Item

\* Putting two parts together.
LEMMA Joined ==
    ASSUME NEW s \in Seq(Item), NEW t \in Seq(Item)
    PROVE  /\ s \o t \in Seq(Item)
           /\ Len(s \o t) = Len(s) + Len(t)
           /\ \A i \in 1..Len(s) : (s \o t)[i] = s[i]
           /\ \A i \in 1..Len(t) : (s \o t)[Len(s) + i] = t[i]
           /\ s = <<>> => s \o t = t
OBVIOUS

\* A height cut to 32 bits is an integer.
LEMMA Int32Type == \A x \in Int : Int32(x) \in Int
BY ServingAssumption DEF Int32

-----------------------------------------------------------------------------
(* The inductive invariant. *)

\* The body is a sequence of heights with their entries.
LEMMA BodyItems ==
    ASSUME ServingInv
    PROVE  /\ body \in Seq(Item)
           /\ DOMAIN body = 1..Len(body)
           /\ \A i \in DOMAIN body : body[i].height \in Heights /\ body[i].entry \in Entry
<1>1. body \in Seq(Item)
  BY DEF ServingInv, TypeOK, Item
<1>2. DOMAIN body = 1..Len(body) /\ \A i \in 1..Len(body) : body[i] \in Item
  BY <1>1
<1>. QED
  BY <1>1, <1>2 DEF Item

\* The height asked for is not negative before it is cut.
LEMMA AskedType == ASSUME ServingInv PROVE asked \in Nat
<1>1. asked \in 0..(3 * Half - 1)
  BY DEF ServingInv, TypeOK, Asked
<1>2. 3 * Half - 1 \in Int
  BY ServingAssumption
<1>. QED
  BY <1>1, <1>2

\* Before the first block and the first request the invariant holds.
LEMMA ServingInvInit == Init => ServingInv
<1> SUFFICES ASSUME Init PROVE ServingInv
  OBVIOUS
<1>1. TypeOK
  BY ServingAssumption DEF Init, TypeOK, Heights, Asked
<1>2. RequestInv /\ ImportInv
  BY DEF Init, RequestInv, ImportInv, Looking, Importing
<1>3. BodyConsecutive /\ DiskTierExact /\ TruncationShows
  BY DEF Init, BodyConsecutive, DiskTierExact, TruncationShows
<1>. QED
  BY <1>1, <1>2, <1>3, ProducerInvInit DEF ServingInv

\* The producer goes on under a request: what the request has read from files
\* stays what is in the files.
LEMMA ProduceKeeps == ASSUME ServingInv, Produce PROVE ServingInv'
<1>1. ProducerTypes
  BY DEF ServingInv, TypeOK, ProducerTypes
<1>2. /\ ProducerTypes' /\ ProducerInv'
      /\ \A h \in Heights : disk[h] # NoEntry => disk'[h] = disk[h]
      /\ lastSealed <= lastSealed'
      /\ ready => ready'
      /\ UNCHANGED requestVars
  BY <1>1, ProducerStep DEF ServingInv
<1>3. UNCHANGED <<pc, route, kind, asked, at, end, status, tier, announced, failed, body>>
  BY <1>2 DEF requestVars, askVars
<1>4. TypeOK'
  BY <1>2, <1>3 DEF ServingInv, TypeOK, ProducerTypes
<1>5. RequestInv'
  <2>1. HeadersSize(Int32(asked), end)' = HeadersSize(Int32(asked), end)
    BY <1>3 DEF HeadersSize, Int32
  <2>2. RequestInv
    BY DEF ServingInv
  <2>. QED
    BY <1>2, <1>3, <2>1, <2>2 DEF RequestInv
<1>6. \A i \in DOMAIN body : body[i].height \in Heights /\ body[i].entry \in Entry
  BY BodyItems
<1>7. ImportInv'
  <2> SUFFICES ASSUME pc \in Importing PROVE ImportInv'
    BY <1>3 DEF ImportInv
  <2>1. \A i \in 1..at : /\ body[i].height = i - 1
                         /\ body[i].entry = disk[i - 1]
    BY DEF ServingInv, ImportInv
  <2>2. \A i \in 1..at : i \in DOMAIN body
    BY DEF ServingInv, ImportInv, TypeOK
  <2>3. \A i \in 1..at : i - 1 \in Heights /\ disk[i - 1] # NoEntry
    BY <1>6, <2>1, <2>2, ServingAssumption
  <2>4. \A i \in 1..at : body[i].entry = disk'[i - 1]
    BY <1>2, <2>1, <2>3
  <2>5. tier = "disk" => asked <= lastSealed' + 1
    <3> SUFFICES ASSUME tier = "disk" PROVE asked <= lastSealed' + 1
      OBVIOUS
    <3>1. asked <= lastSealed + 1
      BY DEF ServingInv, ImportInv
    <3>2. lastSealed \in Int /\ lastSealed' \in Int /\ lastSealed <= lastSealed'
      BY <1>1, <1>2, ServingAssumption DEF ProducerTypes
    <3>. QED
      BY <3>1, <3>2, AskedType, WeakerBound
  <2>. QED
    BY <1>3, <2>1, <2>4, <2>5 DEF ServingInv, ImportInv
<1>8. BodyConsecutive' /\ TruncationShows'
  BY <1>3 DEF ServingInv, BodyConsecutive, TruncationShows, HeightsOf, Bytes
<1>9. DiskTierExact'
  <2> SUFFICES ASSUME pc = "answered", status = 200, tier = "disk", ~failed
               PROVE  DiskTierExact'
    BY <1>3 DEF DiskTierExact
  <2>1. \A i \in DOMAIN body : body[i].entry = disk[body[i].height]
    BY DEF ServingInv, DiskTierExact
  <2>2. \A i \in DOMAIN body : body[i].entry = disk'[body[i].height]
    BY <1>2, <1>6, <2>1, ServingAssumption
  <2>. QED
    BY <1>3, <2>2 DEF ServingInv, DiskTierExact, HeightsOf, FileHeights
<1>. QED
  BY <1>2, <1>4, <1>5, <1>7, <1>8, <1>9 DEF ServingInv

-----------------------------------------------------------------------------
(* The steps of a request. *)

\* A step of a request leaves what the producer relies on alone.
LEMMA ReadOnly ==
    ASSUME ServingInv, UNCHANGED producerVars
    PROVE  /\ ProducerTypes /\ ProducerTypes' /\ ProducerInv'
           /\ UNCHANGED <<ready, current, lastSealed, mem, disk>>
<1>1. UNCHANGED <<ready, current, lastSealed, mem, disk>>
  BY DEF producerVars
<1>2. ProducerTypes /\ ProducerTypes'
  BY <1>1 DEF ServingInv, TypeOK, ProducerTypes
<1>3. ProducerInv'
  BY <1>1 DEF ServingInv, ProducerInv, SealReady, NextEnd, NextFile
<1>. QED
  BY <1>1, <1>2, <1>3

\* The requested heights are integers that include all that may be latest.
LEMMA LatestAsked == ASSUME ServingInv PROVE current + 1 \in Asked
<1>1. current \in -1..MaxHeight
  BY DEF ServingInv, TypeOK
<1>2. current + 1 >= 0 /\ current + 1 <= 3 * Half - 1
  BY <1>1, ServingAssumption
<1>. QED
  BY <1>1, <1>2, ServingAssumption DEF Asked

\* While nothing is written and no answer of 200 is given, only types and what
\* is known of the request's place matter.
LEMMA NothingWritten ==
    ASSUME TypeOK', ProducerInv', RequestInv', ImportInv', body' = <<>>,
           pc' = "answered" => status' # 200
    PROVE  ServingInv'
<1>1. BodyConsecutive'
  BY DEF BodyConsecutive
<1>2. DiskTierExact' /\ TruncationShows'
  BY DEF DiskTierExact, TruncationShows
<1>. QED
  BY <1>1, <1>2 DEF ServingInv

\* The checks of a request, with the answers 400, 500 and 503.
LEMMA AskKeeps ==
    ASSUME ServingInv, AskRange \/ AskImport \/ AskLatest \/ RangeFileFails \/ NoRangeFile
    PROVE  ServingInv'
<1> USE DEF ServingInv
<1>1. UNCHANGED producerVars /\ UNCHANGED <<failed, at, end, tier, announced, body>>
  BY DEF AskRange, AskImport, AskLatest, RangeFileFails, NoRangeFile
<1>2. ProducerTypes' /\ ProducerInv'
  BY <1>1, ReadOnly
<1>3. /\ pc \in {"idle", "stat"}
      /\ pc' \in {"stat", "hash", "tier", "answered"}
      /\ pc' = "answered" => status' \in {400, 500, 503}
      /\ pc' # "answered" => UNCHANGED status
  BY DEF AskRange, AskImport, AskLatest, RangeFileFails, NoRangeFile, Answer
<1>4. body' = <<>> /\ at' = 0 /\ ~failed' /\ tier' = "memory"
  BY <1>1, <1>3 DEF RequestInv, Looking
<1>5. route' \in {"range", "import"} /\ kind' \in {"fixed", "sized"} /\ asked' \in Asked
  BY LatestAsked DEF AskRange, AskImport, AskLatest, RangeFileFails, NoRangeFile, TypeOK, askVars
<1>6. TypeOK'
  BY <1>1, <1>2, <1>3, <1>5 DEF TypeOK, ProducerTypes
<1>7. pc' \in {"stat", "hash"} => ready' /\ route' = "range"
  BY <1>1 DEF AskRange, AskImport, AskLatest, RangeFileFails, NoRangeFile, Answer,
              RequestInv, askVars, producerVars
<1>8. pc' = "tier" => route' = "import" /\ announced' = NoLength
  BY <1>1 DEF AskRange, AskImport, AskLatest, RangeFileFails, NoRangeFile, Answer,
              RequestInv, askVars
<1>9. RequestInv' /\ ImportInv'
  BY <1>3, <1>4, <1>7, <1>8 DEF RequestInv, ImportInv, Looking, Importing
<1>. QED
  BY <1>2, <1>3, <1>4, <1>6, <1>9, NothingWritten

\* The first height's hash and the last height.
LEMMA RangeHashKeeps == ASSUME ServingInv, RangeHash PROVE ServingInv'
<1> USE DEF ServingInv
<1>1. /\ UNCHANGED producerVars
      /\ UNCHANGED <<failed, route, kind, asked, at, tier, announced, body>>
  BY DEF RangeHash, askVars
<1>2. ProducerTypes' /\ ProducerInv'
  BY <1>1, ReadOnly
<1>3. /\ pc = "hash" /\ pc' \in {"size", "answered"}
      /\ pc' = "answered" => status' = 400
      /\ pc' # "answered" => UNCHANGED status
  BY DEF RangeHash, Answer
<1>4. body' = <<>> /\ at' = 0 /\ ~failed' /\ tier' = "memory" /\ ready' /\ route' = "range"
  BY <1>1, <1>3 DEF RequestInv, Looking, producerVars
<1>5. end' \in Heights
  <2>1. current \in Heights
    BY <1>3, ServingAssumption DEF RequestInv, ProducerInv, TypeOK, Heights
  <2>. QED
    BY <2>1 DEF RangeHash, TypeOK
<1>6. TypeOK'
  BY <1>1, <1>2, <1>3, <1>5 DEF TypeOK, ProducerTypes
<1>7. RequestInv' /\ ImportInv'
  BY <1>3, <1>4 DEF RequestInv, ImportInv, Looking, Importing
<1>. QED
  BY <1>2, <1>3, <1>4, <1>6, <1>7, NothingWritten

\* The length of a body is a number of bytes.
LEMMA BytesType == ASSUME NEW s \in Seq(Item) PROVE Bytes(s) \in Nat
<1>1. Len(s) \in Nat /\ DOMAIN s = 1..Len(s)
  OBVIOUS
<1>2. IsFiniteSet(DOMAIN s)
  BY <1>1, FS_Interval
<1>3. IsFiniteSet({i \in DOMAIN s : s[i].entry \in Long})
  BY <1>2, FS_Subset
<1>4. Cardinality({i \in DOMAIN s : s[i].entry \in Long}) \in Nat
  BY <1>3, FS_CardinalityType
<1>. QED
  BY <1>1, <1>4 DEF Bytes

\* What headersSize and filtersSize announce, if anything.
LEMMA SizeType ==
    ASSUME ProducerTypes, NEW first \in Int, NEW last \in Int
    PROVE  /\ HeadersSize(first, last) \in Nat \cup {NoLength}
           /\ FiltersSize(first, last) \in Nat \cup {NoLength}
<1>1. HeadersSize(first, last) \in Nat \cup {NoLength}
  BY DEF HeadersSize
<1>2. ASSUME last >= first, \A h \in first..last : InMemory(h)
      PROVE  Bytes(MemBody(first, last - first + 1)) \in Nat
  <2> DEFINE n == last - first + 1
  <2>1. n \in Nat
    BY <1>2
  <2>2. \A i \in 1..n : first + i - 1 \in first..last
    BY <2>1
  <2>3. \A i \in 1..n : first + i - 1 \in Heights /\ mem[first + i - 1] \in Entry
    BY <1>2, <2>2 DEF InMemory, ProducerTypes
  <2> HIDE DEF n
  <2>4. MemBody(first, n) \in Seq(Item)
    BY <2>1, <2>3, PartType DEF MemBody
  <2>5. Bytes(MemBody(first, n)) \in Nat
    BY <2>4, BytesType
  <2>. QED
    BY <2>5 DEF n
<1>3. FiltersSize(first, last) \in Nat \cup {NoLength}
  <2>1. CASE last < first
    BY <2>1 DEF FiltersSize
  <2>2. CASE last >= first /\ \A h \in first..last : InMemory(h)
    BY <1>2, <2>2 DEF FiltersSize
  <2>3. CASE last >= first /\ ~\A h \in first..last : InMemory(h)
    BY <2>3 DEF FiltersSize
  <2>. QED
    BY <2>1, <2>2, <2>3
<1>. QED
  BY <1>1, <1>3

\* The length of the response is announced.
LEMMA AnnounceKeeps == ASSUME ServingInv, Announce PROVE ServingInv'
<1> USE DEF ServingInv
<1>1. /\ UNCHANGED producerVars
      /\ UNCHANGED <<failed, route, kind, asked, at, end, status, body>>
      /\ pc = "size" /\ pc' = "serialize" /\ tier' = "memory"
      /\ announced' = IF kind = "fixed" THEN HeadersSize(Int32(asked), end)
                                        ELSE FiltersSize(Int32(asked), end)
  BY DEF Announce, askVars
<1>2. ProducerTypes /\ ProducerTypes' /\ ProducerInv'
  BY <1>1, ReadOnly
<1>3. Int32(asked) \in Int /\ end \in Int
  <2>1. asked \in Int
    BY AskedType
  <2>2. end \in Int
    BY ServingAssumption DEF TypeOK, Heights
  <2>. QED
    BY <2>1, <2>2, Int32Type
<1>4. announced' \in Nat \cup {NoLength}
  BY <1>1, <1>2, <1>3, SizeType
<1>5. TypeOK'
  BY <1>1, <1>2, <1>4 DEF TypeOK, ProducerTypes
<1>6. body' = <<>> /\ at' = 0 /\ ~failed' /\ ready' /\ route' = "range"
  BY <1>1 DEF RequestInv, Looking, producerVars
<1>7. kind' = "fixed" => announced' = HeadersSize(Int32(asked), end)'
  BY <1>1 DEF HeadersSize, Int32
<1>8. RequestInv' /\ ImportInv'
  BY <1>1, <1>6, <1>7 DEF RequestInv, ImportInv, Looking, Importing
<1>. QED
  BY <1>1, <1>2, <1>5, <1>6, <1>8, NothingWritten

\* A file is served: it holds the heights asked for.
LEMMA ServeRangeFileKeeps == ASSUME ServingInv, ServeRangeFile PROVE ServingInv'
<1> USE DEF ServingInv
<1>1. /\ UNCHANGED producerVars
      /\ UNCHANGED <<failed, route, kind, asked, at, end>>
      /\ pc = "stat" /\ pc' = "answered" /\ tier' = "disk" /\ status' = 200
      /\ FileExists(asked) /\ body' = FileBody(asked)
  BY DEF ServeRangeFile, askVars, Answer
<1>2. ProducerTypes /\ ProducerTypes' /\ ProducerInv' /\ disk' = disk
  BY <1>1, ReadOnly
<1>3. asked \in Nat
  BY AskedType
<1>4. /\ body' \in Seq(Item)
      /\ DOMAIN body' = 1..EntriesPerFile
      /\ \A i \in 1..EntriesPerFile :
            body'[i].height = asked + i - 1 /\ body'[i].entry = disk[asked + i - 1]
  <2>1. /\ FileBody(asked) \in Seq(Item)
        /\ Len(FileBody(asked)) = EntriesPerFile
        /\ \A i \in 1..EntriesPerFile :
              FileBody(asked)[i] = [height |-> asked + i - 1, entry |-> disk[asked + i - 1]]
    BY <1>1, <1>2, <1>3, FileBodyType
  <2>. QED
    BY <1>1, <2>1
<1>5. announced' \in Nat
  <2>1. Bytes(FileBody(asked)) \in Nat
    BY <1>1, <1>4, BytesType
  <2>2. announced' = Bytes(FileBody(asked))
    BY <1>1 DEF ServeRangeFile, Bytes
  <2>. QED
    BY <2>1, <2>2
<1>6. TypeOK'
  BY <1>1, <1>2, <1>4, <1>5 DEF TypeOK, ProducerTypes, Item
<1>7. route' = "range" /\ RequestInv' /\ ImportInv'
  BY <1>1 DEF RequestInv, ImportInv, Looking, Importing
<1>8. BodyConsecutive'
  BY <1>1, <1>4, <1>7 DEF BodyConsecutive
<1>9. HeightsOf(body') = FileHeights(asked)
  <2>1. \A h \in FileHeights(asked) : /\ h - asked + 1 \in 1..EntriesPerFile
                                      /\ asked + (h - asked + 1) - 1 = h
    BY <1>3, ServingAssumption DEF FileHeights
  <2>2. \A i \in 1..EntriesPerFile : asked + i - 1 \in FileHeights(asked)
    BY <1>3, ServingAssumption DEF FileHeights
  <2>. QED
    BY <1>4, <2>1, <2>2 DEF HeightsOf
<1>10. DiskTierExact' /\ TruncationShows'
  BY <1>1, <1>2, <1>4, <1>7, <1>9 DEF DiskTierExact, TruncationShows, HeightsOf, FileHeights
<1>. QED
  BY <1>2, <1>6, <1>7, <1>8, <1>10

\* The memory is written: what is short of the announced length shows.
LEMMA SerializeRangeKeeps == ASSUME ServingInv, SerializeRange PROVE ServingInv'
<1> USE DEF ServingInv
<1> DEFINE first == Int32(asked)
<1>1. /\ UNCHANGED producerVars
      /\ UNCHANGED <<failed, route, kind, asked, at, end, tier, announced>>
      /\ pc = "serialize" /\ pc' = "answered" /\ status' = 200
      /\ Serialize(first, end)
  BY DEF SerializeRange, askVars, Answer
<1>2. ProducerTypes /\ ProducerTypes' /\ ProducerInv'
  BY <1>1, ReadOnly
<1>3. first \in Int /\ end \in Int
  <2>1. asked \in Int
    BY AskedType
  <2>2. end \in Int
    BY ServingAssumption DEF TypeOK, Heights
  <2>. QED
    BY <2>1, <2>2, Int32Type
<1>4. body = <<>> /\ tier = "memory" /\ route = "range"
      /\ (kind = "fixed" => announced = HeadersSize(first, end))
  BY <1>1 DEF RequestInv, Looking
<1>5. first' = first
  BY <1>1 DEF Int32
<1> HIDE DEF first
<1>6. PICK n \in 0..(MaxHeight + 1) : CanWrite(first, end, n) /\ body' = body \o MemBody(first, n)
  BY <1>1 DEF Serialize
<1>7. n \in Nat
  BY ServingAssumption
<1>8. /\ MemBody(first, n) \in Seq(Item)
      /\ Len(MemBody(first, n)) = n
      /\ \A i \in 1..n : /\ MemBody(first, n)[i].height = first + i - 1
                         /\ first + i - 1 <= end
  BY <1>2, <1>3, <1>6, <1>7, MemBodyType
<1>9. body' = MemBody(first, n)
  BY <1>4, <1>6, <1>8
<1>10. /\ body' \in Seq(Item) /\ Len(body') = n /\ DOMAIN body' = 1..n
       /\ \A i \in 1..n : body'[i].height = first + i - 1 /\ first + i - 1 <= end
  BY <1>8, <1>9
<1>11. TypeOK'
  BY <1>1, <1>2, <1>10 DEF TypeOK, ProducerTypes, Item
<1>12. RequestInv' /\ ImportInv' /\ DiskTierExact'
  BY <1>1, <1>4 DEF RequestInv, ImportInv, DiskTierExact, Looking, Importing
<1>13. BodyConsecutive'
  BY <1>1, <1>4, <1>5, <1>10 DEF BodyConsecutive, first
<1>14. n = 0 \/ first + n - 1 <= end
  <2>1. n # 0 => n \in 1..n
    BY <1>7
  <2>. QED
    BY <1>8, <2>1
<1>15. TruncationShows'
  <2> SUFFICES ASSUME kind = "fixed"
               PROVE  HeightsOf(body') = first..end \/ (announced \in Nat /\ n < announced)
    BY <1>1, <1>5, <1>10 DEF TruncationShows, Bytes, first
  <2>1. CASE end < first
    <3>1. n = 0
      BY <1>3, <1>7, <1>14, <2>1
    <3>. QED
      BY <1>3, <1>10, <2>1, <3>1 DEF HeightsOf
  <2>2. CASE end >= first /\ n < end - first + 1
    BY <1>3, <1>4, <2>2 DEF HeadersSize
  <2>3. CASE end >= first /\ n >= end - first + 1
    <3>1. n = end - first + 1
      BY <1>3, <1>7, <1>14, <2>3
    <3>2. \A h \in first..end : h - first + 1 \in 1..n /\ first + (h - first + 1) - 1 = h
      BY <1>3, <3>1
    <3>3. \A i \in 1..n : first + i - 1 \in first..end
      BY <1>3, <3>1
    <3>4. HeightsOf(body') = {first + i - 1 : i \in 1..n}
      BY <1>10 DEF HeightsOf
    <3>5. {first + i - 1 : i \in 1..n} = first..end
      BY <3>2, <3>3
    <3>. QED
      BY <3>4, <3>5
  <2>. QED
    BY <1>3, <1>7, <2>1, <2>2, <2>3
<1>. QED
  BY <1>2, <1>11, <1>12, <1>13, <1>15

\* An import gets the disk tier only for whole files that are sealed.
LEMMA ChooseTierKeeps == ASSUME ServingInv, ChooseTier PROVE ServingInv'
<1> USE DEF ServingInv
<1>1. /\ UNCHANGED producerVars
      /\ UNCHANGED <<failed, route, kind, asked, at, end, announced, body>>
      /\ pc = "tier" /\ pc' \in {"answered", "files"}
      /\ pc' = "answered" => status' = 400 /\ UNCHANGED tier
      /\ pc' = "files" => /\ UNCHANGED status /\ tier' \in {"disk", "memory"}
                          /\ tier' = "disk" => AllSealed /\ asked % EntriesPerFile = 0
  BY DEF ChooseTier, askVars, Answer
<1>2. ProducerTypes' /\ ProducerInv' /\ lastSealed' = lastSealed
  BY <1>1, ReadOnly
<1>3. body' = <<>> /\ at' = 0 /\ ~failed' /\ route' = "import" /\ announced' = NoLength
  BY <1>1 DEF RequestInv, Looking, Importing
<1>4. TypeOK'
  BY <1>1, <1>2 DEF TypeOK, ProducerTypes
<1>5. RequestInv'
  BY <1>1, <1>3 DEF RequestInv, Looking, Importing
<1>6. ImportInv'
  <2>1. asked \in Nat
    BY AskedType
  <2>2. asked - 0 = asked /\ 0 <= asked
    BY <2>1
  <2>. QED
    BY <1>1, <1>2, <1>3, <2>2 DEF ImportInv, Importing, AllSealed
<1>. QED
  BY <1>1, <1>2, <1>3, <1>4, <1>5, <1>6, NothingWritten

\* What is known while files are streamed.
LEMMA Streaming ==
    ASSUME ServingInv, pc \in Importing
    PROVE  /\ route = "import" /\ ~failed /\ announced = NoLength
           /\ at \in Nat /\ asked \in Nat
           /\ body \in Seq(Item) /\ Len(body) = at
           /\ \A i \in 1..at : body[i].height = i - 1 /\ body[i].entry = disk[i - 1]
<1>1. asked \in Nat
  BY AskedType
<1>2. body \in Seq(Item)
  BY BodyItems
<1>. QED
  BY <1>1, <1>2 DEF ServingInv, TypeOK, RequestInv, ImportInv

\* The next file continues where the ones before it end.
LEMMA StreamFileKeeps == ASSUME ServingInv, StreamFile PROVE ServingInv'
<1> USE DEF ServingInv
<1>1. /\ UNCHANGED producerVars
      /\ UNCHANGED <<failed, pc, route, kind, asked, end, status, tier, announced>>
      /\ pc = "files" /\ at < asked /\ FileExists(at)
      /\ body' = body \o FileBody(at) /\ at' = at + EntriesPerFile
  BY DEF StreamFile, askVars
<1>2. ProducerTypes /\ ProducerTypes' /\ ProducerInv' /\ disk' = disk /\ lastSealed' = lastSealed
  BY <1>1, ReadOnly
<1>3. /\ route = "import" /\ ~failed /\ announced = NoLength
      /\ at \in Nat /\ asked \in Nat
      /\ body \in Seq(Item) /\ Len(body) = at
      /\ \A i \in 1..at : body[i].height = i - 1 /\ body[i].entry = disk[i - 1]
  BY <1>1, Streaming DEF Importing
<1>4. /\ FileBody(at) \in Seq(Item)
      /\ Len(FileBody(at)) = EntriesPerFile
      /\ \A i \in 1..EntriesPerFile :
            FileBody(at)[i] = [height |-> at + i - 1, entry |-> disk[at + i - 1]]
  BY <1>1, <1>2, <1>3, FileBodyType
<1>5. /\ body' \in Seq(Item) /\ Len(body') = at'
      /\ \A i \in 1..at : body'[i] = body[i]
      /\ \A i \in 1..EntriesPerFile : body'[at + i] = FileBody(at)[i]
  BY <1>1, <1>3, <1>4, Joined
<1>6. \A i \in 1..at' : body'[i].height = i - 1 /\ body'[i].entry = disk'[i - 1]
  <2> SUFFICES ASSUME NEW i \in 1..at'
               PROVE  body'[i].height = i - 1 /\ body'[i].entry = disk[i - 1]
    BY <1>2
  <2>1. CASE i \in 1..at
    BY <1>3, <1>5, <2>1
  <2>2. CASE i \notin 1..at
    <3>1. i - at \in 1..EntriesPerFile /\ at + (i - at) = i /\ at + (i - at) - 1 = i - 1
      BY <1>1, <1>3, <2>2, ServingAssumption
    <3>2. body'[at + (i - at)] = [height |-> at + (i - at) - 1, entry |-> disk[at + (i - at) - 1]]
      BY <1>4, <1>5, <3>1
    <3>. QED
      BY <3>1, <3>2
  <2>. QED
    BY <2>1, <2>2
<1>7. TypeOK'
  <2>1. at' \in Nat
    BY <1>1, <1>3, ServingAssumption
  <2>. QED
    BY <1>1, <1>2, <1>5, <2>1 DEF TypeOK, ProducerTypes, Item
<1>8. tier = "disk" => /\ asked <= lastSealed + 1
                       /\ at' <= asked /\ (asked - at') % EntriesPerFile = 0
  <2> SUFFICES ASSUME tier = "disk"
               PROVE  asked <= lastSealed + 1 /\ at' <= asked /\ (asked - at') % EntriesPerFile = 0
    OBVIOUS
  <2>1. asked <= lastSealed + 1 /\ (asked - at) % EntriesPerFile = 0
    BY <1>1 DEF ImportInv, Importing
  <2>2. asked - at \in Nat /\ asked - at > 0 /\ EntriesPerFile \in Nat \ {0}
    BY <1>1, <1>3, ServingAssumption
  <2>3. EntriesPerFile <= asked - at /\ (asked - at - EntriesPerFile) % EntriesPerFile = 0
    BY <2>1, <2>2, RoomForFile
  <2>4. at' <= asked /\ asked - at' = asked - at - EntriesPerFile
    BY <1>1, <1>3, <2>2, <2>3
  <2>. QED
    BY <2>1, <2>3, <2>4
<1>9. RequestInv'
  BY <1>1, <1>3 DEF RequestInv, Looking, Importing
<1>10. ImportInv'
  BY <1>1, <1>2, <1>3, <1>5, <1>6, <1>8 DEF ImportInv, Importing
<1>11. BodyConsecutive'
  <2>1. DOMAIN body' = 1..at'
    BY <1>5
  <2>2. \A i \in 1..at' : i - 1 = 0 + i - 1
    BY <1>1, <1>3, ServingAssumption
  <2>. QED
    BY <1>1, <1>3, <1>6, <2>1, <2>2 DEF BodyConsecutive
<1>12. DiskTierExact' /\ TruncationShows'
  BY <1>1 DEF DiskTierExact, TruncationShows
<1>. QED
  BY <1>2, <1>7, <1>9, <1>10, <1>11, <1>12

\* A file that cannot be read to its end ends the response.
LEMMA StreamFailsKeeps == ASSUME ServingInv, StreamFails PROVE ServingInv'
<1> USE DEF ServingInv
<1>1. /\ UNCHANGED producerVars
      /\ UNCHANGED <<route, kind, asked, at, end, tier, announced>>
      /\ pc = "files" /\ FileExists(at) /\ failed' = TRUE
      /\ pc' = "answered" /\ status' = 200
  BY DEF StreamFails, askVars, Answer
<1>2. ProducerTypes /\ ProducerTypes' /\ ProducerInv'
  BY <1>1, ReadOnly
<1>3. /\ route = "import" /\ at \in Nat
      /\ body \in Seq(Item) /\ Len(body) = at
      /\ \A i \in 1..at : body[i].height = i - 1
  BY <1>1, Streaming DEF Importing
<1>4. PICK n \in 0..(EntriesPerFile - 1) : body' = body \o SubSeq(FileBody(at), 1, n)
  BY DEF StreamFails
<1>5. /\ FileBody(at) \in Seq(Item)
      /\ Len(FileBody(at)) = EntriesPerFile
      /\ \A i \in 1..EntriesPerFile :
            FileBody(at)[i] = [height |-> at + i - 1, entry |-> disk[at + i - 1]]
  BY <1>1, <1>2, <1>3, FileBodyType
<1>6. n \in Nat /\ n <= EntriesPerFile
  BY ServingAssumption
<1> DEFINE part == SubSeq(FileBody(at), 1, n)
<1>7. /\ part \in Seq(Item) /\ Len(part) = n
      /\ \A i \in 1..n : part[i] = FileBody(at)[i]
  BY <1>5, <1>6
<1> HIDE DEF part
<1>8. /\ body' \in Seq(Item) /\ Len(body') = at + n
      /\ \A i \in 1..at : body'[i] = body[i]
      /\ \A i \in 1..n : body'[at + i] = part[i]
  <2>1. body' = body \o part
    BY <1>4 DEF part
  <2>. QED
    BY <1>3, <1>7, <2>1, Joined
<1>9. \A i \in 1..(at + n) : body'[i].height = 0 + i - 1
  <2> SUFFICES ASSUME NEW i \in 1..(at + n) PROVE body'[i].height = i - 1
    BY <1>3, <1>6
  <2>1. CASE i \in 1..at
    BY <1>3, <1>8, <2>1
  <2>2. CASE i \notin 1..at
    <3>1. /\ i - at \in 1..n /\ i - at \in 1..EntriesPerFile
          /\ at + (i - at) = i /\ at + (i - at) - 1 = i - 1
      BY <1>3, <1>6, <2>2, ServingAssumption
    <3>2. body'[at + (i - at)] = [height |-> at + (i - at) - 1, entry |-> disk[at + (i - at) - 1]]
      BY <1>5, <1>7, <1>8, <3>1
    <3>. QED
      BY <3>1, <3>2
  <2>. QED
    BY <2>1, <2>2
<1>10. TypeOK'
  BY <1>1, <1>2, <1>8 DEF TypeOK, ProducerTypes, Item
<1>11. RequestInv' /\ ImportInv' /\ DiskTierExact' /\ TruncationShows'
  BY <1>1, <1>3 DEF RequestInv, ImportInv, DiskTierExact, TruncationShows, Looking, Importing
<1>12. BodyConsecutive'
  <2>1. DOMAIN body' = 1..(at + n)
    BY <1>8
  <2>. QED
    BY <1>1, <1>3, <1>9, <2>1 DEF BodyConsecutive
<1>. QED
  BY <1>2, <1>10, <1>11, <1>12

\* All that was asked for has come from files.
LEMMA ImportDoneKeeps == ASSUME ServingInv, ImportDone PROVE ServingInv'
<1> USE DEF ServingInv
<1>1. /\ UNCHANGED producerVars
      /\ UNCHANGED <<failed, route, kind, asked, at, end, tier, announced, body>>
      /\ pc = "files" /\ at = asked /\ pc' = "answered" /\ status' = 200
  BY DEF ImportDone, askVars, Answer
<1>2. ProducerTypes' /\ ProducerInv' /\ disk' = disk
  BY <1>1, ReadOnly
<1>3. /\ route = "import" /\ asked \in Nat
      /\ body \in Seq(Item) /\ Len(body) = asked
      /\ \A i \in 1..asked : body[i].height = i - 1 /\ body[i].entry = disk[i - 1]
  BY <1>1, Streaming DEF Importing
<1>4. TypeOK'
  BY <1>1, <1>2 DEF TypeOK, ProducerTypes
<1>5. RequestInv' /\ ImportInv' /\ BodyConsecutive' /\ TruncationShows'
  BY <1>1, <1>3 DEF RequestInv, ImportInv, BodyConsecutive, TruncationShows, Looking, Importing
<1>6. DOMAIN body = 1..asked
  BY <1>3
<1>7. HeightsOf(body) = 0..(asked - 1)
  <2>1. HeightsOf(body) = {i - 1 : i \in 1..asked}
    BY <1>3, <1>6 DEF HeightsOf
  <2>2. \A h \in 0..(asked - 1) : h + 1 \in 1..asked /\ (h + 1) - 1 = h
    BY <1>3
  <2>3. \A i \in 1..asked : i - 1 \in 0..(asked - 1)
    BY <1>3
  <2>. QED
    BY <2>1, <2>2, <2>3
<1>8. DiskTierExact'
  <2>1. HeightsOf(body)' = HeightsOf(body)
    BY <1>1 DEF HeightsOf
  <2>2. \A i \in DOMAIN body : body[i].entry = disk[body[i].height]
    BY <1>3, <1>6
  <2>. QED
    BY <1>1, <1>2, <1>3, <1>7, <2>1, <2>2 DEF DiskTierExact
<1>. QED
  BY <1>2, <1>4, <1>5, <1>8

\* The memory is turned to only by a response with the memory tier: as long as
\* heights are asked for that are sealed, there is a file to stream.
LEMMA FilesDoneKeeps == ASSUME ServingInv, FilesDone PROVE ServingInv'
<1> USE DEF ServingInv
<1>1. /\ UNCHANGED producerVars
      /\ UNCHANGED <<failed, route, kind, asked, at, end, status, tier, announced, body>>
      /\ pc = "files" /\ pc' = "tailHash"
      /\ at > asked \/ (at < asked /\ ~FileExists(at))
  BY DEF FilesDone, askVars
<1>2. ProducerTypes' /\ ProducerInv' /\ disk' = disk
  BY <1>1, ReadOnly
<1>3. at \in Nat /\ asked \in Nat /\ body = body' /\ route = "import" /\ announced = NoLength
  BY <1>1, Streaming DEF Importing
<1>4. tier # "disk"
  <2> SUFFICES ASSUME tier = "disk" PROVE FALSE
    OBVIOUS
  <2>1. asked <= lastSealed + 1 /\ at <= asked /\ (asked - at) % EntriesPerFile = 0
    BY <1>1 DEF ImportInv, Importing
  <2>2. at < asked /\ ~FileExists(at)
    BY <1>1, <1>3, <2>1
  <2>3. asked - at \in Nat /\ asked - at > 0 /\ EntriesPerFile \in Nat \ {0}
    BY <1>3, <2>2, ServingAssumption
  <2>4. EntriesPerFile <= asked - at
    BY <2>1, <2>3, RoomForFile
  <2>5. lastSealed \in Int /\ lastSealed <= MaxHeight
    BY ServingAssumption DEF TypeOK
  <2>6. \A h \in at..(at + EntriesPerFile - 1) : h \in Heights /\ h <= lastSealed
    BY <1>3, <2>1, <2>3, <2>4, <2>5, ServingAssumption DEF Heights
  <2>7. FileExists(at)
    BY <2>6 DEF FileExists, FileHeights, ProducerInv
  <2>. QED
    BY <2>2, <2>7
<1>5. TypeOK'
  BY <1>1, <1>2 DEF TypeOK, ProducerTypes
<1>6. RequestInv'
  BY <1>1 DEF RequestInv, Looking, Importing
<1>7. ImportInv'
  BY <1>1, <1>2, <1>4 DEF ImportInv, Importing
<1>8. BodyConsecutive' /\ DiskTierExact' /\ TruncationShows'
  BY <1>1 DEF BodyConsecutive, DiskTierExact, TruncationShows
<1>. QED
  BY <1>2, <1>5, <1>6, <1>7, <1>8

\* The hash for the tail, or the text of an error in its place.
LEMMA TailHashKeeps == ASSUME ServingInv, TailHash PROVE ServingInv'
<1> USE DEF ServingInv
<1>1. /\ UNCHANGED producerVars
      /\ UNCHANGED <<route, kind, asked, at, end, tier, announced, body>>
      /\ pc = "tailHash"
      /\ \/ pc' = "tail" /\ UNCHANGED <<status, failed>>
         \/ pc' = "answered" /\ status' = 200 /\ failed' = TRUE
  BY DEF TailHash, askVars, Answer
<1>2. ProducerTypes' /\ ProducerInv' /\ disk' = disk
  BY <1>1, ReadOnly
<1>3. tier # "disk" /\ route = "import"
  BY <1>1 DEF ImportInv, RequestInv, Importing
<1>4. TypeOK'
  <2>1. CASE pc' = "tail" /\ UNCHANGED <<status, failed>>
    BY <1>1, <1>2, <2>1 DEF TypeOK, ProducerTypes
  <2>2. CASE pc' = "answered" /\ status' = 200 /\ failed' = TRUE
    BY <1>1, <1>2, <2>2 DEF TypeOK, ProducerTypes
  <2>. QED
    BY <1>1, <2>1, <2>2
<1>5. RequestInv'
  BY <1>1 DEF RequestInv, Looking, Importing
<1>6. ImportInv'
  BY <1>1, <1>2, <1>3 DEF ImportInv, Importing
<1>7. BodyConsecutive' /\ DiskTierExact' /\ TruncationShows'
  BY <1>1, <1>3 DEF BodyConsecutive, DiskTierExact, TruncationShows
<1>. QED
  BY <1>2, <1>4, <1>5, <1>6, <1>7

\* The tail from memory starts where the files end.
LEMMA SerializeTailKeeps == ASSUME ServingInv, SerializeTail PROVE ServingInv'
<1> USE DEF ServingInv
<1> DEFINE last == Int32(Int32(asked) - 1)
<1>1. /\ UNCHANGED producerVars
      /\ UNCHANGED <<failed, route, kind, asked, at, end, tier, announced>>
      /\ pc = "tail" /\ pc' = "answered" /\ status' = 200
      /\ Serialize(at, last)
  BY DEF SerializeTail, askVars, Answer
<1>2. ProducerTypes /\ ProducerTypes' /\ ProducerInv'
  BY <1>1, ReadOnly
<1>3. /\ route = "import" /\ at \in Nat /\ asked \in Nat
      /\ body \in Seq(Item) /\ Len(body) = at
      /\ \A i \in 1..at : body[i].height = i - 1
  BY <1>1, Streaming DEF Importing
<1>4. tier # "disk"
  BY <1>1 DEF ImportInv, Importing
<1>5. last \in Int
  <2>1. Int32(asked) - 1 \in Int
    BY <1>3, Int32Type
  <2>. QED
    BY <2>1, Int32Type
<1> HIDE DEF last
<1>6. PICK n \in 0..(MaxHeight + 1) : CanWrite(at, last, n) /\ body' = body \o MemBody(at, n)
  BY <1>1 DEF Serialize
<1>7. n \in Nat /\ at \in Int
  BY <1>3, ServingAssumption
<1> DEFINE part == MemBody(at, n)
<1>8. /\ part \in Seq(Item)
      /\ Len(part) = n
      /\ \A i \in 1..n : part[i].height = at + i - 1
  BY <1>2, <1>5, <1>6, <1>7, MemBodyType
<1>. HIDE DEF part
<1>9. /\ body' \in Seq(Item) /\ Len(body') = at + n
      /\ \A i \in 1..at : body'[i] = body[i]
      /\ \A i \in 1..n : body'[at + i] = part[i]
  <2>1. body' = body \o part
    BY <1>6 DEF part
  <2>. QED
    BY <1>3, <1>8, <2>1, Joined
<1>10. \A i \in 1..(at + n) : body'[i].height = 0 + i - 1
  <2> SUFFICES ASSUME NEW i \in 1..(at + n) PROVE body'[i].height = i - 1
    BY <1>3, <1>7
  <2>1. CASE i \in 1..at
    BY <1>3, <1>9, <2>1
  <2>2. CASE i \notin 1..at
    <3>1. i - at \in 1..n /\ at + (i - at) = i /\ at + (i - at) - 1 = i - 1
      BY <1>3, <1>7, <2>2
    <3>2. body'[at + (i - at)].height = at + (i - at) - 1
      BY <1>8, <1>9, <3>1
    <3>. QED
      BY <3>1, <3>2
  <2>. QED
    BY <2>1, <2>2
<1>11. TypeOK'
  BY <1>1, <1>2, <1>9 DEF TypeOK, ProducerTypes, Item
<1>12. RequestInv' /\ ImportInv' /\ DiskTierExact' /\ TruncationShows'
  BY <1>1, <1>3, <1>4 DEF RequestInv, ImportInv, DiskTierExact, TruncationShows, Looking, Importing
<1>13. BodyConsecutive'
  <2>1. DOMAIN body' = 1..(at + n)
    BY <1>9
  <2>. QED
    BY <1>1, <1>3, <1>10, <2>1 DEF BodyConsecutive
<1>. QED
  BY <1>2, <1>11, <1>12, <1>13

\* The next request starts with nothing written.
LEMMA NextRequestKeeps == ASSUME ServingInv, NextRequest PROVE ServingInv'
<1> USE DEF ServingInv
<1>1. UNCHANGED producerVars
  BY DEF NextRequest
<1>2. ProducerTypes' /\ ProducerInv'
  BY <1>1, ReadOnly
<1>3. TypeOK'
  <2>1. 0 \in Asked /\ 0 \in Heights
    BY ServingAssumption DEF Asked, Heights
  <2>. QED
    BY <1>2, <2>1 DEF NextRequest, TypeOK, ProducerTypes
<1>4. RequestInv' /\ ImportInv' /\ body' = <<>> /\ pc' # "answered"
  BY DEF NextRequest, RequestInv, ImportInv, Looking, Importing
<1>. QED
  BY <1>2, <1>3, <1>4, NothingWritten

-----------------------------------------------------------------------------
\* The invariant is inductive.
LEMMA ServingInvStep == ServingInv /\ [Next]_vars => ServingInv'
<1> SUFFICES ASSUME ServingInv, [Next]_vars PROVE ServingInv'
  OBVIOUS
<1>1. CASE Produce
  BY <1>1, ProduceKeeps
<1>2. CASE RangeRequest
  BY <1>2, AskKeeps, ServeRangeFileKeeps, RangeHashKeeps, AnnounceKeeps, SerializeRangeKeeps
     DEF RangeRequest
<1>3. CASE ImportRequest
  BY <1>3, AskKeeps, ChooseTierKeeps, StreamFileKeeps, StreamFailsKeeps, ImportDoneKeeps,
     FilesDoneKeeps, TailHashKeeps, SerializeTailKeeps
     DEF ImportRequest
<1>4. CASE NextRequest
  BY <1>4, NextRequestKeeps
<1>5. CASE UNCHANGED vars
  <2>1. UNCHANGED <<ready, current, lastSealed, mem, disk, pc, route, kind, asked, at, end,
                    status, tier, announced, failed, body>>
    BY <1>5 DEF vars, producerVars, requestVars, askVars
  <2>2. TypeOK' /\ ProducerInv' /\ ImportInv'
    BY <2>1 DEF ServingInv, TypeOK, ProducerInv, ImportInv, SealReady, NextEnd, NextFile
  <2>3. RequestInv'
    BY <2>1 DEF ServingInv, RequestInv, HeadersSize, Int32
  <2>4. BodyConsecutive' /\ DiskTierExact' /\ TruncationShows'
    BY <2>1 DEF ServingInv, BodyConsecutive, DiskTierExact, TruncationShows, HeightsOf,
                Bytes, Int32, FileHeights
  <2>. QED
    BY <2>2, <2>3, <2>4 DEF ServingInv
<1>. QED
  BY <1>1, <1>2, <1>3, <1>4, <1>5 DEF Next

\* The invariant holds throughout.
LEMMA ServingInvHolds == Spec => []ServingInv
BY ServingInvInit, ServingInvStep, PTL DEF Spec

\* Nothing is written for a height that has no entry, and no height that is
\* computed from a request leaves its range.
THEOREM ServedTypes == Spec => []TypeOK
<1>1. ServingInv => TypeOK
  BY DEF ServingInv
<1>. QED
  BY <1>1, ServingInvHolds, PTL

\* No response of the range or import handlers has a gap or a height twice.
THEOREM ServedWithoutGaps == Spec => []BodyConsecutive
<1>1. ServingInv => BodyConsecutive
  BY DEF ServingInv
<1>. QED
  BY <1>1, ServingInvHolds, PTL

\* A response with the disk tier is exactly what was asked for, as it is on disk.
THEOREM DiskTierIsExact == Spec => []DiskTierExact
<1>1. ServingInv => DiskTierExact
  BY DEF ServingInv
<1>. QED
  BY <1>1, ServingInvHolds, PTL

\* A response of headers from memory that lacks one is shorter than announced.
THEOREM TruncationAlwaysShows == Spec => []TruncationShows
<1>1. ServingInv => TruncationShows
  BY DEF ServingInv
<1>. QED
  BY <1>1, ServingInvHolds, PTL
=============================================================================
