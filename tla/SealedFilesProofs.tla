------------------------- MODULE SealedFilesProofs -------------------------
(***************************************************************************)
(* What the order in which a batch is written guarantees after a restart,  *)
(* for any number of files and batches and wherever a write is cut off:    *)
(* every file before the resume file is whole, only a whole batch is       *)
(* promoted, and a whole batch is never touched again.                     *)
(***************************************************************************)
EXTENDS SealedFiles, IntervalLemmas, TLAPS

\* lastFile finds the last batch that has a resume file.
LEMMA LastFileIsLast ==
    ASSUME TypeOK,
           \A n, m \in Batches : Exists(Resume, n) /\ m < n => Exists(Resume, m)
    PROVE  /\ LastFile \in 0..MaxFiles
           /\ \A n \in Batches : n < LastFile <=> Exists(Resume, n)
<1> DEFINE S == {n \in Batches : Exists(Resume, n)}
<1>1. CASE S = {}
  <2>1. \A n \in Batches : ~Exists(Resume, n)
    BY <1>1
  <2>2. LastFile = 0
    BY <2>1 DEF LastFile
  <2>. QED
    BY <2>1, <2>2, FilesAssumption DEF Batches
<1>2. CASE S # {}
  <2>1. MaxFiles - 1 \in Nat /\ S \in SUBSET (0..(MaxFiles - 1))
    BY <1>2, FilesAssumption DEF Batches
  <2>2. \E n \in S : \A m \in S : m <= n
    <3> HIDE DEF S
    <3>. QED
      BY <1>2, <2>1, GreatestElement
  <2>3. ~ \A n \in Batches : ~Exists(Resume, n)
    BY <1>2
  <2>4. PICK last \in Batches :
            /\ LastFile = 1 + last
            /\ Exists(Resume, last)
            /\ \A m \in Batches : Exists(Resume, m) => m <= last
    BY <2>2, <2>3 DEF LastFile
  <2>. QED
    BY <2>4, FilesAssumption DEF Batches
<1>. QED
  BY <1>1, <1>2

\* No file is on disk at first.
LEMMA BatchInvInit == Init => BatchInv
<1> SUFFICES ASSUME Init PROVE BatchInv
  OBVIOUS
<1>1. TypeOK
  <2>1. file \in [Kinds -> [Batches -> FileStates]]
    BY DEF Init, FileStates
  <2>2. 0 \in 0..MaxFiles /\ 0 \in 0..(NumKinds + 1)
    BY FilesAssumption
  <2>. QED
    BY <2>1, <2>2, Zenon DEF Init, TypeOK
<1>2. \A n \in Batches : \A k \in Kinds : file[k][n] = "none"
  BY DEF Init
<1>3. Resume \in Kinds /\ \A n \in Batches : \A k \in Kinds : ~Exists(k, n)
  BY <1>2, FilesAssumption DEF Exists
<1>4. StageInv /\ OrderInv
  BY <1>2, <1>3 DEF Init, StageInv, OrderInv, Kinds
<1>. QED
  BY <1>1, <1>4 DEF BatchInv

\* What creating and closing a file does to the files.
LEMMA WriteEffect ==
    ASSUME BatchInv, Create \/ Close
    PROVE  /\ sealed \in Batches /\ writing \in Kinds /\ server = "up" /\ sealed < ready
           /\ file' \in [Kinds -> [Batches -> FileStates]]
           /\ \A k \in Kinds : \A n \in Batches :
                 file'[k][n] = IF k = writing /\ n = sealed
                                 THEN IF Create THEN "partial" ELSE "complete"
                                 ELSE file[k][n]
<1> USE FilesAssumption DEF BatchInv, TypeOK, StageInv, FileStates, Kinds, Batches
<1>1. CASE Create
  <2>1. sealed \in Batches /\ writing \in Kinds /\ server = "up" /\ sealed < ready
    BY <1>1 DEF Create
  <2>. QED
    BY <1>1, <2>1 DEF Create
<1>2. CASE Close /\ ~Create
  <2>1. sealed \in Batches /\ writing \in Kinds /\ server = "up" /\ sealed < ready
    BY <1>2 DEF Close
  <2>. QED
    BY <1>2, <2>1 DEF Close
<1>. QED
  BY <1>1, <1>2

\* Creating opens a file, closing it moves on to the next.
LEMMA WriteControl ==
    /\ Create => /\ ~open /\ open' = TRUE
                 /\ UNCHANGED <<ready, server, startup, sealed, writing, response>>
    /\ Close => /\ open /\ open' = FALSE /\ writing' = writing + 1
                /\ UNCHANGED <<ready, server, startup, sealed, response>>
BY DEF Create, Close

\* Every step keeps types and stages, wherever it stops or fails.
LEMMA StageStep ==
    ASSUME BatchInv, [Next]_vars
    PROVE  TypeOK' /\ StageInv'
<1> USE FilesAssumption DEF BatchInv, TypeOK, StageInv, Kinds, procVars
<1>1. CASE BlocksArrive
  BY <1>1 DEF BlocksArrive
<1>2. CASE Start
  <2>1. LastFile \in 0..MaxFiles
    BY LastFileIsLast DEF OrderInv
  <2>2. ~open /\ writing = 0
    BY <1>2 DEF Start
  <2>. QED
    BY <1>2, <2>1, <2>2 DEF Start
<1>3. CASE CaughtUp
  BY <1>3 DEF CaughtUp
<1>4. CASE WriteSealedFile
  BY <1>4 DEF WriteSealedFile
<1>5. CASE Create
  <2>1. file' \in [Kinds -> [Batches -> FileStates]]
    BY <1>5, WriteEffect
  <2>. QED
    BY <1>5, <2>1 DEF Create
<1>6. CASE Close
  <2>1. file' \in [Kinds -> [Batches -> FileStates]] /\ writing \in Kinds /\ server = "up" /\ sealed < ready
    BY <1>6, WriteEffect
  <2>2. writing' \in 0..(NumKinds + 1)
    BY <1>6, <2>1 DEF Close
  <2>3. open' \in BOOLEAN
    BY <1>6, Zenon DEF Close
  <2>. QED
    BY <1>6, <2>1, <2>2, <2>3 DEF Close
<1>7. CASE Promote
  BY <1>7 DEF Promote
<1>8. CASE WriteFails
  <2>1. open' \in BOOLEAN /\ startup' \in BOOLEAN
    BY <1>8, Zenon DEF WriteFails
  <2>. QED
    BY <1>8, <2>1 DEF WriteFails
<1>9. CASE Stop
  <2>1. open' \in BOOLEAN /\ startup' \in BOOLEAN
    BY <1>9, Zenon DEF Stop
  <2>. QED
    BY <1>9, <2>1 DEF Stop
<1>10. CASE Serve
  <2>1. PICK k \in Kinds, n \in Batches : response' = IF Exists(k, n) THEN file[k][n] ELSE "memory"
    BY <1>10 DEF Serve
  <2>2. response' \in {"memory", "partial", "complete"}
    BY <2>1 DEF Exists, FileStates
  <2>. QED
    BY <1>10, <2>2 DEF Serve
<1>11. CASE UNCHANGED vars
  BY <1>11 DEF vars
<1>. QED
  BY <1>1, <1>2, <1>3, <1>4, <1>5, <1>6, <1>7, <1>8, <1>9, <1>10, <1>11 DEF Next

\* Every step keeps the order of the files within a batch and of the batches,
\* torn or not.
LEMMA OrderStep ==
    ASSUME BatchInv, [Next]_vars
    PROVE  OrderInv'
<1> USE FilesAssumption DEF BatchInv, TypeOK, StageInv, OrderInv, Exists, FileStates, Kinds, Batches, procVars
<1>1. CASE BlocksArrive
  BY <1>1 DEF BlocksArrive
<1>2. CASE Start
  <2>1. \A n \in Batches : n < LastFile <=> Exists(Resume, n)
    BY LastFileIsLast
  <2>2. LastFile \in 0..MaxFiles
    BY LastFileIsLast
  <2>3. ~open /\ writing = 0
    BY <1>2 DEF Start
  <2>. QED
    BY <1>2, <2>1, <2>2, <2>3 DEF Start
<1>3. CASE CaughtUp
  BY <1>3 DEF CaughtUp
<1>4. CASE WriteSealedFile
  BY <1>4 DEF WriteSealedFile
<1>5. CASE Create \/ Close
  <2>1. sealed \in Batches /\ writing \in Kinds /\ server = "up"
    BY <1>5, WriteEffect
  <2>2. \A k \in Kinds : \A n \in Batches :
            file'[k][n] = IF k = writing /\ n = sealed
                            THEN IF Create THEN "partial" ELSE "complete"
                            ELSE file[k][n]
    BY <1>5, WriteEffect
  <2>3. /\ UNCHANGED <<server, sealed>>
        /\ (writing' = writing /\ open' = TRUE) \/ (writing' = writing + 1 /\ ~Create)
    BY <1>5, WriteControl
  <2>4. \A n \in Batches : \A k \in Kinds :
            Exists(k, n)' <=> Exists(k, n) \/ (writing = k /\ n = sealed)
    BY <2>1, <2>2
  <2>5. \A n \in Batches : \A k \in Kinds :
            k < Resume /\ Exists(Resume, n)' => file'[k][n] = "complete"
    <3> SUFFICES ASSUME NEW n \in Batches, NEW k \in Kinds, k < Resume, Exists(Resume, n)'
                 PROVE  file'[k][n] = "complete"
      OBVIOUS
    <3>1. CASE writing = Resume /\ n = sealed
      <4>1. file[k][n] = "complete"
        BY <3>1
      <4>. QED
        BY <2>2, <3>1, <4>1
    <3>2. CASE ~ (writing = Resume /\ n = sealed)
      <4>1. Exists(Resume, n)
        BY <2>4, <3>2
      <4>2. file[k][n] = "complete"
        BY <4>1
      <4>3. ~ (k = writing /\ n = sealed)
        BY <2>1, <4>1
      <4>. QED
        BY <2>2, <4>2, <4>3
    <3>. QED
      BY <3>1, <3>2
  <2>6. \A k \in Kinds : k < writing' => file'[k][sealed] = "complete"
    BY <2>1, <2>2, <2>3
  <2>7. \A n, m \in Batches : Exists(Resume, n)' /\ m < n => Exists(Resume, m)'
    BY <2>1, <2>4
  <2>8. \A n \in Batches : n < sealed => Exists(Resume, n)'
    BY <2>1, <2>4
  <2>9. \A n \in Batches : \A k \in Kinds : k >= Resume /\ Exists(k, n)' /\ n >= sealed =>
            n = sealed /\ (k < writing' \/ (k = writing' /\ open'))
    BY <2>1, <2>3, <2>4
  <2>10. \A n \in Batches : \A k \in Kinds : k >= Resume /\ Exists(k, n)' => Exists(Resume, n)'
    <3> SUFFICES ASSUME NEW n \in Batches, NEW k \in Kinds, k >= Resume, Exists(k, n)'
                 PROVE  Exists(Resume, n)'
      OBVIOUS
    <3>1. CASE writing = k /\ n = sealed
      <4>1. k = Resume \/ file[Resume][sealed] = "complete"
        BY <3>1
      <4>. QED
        BY <2>4, <3>1, <4>1
    <3>2. CASE Exists(k, n)
      BY <2>4, <3>2
    <3>. QED
      BY <2>4, <3>1, <3>2
  <2>. QED
    BY <2>1, <2>3, <2>5, <2>6, <2>7, <2>8, <2>9, <2>10
<1>6. CASE Promote
  BY <1>6 DEF Promote
<1>7. CASE WriteFails
  BY <1>7 DEF WriteFails
<1>8. CASE Stop
  BY <1>8 DEF Stop
<1>9. CASE Serve
  BY <1>9 DEF Serve
<1>10. CASE UNCHANGED vars
  BY <1>10 DEF vars
<1>. QED
  BY <1>1, <1>2, <1>3, <1>4, <1>5, <1>6, <1>7, <1>8, <1>9, <1>10 DEF Next

\* The invariant is inductive.
LEMMA BatchInvStep == BatchInv /\ [Next]_vars => BatchInv'
BY StageStep, OrderStep DEF BatchInv

\* Every variable has its type wherever writes are cut off or fail; a producer
\* never counts more batches as sealed than there are, also after a restart that
\* took a half-written resume file for sealed.
THEOREM FilesTypeCorrect == Spec => []TypeOK
<1>1. BatchInv => TypeOK
  BY DEF BatchInv
<1>. QED
  BY <1>1, BatchInvInit, BatchInvStep, PTL DEF Spec

\* What lastFile relies on: whatever a restarted producer takes for sealed, the
\* files that writeSealedFile writes before the resume file are whole, wherever a
\* write was cut off.  The custom filter producer's header files and the higher
\* dust levels of the SP tweaks are such files; the header producer has none.
THEOREM WholeBeforeResume == Spec => []RestOfBatchWhole
<1>1. BatchInv => RestOfBatchWhole
  BY FilesAssumption DEF BatchInv, StageInv, OrderInv, Batches, RestOfBatchWhole
<1>. QED
  BY <1>1, BatchInvInit, BatchInvStep, PTL DEF Spec

\* lastSealedHeight is promoted over a batch only when all its files are on disk
\* in full, whichever pieces of it earlier attempts have left.
THEOREM PromotesWholeBatches == Spec => PromotedBatchWhole
<1>1. BatchInv /\ [Next]_vars => [server = "up" /\ sealed' = sealed + 1 => BatchWhole(sealed)]_vars
  <2> SUFFICES ASSUME BatchInv, Next, server = "up", sealed' = sealed + 1
               PROVE  BatchWhole(sealed)
    OBVIOUS
  <2>1. sealed \in Int /\ sealed # sealed + 1 /\ (sealed + 1 = 0 => FALSE)
    BY FilesAssumption DEF BatchInv, TypeOK
  <2>2. Promote
    BY <2>1 DEF Next, BlocksArrive, Start, CaughtUp, WriteSealedFile, Create, Close,
                WriteFails, Stop, Serve, procVars
  <2>. QED
    BY <2>2, FilesAssumption DEF Promote, BatchInv, OrderInv, BatchWhole, Kinds
<1>. QED
  BY <1>1, BatchInvInit, BatchInvStep, PTL DEF Spec, PromotedBatchWhole

\* A batch whose files are all complete is never truncated or written again,
\* through crashes, failed writes and restarts.
THEOREM WholeBatchesKept == Spec => WholeBatchKept
<1>1. BatchInv /\ [Next]_vars => [\A n \in Batches : BatchWhole(n) => BatchWhole(n)']_vars
  <2> SUFFICES ASSUME BatchInv, Next, NEW n \in Batches, BatchWhole(n)
               PROVE  BatchWhole(n)'
    OBVIOUS
  <2>1. CASE Create
    <3>1. /\ sealed \in Batches /\ writing \in Kinds /\ server = "up" /\ ~open
          /\ \A k \in Kinds : n # sealed => file'[k][n] = file[k][n]
      BY <2>1, WriteEffect, WriteControl
    <3>2. n # sealed
      <4> SUFFICES ASSUME n = sealed PROVE FALSE
        OBVIOUS
      <4>1. Exists(Resume, sealed) /\ Exists(writing, sealed)
        BY <3>1, FilesAssumption DEF BatchWhole, Exists
      <4>2. \A k \in Kinds : k >= Resume /\ Exists(k, sealed) => k < writing
        BY <3>1, FilesAssumption DEF BatchInv, OrderInv, Batches
      <4>3. Resume < writing
        BY <4>1, <4>2, FilesAssumption DEF Kinds
      <4>. QED
        BY <3>1, <4>1, <4>2, <4>3, FilesAssumption DEF Kinds
    <3>. QED
      BY <3>1, <3>2 DEF BatchWhole
  <2>2. CASE Close
    <3>1. \A k \in Kinds : file'[k][n] = IF k = writing /\ n = sealed THEN "complete" ELSE file[k][n]
      BY <2>2, WriteEffect, WriteControl
    <3>. QED
      BY <3>1 DEF BatchWhole
  <2>3. CASE ~Create /\ ~Close
    <3>1. file' = file
      BY <2>3 DEF Next, BlocksArrive, Start, CaughtUp, WriteSealedFile, Promote,
                  WriteFails, Stop, Serve
    <3>. QED
      BY <3>1 DEF BatchWhole
  <2>. QED
    BY <2>1, <2>2, <2>3
<1>. QED
  BY <1>1, BatchInvInit, BatchInvStep, PTL DEF Spec, WholeBatchKept
=============================================================================
