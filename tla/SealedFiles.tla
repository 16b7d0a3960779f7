----------------------------- MODULE SealedFiles ---------------------------
(***************************************************************************)
(* How a producer puts a batch of files for one range of heights on disk,  *)
(* what it makes of them after a restart, and what the web server reads    *)
(* meanwhile.                                                              *)
(*                                                                         *)
(* FileProducer writes a batch in one step.  Here every file is created    *)
(* under its final name, filled, and closed, one kind after the other.     *)
(* The kinds are numbered in the order in which writeSealedFile writes     *)
(* them:                                                                   *)
(*    headers         .header (resume), .cfheader                          *)
(*    filters         .cfilter (resume)                                    *)
(*    SP tweaks       dust levels 3750, 1000, 600, 0 (resume)              *)
(*    custom filters  last configuration, ..., first configuration (resume)*)
(* A restarted producer looks at the names of the resume files only.       *)
(***************************************************************************)
EXTENDS Integers

CONSTANTS
    NumKinds,   \* files per batch
    Resume,     \* the kind whose directory lastFile scans
    MaxFiles    \* bound: batches the chain is long enough for

Kinds == 1..NumKinds
Batches == 0..(MaxFiles - 1)

ASSUME FilesAssumption ==
    /\ NumKinds \in Nat \ {0}
    /\ Resume \in Kinds
    /\ MaxFiles \in Nat

VARIABLES
    file,       \* file[k][n]: the file of kind k of batch n
    server,     \* the process: "down", "up", or "failing" (a producer gave up)
    startup,    \* startupComplete
    ready,      \* batches that are deep enough to be sealed
    sealed,     \* lastSealedHeight + 1, in batches
    writing,    \* the kind being written, 0 outside of writeSealedFile
    open,       \* its file is created and not yet closed
    response    \* what the last request was served from

procVars == <<server, startup, sealed, writing, open>>
vars == <<file, ready, procVars, response>>

Exists(k, n) == file[k][n] # "none"

\* Mutant: the directory of the first kind is scanned, whatever Resume says.
LastFileOfFirstKind ==
    IF \A n \in Batches : ~Exists(1, n) THEN 0
    ELSE 1 + CHOOSE n \in Batches :
                Exists(1, n) /\ \A m \in Batches : Exists(1, m) => m <= n

\* Mutant: resumes at the start of the last file instead of behind it.
LastFileAgain ==
    IF \A n \in Batches : ~Exists(Resume, n) THEN 0
    ELSE CHOOSE n \in Batches :
                Exists(Resume, n) /\ \A m \in Batches : Exists(Resume, m) => m <= n

\* lastFile: the batches up to the last one whose resume file has a name.
LastFile ==
    IF \A n \in Batches : ~Exists(Resume, n) THEN 0
    ELSE 1 + CHOOSE n \in Batches :
                /\ Exists(Resume, n)
                /\ \A m \in Batches : Exists(Resume, m) => m <= n

-----------------------------------------------------------------------------
\* The chain grows past the reorg-safe depth of one more batch.
BlocksArrive ==
    /\ ready < MaxFiles
    /\ ready' = ready + 1
    /\ UNCHANGED <<file, procVars, response>>

\* updateFiles, after a start of the process.
Start ==
    /\ server = "down"
    /\ server' = "up"
    /\ sealed' = LastFile
    /\ UNCHANGED <<file, ready, startup, writing, open, response>>

\* updateCacheAndFiles returns: nothing is left to seal.
CaughtUp ==
    /\ server = "up"
    /\ ~startup
    /\ writing = 0
    /\ sealed >= ready
    /\ startup' = TRUE
    /\ UNCHANGED <<file, ready, server, sealed, writing, open, response>>

-----------------------------------------------------------------------------
(* sealReadyFiles and the writeSealedFile hook. *)

\* Mutant: one batch too early.
WriteSealedFileEarly ==
    /\ server = "up"
    /\ writing = 0
    /\ sealed <= ready
    /\ writing' = 1
    /\ UNCHANGED <<file, ready, server, startup, sealed, open, response>>

WriteSealedFile ==
    /\ server = "up"
    /\ writing = 0
    /\ sealed < ready
    /\ writing' = 1
    /\ UNCHANGED <<file, ready, server, startup, sealed, open, response>>

\* os.Create: the file has its final name, and is empty even if it was
\* there before.
Create ==
    /\ server = "up"
    /\ writing \in Kinds
    /\ ~open
    /\ file' = [file EXCEPT ![writing][sealed] = "partial"]
    /\ open' = TRUE
    /\ UNCHANGED <<ready, server, startup, sealed, writing, response>>

\* The rest is written and the file is closed.
Close ==
    /\ open
    /\ file' = [file EXCEPT ![writing][sealed] = "complete"]
    /\ open' = FALSE
    /\ writing' = writing + 1
    /\ UNCHANGED <<ready, server, startup, sealed, response>>

\* Mutant: the loop over the files ends before the last one.
PromoteBeforeLast ==
    /\ server = "up"
    /\ writing = NumKinds
    /\ ~open
    /\ sealed' = sealed + 1
    /\ writing' = 0
    /\ UNCHANGED <<file, ready, server, startup, open, response>>

\* Every file of the batch is written: lastSealedHeight moves.
Promote ==
    /\ server = "up"
    /\ writing = NumKinds + 1
    /\ sealed' = sealed + 1
    /\ writing' = 0
    /\ UNCHANGED <<file, ready, server, startup, open, response>>

\* Creating a file fails, or writing or closing it in the middle: what is
\* written stays under its final name, and the producer returns the error.
WriteFails ==
    /\ server = "up"
    /\ writing \in Kinds
    /\ server' = "failing"
    /\ writing' = 0
    /\ open' = FALSE
    /\ UNCHANGED <<file, ready, startup, sealed, response>>

\* The process ends, in whatever way, and possibly while a file is open.
Stop ==
    /\ server # "down"
    /\ server' = "down"
    /\ startup' = FALSE
    /\ sealed' = 0
    /\ writing' = 0
    /\ open' = FALSE
    /\ UNCHANGED <<file, ready, response>>

-----------------------------------------------------------------------------
\* heightBasedRequestHandler: a file that exists is served as it is, for the
\* disk tier of the caches; otherwise the memory answers.
Serve ==
    /\ server # "down"
    /\ startup
    /\ \E k \in Kinds, n \in Batches :
          response' = IF Exists(k, n) THEN file[k][n] ELSE "memory"
    /\ UNCHANGED <<file, ready, procVars>>

-----------------------------------------------------------------------------
Init ==
    /\ file = [k \in Kinds |-> [n \in Batches |-> "none"]]
    /\ server = "down"
    /\ startup = FALSE
    /\ ready = 0
    /\ sealed = 0
    /\ writing = 0
    /\ open = FALSE
    /\ response = "memory"

Next == BlocksArrive \/ Start \/ CaughtUp \/ WriteSealedFile \/ Create \/ Close
        \/ Promote \/ WriteFails \/ Stop \/ Serve

Spec == Init /\ [][Next]_vars

-----------------------------------------------------------------------------
FileStates == {"none", "partial", "complete"}

\* Every variable has its type; in particular no batch is sealed that the
\* chain has no blocks for.
TypeOK ==
    /\ file \in [Kinds -> [Batches -> FileStates]]
    /\ server \in {"down", "up", "failing"}
    /\ startup \in BOOLEAN
    /\ ready \in 0..MaxFiles
    /\ sealed \in 0..MaxFiles
    /\ writing \in 0..(NumKinds + 1)
    /\ open \in BOOLEAN
    /\ response \in {"memory", "partial", "complete"}

\* "Its file must only appear on disk once all other files of the batch are
\* durable": of what counts as sealed, also after a restart that goes by the
\* names of the resume files alone, every file that is written before the
\* resume file is complete, wherever a crash or an error cut off a write.
RestOfBatchWhole ==
    \A n \in Batches : n < sealed =>
        \A k \in Kinds : k < Resume => file[k][n] = "complete"

BatchWhole(n) == \A k \in Kinds : file[k][n] = "complete"

\* "Both files are now durably on disk.  Promote lastSealedHeight": a running
\* producer counts one more batch as sealed only when all its files are
\* complete, although any earlier attempt may have left pieces of it behind.
PromotedBatchWhole ==
    [][server = "up" /\ sealed' = sealed + 1 => BatchWhole(sealed)]_vars

\* A sealed file is immutable: once every file of a batch is complete, none is
\* truncated or written again, not even if the process ends before the batch is
\* promoted and is started anew.
WholeBatchKept == [][\A n \in Batches : BatchWhole(n) => BatchWhole(n)']_vars

\* "The disk tier serves bytes that are durably on disk": no response for
\* the disk tier, which a CDN keeps for a year, is cut short.
DiskTierServesWholeFiles == response # "partial"

-----------------------------------------------------------------------------
(* The inductive invariants behind the theorems of SealedFilesProofs.       *)

\* Where the producer is in a batch: no batch is begun that is not ready.
StageInv ==
    /\ server # "up" => writing = 0
    /\ server = "down" => sealed = 0
    /\ open => writing \in Kinds
    /\ writing > 0 => sealed < ready

\* The resume file of a batch has a name only if everything before it in the
\* batch is complete, and what is written after it only if it has one; the
\* batches with a resume file have no gap, and end with the last sealed one or
\* the one that is about to be, of which nothing has been written ahead.
OrderInv ==
    /\ \A n \in Batches : \A k \in Kinds :
          k < Resume /\ Exists(Resume, n) => file[k][n] = "complete"
    /\ \A k \in Kinds : k < writing => file[k][sealed] = "complete"
    /\ \A n, m \in Batches : Exists(Resume, n) /\ m < n => Exists(Resume, m)
    /\ \A n \in Batches : \A k \in Kinds :
          k >= Resume /\ Exists(k, n) => Exists(Resume, n)
    /\ server # "down" => \A n \in Batches : n < sealed => Exists(Resume, n)
    /\ server = "up" =>
          \A n \in Batches : \A k \in Kinds :
              k >= Resume /\ Exists(k, n) /\ n >= sealed =>
                  n = sealed /\ (k < writing \/ (k = writing /\ open))

BatchInv == TypeOK /\ StageInv /\ OrderInv
=============================================================================
