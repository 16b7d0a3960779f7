---------------------------- MODULE FileProducer ---------------------------
(***************************************************************************)
(* The file producers of block-dn and the server process that runs them.   *)
(*                                                                         *)
(* Every producer is one goroutine running producerBase.updateFiles: it    *)
(* catches up with the chain, then polls bitcoind once a second, ingests   *)
(* new blocks, seals a file once its last height is ReOrgSafeDepth blocks  *)
(* below the tip, and rolls its memory back when the chain reorganizes.    *)
(* The producers share the height-to-hash cache with each other and with   *)
(* the request handlers; every step of a producer that reads or writes the *)
(* cache, or asks bitcoind by height, is an action of its own.             *)
(*                                                                         *)
(* A producer's entry for a height (header, filter, tweaks...) is a        *)
(* function of the block it was made from, so an entry IS that block.      *)
(* Writing a file is one step here; SealedFiles takes it apart.            *)
(***************************************************************************)
EXTENDS H2HCache

CONSTANTS
    Producer,       \* the producers that are switched on
    Caller,         \* request handlers that call getBlockHash concurrently
    EntriesPerFile, \* EntriesPerFile[p]: heights per sealed file
    ReOrgSafeDepth  \* --reorg-safe-depth

\* start() always runs the header producer; the filter producer always runs
\* with it, the other two are optional.
ASSUME ProducerAssumption ==
    /\ "header" \in Producer
    /\ Producer \subseteq {"header", "filter", "sptweak", "custom"}
    /\ Caller \cap Producer = {}
    /\ EntriesPerFile \in [Producer -> Nat \ {0}]
    /\ ReOrgSafeDepth \in Nat

VARIABLES
    server,          \* the process: "down", "loading" (in start) or "up"
    quit,            \* the quit channel is closed
    pc,              \* pc[p]: where producer p is, or why it stopped
    next,            \* next[p]: the loop variable of updateCacheAndFiles
    target,          \* target[p]: the height the current round ingests up to
    current,         \* currentHeight
    lastSealed,      \* lastSealedHeight
    startupComplete, \* startupComplete
    mem,             \* mem[p][h]: p's unsealed entry for height h
    at,              \* at[p]: the height findCommonAncestor has walked to
    got,             \* got[a]: the hash a's getBlockHash call has obtained
    anchor,          \* anchor[p]: the block anchoring the start of a file
    disk             \* disk[p][h]: the entry for height h in a sealed file

producerVars == <<pc, next, target, current, lastSealed, startupComplete,
                  mem, at, got, anchor>>
vars == <<best, h2hVars, server, quit, producerVars, disk>>

\* A goroutine that has returned, and the error it returned with.
Failed == {"rpcError", "deepReorg", "refused"}
Stopped == Failed \cup {"shutdown"}

NoEntries == [h \in Heights |-> NoBlock]

-----------------------------------------------------------------------------
(* File boundaries. *)

NextEnd(p) == IF lastSealed[p] < 0 THEN EntriesPerFile[p] - 1
                                   ELSE lastSealed[p] + EntriesPerFile[p]
FileStart(p) == NextEnd(p) - EntriesPerFile[p] + 1
FileRange(p) == FileStart(p)..NextEnd(p)

\* lastFile: the last height of the last file on disk, 0 without any.
LastFile(p) ==
    IF \A h \in Heights : disk[p][h] = NoBlock THEN 0
    ELSE CHOOSE h \in Heights :
            /\ disk[p][h] # NoBlock
            /\ \A k \in Heights : disk[p][k] # NoBlock => k <= h

\* The in-memory map without the entries from lo to hi.
PruneLocked(m, lo, hi) == [h \in Heights |-> IF lo <= h /\ h <= hi THEN NoBlock ELSE m[h]]

-----------------------------------------------------------------------------
(* Control flow. *)

Goto(p, label) == pc' = [pc EXCEPT ![p] = label]

\* The end of a poll round's preparations: wait for the next tick if the
\* polled height brings nothing new, ingest what is missing otherwise.
Advance(p) ==
    /\ Goto(p, IF target[p] <= current[p] THEN "poll" ELSE "ingest")
    /\ next' = [next EXCEPT ![p] = current[p] + 1]

-----------------------------------------------------------------------------
(* getBlockHash, called by a producer to ingest a height and, by the filter *)
(* producer, to anchor both ends of a file it is about to seal.             *)

Looping(p) == pc[p] = "ingest" /\ next[p] <= target[p]
InLookup(p) == Looping(p) \/ pc[p] \in {"startAnchor", "endAnchor"}

Wanted(p) == CASE pc[p] = "ingest"      -> next[p]
               [] pc[p] = "startAnchor" -> FileStart(p) - 1
               [] pc[p] = "endAnchor"   -> NextEnd(p)

\* The lookup returns block b to the code that asked for it.
ReturnHash(p, b) ==
    /\ Goto(p, CASE pc[p] = "ingest"      -> "store"
                 [] pc[p] = "startAnchor" -> "endAnchor"
                 [] pc[p] = "endAnchor"   -> "verify")
    /\ got' = [got EXCEPT ![p] = IF pc[p] = "startAnchor" THEN NoBlock ELSE b]
    /\ anchor' = [anchor EXCEPT ![p] = IF pc[p] = "startAnchor" THEN b ELSE @]

\* updateCacheAndFiles looks at quit before every ingest.
StartsLookup(p) ==
    /\ InLookup(p)
    /\ got[p] = NoBlock
    /\ pc[p] = "ingest" => ~quit

LookupHit(p) ==
    /\ StartsLookup(p)
    /\ Cached(Wanted(p))
    /\ ReturnHash(p, heightToHash[Wanted(p)])
    /\ UNCHANGED <<best, h2hVars, server, quit, next, target, current,
                   lastSealed, startupComplete, mem, at, disk>>

LookupFetch(p) ==
    /\ StartsLookup(p)
    /\ ~Cached(Wanted(p))
    /\ got' = [got EXCEPT ![p] = GetBlockHash(Wanted(p))]
    /\ UNCHANGED <<best, h2hVars, server, quit, pc, next, target, current,
                   lastSealed, startupComplete, mem, at, anchor, disk>>

LookupInsert(p) ==
    /\ InLookup(p)
    /\ got[p] # NoBlock
    /\ InsertHash(got[p])
    /\ ReturnHash(p, got[p])
    /\ UNCHANGED <<best, server, quit, next, target, current, lastSealed,
                   startupComplete, mem, at, disk>>

-----------------------------------------------------------------------------
(* updateCacheAndFiles and sealReadyFiles. *)

\* The rest of the ingest hook: the data of the block is fetched by hash and
\* stored, and the height becomes the producer's tip.  No one else looks at the
\* map and the height of p in between: handlers do not read above the height.
Store(p) ==
    /\ pc[p] = "store"
    /\ mem' = [mem EXCEPT ![p][next[p]] = got[p]]
    /\ got' = [got EXCEPT ![p] = NoBlock]
    /\ current' = [current EXCEPT ![p] = next[p]]
    /\ Goto(p, "seal")
    /\ UNCHANGED <<best, h2hVars, server, quit, next, target, lastSealed,
                   startupComplete, at, anchor, disk>>

\* Mutant: sealed one block too early.
SealReadyEarly(p) == NextEnd(p) <= current[p] - ReOrgSafeDepth + 1

\* Can the next file be sealed?  If so the header producer verifies it
\* against bitcoind, the filter producer against two anchors it looks up in
\* the cache, the other two not at all.
SealReady(p) == NextEnd(p) <= current[p] - ReOrgSafeDepth

BeginSeal(p) ==
    /\ pc[p] = "seal"
    /\ SealReady(p)
    /\ Goto(p, CASE p = "header" -> "verify"
                 [] p = "filter" -> IF FileStart(p) > 0 THEN "startAnchor" ELSE "endAnchor"
                 [] OTHER        -> "write")
    /\ UNCHANGED <<best, h2hVars, server, quit, next, target, current,
                   lastSealed, startupComplete, mem, at, got, anchor, disk>>

NothingToSeal(p) ==
    /\ pc[p] = "seal"
    /\ ~SealReady(p)
    /\ Goto(p, "ingest")
    /\ next' = [next EXCEPT ![p] = next[p] + 1]
    /\ UNCHANGED <<best, h2hVars, server, quit, target, current, lastSealed,
                   startupComplete, mem, at, got, anchor, disk>>

\* Mutant: only the anchor is checked, not the links below it.
HeadersAnchored(p) ==
    /\ \A h \in FileRange(p) : mem[p][h] # NoBlock
    /\ mem[p][NextEnd(p)] = GetBlockHash(NextEnd(p))

\* verifyHeaders: every header links to the one before it, and the last one
\* is the block bitcoind reports at that height right now.
HeadersVerified(p) ==
    /\ \A h \in FileRange(p) : mem[p][h] # NoBlock
    /\ \A h \in FileRange(p) : h > FileStart(p) => PrevBlock(mem[p][h]) = mem[p][h - 1]
    /\ mem[p][NextEnd(p)] = GetBlockHash(NextEnd(p))

\* Mutant: only the last filter is compared with the end anchor.
FiltersAnchored(p) ==
    /\ \A h \in FileRange(p) : mem[p][h] # NoBlock
    /\ mem[p][NextEnd(p)] = got[p]

\* verifyFilters: the filter header chain from the start anchor over the
\* filters in memory closes at the filter header of the end anchor.  A
\* filter header commits to the filters of the whole chain below it, so it
\* closes exactly if start anchor and filters are the end anchor's ancestors.
FiltersVerified(p) ==
    /\ \A h \in FileRange(p) : mem[p][h] # NoBlock
    /\ \A h \in FileRange(p) : mem[p][h] = Anc[got[p]][h]
    /\ FileStart(p) > 0 => anchor[p] = Anc[got[p]][FileStart(p) - 1]

Verified(p) == IF p = "header" THEN HeadersVerified(p) ELSE FiltersVerified(p)

Verify(p) ==
    /\ pc[p] = "verify"
    /\ Goto(p, IF Verified(p) THEN "write" ELSE "refused")
    /\ got' = [got EXCEPT ![p] = NoBlock]
    /\ anchor' = [anchor EXCEPT ![p] = NoBlock]
    /\ UNCHANGED <<best, h2hVars, server, quit, next, target, current,
                   lastSealed, startupComplete, mem, at, disk>>

WriteSealedFile(p) ==
    /\ pc[p] = "write"
    /\ disk' = [disk EXCEPT ![p] =
            [h \in Heights |-> IF h \in FileRange(p) THEN mem[p][h] ELSE disk[p][h]]]
    /\ Goto(p, "promote")
    /\ UNCHANGED <<best, h2hVars, server, quit, next, target, current,
                   lastSealed, startupComplete, mem, at, got, anchor>>

\* Mutant: lastSealedHeight moves, the sealed entries stay in memory.
PromoteOnly(p) ==
    /\ pc[p] = "promote"
    /\ lastSealed' = [lastSealed EXCEPT ![p] = NextEnd(p)]
    /\ Goto(p, "seal")
    /\ UNCHANGED <<best, h2hVars, server, quit, next, target, current,
                   startupComplete, mem, at, got, anchor, disk>>

\* Prune the sealed entries and promote lastSealedHeight, under the lock;
\* then look whether another file can be sealed.
Promote(p) ==
    /\ pc[p] = "promote"
    /\ mem' = [mem EXCEPT ![p] = PruneLocked(mem[p], FileStart(p), NextEnd(p))]
    /\ lastSealed' = [lastSealed EXCEPT ![p] = NextEnd(p)]
    /\ Goto(p, "seal")
    /\ UNCHANGED <<best, h2hVars, server, quit, next, target, current,
                   startupComplete, at, got, anchor, disk>>

\* Every height of the round is ingested; at the end of the first round the
\* producer's data may be served.
RoundDone(p) ==
    /\ pc[p] = "ingest"
    /\ next[p] > target[p]
    /\ startupComplete' = [startupComplete EXCEPT ![p] = TRUE]
    /\ Goto(p, "poll")
    /\ UNCHANGED <<best, h2hVars, server, quit, next, target, current,
                   lastSealed, mem, at, got, anchor, disk>>

-----------------------------------------------------------------------------
(* The poll loop: tipReorged, handleReorg, findCommonAncestor, rollback.    *)

\* Mutant: the block count is taken to include the genesis block.
PollOneTooHigh(p) ==
    /\ pc[p] = "poll"
    /\ target' = [target EXCEPT ![p] = GetBlockCount + 1]
    /\ Goto(p, "reorg")
    /\ UNCHANGED <<best, h2hVars, server, quit, next, current, lastSealed,
                   startupComplete, mem, at, got, anchor, disk>>

\* The timer fires.  If quit is closed at that moment, select may take either.
Poll(p) ==
    /\ pc[p] = "poll"
    /\ target' = [target EXCEPT ![p] = GetBlockCount]
    /\ Goto(p, IF GetBlockCount = current[p] THEN "tipCheck" ELSE "reorg")
    /\ UNCHANGED <<best, h2hVars, server, quit, next, current, lastSealed,
                   startupComplete, mem, at, got, anchor, disk>>

\* Does p have an entry for height h that disagrees with bitcoind's block?
Disagrees(p, h) == mem[p][h] # NoBlock /\ mem[p][h] # GetBlockHash(h)

\* Mutant: an unchanged height is taken for an unchanged tip.
TipTrusted(p) ==
    /\ pc[p] = "tipCheck"
    /\ Goto(p, "poll")
    /\ UNCHANGED <<best, h2hVars, server, quit, next, target, current,
                   lastSealed, startupComplete, mem, at, got, anchor, disk>>

TipReorged(p) ==
    /\ pc[p] = "tipCheck"
    /\ Goto(p, IF Disagrees(p, current[p]) THEN "reorg" ELSE "poll")
    /\ UNCHANGED <<best, h2hVars, server, quit, next, target, current,
                   lastSealed, startupComplete, mem, at, got, anchor, disk>>

HandleReorg(p) ==
    /\ pc[p] = "reorg"
    /\ IF Disagrees(p, current[p])
         THEN /\ Goto(p, "walk")
              /\ at' = [at EXCEPT ![p] = current[p]]
              /\ UNCHANGED next
         ELSE Advance(p) /\ UNCHANGED at
    /\ UNCHANGED <<best, h2hVars, server, quit, target, current, lastSealed,
                   startupComplete, mem, got, anchor, disk>>

\* findCommonAncestor asks bitcoind for one height after the other.
WalkBack(p) ==
    /\ pc[p] = "walk"
    /\ at[p] > lastSealed[p]
    /\ mem[p][at[p]] = NoBlock \/ Disagrees(p, at[p])
    /\ at' = [at EXCEPT ![p] = at[p] - 1]
    /\ UNCHANGED <<best, h2hVars, server, quit, pc, next, target, current,
                   lastSealed, startupComplete, mem, got, anchor, disk>>

\* The walk reached the sealed files: the producer gives up.
DeepReorg(p) ==
    /\ pc[p] = "walk"
    /\ at[p] <= lastSealed[p]
    /\ Goto(p, "deepReorg")
    /\ at' = [at EXCEPT ![p] = 0]
    /\ UNCHANGED <<best, h2hVars, server, quit, next, target, current,
                   lastSealed, startupComplete, mem, got, anchor, disk>>

\* Mutant: the height above the common ancestor is not pruned.
RollbackTooHigh(p) ==
    /\ pc[p] = "walk"
    /\ at[p] > lastSealed[p]
    /\ mem[p][at[p]] # NoBlock /\ ~Disagrees(p, at[p])
    /\ mem' = [mem EXCEPT ![p] = PruneLocked(mem[p], at[p] + 2, current[p])]
    /\ current' = [current EXCEPT ![p] = at[p]]
    /\ at' = [at EXCEPT ![p] = 0]
    /\ Goto(p, "invalidate")
    /\ UNCHANGED <<best, h2hVars, server, quit, next, target, lastSealed,
                   startupComplete, got, anchor, disk>>

\* The walk found the common ancestor: rollback prunes the memory above it
\* under the producer's lock, and invalidates the shared cache after that.
Rollback(p) ==
    /\ pc[p] = "walk"
    /\ at[p] > lastSealed[p]
    /\ mem[p][at[p]] # NoBlock /\ ~Disagrees(p, at[p])
    /\ mem' = [mem EXCEPT ![p] = PruneLocked(mem[p], at[p] + 1, current[p])]
    /\ current' = [current EXCEPT ![p] = at[p]]
    /\ at' = [at EXCEPT ![p] = 0]
    /\ Goto(p, "invalidate")
    /\ UNCHANGED <<best, h2hVars, server, quit, next, target, lastSealed,
                   startupComplete, got, anchor, disk>>

InvalidateCache(p) ==
    /\ pc[p] = "invalidate"
    /\ Invalidate(current[p] + 1)
    /\ Advance(p)
    /\ UNCHANGED <<best, server, quit, target, current, lastSealed,
                   startupComplete, mem, at, got, anchor, disk>>

-----------------------------------------------------------------------------
(* Failures and shutdown. *)

\* A request to bitcoind fails and the producer returns the error.  (The SP
\* tweak producer records a height's hash before it fetches the block.)
RpcError(p) ==
    /\ \/ StartsLookup(p)
       \/ pc[p] \in {"store", "verify", "poll", "reorg", "walk"}
    /\ Goto(p, "rpcError")
    /\ mem' = IF pc[p] = "store" /\ p = "sptweak"
                THEN [mem EXCEPT ![p][next[p]] = got[p]] ELSE mem
    /\ got' = [got EXCEPT ![p] = NoBlock]
    /\ anchor' = [anchor EXCEPT ![p] = NoBlock]
    /\ at' = [at EXCEPT ![p] = 0]
    /\ UNCHANGED <<best, h2hVars, server, quit, next, target, current,
                   lastSealed, startupComplete, disk>>

\* tipReorged takes a failed request for "no reorg".
TipCheckFails(p) ==
    /\ pc[p] = "tipCheck"
    /\ Goto(p, "poll")
    /\ UNCHANGED <<best, h2hVars, server, quit, next, target, current,
                   lastSealed, startupComplete, mem, at, got, anchor, disk>>

\* The goroutine sees the closed quit channel.
Shutdown(p) ==
    /\ quit
    /\ pc[p] = "poll" \/ (Looping(p) /\ got[p] = NoBlock)
    /\ Goto(p, "shutdown")
    /\ UNCHANGED <<best, h2hVars, server, quit, next, target, current,
                   lastSealed, startupComplete, mem, at, got, anchor, disk>>

\* Mutant: main goes on when a producer cannot reach bitcoind.
StopUnlessRpcError ==
    /\ server = "up"
    /\ ~quit
    /\ \E p \in Producer : pc[p] \in Failed \ {"rpcError"}
    /\ quit' = TRUE
    /\ UNCHANGED <<best, h2hVars, server, producerVars, disk>>

\* main stops the server when a producer reports an error...
StopOnError ==
    /\ server = "up"
    /\ ~quit
    /\ \E p \in Producer : pc[p] \in Failed
    /\ quit' = TRUE
    /\ UNCHANGED <<best, h2hVars, server, producerVars, disk>>

\* ... or on a signal.
Interrupt ==
    /\ server = "up"
    /\ ~quit
    /\ quit' = TRUE
    /\ UNCHANGED <<best, h2hVars, server, producerVars, disk>>

\* A process that is not running has no memory; the files stay.
NoProcess ==
    /\ server' = "down"
    /\ quit' = FALSE
    /\ heightToHash' = NoEntries
    /\ bestHeight' = 0
    /\ pc' = [p \in Producer |-> "shutdown"]
    /\ next' = [p \in Producer |-> 0]
    /\ target' = [p \in Producer |-> 0]
    /\ current' = [p \in Producer |-> 0]
    /\ lastSealed' = [p \in Producer |-> -1]
    /\ startupComplete' = [p \in Producer |-> FALSE]
    /\ mem' = [p \in Producer |-> NoEntries]
    /\ at' = [p \in Producer |-> 0]
    /\ got' = [a \in Producer \cup Caller |-> NoBlock]
    /\ anchor' = [p \in Producer |-> NoBlock]

\* stop waits for every goroutine, then the process ends.
Exit ==
    /\ server = "up"
    /\ quit
    /\ \A p \in Producer : pc[p] \in Stopped
    /\ \A c \in Caller : got[c] = NoBlock
    /\ NoProcess
    /\ UNCHANGED <<best, disk>>

Crash ==
    /\ server # "down"
    /\ NoProcess
    /\ UNCHANGED <<best, disk>>

-----------------------------------------------------------------------------
(* start. *)

\* The cache is loaded from the header files, and its last entry must be the
\* block bitcoind has at that height: otherwise start fails and the process
\* ends at once.
LoadCache ==
    /\ server = "down"
    /\ LET files == disk["header"]
           last  == IF files = NoEntries THEN -1 ELSE LastFile("header")
       IN  IF last >= 0 => files[last] = GetBlockHash(last)
             THEN LoadFromHeaders(files, last) /\ server' = "loading"
             ELSE UNCHANGED <<h2hVars, server>>
    /\ UNCHANGED <<best, quit, producerVars, disk>>

\* Mutant: the producers start over and ignore their files.
LaunchFromScratch ==
    /\ server = "loading"
    /\ lastSealed' = [p \in Producer |-> -1]
    /\ current' = [p \in Producer |-> 0]
    /\ next' = [p \in Producer |-> 0]
    /\ target' = [p \in Producer |-> GetBlockCount]
    /\ pc' = [p \in Producer |-> "ingest"]
    /\ server' = "up"
    /\ UNCHANGED <<best, h2hVars, quit, startupComplete, mem, at, got, anchor, disk>>

\* Every producer resumes behind its last file and catches up with the block
\* count read here, once.
Launch ==
    /\ server = "loading"
    /\ LET resumed(p) == LastFile(p) > 0
       IN  /\ lastSealed' = [p \in Producer |-> IF resumed(p) THEN LastFile(p) ELSE -1]
           /\ current' = [p \in Producer |-> IF resumed(p) THEN LastFile(p) ELSE 0]
           /\ next' = [p \in Producer |-> IF resumed(p) THEN LastFile(p) + 1 ELSE 0]
    /\ target' = [p \in Producer |-> GetBlockCount]
    /\ pc' = [p \in Producer |-> "ingest"]
    /\ server' = "up"
    /\ UNCHANGED <<best, h2hVars, quit, startupComplete, mem, at, got, anchor, disk>>

-----------------------------------------------------------------------------
(* Other callers of getBlockHash: request handlers, for any height a client *)
(* names, and the prefetcher, for the heights ahead of a producer.          *)

CallerFetch(c) ==
    /\ server = "up"
    /\ ~quit            \* stop closes the listener: no request starts after it
    /\ got[c] = NoBlock
    /\ \E h \in 0..GetBlockCount :
        /\ ~Cached(h)
        /\ got' = [got EXCEPT ![c] = GetBlockHash(h)]
    /\ UNCHANGED <<best, h2hVars, server, quit, pc, next, target, current,
                   lastSealed, startupComplete, mem, at, anchor, disk>>

CallerInsert(c) ==
    /\ got[c] # NoBlock
    /\ InsertHash(got[c])
    /\ got' = [got EXCEPT ![c] = NoBlock]
    /\ UNCHANGED <<best, server, quit, pc, next, target, current, lastSealed,
                   startupComplete, mem, at, anchor, disk>>

-----------------------------------------------------------------------------
Init ==
    /\ BackendInit
    /\ H2HInit
    /\ server = "down"
    /\ quit = FALSE
    /\ pc = [p \in Producer |-> "shutdown"]
    /\ next = [p \in Producer |-> 0]
    /\ target = [p \in Producer |-> 0]
    /\ current = [p \in Producer |-> 0]
    /\ lastSealed = [p \in Producer |-> -1]
    /\ startupComplete = [p \in Producer |-> FALSE]
    /\ mem = [p \in Producer |-> NoEntries]
    /\ at = [p \in Producer |-> 0]
    /\ got = [a \in Producer \cup Caller |-> NoBlock]
    /\ anchor = [p \in Producer |-> NoBlock]
    /\ disk = [p \in Producer |-> NoEntries]

\* What the goroutine of p does by itself, bitcoind answering.
Step(p) ==
    \/ LookupHit(p) \/ LookupFetch(p) \/ LookupInsert(p)
    \/ Store(p) \/ BeginSeal(p) \/ NothingToSeal(p)
    \/ Verify(p) \/ WriteSealedFile(p) \/ Promote(p) \/ RoundDone(p)
    \/ Poll(p) \/ TipReorged(p) \/ HandleReorg(p)
    \/ WalkBack(p) \/ DeepReorg(p) \/ Rollback(p) \/ InvalidateCache(p)
    \/ Shutdown(p)

Next ==
    \/ ChainMoves /\ UNCHANGED <<h2hVars, server, quit, producerVars, disk>>
    \/ \E p \in Producer : Step(p) \/ RpcError(p) \/ TipCheckFails(p)
    \/ \E c \in Caller : CallerFetch(c) \/ CallerInsert(c)
    \/ StopOnError \/ Interrupt \/ Exit \/ Crash
    \/ LoadCache \/ Launch

Spec == Init /\ [][Next]_vars

\* Goroutines that can run do run, a call of getBlockHash returns, and main
\* picks up a reported error.  The request in tipReorged does not fail for
\* ever ("network blip; let the next tick try again").  A producer that comes
\* back to its select with quit closed returns, since its new timer takes a
\* second.  Nothing restarts the process by itself and the chain need not move.
Fairness ==
    /\ \A p \in Producer : WF_vars(Step(p)) /\ SF_vars(TipReorged(p)) /\ SF_vars(Shutdown(p))
    /\ \A c \in Caller : WF_vars(CallerInsert(c))
    /\ WF_vars(StopOnError)
    /\ WF_vars(Exit)

FairSpec == Spec /\ Fairness

-----------------------------------------------------------------------------
(* What must hold. *)

PcLabels == {"ingest", "store", "seal", "startAnchor", "endAnchor", "verify",
             "write", "promote", "poll", "tipCheck", "reorg", "walk",
             "invalidate"} \cup Stopped

\* Every variable has its type; in particular no height a producer computes
\* leaves the range of heights that blocks have.
TypeOK ==
    /\ best \in Block
    /\ heightToHash \in [Heights -> MaybeBlock]
    /\ bestHeight \in -1..MaxHeight
    /\ server \in {"down", "loading", "up"}
    /\ quit \in BOOLEAN
    /\ pc \in [Producer -> PcLabels]
    /\ next \in [Producer -> 0..(MaxHeight + 1)]
    /\ target \in [Producer -> Heights]
    /\ current \in [Producer -> Heights]
    /\ lastSealed \in [Producer -> -1..MaxHeight]
    /\ startupComplete \in [Producer -> BOOLEAN]
    /\ mem \in [Producer -> [Heights -> MaybeBlock]]
    /\ at \in [Producer -> -1..MaxHeight]
    /\ got \in [Producer \cup Caller -> MaybeBlock]
    /\ anchor \in [Producer -> MaybeBlock]
    /\ disk \in [Producer -> [Heights -> MaybeBlock]]

\* headerFiles.writeSealedFile: a block header in a sealed file is on
\* bitcoind's best chain, and stays on it, whatever the cache held and
\* however the reorgs (of at most ReOrgSafeDepth blocks) fell between the
\* steps of the producer.
HeaderFilesOnBestChain ==
    \A h \in Heights :
        disk["header"][h] # NoBlock => disk["header"][h] = GetBlockHash(h)

\* A running producer holds every height up to its current height, each one
\* on disk or in memory, and nothing above it: no roll back, no seal, no
\* restart leaves a gap that a reader would fall into, or a leftover.
Held(p) == {h \in Heights : disk[p][h] # NoBlock \/ mem[p][h] # NoBlock}

NothingMissing ==
    \A p \in Producer :
        (server = "up" /\ pc[p] \notin Stopped /\ next[p] > 0) => Held(p) = 0..current[p]

\* pruneLocked and lastSealedHeight move together: what is in memory is
\* what is above the last sealed height.
MemoryIsTail ==
    \A p \in Producer : \A h \in Heights : mem[p][h] # NoBlock => h > lastSealed[p]

\* invalidate stops at bestHeight, so an entry above it would outlive every
\* later reorg.
CacheBelowBestHeight ==
    \A h \in Heights : Cached(h) => h <= bestHeight

\* The lowest unsealed entry of p, above a sealed file, is not bitcoind's block.
StaleForGood(p) ==
    /\ lastSealed[p] \in 0..(MaxHeight - 1)
    /\ Disagrees(p, lastSealed[p] + 1)

\* errDeepReorg, "reorg deeper than --reorg-safe-depth": with reorgs of fewer
\* than ReOrgSafeDepth blocks a producer gives up only if its lowest unsealed
\* entry is off the best chain for good.  No such reorg can have disconnected
\* that block since the file below it was sealed: the entry was stale then.
DeepReorgOnlyIfStale ==
    \A p \in Producer : pc[p] = "deepReorg" => StaleForGood(p)

\* cFilterFiles.verifyFilters: the filters of a sealed file are those of one
\* chain.
FilterFilesOnOneChain ==
    \A h \in Heights :
        /\ (h + 1) % EntriesPerFile["filter"] # 0
        /\ h < MaxHeight
        /\ disk["filter"][h + 1] # NoBlock
        => disk["filter"][h] = PrevBlock(disk["filter"][h + 1])

\* Whatever is sealed, by any producer, is on the best chain and stays on it:
\* "verifyFilters proves that the in-memory filters ... are the filters of the
\* current best chain", and the caches are told to keep every sealed file.
SealedFilesOnBestChain ==
    \A p \in Producer : \A h \in Heights :
        disk[p][h] # NoBlock => disk[p][h] = GetBlockHash(h)

\* A sealed file is never rewritten: not by a deep reorg, not after a crash
\* and a restart on another branch.
SealedFilesImmutable ==
    [][\A p \in Producer : \A h \in Heights :
          disk[p][h] # NoBlock => disk'[p][h] = disk[p][h]]_vars

\* An error of one producer takes the whole process down.
ErrorEndsProcess ==
    (server = "up" /\ \E p \in Producer : pc[p] \in Failed) ~> (server = "down")

Synced(p) == current[p] = Height[best] /\ mem[p][current[p]] = best

\* If the chain comes to rest and the process stays up, every producer ends
\* up with the best chain's tip as its own.
ProducersCatchUp ==
    (<>[][FALSE]_best /\ <>[](server = "up")) => <>[](\A p \in Producer : Synced(p))

-----------------------------------------------------------------------------
(* The inductive invariants behind the theorems of FileProducerProofs.      *)

Sealing == {"startAnchor", "endAnchor", "verify", "write", "promote"}

\* The loop variables of updateCacheAndFiles, sealReadyFiles and
\* findCommonAncestor agree with the fields they are compared with.
LoopsInRange ==
    \A p \in Producer :
        /\ pc[p] = "store" => next[p] <= target[p]
        /\ pc[p] \in Sealing \cup {"seal"} => next[p] = current[p]
        /\ pc[p] \in Sealing => SealReady(p)
        /\ pc[p] = "startAnchor" => FileStart(p) > 0
        /\ pc[p] = "walk" => at[p] <= current[p]

\* bitcoind has every height a producer has reached or is heading for.
HeightsKnown ==
    \A p \in Producer : target[p] <= Height[best] /\ current[p] <= Height[best]

\* sealReadyFiles: what is on disk is ReOrgSafeDepth blocks deep or deeper.
FilesBuried ==
    \A p \in Producer : \A h \in Heights :
        disk[p][h] # NoBlock => h + ReOrgSafeDepth <= Height[best]

IndInv ==
    /\ TypeOK
    /\ LoopsInRange
    /\ HeightsKnown
    /\ FilesBuried
    /\ CacheBelowBestHeight

\* The greatest height that p has an entry for, in memory or in a file: in
\* the ingest loop the next one is not there yet.
Tip(p) == IF pc[p] \in {"ingest", "store"} THEN next[p] - 1 ELSE current[p]

\* The greatest height in p's files: a file is written, then promoted.
SealedTop(p) == IF pc[p] = "promote" THEN NextEnd(p) ELSE lastSealed[p]

\* p's files have no gap, and a file that is there is there in full.
FilesWhole(p) ==
    \A h \in Heights : disk[p][h] # NoBlock =>
        /\ \A k \in 0..h : disk[p][k] # NoBlock
        /\ (h + 1) % EntriesPerFile[p] # 0 => h < MaxHeight /\ disk[p][h + 1] # NoBlock

\* What p's memory and p's files hold, told from its heights: the files all
\* up to lastSealedHeight, which ends a file, the memory all above it.  A
\* goroutine that has returned may leave one height more in memory.
DataInv(p) ==
    /\ FilesWhole(p)
    /\ server # "up" => pc[p] = "shutdown" /\ mem[p] = NoEntries
    /\ server = "up" =>
          /\ \A h \in Heights : disk[p][h] # NoBlock <=> h <= SealedTop(p)
          /\ (lastSealed[p] + 1) % EntriesPerFile[p] = 0
    /\ \A h \in Heights : mem[p][h] # NoBlock => h > lastSealed[p]
    /\ server = "up" /\ pc[p] \notin Stopped =>
          /\ lastSealed[p] <= Tip(p)
          /\ \A h \in Heights : lastSealed[p] < h /\ h <= Tip(p) => mem[p][h] # NoBlock
          /\ \A h \in Heights : mem[p][h] # NoBlock => h <= Tip(p)
          /\ pc[p] \in {"ingest", "store"} /\ next[p] > 0 => current[p] = next[p] - 1

\* A hash is where its block's height says, also the one a lookup of p has
\* obtained, and outside of a lookup p has none.
HashInv(p) ==
    /\ \A h \in Heights : mem[p][h] # NoBlock => Height[mem[p][h]] = h
    /\ \A h \in Heights : disk[p][h] # NoBlock => Height[disk[p][h]] = h
    /\ pc[p] \notin {"store", "verify"} /\ got[p] # NoBlock =>
          InLookup(p) /\ Height[got[p]] = Wanted(p)
    /\ pc[p] = "store" => got[p] # NoBlock /\ Height[got[p]] = next[p]
    /\ pc[p] = "verify" /\ p # "header" => got[p] # NoBlock /\ Height[got[p]] = NextEnd(p)

CacheInPlace == \A h \in Heights : Cached(h) => Height[heightToHash[h]] = h

\* Verified filters that wait to be written link to each other.
FilterInv ==
    /\ FilterFilesOnOneChain
    /\ pc["filter"] = "write" =>
          \A h \in FileRange("filter") :
              h > FileStart("filter") => mem["filter"][h - 1] = PrevBlock(mem["filter"][h])

\* A walk that has passed the lowest unsealed height has found it stale.
WalkInv ==
    \A p \in Producer :
        pc[p] = "walk" /\ at[p] <= lastSealed[p] => StaleForGood(p)

StoreInv == CacheInPlace /\ \A p \in Producer : DataInv(p) /\ HashInv(p)

\* Verified headers that wait to be written are on the best chain, too.
HeaderInv ==
    /\ HeaderFilesOnBestChain
    /\ pc["header"] = "write" =>
          \A h \in FileRange("header") : mem["header"][h] = GetBlockHash(h)

-----------------------------------------------------------------------------
\* The sealed header files are the append-only log of the best chain that
\* SealedLog describes: files appear one after the other, whole, from the
\* best chain and deep enough, and are never touched again.
HeaderLog == INSTANCE SealedLog WITH
    log <- disk["header"], FileSize <- EntriesPerFile["header"], SafeDepth <- ReOrgSafeDepth
HeaderFilesAreSealedLog == HeaderLog!LogSpec
=============================================================================
