----------------------------- MODULE H2HCache ------------------------------
(***************************************************************************)
(* heightToHashCache: the one map from heights to block hashes that every  *)
(* producer, the prefetcher and every request handler share.               *)
(*                                                                         *)
(* getBlockHash is not atomic on a miss: the hash is fetched from bitcoind *)
(* under the read lock, both locks are free for a moment, and only then is *)
(* it inserted under the write lock.  The actions of the callers are       *)
(* therefore built from three operators: a hit, a fetch and an insert.     *)
(***************************************************************************)
EXTENDS Backend

VARIABLES
    heightToHash,   \* height -> hash, NoBlock where the map has no entry
    bestHeight      \* the greatest height inserted, -1 if none was loaded

h2hVars == <<heightToHash, bestHeight>>

Cached(h) == heightToHash[h] # NoBlock

\* Mutant: the best height is left to whoever moves the tip.
InsertHashOnly(b) ==
    /\ heightToHash' = [heightToHash EXCEPT ![Height[b]] = b]
    /\ UNCHANGED bestHeight

\* The second half of a miss: the fetched hash b goes into the map, whatever
\* happened to the map or the chain since it was fetched.
InsertHash(b) ==
    /\ heightToHash' = [heightToHash EXCEPT ![Height[b]] = b]
    /\ bestHeight' = IF Height[b] > bestHeight THEN Height[b] ELSE bestHeight

\* The loop runs from fromHeight to bestHeight: an entry above bestHeight
\* would survive it.
Invalidate(fromHeight) ==
    /\ heightToHash' = [h \in Heights |->
            IF fromHeight <= h /\ h <= bestHeight THEN NoBlock ELSE heightToHash[h]]
    /\ bestHeight' = fromHeight - 1

\* The cache of a new process, filled from the sealed header files
\* (files[h] is the header on disk at height h, last the last one's height).
LoadFromHeaders(files, last) ==
    /\ heightToHash' = files
    /\ bestHeight' = last

H2HInit ==
    /\ heightToHash = [h \in Heights |-> NoBlock]
    /\ bestHeight = 0
=============================================================================
