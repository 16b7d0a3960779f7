----------------------------- MODULE CacheLocks ----------------------------
(***************************************************************************)
(* The read-write lock of heightToHashCache and everything that takes it:  *)
(* getBlockHash, invalidate, and the request handlers that call            *)
(* getBlockHash while they hold the read lock themselves.                  *)
(*                                                                         *)
(* sync.RWMutex (external) lets readers in together until a goroutine      *)
(* calls Lock.  From then on a goroutine that calls RLock is parked, even  *)
(* one that holds the read lock already; the writer enters when every read *)
(* lock is released, and its Unlock admits everyone parked.                *)
(***************************************************************************)
EXTENDS Integers

CONSTANTS
    Worker,     \* goroutines that call getBlockHash with no lock held (the
                \* producers, /filters/single) or invalidate (the producers)
    Holder,     \* handlers that hold the read lock around getBlockHash
    NoAgent,    \* "nobody"
    Asks,       \* Asks[a]: the heights a may ask for
    Forgets,    \* the heights from which a roll back may invalidate
    Preloaded   \* the heights in the cache when the web server starts

Agent == Worker \cup Holder
Heights == UNION {Asks[a] : a \in Agent}

ASSUME AgentAssumption ==
    /\ Worker \cap Holder = {}
    /\ NoAgent \notin Agent
    /\ DOMAIN Asks = Agent
    /\ Heights \subseteq Int
    /\ Forgets \subseteq Int
    /\ Preloaded \subseteq Heights

VARIABLES
    cached,     \* the heights that have an entry in heightToHash
    pc,         \* pc[a]: where a is
    want,       \* want[a]: the height a looks up, or invalidates from
    readers,    \* readers[a]: how many read locks a holds
    parked,     \* the goroutines that RLock has parked
    wlock       \* the goroutine whose Lock call is next, or has returned

lockVars == <<readers, parked, wlock>>
vars == <<cached, pc, want, lockVars>>

Goto(a, label) == pc' = [pc EXCEPT ![a] = label]

-----------------------------------------------------------------------------
(* sync.RWMutex. *)

RLock(a) ==
    /\ IF wlock = NoAgent
         THEN readers' = [readers EXCEPT ![a] = @ + 1] /\ UNCHANGED parked
         ELSE parked' = parked \cup {a} /\ UNCHANGED readers
    /\ UNCHANGED wlock

\* RLock has returned to its caller.
Admitted(a) == a \notin parked

RUnlock(a) ==
    /\ readers' = [readers EXCEPT ![a] = @ - 1]
    /\ UNCHANGED <<parked, wlock>>

\* Lock announces the writer; it returns once nobody holds a read lock.
Lock(a) ==
    /\ wlock = NoAgent
    /\ wlock' = a
    /\ UNCHANGED <<readers, parked>>

NoReaders == \A b \in Agent : readers[b] = 0

Unlock ==
    /\ wlock' = NoAgent
    /\ readers' = [b \in Agent |-> IF b \in parked THEN readers[b] + 1 ELSE readers[b]]
    /\ parked' = {}

-----------------------------------------------------------------------------
(* getBlockHash. *)

\* A worker calls it; a handler calls it inside its own critical section.
Call(a) ==
    /\ a \in Worker
    /\ pc[a] = "idle"
    /\ \E h \in Asks[a] : want' = [want EXCEPT ![a] = h]
    /\ RLock(a)
    /\ Goto(a, "read")
    /\ UNCHANGED cached

HandlerLocks(a) ==
    /\ a \in Holder
    /\ pc[a] = "idle"
    /\ \E h \in Asks[a] : want' = [want EXCEPT ![a] = h]
    /\ RLock(a)
    /\ Goto(a, "hold")
    /\ UNCHANGED cached

HandlerCalls(a) ==
    /\ pc[a] = "hold"
    /\ Admitted(a)
    /\ RLock(a)
    /\ Goto(a, "read")
    /\ UNCHANGED <<cached, want>>

Hit(a) ==
    /\ pc[a] = "read"
    /\ Admitted(a)
    /\ want[a] \in cached
    /\ Goto(a, "return")
    /\ UNCHANGED <<cached, want, lockVars>>

\* Mutant: the read lock is kept while the write lock is asked for.
MissKeepsLock(a) ==
    /\ pc[a] = "read"
    /\ Admitted(a)
    /\ want[a] \notin cached
    /\ Goto(a, "lock")
    /\ UNCHANGED <<cached, want, lockVars>>

\* Mutant: the fetched hash is inserted under the read lock.
MissInserts(a) ==
    /\ pc[a] = "read"
    /\ Admitted(a)
    /\ want[a] \notin cached
    /\ Goto(a, "insert")
    /\ UNCHANGED <<cached, want, lockVars>>

\* The hash is fetched under the read lock, which is then given up.
Miss(a) ==
    /\ pc[a] = "read"
    /\ Admitted(a)
    /\ want[a] \notin cached
    /\ RUnlock(a)
    /\ Goto(a, "lock")
    /\ UNCHANGED <<cached, want>>

\* Mutant: the error path unlocks by hand, and the deferred unlock follows.
FetchFailsUnlocking(a) ==
    /\ pc[a] = "read"
    /\ Admitted(a)
    /\ want[a] \notin cached
    /\ RUnlock(a)
    /\ Goto(a, "return")
    /\ UNCHANGED <<cached, want>>

FetchFails(a) ==
    /\ pc[a] = "read"
    /\ Admitted(a)
    /\ want[a] \notin cached
    /\ Goto(a, "return")
    /\ UNCHANGED <<cached, want, lockVars>>

CallLock(a) ==
    /\ pc[a] \in {"lock", "forget"}
    /\ Lock(a)
    /\ Goto(a, IF pc[a] = "lock" THEN "waitInsert" ELSE "waitDelete")
    /\ UNCHANGED <<cached, want>>

LockReturns(a) ==
    /\ pc[a] \in {"waitInsert", "waitDelete"}
    /\ NoReaders
    /\ Goto(a, IF pc[a] = "waitInsert" THEN "insert" ELSE "delete")
    /\ UNCHANGED <<cached, want, lockVars>>

Insert(a) ==
    /\ pc[a] = "insert"
    /\ cached' = cached \cup {want[a]}
    /\ Unlock
    /\ Goto(a, "relock")
    /\ UNCHANGED want

\* The read lock is taken once more, for the deferred RUnlock to release.
Relock(a) ==
    /\ pc[a] = "relock"
    /\ RLock(a)
    /\ Goto(a, "return")
    /\ UNCHANGED <<cached, want>>

Return(a) ==
    /\ pc[a] = "return"
    /\ Admitted(a)
    /\ RUnlock(a)
    /\ Goto(a, IF a \in Holder THEN "respond" ELSE "idle")
    /\ UNCHANGED <<cached, want>>

\* Mutant: the handler does not release its own lock.
RespondHolding(a) ==
    /\ pc[a] = "respond"
    /\ Goto(a, "idle")
    /\ UNCHANGED <<cached, want, lockVars>>

\* The response is written, and the handler's own RUnlock runs.
Respond(a) ==
    /\ pc[a] = "respond"
    /\ RUnlock(a)
    /\ Goto(a, "idle")
    /\ UNCHANGED <<cached, want>>

-----------------------------------------------------------------------------
(* invalidate, at the end of a roll back. *)

CallInvalidate(a) ==
    /\ a \in Worker
    /\ pc[a] = "idle"
    /\ \E h \in Forgets : want' = [want EXCEPT ![a] = h]
    /\ Goto(a, "forget")
    /\ UNCHANGED <<cached, lockVars>>

Delete(a) ==
    /\ pc[a] = "delete"
    /\ cached' = {h \in cached : h < want[a]}
    /\ Unlock
    /\ Goto(a, "idle")
    /\ UNCHANGED want

-----------------------------------------------------------------------------
Init ==
    /\ cached = Preloaded
    /\ pc = [a \in Agent |-> "idle"]
    /\ want = [a \in Agent |-> 0]
    /\ readers = [a \in Agent |-> 0]
    /\ parked = {}
    /\ wlock = NoAgent

\* What a does once it has called getBlockHash or invalidate.
Continue(a) ==
    \/ HandlerCalls(a) \/ Hit(a) \/ Miss(a) \/ FetchFails(a)
    \/ LockReturns(a) \/ Insert(a) \/ Relock(a) \/ Return(a) \/ Respond(a)
    \/ Delete(a)

Next ==
    \E a \in Agent : Call(a) \/ HandlerLocks(a) \/ CallInvalidate(a)
                     \/ CallLock(a) \/ Continue(a)

Spec == Init /\ [][Next]_vars

\* Goroutines run, and the mutex inside sync.RWMutex that writers queue on is
\* starvation free.  Nobody has to make a call.
Fairness == \A a \in Agent : WF_vars(Continue(a)) /\ SF_vars(CallLock(a))

FairSpec == Spec /\ Fairness

-----------------------------------------------------------------------------
Labels == {"idle", "hold", "read", "lock", "forget", "waitInsert", "waitDelete",
           "insert", "delete", "relock", "return", "respond"}

\* Every variable has its type; in particular no goroutine releases a read
\* lock that it does not hold, which is a fatal error in Go.
TypeOK ==
    /\ cached \subseteq Int
    /\ pc \in [Agent -> Labels]
    /\ want \in [Agent -> Int]
    /\ readers \in [Agent -> Nat]
    /\ parked \subseteq Agent
    /\ wlock \in Agent \cup {NoAgent}

\* The map is written by one goroutine at a time, and not while another one
\* reads it: getBlockHash switches locks and switches back in the middle of
\* a function whose deferred RUnlock expects the read lock.
Writing(a) == pc[a] \in {"insert", "delete"}
Reading(a) == pc[a] = "read" /\ Admitted(a)

MapAccessExclusive ==
    \A a, b \in Agent : (a # b /\ Writing(a)) => ~Writing(b) /\ ~Reading(b)

\* Whoever is done has given back every lock, on every path through
\* getBlockHash and the handlers.
LocksBalanced ==
    \A a \in Agent : pc[a] = "idle" => readers[a] = 0 /\ Admitted(a) /\ wlock # a

\* Once the handlers that nest the lock have all come out of it and no new
\* request of theirs arrives, every lookup and every invalidation returns,
\* however they interleave, whatever the handlers did before.
LookupsReturn ==
    <>[](\A b \in Holder : pc[b] = "idle") =>
        \A a \in Worker : (pc[a] # "idle") ~> (pc[a] = "idle")

\* getBlockHash "returns the block hash for the given height", invalidate
\* returns, and so does every handler that calls them.
CallsReturn == \A a \in Agent : (pc[a] # "idle") ~> (pc[a] = "idle")

-----------------------------------------------------------------------------
(* The inductive invariant behind the theorems of LifecycleProofs.          *)

\* How many read locks a holds follows from where it is: one inside
\* getBlockHash unless it is writing, one more for a handler, and one less
\* while RLock has not returned.
ReadLocks(a) ==
    (IF pc[a] \in {"read", "return"} THEN 1 ELSE 0)
    + (IF a \in Holder /\ pc[a] # "idle" THEN 1 ELSE 0)
    - (IF a \in parked THEN 1 ELSE 0)

LockInv ==
    /\ TypeOK
    /\ \A a \in Agent : readers[a] = ReadLocks(a)
    /\ \A a \in parked : pc[a] \in {"hold", "read", "return"} /\ wlock # NoAgent
    /\ \A a \in Agent : pc[a] = "hold" => a \in Holder
    /\ \A a \in Agent : pc[a] \in {"forget", "waitDelete", "delete"} => a \in Worker
    /\ \A a \in Agent : pc[a] = "respond" => a \in Holder
    /\ \A a \in Agent :
          wlock = a <=> pc[a] \in {"waitInsert", "waitDelete", "insert", "delete"}
    /\ \A a, b \in Agent : Writing(a) => readers[b] = 0
=============================================================================
