-------------------------- MODULE LifecycleProofs --------------------------
(***************************************************************************)
(* Proofs about the lock discipline of heightToHashCache and the shutdown  *)
(* of the server, for any number of producers and requests, any heights    *)
(* and any buffer of the error queue.                                      *)
(***************************************************************************)
EXTENDS Lifecycle, TLAPS

-----------------------------------------------------------------------------
(* heightToHashCache: CacheLocks, which Lifecycle extends. *)

\* Nobody holds or waits for a lock when the web server starts.
LEMMA LockInvInit == Init => LockInv
BY AgentAssumption DEF Init, LockInv, TypeOK, ReadLocks, Writing, Agent, Labels

\* Every step keeps the count of read locks tied to where a goroutine is.
LEMMA LockInvStep == LockInv /\ [Next]_vars => LockInv'
<1> SUFFICES ASSUME LockInv, [Next]_vars PROVE LockInv'
  OBVIOUS
<1> USE AgentAssumption DEF LockInv, TypeOK, ReadLocks, Writing, Agent, Labels, lockVars
<1>1. ASSUME NEW a \in Agent, Call(a) PROVE LockInv'
  BY <1>1 DEF Call, RLock, Goto, Heights
<1>2. ASSUME NEW a \in Agent, HandlerLocks(a) PROVE LockInv'
  BY <1>2 DEF HandlerLocks, RLock, Goto, Heights
<1>3. ASSUME NEW a \in Agent, HandlerCalls(a) PROVE LockInv'
  BY <1>3 DEF HandlerCalls, RLock, Admitted, Goto
<1>4. ASSUME NEW a \in Agent, Hit(a) PROVE LockInv'
  BY <1>4 DEF Hit, Goto, Admitted
<1>5. ASSUME NEW a \in Agent, Miss(a) PROVE LockInv'
  BY <1>5 DEF Miss, RUnlock, Goto, Admitted
<1>6. ASSUME NEW a \in Agent, FetchFails(a) PROVE LockInv'
  BY <1>6 DEF FetchFails, Goto, Admitted
<1>7. ASSUME NEW a \in Agent, CallLock(a) PROVE LockInv'
  BY <1>7 DEF CallLock, Lock, Goto
<1>8. ASSUME NEW a \in Agent, LockReturns(a) PROVE LockInv'
  BY <1>8 DEF LockReturns, NoReaders, Goto
<1>9. ASSUME NEW a \in Agent, Insert(a) PROVE LockInv'
  <2>1. /\ wlock = a /\ a \notin parked
        /\ \A b \in Agent : b # a => pc[b] \notin {"waitInsert", "waitDelete", "insert", "delete"}
    BY <1>9 DEF Insert
  <2>2. TypeOK'
    <3>1. cached' \subseteq Int
      <4>1. want[a] \in Int /\ cached \subseteq Int
        OBVIOUS
      <4>2. cached' = cached \cup {want[a]}
        BY <1>9 DEF Insert
      <4>. QED
        BY ONLY <4>1, <4>2
    <3>2. readers' \in [Agent -> Nat]
      BY <1>9 DEF Insert, Unlock
    <3>3. pc' \in [Agent -> Labels] /\ want' \in [Agent -> Int]
      BY <1>9 DEF Insert, Goto
    <3>. QED
      BY <1>9, <3>1, <3>2, <3>3 DEF Insert, Unlock
  <2>3. \A b \in Agent : readers'[b] = ReadLocks(b)'
    BY <1>9, <2>1 DEF Insert, Unlock, Goto
  <2>. QED
    BY <1>9, <2>1, <2>2, <2>3 DEF Insert, Unlock, Goto
<1>10. ASSUME NEW a \in Agent, Relock(a) PROVE LockInv'
  BY <1>10 DEF Relock, RLock, Goto
<1>11. ASSUME NEW a \in Agent, Return(a) PROVE LockInv'
  BY <1>11 DEF Return, RUnlock, Goto, Admitted
<1>12. ASSUME NEW a \in Agent, Respond(a) PROVE LockInv'
  BY <1>12 DEF Respond, RUnlock, Goto
<1>13. ASSUME NEW a \in Agent, CallInvalidate(a) PROVE LockInv'
  BY <1>13 DEF CallInvalidate, Goto
<1>14. ASSUME NEW a \in Agent, Delete(a) PROVE LockInv'
  <2>1. /\ wlock = a /\ a \notin parked
        /\ \A b \in Agent : b # a => pc[b] \notin {"waitInsert", "waitDelete", "insert", "delete"}
    BY <1>14 DEF Delete
  <2>2. TypeOK'
    <3>1. cached' \subseteq Int
      BY <1>14 DEF Delete
    <3>2. readers' \in [Agent -> Nat]
      BY <1>14 DEF Delete, Unlock
    <3>3. pc' \in [Agent -> Labels] /\ want' \in [Agent -> Int]
      BY <1>14 DEF Delete, Goto
    <3>. QED
      BY <1>14, <3>1, <3>2, <3>3 DEF Delete, Unlock
  <2>3. \A b \in Agent : readers'[b] = ReadLocks(b)'
    BY <1>14, <2>1 DEF Delete, Unlock, Goto
  <2>. QED
    BY <1>14, <2>1, <2>2, <2>3 DEF Delete, Unlock, Goto
<1>15. CASE UNCHANGED vars
  BY <1>15 DEF vars
<1>. QED
  BY <1>1, <1>2, <1>3, <1>4, <1>5, <1>6, <1>7, <1>8, <1>9, <1>10, <1>11,
     <1>12, <1>13, <1>14, <1>15 DEF Next, Continue

\* The invariant holds throughout.
LEMMA LockInvHolds == Spec => []LockInv
<1>1. LockInv /\ UNCHANGED vars => LockInv'
  BY LockInvStep
<1>. QED
  BY LockInvInit, LockInvStep, PTL DEF Spec

\* heightToHash is never written while another goroutine reads or writes it,
\* although getBlockHash changes from the read lock to the write lock and back
\* half way through, and handlers nest the read lock around it.
THEOREM NoConcurrentMapAccess == Spec => []MapAccessExclusive
<1>1. LockInv => MapAccessExclusive
  BY AgentAssumption DEF LockInv, MapAccessExclusive, Writing, Reading, Admitted,
     ReadLocks, TypeOK, Agent
<1>. QED
  BY <1>1, LockInvHolds, PTL

\* Every path through getBlockHash, invalidate and the handlers releases what
\* it acquired, and never more than that.
THEOREM LocksReleased == Spec => []LocksBalanced
<1>1. LockInv => LocksBalanced
  BY DEF LockInv, LocksBalanced, ReadLocks, Admitted, TypeOK
<1>. QED
  BY <1>1, LockInvHolds, PTL

-----------------------------------------------------------------------------
(* The server around it. *)

\* Producers are agents of CacheLocks.
LEMMA ProducersAreAgents == Producer \subseteq Agent
BY LifeAssumption DEF Producer, Agent

\* A new server, before start, satisfies the invariant.
LEMMA LifeInvInit == LifeInit => LifeInv
<1> SUFFICES ASSUME LifeInit PROVE LifeInv
  OBVIOUS
<1>1. LockInv
  BY LockInvInit DEF LifeInit
<1>2. pc = [a \in Agent |-> "idle"]
  BY DEF LifeInit, Init
<1>3. WhoCalls
  BY <1>2, ProducersAreAgents DEF LifeInit, WhoCalls
<1>4. LifeTypeOK
  <2>1. quit \in BOOLEAN /\ (quit <=> main \in GoneToStop)
    BY DEF LifeInit, GoneToStop
  <2>2. life \in [Producer -> {"unborn", "running", "failed", "reported", "done"}]
    BY DEF LifeInit
  <2>3. out \in 0..QueueSize /\ overflow \in Nat /\ logged \in 0..2
    BY LifeAssumption DEF LifeInit
  <2>. QED
    BY <1>1, <2>1, <2>2, <2>3 DEF LifeInit, LifeTypeOK, LockInv
<1>5. QueueInv /\ StopInv
  BY DEF LifeInit, QueueInv, SomeoneReported, StopInv, GoneToStop
<1>. QED
  BY <1>1, <1>3, <1>4, <1>5 DEF LifeInv

\* A step inside the cache moves one goroutine that may be there.
LEMMA CacheStepMoves ==
    ASSUME LifeInv, NEW a \in Agent, CacheStep(a)
    PROVE  /\ Next
           /\ pc[a] # "idle" \/ MayCall(a)
           /\ \A b \in Agent : b # a => pc'[b] = pc[b]
           /\ UNCHANGED lifeVars
<1> USE DEF LifeInv, LockInv, TypeOK
<1>1. Next /\ UNCHANGED lifeVars
  BY DEF CacheStep, Next
<1>2. pc[a] # "idle" \/ MayCall(a)
  BY DEF CacheStep, Continue, CallLock, HandlerCalls, Hit, Miss, FetchFails, LockReturns,
         Insert, Relock, Return, Respond, Delete
<1>3. \E l \in Labels : pc' = [pc EXCEPT ![a] = l]
  BY DEF CacheStep, Call, HandlerLocks, CallInvalidate, CallLock, Continue, HandlerCalls,
         Hit, Miss, FetchFails, LockReturns, Insert, Relock, Return, Respond, Delete,
         Goto, Labels
<1>. QED
  BY <1>1, <1>2, <1>3

\* Steps of main, of the web server and of the error queue leave the cache
\* alone, and steps inside the cache everything else.
LEMMA LifeInvStep == LifeInv /\ [LifeNext]_allVars => LifeInv'
<1> SUFFICES ASSUME LifeInv, [LifeNext]_allVars PROVE LifeInv'
  OBVIOUS
<1>1. ASSUME NEW a \in Agent, CacheStep(a) PROVE LifeInv'
  <2>1. /\ Next
        /\ pc[a] # "idle" \/ MayCall(a)
        /\ \A b \in Agent : b # a => pc'[b] = pc[b]
        /\ UNCHANGED lifeVars
    BY <1>1, CacheStepMoves
  <2>2. LockInv'
    BY <2>1, LockInvStep DEF LifeInv
  <2>3. WhoCalls'
    BY <2>1, ProducersAreAgents
       DEF LifeInv, LifeTypeOK, WhoCalls, StopInv, MayCall, Request, lifeVars, GoneToStop
  <2>4. LifeTypeOK' /\ QueueInv' /\ StopInv'
    BY <2>1, <2>2 DEF LifeInv, LockInv, LifeTypeOK, QueueInv, StopInv, SomeoneReported,
                      lifeVars, queueVars, Ended, GoneToStop
  <2>. QED
    BY <2>2, <2>3, <2>4 DEF LifeInv
<1>2. ASSUME UNCHANGED vars PROVE LockInv' /\ TypeOK'
  BY <1>2, LockInvStep DEF LifeInv, LockInv
<1> USE LifeAssumption
    DEF LifeInv, LifeTypeOK, QueueInv, SomeoneReported, WhoCalls, StopInv,
        GoneToStop, Ended, queueVars
<1>3. CASE StartFails
  BY <1>2, <1>3 DEF StartFails, vars
<1>4. CASE StartWeb
  BY <1>2, <1>4 DEF StartWeb, vars
<1>5. CASE LaunchProducer
  BY <1>2, <1>5 DEF LaunchProducer, vars
<1>6. CASE StartReturns
  BY <1>2, <1>6 DEF StartReturns, vars
<1>7. ASSUME NEW p \in Producer, ProducerQuits(p) PROVE LifeInv'
  BY <1>2, <1>7 DEF ProducerQuits, vars
<1>8. ASSUME NEW p \in Producer, ProducerFails(p) PROVE LifeInv'
  BY <1>2, <1>8 DEF ProducerFails, vars
<1>9. ASSUME NEW p \in Producer, ProducerReports(p) PROVE LifeInv'
  BY <1>2, <1>9 DEF ProducerReports, Send, vars
<1>10. CASE WebFails
  BY <1>2, <1>10 DEF WebFails, vars
<1>11. CASE WebReports
  BY <1>2, <1>11 DEF WebReports, Send, vars
<1>12. CASE WebReturns
  BY <1>2, <1>12 DEF WebReturns, vars
<1>13. CASE QueueMoves
  BY <1>2, <1>13 DEF QueueMoves, vars
<1>14. CASE Interrupt
  BY <1>2, <1>14 DEF Interrupt, StopBegins, vars
<1>15. CASE MainReceivesError
  BY <1>2, <1>15 DEF MainReceivesError, ReceiveError, StopBegins, vars
<1>16. CASE ShutdownReturns
  BY <1>2, <1>16 DEF ShutdownReturns, Active, vars, Request
<1>17. CASE WaitReturns
  BY <1>2, <1>17 DEF WaitReturns, vars
<1>18. CASE Drain
  BY <1>2, <1>18 DEF Drain, ReceiveError, vars
<1>19. CASE UNCHANGED allVars
  BY <1>2, <1>19 DEF allVars, lifeVars, vars
<1>. QED
  BY <1>1, <1>3, <1>4, <1>5, <1>6, <1>7, <1>8, <1>9, <1>10, <1>11, <1>12, <1>13,
     <1>14, <1>15, <1>16, <1>17, <1>18, <1>19 DEF LifeNext, MainStep, Report

\* The invariant holds throughout.
LEMMA LifeInvHolds == LifeSpec => []LifeInv
BY LifeInvInit, LifeInvStep, PTL DEF LifeSpec

\* main never takes more than two errors, and is past its select exactly if
\* quit is closed.
THEOREM LifecycleTypes == LifeSpec => []LifeTypeOK
<1>1. LifeInv => LifeTypeOK
  BY DEF LifeInv
<1>. QED
  BY <1>1, LifeInvHolds, PTL

\* The cache's map is accessed exclusively, and every path releases what it
\* acquired, also while goroutines are launched, fail and are waited for.
THEOREM LocksHoldInServer == LifeSpec => [](MapAccessExclusive /\ LocksBalanced)
<1>1. LifeInv => MapAccessExclusive
  BY AgentAssumption DEF LifeInv, LockInv, MapAccessExclusive, Writing, Reading,
     Admitted, ReadLocks, TypeOK, Agent
<1>2. LifeInv => LocksBalanced
  BY DEF LifeInv, LockInv, LocksBalanced, ReadLocks, Admitted, TypeOK
<1>. QED
  BY <1>1, <1>2, LifeInvHolds, PTL

\* However many goroutines fail, and whenever, main does not return without
\* having logged the error of one of them.
THEOREM ErrorsAlwaysLogged == LifeSpec => []NoErrorLost
<1>1. LifeInv => NoErrorLost
  BY DEF LifeInv, StopInv, NoErrorLost, Failures, WebFailed, SomeoneReported, Ended
<1>. QED
  BY <1>1, LifeInvHolds, PTL

\* When stop returns, every producer has ended, no request is active and no
\* lock is held or waited for.
THEOREM NothingOutlivesStop == LifeSpec => []QuiescentAtExit
<1>1. LifeInv => QuiescentAtExit
  <2> SUFFICES ASSUME LifeInv, main = "exited" PROVE QuiescentAtExit
    BY DEF QuiescentAtExit
  <2>1. \A a \in Agent : pc[a] = "idle"
    BY DEF LifeInv, WhoCalls, StopInv, Ended, Request
  <2>2. parked = {}
    BY <2>1 DEF LifeInv, LockInv, TypeOK
  <2>3. \A a \in Agent : readers[a] = 0
    BY <2>1, <2>2 DEF LifeInv, LockInv, ReadLocks
  <2>4. wlock = NoAgent
    BY <2>1 DEF LifeInv, LockInv, TypeOK
  <2>. QED
    BY <2>1, <2>3, <2>4 DEF LifeInv, StopInv, QuiescentAtExit
<1>. QED
  BY <1>1, LifeInvHolds, PTL
=============================================================================
