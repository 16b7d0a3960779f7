----------------------------- MODULE Lifecycle -----------------------------
(***************************************************************************)
(* The life of the process around the goroutines of CacheLocks: main and   *)
(* server.start launch the web server and the producers, an error or a     *)
(* signal makes server.stop wait for all of them, and main returns.        *)
(*                                                                         *)
(* The agents of CacheLocks are the producers and the HTTP requests; the   *)
(* web server's own goroutine takes no lock and is added here.             *)
(***************************************************************************)
EXTENDS CacheLocks, Sequences

CONSTANTS
    Modes,      \* the sequences of producers that the flags may ask for: none
                \* in light mode, else headers, filters, SP tweaks, custom
    QueueSize   \* the buffer of the error queue

Producer == UNION {{m[i] : i \in DOMAIN m} : m \in Modes}
Request == Agent \ Producer

ASSUME LifeAssumption ==
    /\ \A m \in Modes : \A i, j \in DOMAIN m : m[i] \in Worker /\ (m[i] = m[j] => i = j)
    /\ QueueSize \in Nat \ {0}

VARIABLES
    main,       \* where the main goroutine is
    toLaunch,   \* the producers that start has still to launch
    quit,       \* the quit channel is closed
    life,       \* life[p]: the state of the goroutine of producer p
    web,        \* the state of the web server's goroutine
    queue,      \* the goroutine of the error queue: "off", "running", "stopped"
    out,        \* how many errors the queue's output channel buffers
    overflow,   \* how many errors wait for room in that channel
    logged      \* how many errors main and stop have received

queueVars == <<queue, out, overflow>>
lifeVars == <<main, toLaunch, quit, life, web, queueVars, logged>>
allVars == <<vars, lifeVars>>

-----------------------------------------------------------------------------
(* fn.ConcurrentQueue (external): Send blocks until the queue's goroutine    *)
(* takes the error, which never waits for a receiver.                        *)

Send ==
    /\ queue = "running"
    /\ IF overflow = 0 /\ out < QueueSize
         THEN out' = out + 1 /\ UNCHANGED overflow
         ELSE overflow' = overflow + 1 /\ UNCHANGED out
    /\ UNCHANGED queue

QueueMoves ==
    /\ queue = "running"
    /\ overflow > 0
    /\ out < QueueSize
    /\ overflow' = overflow - 1
    /\ out' = out + 1
    /\ UNCHANGED <<vars, main, toLaunch, quit, life, web, queue, logged>>

ReceiveError ==
    /\ out > 0
    /\ out' = out - 1
    /\ logged' = logged + 1
    /\ UNCHANGED overflow

-----------------------------------------------------------------------------
(* server.start *)

\* bitcoind cannot be reached or is too old, or the headers on disk are not
\* on its chain: main returns, nothing has been launched.
StartFails ==
    /\ main = "start"
    /\ main' = "failed"
    /\ UNCHANGED <<vars, toLaunch, quit, life, web, queueVars, logged>>

StartWeb ==
    /\ main = "start"
    /\ queue' = "running"
    /\ web' = "serving"
    /\ main' = "launch"
    /\ UNCHANGED <<vars, toLaunch, quit, life, out, overflow, logged>>

LaunchProducer ==
    /\ main = "launch"
    /\ toLaunch # <<>>
    /\ life' = [life EXCEPT ![Head(toLaunch)] = "running"]
    /\ toLaunch' = Tail(toLaunch)
    /\ UNCHANGED <<vars, main, quit, web, queueVars, logged>>

StartReturns ==
    /\ main = "launch"
    /\ toLaunch = <<>>
    /\ main' = "select"
    /\ UNCHANGED <<vars, toLaunch, quit, life, web, queueVars, logged>>

-----------------------------------------------------------------------------
(* The goroutines. *)

\* updateFiles looks at quit between two blocks, and in the poll loop; it
\* returns errServerShutdown, which is not reported.
ProducerQuits(p) ==
    /\ life[p] = "running"
    /\ pc[p] = "idle"
    /\ quit
    /\ life' = [life EXCEPT ![p] = "done"]
    /\ UNCHANGED <<vars, main, toLaunch, quit, web, queueVars, logged>>

\* updateFiles returns any other error.
ProducerFails(p) ==
    /\ life[p] = "running"
    /\ pc[p] = "idle"
    /\ life' = [life EXCEPT ![p] = "failed"]
    /\ UNCHANGED <<vars, main, toLaunch, quit, web, queueVars, logged>>

ProducerReports(p) ==
    /\ life[p] = "failed"
    /\ Send
    /\ life' = [life EXCEPT ![p] = "reported"]
    /\ UNCHANGED <<vars, main, toLaunch, quit, web, logged>>

\* The address cannot be listened on, or accepting a connection fails.
WebFails ==
    /\ web = "serving"
    /\ web' = "failed"
    /\ UNCHANGED <<vars, main, toLaunch, quit, life, queueVars, logged>>

WebReports ==
    /\ web = "failed"
    /\ Send
    /\ web' = "reported"
    /\ UNCHANGED <<vars, main, toLaunch, quit, life, logged>>

\* ListenAndServe returns ErrServerClosed once Shutdown has been called.
WebReturns ==
    /\ web = "closing"
    /\ web' = "done"
    /\ UNCHANGED <<vars, main, toLaunch, quit, life, queueVars, logged>>

\* What producers and requests do with the cache: only a running producer
\* calls it, and a request comes in only while the web server serves.
MayCall(a) == IF a \in Producer THEN life[a] = "running" ELSE web = "serving"

CacheStep(a) ==
    /\ \/ MayCall(a) /\ (Call(a) \/ HandlerLocks(a))
       \/ a \in Producer /\ MayCall(a) /\ CallInvalidate(a)
       \/ CallLock(a)
       \/ Continue(a)
    /\ UNCHANGED lifeVars

-----------------------------------------------------------------------------
(* main and server.stop *)

StopBegins ==
    /\ quit' = TRUE
    /\ web' = IF web = "serving" THEN "closing" ELSE web
    /\ main' = "shutdown"
    /\ UNCHANGED <<vars, toLaunch, life, queue>>

Interrupt ==
    /\ main = "select"
    /\ StopBegins
    /\ UNCHANGED <<out, overflow, logged>>

MainReceivesError ==
    /\ main = "select"
    /\ ReceiveError
    /\ StopBegins

Active == {a \in Request : pc[a] # "idle"}

\* Mutant: the error queue is stopped before the goroutines are waited for.
ShutdownReturnsStopping ==
    /\ main = "shutdown"
    /\ Active = {}
    /\ main' = "wait"
    /\ queue' = "stopped"
    /\ UNCHANGED <<vars, toLaunch, quit, life, web, out, overflow, logged>>

\* httpServer.Shutdown returns when no request is active; it has no deadline.
ShutdownReturns ==
    /\ main = "shutdown"
    /\ Active = {}
    /\ main' = "wait"
    /\ UNCHANGED <<vars, toLaunch, quit, life, web, queueVars, logged>>

Ended == {"done", "reported"}

\* Mutant: an error is read before the goroutines have ended.
WaitReturnsEarly ==
    /\ main = "wait"
    /\ \A p \in Producer : life[p] # "running"
    /\ queue' = "stopped"
    /\ main' = "drain"
    /\ UNCHANGED <<vars, toLaunch, quit, life, web, out, overflow, logged>>

\* Mutant: the producers are not counted in the wait group.
WaitReturnsForWeb ==
    /\ main = "wait"
    /\ web \in Ended
    /\ queue' = "stopped"
    /\ main' = "drain"
    /\ UNCHANGED <<vars, toLaunch, quit, life, web, out, overflow, logged>>

\* wg.Wait returns, and errs.Stop ends the queue's goroutine.
WaitReturns ==
    /\ main = "wait"
    /\ \A p \in Producer : life[p] \in Ended \cup {"unborn"}
    /\ web \in Ended
    /\ queue' = "stopped"
    /\ main' = "drain"
    /\ UNCHANGED <<vars, toLaunch, quit, life, web, out, overflow, logged>>

\* One error is taken from the queue's channel, if there is one.
Drain ==
    /\ main = "drain"
    /\ \/ ReceiveError
       \/ out = 0 /\ UNCHANGED <<out, overflow, logged>>
    /\ main' = "exited"
    /\ UNCHANGED <<vars, toLaunch, quit, life, web, queue>>

-----------------------------------------------------------------------------
LifeInit ==
    /\ Init
    /\ main = "start"
    /\ toLaunch \in Modes
    /\ quit = FALSE
    /\ life = [p \in Producer |-> "unborn"]
    /\ web = "off"
    /\ queue = "off"
    /\ out = 0
    /\ overflow = 0
    /\ logged = 0

MainStep == StartWeb \/ LaunchProducer \/ StartReturns \/ MainReceivesError
            \/ ShutdownReturns \/ WaitReturns \/ Drain

Report == WebReports \/ WebReturns \/ QueueMoves
          \/ \E p \in Producer : ProducerReports(p)

LifeNext ==
    \/ StartFails \/ Interrupt \/ MainStep \/ Report \/ WebFails
    \/ \E p \in Producer : ProducerQuits(p) \/ ProducerFails(p)
    \/ \E a \in Agent : CacheStep(a)

LifeSpec == LifeInit /\ [][LifeNext]_allVars

\* Goroutines run, as in CacheLocks.  A producer comes by its look at quit
\* again and again: it looks before every block, and while it sleeps.  No
\* failure, signal or request has to happen.
LifeFairness ==
    /\ WF_allVars(MainStep)
    /\ WF_allVars(Report)
    /\ \A p \in Producer : SF_allVars(ProducerQuits(p))
    /\ \A a \in Agent :
          /\ WF_allVars(Continue(a) /\ UNCHANGED lifeVars)
          /\ SF_allVars(CallLock(a) /\ UNCHANGED lifeVars)

LifeFairSpec == LifeSpec /\ LifeFairness

-----------------------------------------------------------------------------
GoneToStop == {"shutdown", "wait", "drain", "exited"}

\* Every variable has its type.
LifeTypeOK ==
    /\ TypeOK
    /\ main \in {"start", "failed", "launch", "select"} \cup GoneToStop
    /\ quit \in BOOLEAN
    /\ quit <=> main \in GoneToStop
    /\ life \in [Producer -> {"unborn", "running", "failed", "reported", "done"}]
    /\ web \in {"off", "serving", "closing", "failed", "reported", "done"}
    /\ queue \in {"off", "running", "stopped"}
    /\ out \in 0..QueueSize
    /\ overflow \in Nat
    /\ logged \in 0..2

Failures == {p \in Producer : life[p] \in {"failed", "reported"}}
WebFailed == web \in {"failed", "reported"}

\* main "returns" only after an error that ended a producer or the web server
\* has been logged, however many fail at once and whether they fail before,
\* while or after stop is called: none is left in the queue unread with no
\* other one logged.
NoErrorLost ==
    main = "exited" /\ (Failures # {} \/ WebFailed) => logged > 0

\* When stop returns, nothing of the server runs any more: "waiting for
\* background processes to finish".  No goroutine is left in the middle of a
\* file, of a request, or of a critical section.
QuiescentAtExit ==
    main = "exited" =>
        /\ \A p \in Producer : life[p] \in Ended \cup {"unborn"}
        /\ \A a \in Agent : pc[a] = "idle" /\ readers[a] = 0
        /\ wlock = NoAgent
        /\ queue = "stopped"

\* An error in any goroutine, or a signal, ends the process, as long as the
\* handlers that nest the cache lock come out of it: no goroutine waits for
\* ever to report its error, and Shutdown, which has no deadline, returns.
ServerEnds ==
    <>[](\A b \in Holder : pc[b] = "idle") =>
        ((quit \/ Failures # {} \/ WebFailed) ~> (main = "exited"))

-----------------------------------------------------------------------------
(* The inductive invariant behind the theorems of LifecycleProofs.          *)

\* An error that was sent has been received, or can be: the queue does not
\* hold errors back while its channel is empty.
SomeoneReported == web = "reported" \/ \E p \in Producer : life[p] = "reported"
QueueInv == SomeoneReported \/ overflow > 0 => logged > 0 \/ out > 0

\* Only running producers, and requests before Shutdown has returned, are
\* anywhere inside the cache.
WhoCalls ==
    /\ \A p \in Producer : life[p] # "running" => pc[p] = "idle"
    /\ main \in {"wait", "drain", "exited"} => \A a \in Request : pc[a] = "idle"

\* How far stop has come.
StopInv ==
    /\ main \in GoneToStop => web # "serving"
    /\ main \in {"start", "failed", "launch", "select"} => logged = 0
    /\ main \in {"shutdown", "wait", "drain"} => logged <= 1
    /\ main \in {"drain", "exited"} =>
          /\ queue = "stopped"
          /\ web \in Ended
          /\ \A p \in Producer : life[p] \in Ended \cup {"unborn"}
    /\ main = "exited" /\ SomeoneReported => logged > 0

LifeInv == LockInv /\ LifeTypeOK /\ QueueInv /\ WhoCalls /\ StopInv
=============================================================================
