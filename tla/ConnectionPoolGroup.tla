------------------------- MODULE ConnectionPoolGroup -------------------------
(***************************************************************************)
(* QgsConnectionPoolGroup (src/core/qgsconnectionpool.h): the connections  *)
(* a provider keeps open to one data source, shared by the rendering and   *)
(* processing threads and by the main thread.                              *)
(*                                                                         *)
(* A semaphore bounds the connections in use, a stack keeps the idle ones  *)
(* for reuse, a timer that lives in the main thread closes the ones that   *)
(* have been idle for CONN_POOL_EXPIRATION_TIME.  What runs under          *)
(* connMutex is one step; what runs outside it (the semaphore operations,  *)
(* opening a connection) is a step of its own, so that other threads       *)
(* interleave there.                                                       *)
(*                                                                         *)
(* Abstractions: the idle stack is a set (any idle connection may be       *)
(* popped, which includes the LIFO choice); time is counted in units of    *)
(* CONN_POOL_EXPIRATION_TIME; a thread's use of a connection is the time   *)
(* between the end of acquire() and the start of release().                *)
(***************************************************************************)
EXTENDS Integers, FiniteSets, Sequences

CONSTANTS
  Threads,        \* threads that use the group
  MainThread,     \* the one of them that runs the event loop of the timer
  TimedThreads,   \* threads whose requests carry a timeout >= 0
  Conns,          \* connection objects
  NoConn,         \* no connection (nullptr)
  MaxConcurrentConnections, \* QgsApplication::maxConcurrentConnectionsPerPool
  DayLength,      \* units of time in a day: QTime wraps there
  MaxNesting,     \* bound: connections a thread holds at once
  MaxRequests     \* bound: requests a thread makes

ASSUME ThreadsAssumption ==
  /\ MainThread \in Threads
  /\ TimedThreads \subseteq Threads
ASSUME ConnsAssumption == NoConn \notin Conns
ASSUME BoundsAssumption ==
  /\ MaxConcurrentConnections \in Nat \ {0}
  /\ DayLength \in Nat \ {0}
  /\ MaxNesting \in Nat
  /\ MaxRequests \in Nat

VARIABLES
  sem,            \* available resources of the semaphore
  conns,          \* idle connections, kept for reuse
  lastUsedTime,   \* [conns -> time of day the connection was released]
  acquiredConns,  \* connections invalidateConnections() can reach
  handle,         \* [Conns -> {"closed", "valid", "invalid"}]
  timerActive,    \* expirationTimer->isActive()
  slotCalls,      \* start/stop slot calls queued for the main thread
  now,            \* time of day
  pc,             \* [Threads -> where the thread is in acquire()/release()]
  need,           \* [Threads -> requiredFreeConnectionCount of the request]
  opened,         \* [Threads -> connection opened but not yet registered]
  held,           \* [Threads -> connections the thread uses]
  requests,       \* [Threads -> number of requests made]
  \* History, read by no action:
  rested,         \* connections idle for a unit of time or longer
  outer           \* connections in use for a request that is not nested

groupVars == <<sem, conns, lastUsedTime, acquiredConns, handle>>
timerVars == <<timerActive, slotCalls, now>>
threadVars == <<pc, need, opened, held, requests>>
historyVars == <<rested, outer>>
vars == <<groupVars, timerVars, threadVars, historyVars>>

CONN_POOL_SPARE_CONNECTIONS == 2

\* The value the semaphore is constructed with.
Capacity == MaxConcurrentConnections + CONN_POOL_SPARE_CONNECTIONS

requiredFreeConnectionCount(mayBeNested) == IF mayBeNested THEN 1 ELSE 3

PC == {"idle", "wait", "giveback", "lookup", "create", "register", "signal"}

Init ==
  /\ sem = Capacity
  /\ conns = {}
  /\ lastUsedTime = [c \in {} |-> 0]
  /\ acquiredConns = {}
  /\ handle = [c \in Conns |-> "closed"]
  /\ timerActive = FALSE
  /\ slotCalls = <<>>
  /\ now = 0
  /\ pc = [t \in Threads |-> "idle"]
  /\ need = [t \in Threads |-> 1]
  /\ opened = [t \in Threads |-> NoConn]
  /\ held = [t \in Threads |-> {}]
  /\ requests = [t \in Threads |-> 0]
  /\ rested = {}
  /\ outer = {}

-----------------------------------------------------------------------------
(***************************************************************************)
(* acquire( timeout, requestMayBeNested )                                  *)
(***************************************************************************)

\* QMetaObject::invokeMethod() on an object of the main thread: a direct call
\* in the main thread, a queued one from any other thread.
invokeSlot(t, slot) ==
  IF t = MainThread
    THEN timerActive' = (slot = "start") /\ UNCHANGED slotCalls
    ELSE slotCalls' = Append(slotCalls, slot) /\ UNCHANGED timerActive

\* A client asks for a connection.  A request made while the thread already
\* iterates on this data source is flagged as nested.
Request(t, mayBeNested) ==
  /\ pc[t] = "idle"
  /\ requests[t] < MaxRequests
  /\ Cardinality(held[t]) < MaxNesting
  /\ held[t] # {} => mayBeNested
  /\ pc' = [pc EXCEPT ![t] = "wait"]
  /\ need' = [need EXCEPT ![t] = requiredFreeConnectionCount(mayBeNested)]
  /\ requests' = [requests EXCEPT ![t] = @ + 1]
  /\ UNCHANGED <<groupVars, timerVars, opened, held, historyVars>>

\* sem.acquire( n ) or a successful sem.tryAcquire( n, timeout ).
AcquireSemaphore(t) ==
  /\ pc[t] = "wait"
  /\ sem >= need[t]
  /\ sem' = sem - need[t]
  /\ pc' = [pc EXCEPT ![t] = "giveback"]
  /\ UNCHANGED <<conns, lastUsedTime, acquiredConns, handle, timerVars,
                 need, opened, held, requests, historyVars>>

\* sem.tryAcquire( n, timeout ) gives up: acquire() returns nullptr.
AcquireTimeout(t) ==
  /\ pc[t] = "wait"
  /\ t \in TimedThreads
  /\ sem < need[t]
  /\ pc' = [pc EXCEPT ![t] = "idle"]
  /\ UNCHANGED <<groupVars, timerVars, need, opened, held, requests,
                 historyVars>>

\* Mutant: all the resources are given back.
GiveBackAll(t) ==
  /\ pc[t] = "giveback"
  /\ sem' = sem + need[t]
  /\ pc' = [pc EXCEPT ![t] = "lookup"]
  /\ UNCHANGED <<conns, lastUsedTime, acquiredConns, handle, timerVars,
                 need, opened, held, requests, historyVars>>

\* sem.release( requiredFreeConnectionCount - 1 ): keep one resource only.
GiveBackSpare(t) ==
  /\ pc[t] = "giveback"
  /\ sem' = sem + need[t] - 1
  /\ pc' = [pc EXCEPT ![t] = "lookup"]
  /\ UNCHANGED <<conns, lastUsedTime, acquiredConns, handle, timerVars,
                 need, opened, held, requests, historyVars>>

\* What every successful acquire() ends with: c is registered and handed out.
HandOut(t, c) ==
  /\ acquiredConns' = acquiredConns \cup {c}
  /\ held' = [held EXCEPT ![t] = @ \cup {c}]
  /\ outer' = IF need[t] = requiredFreeConnectionCount(FALSE)
                THEN outer \cup {c} ELSE outer
  /\ pc' = [pc EXCEPT ![t] = "idle"]

\* The items of the connections in cs leave the stack of idle connections.
Unstack(cs) ==
  /\ conns' = conns \ cs
  /\ lastUsedTime' = [c \in conns \ cs |-> lastUsedTime[c]]
  /\ rested' = rested \ cs

\* Mutant: the item is read but not popped.
AcquireCachedTop(t) ==
  /\ pc[t] = "lookup"
  /\ \E c \in conns : HandOut(t, c)
  /\ UNCHANGED <<sem, conns, lastUsedTime, handle, timerVars, need, opened,
                 requests, rested>>

\* Under connMutex: reuse an idle connection, reopening it if it is invalid.
AcquireCached(t) ==
  /\ pc[t] = "lookup"
  /\ \E c \in conns :
       /\ Unstack({c})
       /\ handle' = [handle EXCEPT ![c] = "valid"]
       /\ IF conns = {c}
            THEN invokeSlot(t, "stop")
            ELSE UNCHANGED <<timerActive, slotCalls>>
       /\ HandOut(t, c)
  /\ UNCHANGED <<sem, now, need, opened, requests>>

\* Under connMutex: nothing to reuse.
AcquireMiss(t) ==
  /\ pc[t] = "lookup"
  /\ conns = {}
  /\ pc' = [pc EXCEPT ![t] = "create"]
  /\ UNCHANGED <<groupVars, timerVars, need, opened, held, requests,
                 historyVars>>

\* qgsConnectionPool_ConnectionCreate(), outside connMutex.  Closed connection
\* objects are alike: which of them stands for the new one is immaterial.
ConnectionCreate(t) ==
  /\ pc[t] = "create"
  /\ \E c \in Conns :
       /\ handle[c] = "closed"
       /\ c = CHOOSE d \in Conns : handle[d] = "closed"
       /\ handle' = [handle EXCEPT ![c] = "valid"]
       /\ opened' = [opened EXCEPT ![t] = c]
  /\ pc' = [pc EXCEPT ![t] = "register"]
  /\ UNCHANGED <<sem, conns, lastUsedTime, acquiredConns, timerVars, need,
                 held, requests, rested, outer>>

\* Mutant: the resource is not released.
CreateFailsKeepsResource(t) ==
  /\ pc[t] = "create"
  /\ pc' = [pc EXCEPT ![t] = "idle"]
  /\ UNCHANGED <<groupVars, timerVars, need, opened, held, requests,
                 historyVars>>

\* Mutant: the result of the creation is not tested.
CreateFailsUnnoticed(t) ==
  /\ pc[t] = "create"
  /\ pc' = [pc EXCEPT ![t] = "register"]
  /\ UNCHANGED <<groupVars, timerVars, need, opened, held, requests,
                 historyVars>>

\* The connection could not be opened: release the resource, return nullptr.
ConnectionCreateFails(t) ==
  /\ pc[t] = "create"
  /\ sem' = sem + 1
  /\ pc' = [pc EXCEPT ![t] = "idle"]
  /\ UNCHANGED <<conns, lastUsedTime, acquiredConns, handle, timerVars,
                 need, opened, held, requests, historyVars>>

\* Under connMutex again: register the new connection and return it.
AcquireRegister(t) ==
  /\ pc[t] = "register"
  /\ HandOut(t, opened[t])
  /\ opened' = [opened EXCEPT ![t] = NoConn]
  /\ UNCHANGED <<sem, conns, lastUsedTime, handle, timerVars, need, requests, rested>>

-----------------------------------------------------------------------------
(***************************************************************************)
(* release( conn ), invalidateConnections() and the main thread's steps    *)
(***************************************************************************)

\* Under connMutex: close an invalid connection, keep a valid one for reuse.
Release(t, c) ==
  /\ pc[t] = "idle"
  /\ c \in held[t]
  /\ held' = [held EXCEPT ![t] = @ \ {c}]
  /\ outer' = outer \ {c}
  /\ acquiredConns' = acquiredConns \ {c}
  /\ \/ /\ handle[c] = "invalid"
        /\ handle' = [handle EXCEPT ![c] = "closed"]
        /\ UNCHANGED <<conns, lastUsedTime, timerActive, slotCalls>>
     \/ /\ handle[c] # "invalid"
        /\ conns' = conns \cup {c}
        /\ lastUsedTime' = [d \in conns \cup {c} |->
                              IF d = c THEN now ELSE lastUsedTime[d]]
        /\ IF timerActive
             THEN UNCHANGED <<timerActive, slotCalls>>
             ELSE invokeSlot(t, "start")
        /\ UNCHANGED handle
  /\ pc' = [pc EXCEPT ![t] = "signal"]
  /\ UNCHANGED <<sem, now, need, opened, requests, rested>>

\* Mutant: the resource is not released.
ReleaseKeepsResource(t) ==
  /\ pc[t] = "signal"
  /\ pc' = [pc EXCEPT ![t] = "idle"]
  /\ UNCHANGED <<groupVars, timerVars, need, opened, held, requests,
                 historyVars>>

\* sem.release(), after connMutex: may unlock a thread waiting in acquire().
ReleaseSemaphore(t) ==
  /\ pc[t] = "signal"
  /\ sem' = sem + 1
  /\ pc' = [pc EXCEPT ![t] = "idle"]
  /\ UNCHANGED <<conns, lastUsedTime, acquiredConns, handle, timerVars,
                 need, opened, held, requests, historyVars>>

\* Mutant: the acquired connections are closed too.
InvalidateClosesAcquired ==
  /\ Unstack(conns)
  /\ handle' = [c \in Conns |-> IF c \in conns \cup acquiredConns
                                  THEN "closed" ELSE handle[c]]
  /\ UNCHANGED <<sem, acquiredConns, timerVars, threadVars, outer>>

\* The data source was modified: close the idle connections, flag the
\* acquired ones.
InvalidateConnections ==
  /\ Unstack(conns)
  /\ handle' = [c \in Conns |-> IF c \in conns THEN "closed"
                                ELSE IF c \in acquiredConns THEN "invalid"
                                ELSE handle[c]]
  /\ UNCHANGED <<sem, acquiredConns, timerVars, threadVars, outer>>

\* The main thread handles events when it is not inside acquire()/release().
MainThreadFree == pc[MainThread] = "idle"

\* Mutant: any connection that is not newer than now.
HasExpiredAtOnce(c) == now - lastUsedTime[c] >= 0

\* lastUsedTime.secsTo( now ) >= CONN_POOL_EXPIRATION_TIME, of times of day.
HasExpired(c) == now - lastUsedTime[c] >= 1

\* The timer's timeout, handled by onConnectionExpired().
OnConnectionExpired ==
  LET toDelete == {c \in conns : HasExpired(c)}
  IN  /\ MainThreadFree
      /\ timerActive
      /\ Unstack(toDelete)
      /\ handle' = [c \in Conns |->
                      IF c \in toDelete THEN "closed" ELSE handle[c]]
      /\ timerActive' = (conns # toDelete)
      /\ UNCHANGED <<sem, acquiredConns, slotCalls, now, threadVars, outer>>

\* The event loop runs a queued startExpirationTimer()/stopExpirationTimer().
RunSlot ==
  /\ MainThreadFree
  /\ slotCalls # <<>>
  /\ timerActive' = (Head(slotCalls) = "start")
  /\ slotCalls' = Tail(slotCalls)
  /\ UNCHANGED <<groupVars, now, threadVars, historyVars>>

\* One unit of time passes; the time of day starts again at midnight.
TimePasses ==
  /\ now' = (now + 1) % DayLength
  /\ rested' = conns
  /\ UNCHANGED <<groupVars, timerActive, slotCalls, threadVars, outer>>

-----------------------------------------------------------------------------
\* The steps of a thread inside acquire() and release(), but for the timeout.
ThreadStep(t) ==
  \/ AcquireSemaphore(t) \/ GiveBackSpare(t)
  \/ AcquireCached(t) \/ AcquireMiss(t)
  \/ ConnectionCreate(t) \/ ConnectionCreateFails(t) \/ AcquireRegister(t)
  \/ ReleaseSemaphore(t)

Next ==
  \/ \E t \in Threads :
       \/ \E mayBeNested \in BOOLEAN : Request(t, mayBeNested)
       \/ \E c \in Conns : Release(t, c)
       \/ ThreadStep(t)
       \/ AcquireTimeout(t)
  \/ InvalidateConnections
  \/ OnConnectionExpired
  \/ RunSlot
  \/ TimePasses

Spec == Init /\ [][Next]_vars

(***************************************************************************)
(* Threads that are inside acquire() or release() keep running, every      *)
(* connection is eventually released by its user ("All connections that    *)
(* have been acquired must be then released") and the event loop runs.     *)
(* Nothing is assumed of the order in which QSemaphore serves waiters, nor *)
(* that a timeout helps: a request may wait until it is served.            *)
(***************************************************************************)
Fairness ==
  /\ \A t \in Threads : WF_vars(ThreadStep(t))
  /\ \A t \in Threads : WF_vars(\E c \in Conns : Release(t, c))
  /\ WF_vars(RunSlot)

FairSpec == Spec /\ Fairness

-----------------------------------------------------------------------------
(***************************************************************************)
(* Properties                                                              *)
(***************************************************************************)

Slots == {"start", "stop"}

\* The fields and the threads' local variables keep their types.
TypeOK ==
  /\ sem \in Int
  /\ conns \in SUBSET Conns
  /\ lastUsedTime \in [conns -> 0 .. DayLength - 1]
  /\ acquiredConns \in SUBSET Conns
  /\ handle \in [Conns -> {"closed", "valid", "invalid"}]
  /\ timerActive \in BOOLEAN
  /\ slotCalls \in Seq(Slots)
  /\ now \in 0 .. DayLength - 1
  /\ pc \in [Threads -> PC]
  /\ need \in [Threads -> {1, 3}]
  /\ opened \in [Threads -> Conns \cup {NoConn}]
  /\ held \in [Threads -> SUBSET Conns]
  /\ requests \in [Threads -> 0 .. MaxRequests]
  /\ rested \in SUBSET conns
  /\ outer \in SUBSET Conns

\* A connection is used by one thread at a time, and is neither offered for
\* reuse nor about to be handed out a second time while it is used.
ExclusiveUse ==
  /\ \A t, u \in Threads : t # u => held[t] \cap held[u] = {}
  /\ \A t \in Threads : held[t] \cap conns = {}
  /\ \A t, u \in Threads : opened[t] \notin held[u] \cup conns
  /\ \A t, u \in Threads : t # u /\ opened[t] = opened[u] => opened[t] = NoConn

\* The group's list of acquired connections, through which
\* invalidateConnections() works, is exactly what the threads use.
AcquiredAreHeld ==
  \A c \in Conns : c \in acquiredConns <=> \E t \in Threads : c \in held[t]

\* Neither an invalidation nor an expiry closes a connection while a thread
\* uses it: an invalidated one is closed by its own user's release().
NoUseAfterClose ==
  /\ \A t \in Threads, c \in Conns : c \in held[t] => handle[c] # "closed"
  /\ \A t \in Threads : opened[t] # NoConn => handle[opened[t]] # "closed"

\* Only valid connections are kept for reuse, whatever the order of release()
\* and invalidateConnections(); the reopening of an invalid cached connection
\* in acquire() is never needed.
IdleValid == \A c \in conns : handle[c] = "valid"

\* Resources of the semaphore that a thread's call of acquire() or release() has
\* taken, or has still to give back.
InCall(t) ==
  CASE pc[t] \in {"idle", "wait"} -> 0
    [] pc[t] = "giveback" -> need[t]
    [] OTHER -> 1

\* The resources that are taken: one by each connection in use, and those of the
\* calls, the i-th of thread t as <<t, i>>.
HeldPermits == {p \in Threads \X Conns : p[2] \in held[p[1]]}
CallPermits == {p \in Threads \X (1..3) : p[2] <= InCall(p[1])}

\* No path through acquire() and release() loses or invents a resource: not a
\* timeout, not a failed open, not the release of an invalidated connection.
SemConservation ==
  sem + Cardinality(HeldPermits) + Cardinality(CallPermits) = Capacity

Creating == {t \in Threads : pc[t] = "create"}

\* The limit on concurrent connections bounds the handles that are open, idle
\* ones included, even though the lookup and the creation of a connection are
\* two critical sections.  Requests that are not nested never eat into the spare
\* connections: the nested requests their threads go on to make find one.
PoolBound ==
  /\ Cardinality({c \in Conns : handle[c] # "closed"}) + Cardinality(Creating)
       <= Capacity
  /\ Cardinality(outer) <= MaxConcurrentConnections

OpenConns == {c \in Conns : handle[c] # "closed"}

Lending == INSTANCE LendingPool WITH lent <- held, open <- OpenConns

\* The group is a lending pool: every step of acquire(), release(),
\* invalidateConnections() and the expiry timer opens a connection, closes
\* connections that nobody uses, lends one or takes one back, and does nothing
\* else to the connections that threads use.
LendsConnections == Lending!Spec

\* The expiry timer closes idle connections only after they have rested.
ExpiredWereIdle ==
  [][OnConnectionExpired =>
       \A c \in Conns : handle[c] # "closed" /\ handle'[c] = "closed" =>
         c \in rested]_vars

\* No request waits for ever while connections are eventually released, even
\* if the threads hold connections while they wait (two levels of nesting).
EveryRequestReturns ==
  \A t \in Threads : pc[t] = "wait" ~> pc[t] # "wait"
=============================================================================
