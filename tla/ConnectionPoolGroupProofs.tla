---------------------- MODULE ConnectionPoolGroupProofs ----------------------
(***************************************************************************)
(* Proofs about ConnectionPoolGroup, for any number of threads and         *)
(* connections, any capacity, any depth of nesting and any length of day.  *)
(***************************************************************************)
EXTENDS ConnectionPoolGroup, FiniteSetTheorems, TLAPS

\* A thread has an unregistered connection exactly between the creation and
\* the second critical section of acquire().
OpenedInRegister ==
  \A t \in Threads : pc[t] = "register" <=> opened[t] # NoConn

\* The inductive invariant: exclusive use is preserved by the creation of a
\* connection because the open ones are not closed, and those stay open
\* because an invalidation closes the idle ones only.
IInv ==
  /\ TypeOK
  /\ ExclusiveUse
  /\ AcquiredAreHeld
  /\ NoUseAfterClose
  /\ IdleValid
  /\ OpenedInRegister

USE ThreadsAssumption, ConnsAssumption, BoundsAssumption

\* The invariant holds of a newly constructed group.
LEMMA InitIInv == Init => IInv
<1> SUFFICES ASSUME Init PROVE IInv
  OBVIOUS
<1>1. lastUsedTime \in [conns -> 0 .. DayLength - 1]
  BY DEF Init
<1>2. slotCalls \in Seq(Slots)
  BY DEF Init
<1>3. TypeOK
  <2>1. /\ sem \in Int
        /\ now \in 0 .. DayLength - 1
        /\ requests \in [Threads -> 0 .. MaxRequests]
        /\ need \in [Threads -> {1, 3}]
    BY DEF Init, Capacity, CONN_POOL_SPARE_CONNECTIONS
  <2>2. /\ handle \in [Conns -> {"closed", "valid", "invalid"}]
        /\ pc \in [Threads -> PC]
        /\ opened \in [Threads -> Conns \cup {NoConn}]
        /\ held \in [Threads -> SUBSET Conns]
    BY DEF Init, PC
  <2> QED
    BY <1>1, <1>2, <2>1, <2>2 DEF Init, TypeOK
<1>4. ExclusiveUse /\ AcquiredAreHeld /\ NoUseAfterClose /\ IdleValid
        /\ OpenedInRegister
  BY DEF Init, ExclusiveUse, AcquiredAreHeld, NoUseAfterClose, IdleValid,
         OpenedInRegister
<1> QED
  BY <1>3, <1>4 DEF IInv

\* A direct or queued call of a slot keeps the types of the timer and of the
\* queue of calls.
LEMMA InvokeSlotType ==
  ASSUME TypeOK, NEW t \in Threads, NEW slot \in Slots, invokeSlot(t, slot)
  PROVE  timerActive' \in BOOLEAN /\ slotCalls' \in Seq(Slots)
<1>1. CASE t = MainThread
  <2>1. timerActive' = (slot = "start") /\ slotCalls' = slotCalls
    BY <1>1 DEF invokeSlot
  <2>2. timerActive' \in BOOLEAN
    BY <2>1, Zenon
  <2> QED
    BY <2>1, <2>2 DEF TypeOK
<1>2. CASE t # MainThread
  <2>1. slotCalls' = Append(slotCalls, slot) /\ timerActive' = timerActive
    BY <1>2 DEF invokeSlot
  <2>2. slotCalls' \in Seq(Slots)
    BY <2>1 DEF TypeOK
  <2> QED
    BY <2>1, <2>2 DEF TypeOK
<1> QED
  BY <1>1, <1>2

\* Every step keeps the types of the variables.
LEMMA NextTypeOK == IInv /\ [Next]_vars => TypeOK'
<1> SUFFICES ASSUME IInv, [Next]_vars PROVE TypeOK'
  OBVIOUS
<1> USE DEF IInv, TypeOK, PC, Slots, groupVars, timerVars, threadVars, historyVars
<1>1. ASSUME NEW t \in Threads, NEW mayBeNested \in BOOLEAN,
             Request(t, mayBeNested)
      PROVE  TypeOK'
  BY <1>1 DEF Request, requiredFreeConnectionCount
<1>2. ASSUME NEW t \in Threads, NEW c \in Conns, Release(t, c)
      PROVE  TypeOK'
  <2>1. timerActive' \in BOOLEAN /\ slotCalls' \in Seq(Slots)
    BY <1>2, InvokeSlotType DEF Release
  <2>2. /\ lastUsedTime' \in [conns' -> 0 .. DayLength - 1]
        /\ conns' \in SUBSET Conns
        /\ rested' \in SUBSET conns'
    <3>1. CASE handle[c] = "invalid"
      BY <1>2, <3>1 DEF Release
    <3>2. CASE handle[c] # "invalid"
      <4>1. /\ conns' = conns \cup {c}
            /\ lastUsedTime' = [d \in conns \cup {c} |->
                                  IF d = c THEN now ELSE lastUsedTime[d]]
            /\ rested' = rested
        BY <1>2, <3>2 DEF Release
      <4> QED
        BY <4>1
    <3> QED
      BY <3>1, <3>2
  <2>3. /\ handle' \in [Conns -> {"closed", "valid", "invalid"}]
        /\ acquiredConns' \in SUBSET Conns
        /\ held' \in [Threads -> SUBSET Conns]
        /\ outer' \in SUBSET Conns
        /\ pc' \in [Threads -> PC]
    BY <1>2 DEF Release
  <2> QED
    BY <1>2, <2>1, <2>2, <2>3 DEF Release
<1>3. ASSUME NEW t \in Threads, AcquireSemaphore(t) PROVE TypeOK'
  BY <1>3 DEF AcquireSemaphore
<1>4. ASSUME NEW t \in Threads, AcquireTimeout(t) PROVE TypeOK'
  BY <1>4 DEF AcquireTimeout
<1>5. ASSUME NEW t \in Threads, GiveBackSpare(t) PROVE TypeOK'
  BY <1>5 DEF GiveBackSpare
<1>6. ASSUME NEW t \in Threads, AcquireCached(t) PROVE TypeOK'
  <2> PICK c \in conns :
         /\ Unstack({c})
         /\ handle' = [handle EXCEPT ![c] = "valid"]
         /\ IF conns = {c} THEN invokeSlot(t, "stop")
                           ELSE UNCHANGED <<timerActive, slotCalls>>
         /\ HandOut(t, c)
    BY <1>6 DEF AcquireCached
  <2>1. UNCHANGED <<sem, now, need, opened, requests>>
    BY <1>6 DEF AcquireCached
  <2>2. timerActive' \in BOOLEAN /\ slotCalls' \in Seq(Slots)
    BY InvokeSlotType
  <2>3. /\ conns' \in SUBSET Conns
        /\ lastUsedTime' \in [conns' -> 0 .. DayLength - 1]
        /\ rested' \in SUBSET conns'
    BY DEF Unstack
  <2>4. /\ acquiredConns' \in SUBSET Conns
        /\ held' \in [Threads -> SUBSET Conns]
        /\ outer' \in SUBSET Conns
        /\ pc' \in [Threads -> PC]
    BY ZenonT(30) DEF HandOut
  <2>5. handle' \in [Conns -> {"closed", "valid", "invalid"}]
    OBVIOUS
  <2> QED
    BY <2>1, <2>2, <2>3, <2>4, <2>5
<1>7. ASSUME NEW t \in Threads, AcquireMiss(t) PROVE TypeOK'
  BY <1>7 DEF AcquireMiss
<1>8. ASSUME NEW t \in Threads, ConnectionCreate(t) PROVE TypeOK'
  BY <1>8 DEF ConnectionCreate
<1>9. ASSUME NEW t \in Threads, ConnectionCreateFails(t) PROVE TypeOK'
  BY <1>9 DEF ConnectionCreateFails
<1>10. ASSUME NEW t \in Threads, AcquireRegister(t) PROVE TypeOK'
  BY <1>10 DEF AcquireRegister, HandOut, OpenedInRegister
<1>11. ASSUME NEW t \in Threads, ReleaseSemaphore(t) PROVE TypeOK'
  BY <1>11 DEF ReleaseSemaphore
<1>12. CASE InvalidateConnections
  BY <1>12 DEF InvalidateConnections, Unstack
<1>13. CASE OnConnectionExpired
  BY <1>13 DEF OnConnectionExpired, Unstack
<1>14. CASE RunSlot
  BY <1>14 DEF RunSlot
<1>15. CASE TimePasses
  BY <1>15 DEF TimePasses
<1>16. CASE UNCHANGED vars
  BY <1>16 DEF vars
<1> QED
  BY SMTT(20), <1>1, <1>2, <1>3, <1>4, <1>5, <1>6, <1>7, <1>8, <1>9, <1>10, <1>11,
     <1>12, <1>13, <1>14, <1>15, <1>16 DEF Next, ThreadStep

\* Every step keeps the relations between the threads' connections, the two
\* lists of the group and the handles.
LEMMA NextRelations ==
  IInv /\ [Next]_vars =>
    ExclusiveUse' /\ AcquiredAreHeld' /\ NoUseAfterClose' /\ IdleValid'
      /\ OpenedInRegister'
<1> DEFINE Goal == ExclusiveUse' /\ AcquiredAreHeld' /\ NoUseAfterClose'
                     /\ IdleValid' /\ OpenedInRegister'
<1> SUFFICES ASSUME IInv, [Next]_vars PROVE Goal
  OBVIOUS
<1> USE DEF IInv, TypeOK, PC, groupVars, timerVars, threadVars, historyVars,
            ExclusiveUse, AcquiredAreHeld, NoUseAfterClose, IdleValid,
            OpenedInRegister
<1>1. ASSUME NEW t \in Threads, NEW mayBeNested \in BOOLEAN,
             Request(t, mayBeNested)
      PROVE  Goal
  BY <1>1 DEF Request
<1>2. ASSUME NEW t \in Threads, NEW c \in Conns, Release(t, c)
      PROVE  Goal
  BY <1>2 DEF Release
<1>3. ASSUME NEW t \in Threads, AcquireSemaphore(t) PROVE Goal
  BY <1>3 DEF AcquireSemaphore
<1>4. ASSUME NEW t \in Threads, AcquireTimeout(t) PROVE Goal
  BY <1>4 DEF AcquireTimeout
<1>5. ASSUME NEW t \in Threads, GiveBackSpare(t) PROVE Goal
  BY <1>5 DEF GiveBackSpare
<1>6. ASSUME NEW t \in Threads, AcquireCached(t) PROVE Goal
  BY <1>6 DEF AcquireCached, Unstack, HandOut
<1>7. ASSUME NEW t \in Threads, AcquireMiss(t) PROVE Goal
  BY <1>7 DEF AcquireMiss
<1>8. ASSUME NEW t \in Threads, ConnectionCreate(t) PROVE Goal
  BY <1>8 DEF ConnectionCreate
<1>9. ASSUME NEW t \in Threads, ConnectionCreateFails(t) PROVE Goal
  BY <1>9 DEF ConnectionCreateFails
<1>10. ASSUME NEW t \in Threads, AcquireRegister(t) PROVE Goal
  BY <1>10 DEF AcquireRegister, HandOut
<1>11. ASSUME NEW t \in Threads, ReleaseSemaphore(t) PROVE Goal
  BY <1>11 DEF ReleaseSemaphore
<1>12. CASE InvalidateConnections
  BY <1>12 DEF InvalidateConnections, Unstack
<1>13. CASE OnConnectionExpired
  BY <1>13 DEF OnConnectionExpired, Unstack
<1>14. CASE RunSlot
  BY <1>14 DEF RunSlot
<1>15. CASE TimePasses
  BY <1>15 DEF TimePasses
<1>16. CASE UNCHANGED vars
  BY <1>16 DEF vars
<1> QED
  BY <1>1, <1>2, <1>3, <1>4, <1>5, <1>6, <1>7, <1>8, <1>9, <1>10, <1>11,
     <1>12, <1>13, <1>14, <1>15, <1>16 DEF Next, ThreadStep

\* The invariant is inductive.
THEOREM Inductive == Spec => []IInv
<1>1. IInv /\ [Next]_vars => IInv'
  BY NextTypeOK, NextRelations DEF IInv
<1> QED
  BY InitIInv, <1>1, PTL DEF Spec

\* The fields of the group and the local variables of its threads keep their
\* types, for every value of the constants.
THEOREM TypeCorrect == Spec => []TypeOK
<1>1. IInv => TypeOK
  BY DEF IInv
<1> QED
  BY Inductive, <1>1, PTL

\* No connection is ever used by two threads, or reused while it is in use,
\* whatever acquire(), release(), invalidateConnections() and the expiry timer
\* do concurrently.
THEOREM ExclusiveUseHolds == Spec => []ExclusiveUse
<1>1. IInv => ExclusiveUse
  BY DEF IInv
<1> QED
  BY Inductive, <1>1, PTL

\* invalidateConnections() reaches exactly the connections in use.
THEOREM AcquiredAreHeldHolds == Spec => []AcquiredAreHeld
<1>1. IInv => AcquiredAreHeld
  BY DEF IInv
<1> QED
  BY Inductive, <1>1, PTL

\* No connection is closed while a thread uses it.
THEOREM NoUseAfterCloseHolds == Spec => []NoUseAfterClose
<1>1. IInv => NoUseAfterClose
  BY DEF IInv
<1> QED
  BY Inductive, <1>1, PTL

\* The stack of idle connections holds valid connections only.
THEOREM IdleValidHolds == Spec => []IdleValid
<1>1. IInv => IdleValid
  BY DEF IInv
<1> QED
  BY Inductive, <1>1, PTL

-----------------------------------------------------------------------------
(***************************************************************************)
(* The expiry of idle connections                                          *)
(***************************************************************************)

\* A connection that has not been idle for a unit of time was returned at the
\* present time of day.
ReturnedNow == \A c \in conns \ rested : lastUsedTime[c] = now

\* Every step keeps the time of day of what was returned just now.
LEMMA NextReturnedNow == IInv /\ ReturnedNow /\ [Next]_vars => ReturnedNow'
<1> SUFFICES ASSUME IInv, ReturnedNow, [Next]_vars PROVE ReturnedNow'
  OBVIOUS
<1> USE DEF IInv, TypeOK, ReturnedNow, groupVars, timerVars, threadVars, historyVars
<1>1. ASSUME NEW t \in Threads, NEW c \in Conns, Release(t, c)
      PROVE  ReturnedNow'
  <2>1. now' = now /\ rested' = rested
    BY <1>1 DEF Release
  <2>2. CASE conns' = conns /\ lastUsedTime' = lastUsedTime
    BY <2>1, <2>2
  <2>3. CASE /\ conns' = conns \cup {c}
             /\ lastUsedTime' = [d \in conns \cup {c} |->
                                   IF d = c THEN now ELSE lastUsedTime[d]]
    BY <2>1, <2>3
  <2> QED
    BY <1>1, <2>2, <2>3 DEF Release
<1>2. ASSUME NEW cs \in SUBSET Conns, Unstack(cs), now' = now
      PROVE  ReturnedNow'
  BY <1>2 DEF Unstack
<1>3. ASSUME NEW t \in Threads, AcquireCached(t) PROVE ReturnedNow'
  <2>1. PICK c \in conns : Unstack({c})
    BY <1>3 DEF AcquireCached
  <2>2. {c} \in SUBSET Conns /\ now' = now
    BY <1>3 DEF AcquireCached
  <2> QED
    BY <1>2, <2>1, <2>2
<1>4. CASE InvalidateConnections
  BY <1>2, <1>4 DEF InvalidateConnections
<1>5. CASE OnConnectionExpired
  BY <1>2, <1>5 DEF OnConnectionExpired
<1>6. CASE TimePasses
  BY <1>6 DEF TimePasses
<1>7. CASE UNCHANGED <<conns, lastUsedTime, now, rested>>
  BY <1>7
<1>8. ASSUME NEW t \in Threads, ThreadStep(t), ~AcquireCached(t)
      PROVE  ReturnedNow'
  BY <1>7, <1>8 DEF ThreadStep, AcquireSemaphore, GiveBackSpare, AcquireMiss,
     ConnectionCreate, ConnectionCreateFails, AcquireRegister, ReleaseSemaphore
<1>9. ASSUME NEW t \in Threads,
             AcquireTimeout(t) \/ \E mayBeNested \in BOOLEAN : Request(t, mayBeNested)
      PROVE  ReturnedNow'
  BY <1>7, <1>9 DEF AcquireTimeout, Request
<1>10. CASE RunSlot \/ UNCHANGED vars
  BY <1>7, <1>10 DEF RunSlot, vars
<1> QED
  BY <1>1, <1>3, <1>4, <1>5, <1>6, <1>8, <1>9, <1>10 DEF Next

\* The expiry timer closes idle connections only after they have rested: midnight,
\* where the time of day starts again, makes none expire early, whatever the
\* length of the day.
THEOREM ExpiredWereIdleHolds == Spec => ExpiredWereIdle
<1>1. Init => ReturnedNow
  BY DEF Init, ReturnedNow
<1>2. IInv /\ ReturnedNow =>
        [OnConnectionExpired =>
           \A c \in Conns : handle[c] # "closed" /\ handle'[c] = "closed" =>
             c \in rested]_vars
  <2> SUFFICES ASSUME IInv, ReturnedNow, OnConnectionExpired,
                      NEW c \in Conns, handle[c] # "closed", handle'[c] = "closed"
               PROVE  c \in rested
    OBVIOUS
  <2>1. c \in conns /\ HasExpired(c)
    BY DEF OnConnectionExpired
  <2> QED
    BY <2>1 DEF HasExpired, ReturnedNow, IInv, TypeOK
<1> QED
  BY <1>1, <1>2, NextReturnedNow, Inductive, PTL DEF Spec, ExpiredWereIdle

-----------------------------------------------------------------------------
(***************************************************************************)
(* The group implements LendingPool                                        *)
(***************************************************************************)

LEMMA InitLending == Init => Lending!Init
  BY DEF Init, Lending!Init, OpenConns

\* Each step opens, closes, lends or takes back, or changes neither the
\* connections in use nor the open ones.
LEMMA NextLending ==
  ASSUME IInv, [Next]_vars
  PROVE  [Lending!Next]_(Lending!vars)
<1> DEFINE Goal == [Lending!Next]_(Lending!vars)
<1> USE DEF IInv, TypeOK, PC, groupVars, timerVars, threadVars, historyVars
<1>0. ASSUME UNCHANGED <<held, handle>>
      PROVE  Goal
  BY <1>0 DEF OpenConns, Lending!vars
<1>1. ASSUME NEW t \in Threads, NEW mayBeNested \in BOOLEAN,
             Request(t, mayBeNested)
      PROVE  Goal
  BY <1>1, <1>0 DEF Request
<1>2. ASSUME NEW t \in Threads, NEW c \in Conns, Release(t, c)
      PROVE  Goal
  <2>1. OpenConns' \in {OpenConns, OpenConns \ {c}}
    BY <1>2 DEF Release, OpenConns
  <2>2. Lending!Return(t, c)
    BY <1>2, <2>1 DEF Release, Lending!Return
  <2> QED
    BY <2>2 DEF Lending!Next
<1>3. ASSUME NEW t \in Threads, AcquireSemaphore(t) PROVE Goal
  BY <1>3, <1>0 DEF AcquireSemaphore
<1>4. ASSUME NEW t \in Threads, AcquireTimeout(t) PROVE Goal
  BY <1>4, <1>0 DEF AcquireTimeout
<1>5. ASSUME NEW t \in Threads, GiveBackSpare(t) PROVE Goal
  BY <1>5, <1>0 DEF GiveBackSpare
<1>6. ASSUME NEW t \in Threads, AcquireCached(t) PROVE Goal
  <2>1. PICK c \in conns : /\ handle' = [handle EXCEPT ![c] = "valid"]
                           /\ held' = [held EXCEPT ![t] = @ \cup {c}]
    BY <1>6 DEF AcquireCached, HandOut
  <2>2. c \in Conns /\ handle[c] = "valid"
    BY <2>1 DEF IdleValid
  <2>3. OpenConns' = OpenConns /\ c \in OpenConns
    BY <2>1, <2>2 DEF OpenConns
  <2>4. Lending!Lend(t, c)
    BY <2>1, <2>3 DEF Lending!Lend, Lending!InUse, ExclusiveUse
  <2> QED
    BY <2>2, <2>4 DEF Lending!Next
<1>7. ASSUME NEW t \in Threads, AcquireMiss(t) PROVE Goal
  BY <1>7, <1>0 DEF AcquireMiss
<1>8. ASSUME NEW t \in Threads, ConnectionCreate(t) PROVE Goal
  <2>1. PICK c \in Conns : /\ handle[c] = "closed"
                           /\ handle' = [handle EXCEPT ![c] = "valid"]
    BY <1>8 DEF ConnectionCreate
  <2>2. c \notin OpenConns /\ OpenConns' = OpenConns \cup {c}
    BY <2>1 DEF OpenConns
  <2>3. Lending!Open(c)
    BY <1>8, <2>2 DEF ConnectionCreate, Lending!Open
  <2> QED
    BY <2>3 DEF Lending!Next
<1>9. ASSUME NEW t \in Threads, ConnectionCreateFails(t) PROVE Goal
  BY <1>9, <1>0 DEF ConnectionCreateFails
<1>10. ASSUME NEW t \in Threads, AcquireRegister(t) PROVE Goal
  <2>1. /\ pc[t] = "register"
        /\ held' = [held EXCEPT ![t] = @ \cup {opened[t]}]
        /\ UNCHANGED handle
    BY <1>10 DEF AcquireRegister, HandOut
  <2>2. opened[t] \in Conns /\ handle[opened[t]] # "closed"
    BY <2>1 DEF OpenedInRegister, NoUseAfterClose
  <2>3. OpenConns' = OpenConns /\ opened[t] \in OpenConns
    BY <2>1, <2>2 DEF OpenConns
  <2>4. Lending!Lend(t, opened[t])
    BY <2>1, <2>3 DEF Lending!Lend, Lending!InUse, ExclusiveUse
  <2> QED
    BY <2>2, <2>4 DEF Lending!Next
<1>11. ASSUME NEW t \in Threads, ReleaseSemaphore(t) PROVE Goal
  BY <1>11, <1>0 DEF ReleaseSemaphore
<1>12. CASE InvalidateConnections
  <2>1. \A c \in acquiredConns : handle[c] # "closed"
    BY DEF AcquiredAreHeld, NoUseAfterClose
  <2>2. \A c \in Conns : handle'[c] # "closed" <=> handle[c] # "closed" /\ c \notin conns
    BY <1>12, <2>1 DEF InvalidateConnections
  <2>3. OpenConns' = OpenConns \ conns /\ conns \subseteq OpenConns
    BY <2>2 DEF OpenConns, IdleValid
  <2>4. Lending!Close(conns)
    BY <1>12, <2>3
       DEF InvalidateConnections, Lending!Close, Lending!InUse, ExclusiveUse
  <2> QED
    BY <2>4 DEF Lending!Next
<1>13. CASE OnConnectionExpired
  <2> DEFINE toDelete == {c \in conns : HasExpired(c)}
  <2>1. OpenConns' = OpenConns \ toDelete /\ toDelete \subseteq OpenConns
    BY <1>13 DEF OnConnectionExpired, OpenConns, IdleValid
  <2>2. Lending!Close(toDelete)
    BY <1>13, <2>1
       DEF OnConnectionExpired, Lending!Close, Lending!InUse, ExclusiveUse
  <2>3. toDelete \in SUBSET Conns
    OBVIOUS
  <2> QED
    BY <2>2, <2>3 DEF Lending!Next
<1>14. CASE RunSlot
  BY <1>14, <1>0 DEF RunSlot
<1>15. CASE TimePasses
  BY <1>15, <1>0 DEF TimePasses
<1>16. CASE UNCHANGED vars
  BY <1>16, <1>0 DEF vars
<1> QED
  BY <1>1, <1>2, <1>3, <1>4, <1>5, <1>6, <1>7, <1>8, <1>9, <1>10, <1>11,
     <1>12, <1>13, <1>14, <1>15, <1>16 DEF Next, ThreadStep

\* For every number of threads and connections, the group is a lending pool:
\* its concurrent steps do to the connections in use nothing but lend them to
\* one thread and take them back.
THEOREM LendsConnectionsHolds == Spec => LendsConnections
<1>1. IInv /\ [Next]_vars => [Lending!Next]_(Lending!vars)
  BY NextLending
<1> QED
  BY Inductive, InitLending, <1>1, PTL DEF Spec, LendsConnections, Lending!Spec

-----------------------------------------------------------------------------
(***************************************************************************)
(* The resources of the semaphore and the number of connections: no        *)
(* resource is lost, and the limit holds.                                  *)
(***************************************************************************)

\* Requests that are not nested, from the semaphore to the connection.
OuterCalls ==
  {t \in Threads : need[t] = 3 /\ pc[t] \in {"giveback", "lookup", "create", "register"}}

\* The resources are counted right, and the semaphore is never negative.
PermitsCounted ==
  /\ sem \in Nat
  /\ IsFiniteSet(HeldPermits) /\ IsFiniteSet(CallPermits)
  /\ SemConservation

\* Every open connection is idle, in use or about to be registered.
OpenAccounted ==
  \A c \in Conns : handle[c] # "closed" =>
    \/ c \in conns
    \/ \E t \in Threads : c \in held[t]
    \/ \E t \in Threads : pc[t] = "register" /\ opened[t] = c

\* The open connections and those that threads are about to open are bounded by
\* the capacity.
OpenBounded ==
  /\ IsFiniteSet(OpenConns) /\ IsFiniteSet(Creating)
  /\ Cardinality(OpenConns) + Cardinality(Creating) <= Capacity

\* So are the connections of requests that are not nested, and those requests,
\* by the limit without the spare connections.
OuterBounded ==
  /\ \A c \in outer : \E t \in Threads : c \in held[t]
  /\ IsFiniteSet(outer) /\ IsFiniteSet(OuterCalls)
  /\ Cardinality(outer) + Cardinality(OuterCalls) <= MaxConcurrentConnections

\* The inductive invariant: the one of ConnectionPoolGroupProofs, and the counts.
CInv ==
  /\ IInv
  /\ PermitsCounted
  /\ OpenAccounted
  /\ OpenBounded
  /\ OuterBounded

-----------------------------------------------------------------------------
(***************************************************************************)
(* Counting                                                                *)
(***************************************************************************)

\* A set whose elements are told apart by elements of a finite set has no more
\* elements.
LEMMA InjectionBounds ==
  ASSUME NEW S, NEW T, IsFiniteSet(T), NEW f \in [S -> T],
         \A a, b \in S : f[a] = f[b] => a = b
  PROVE  IsFiniteSet(S) /\ Cardinality(S) <= Cardinality(T)
<1>1. f \in Injection(S, T)
  BY DEF Injection, IsInjective
<1> QED
  BY <1>1, FS_Injection

\* What a call holds is between nothing and three resources.
LEMMA InCallType ==
  ASSUME TypeOK, TypeOK', NEW t \in Threads
  PROVE  InCall(t) \in 0..3 /\ InCall(t)' \in 0..3
<1>1. /\ pc[t] \in PC /\ need[t] \in {1, 3}
      /\ pc'[t] \in PC /\ need'[t] \in {1, 3}
  BY DEF TypeOK
<1>2. InCall(t) \in 0..3
  BY <1>1 DEF InCall, PC
<1>3. InCall(t)' \in 0..3
  BY <1>1 DEF InCall, PC
<1> QED
  BY <1>2, <1>3

\* The first n resources of a thread are n.
LEMMA PermitsOfThread ==
  ASSUME NEW t, NEW n \in 0..3
  PROVE  IsFiniteSet({t} \X (1..n)) /\ Cardinality({t} \X (1..n)) = n
<1> DEFINE S == {t} \X (1..n)
           f == [i \in 1..n |-> <<t, i>>]
           g == [p \in S |-> p[2]]
<1>1. IsFiniteSet(1..n) /\ Cardinality(1..n) = n
  <2>1. 1 \in Int /\ n \in Int /\ (1 > n => n = 0)
    OBVIOUS
  <2>2. /\ IsFiniteSet(1..n)
        /\ Cardinality(1..n) = IF 1 > n THEN 0 ELSE n - 1 + 1
    BY <2>1, FS_Interval
  <2> QED
    BY <2>1, <2>2
<1>2. IsFiniteSet(S) /\ Cardinality(S) <= n
  <2>1. g \in [S -> 1..n] /\ \A a, b \in S : g[a] = g[b] => a = b
    OBVIOUS
  <2> HIDE DEF g, S
  <2> QED
    BY <1>1, <2>1, InjectionBounds
<1>3. n <= Cardinality(S)
  <2>1. f \in [1..n -> S] /\ \A a, b \in 1..n : f[a] = f[b] => a = b
    OBVIOUS
  <2> HIDE DEF f, S
  <2> QED
    BY <1>1, <1>2, <2>1, InjectionBounds
<1>4. Cardinality(S) \in Nat
  BY <1>2, FS_CardinalityType
<1> QED
  BY <1>2, <1>3, <1>4

\* If one call takes or gives back resources, the number that calls have changes
\* by as many.
LEMMA CallPermitsChange ==
  ASSUME TypeOK, TypeOK', IsFiniteSet(CallPermits), NEW t \in Threads,
         \A u \in Threads \ {t} : InCall(u)' = InCall(u)
  PROVE  /\ IsFiniteSet(CallPermits')
         /\ Cardinality(CallPermits') = Cardinality(CallPermits) + InCall(t)' - InCall(t)
<1> DEFINE Rest == {p \in (Threads \ {t}) \X (1..3) : p[2] <= InCall(p[1])}
           Before == {t} \X (1..InCall(t))
           After == {t} \X (1..InCall(t)')
<1>1. InCall(t) \in 0..3 /\ InCall(t)' \in 0..3
  BY InCallType
<1>2. CallPermits = Rest \cup Before /\ Rest \cap Before = {}
  BY <1>1 DEF CallPermits
<1>3. CallPermits' = Rest \cup After /\ Rest \cap After = {}
  BY <1>1 DEF CallPermits
<1>4. IsFiniteSet(Rest)
  BY <1>2, FS_Subset
<1>5. /\ IsFiniteSet(Before) /\ Cardinality(Before) = InCall(t)
      /\ IsFiniteSet(After) /\ Cardinality(After) = InCall(t)'
  BY <1>1, PermitsOfThread
<1> HIDE DEF Rest, Before, After
<1>6. Cardinality(Rest) \in Nat /\ Cardinality({}) = 0
  BY <1>4, FS_EmptySet, FS_CardinalityType
<1>7. Cardinality(Rest \cup Before) = Cardinality(Rest) + InCall(t)
  <2>1. Cardinality(Rest \cup Before) =
          Cardinality(Rest) + Cardinality(Before) - Cardinality(Rest \cap Before)
    BY <1>4, <1>5, FS_Union
  <2>2. Cardinality(Rest \cap Before) = 0
    BY <1>2, <1>6, Zenon
  <2> QED
    BY <1>1, <1>5, <1>6, <2>1, <2>2
<1>8. /\ IsFiniteSet(Rest \cup After)
      /\ Cardinality(Rest \cup After) = Cardinality(Rest) + InCall(t)'
  <2>1. /\ IsFiniteSet(Rest \cup After)
        /\ Cardinality(Rest \cup After) =
             Cardinality(Rest) + Cardinality(After) - Cardinality(Rest \cap After)
    BY <1>4, <1>5, FS_Union
  <2>2. Cardinality(Rest \cap After) = 0
    BY <1>3, <1>6, Zenon
  <2> QED
    BY <1>1, <1>5, <1>6, <2>1, <2>2
<1> QED
  BY <1>1, <1>2, <1>3, <1>6, <1>7, <1>8

\* A connection that is handed out takes one more resource, one that is returned
\* gives it back.
LEMMA HeldPermitsGrow ==
  ASSUME TypeOK, IsFiniteSet(HeldPermits), NEW t \in Threads, NEW c \in Conns,
         c \notin held[t], held' = [held EXCEPT ![t] = @ \cup {c}]
  PROVE  IsFiniteSet(HeldPermits') /\ Cardinality(HeldPermits') = Cardinality(HeldPermits) + 1
<1>1. HeldPermits' = HeldPermits \cup {<<t, c>>} /\ <<t, c>> \notin HeldPermits
  BY DEF HeldPermits, TypeOK
<1> QED
  BY <1>1, FS_AddElement

LEMMA HeldPermitsShrink ==
  ASSUME TypeOK, IsFiniteSet(HeldPermits), NEW t \in Threads, NEW c \in Conns,
         c \in held[t], held' = [held EXCEPT ![t] = @ \ {c}]
  PROVE  IsFiniteSet(HeldPermits') /\ Cardinality(HeldPermits') = Cardinality(HeldPermits) - 1
<1>1. HeldPermits' = HeldPermits \ {<<t, c>>} /\ <<t, c>> \in HeldPermits
  BY DEF HeldPermits, TypeOK
<1> QED
  BY <1>1, FS_RemoveElement

-----------------------------------------------------------------------------
(***************************************************************************)
(* The bounds, from the resources                                          *)
(***************************************************************************)

\* Connections in use, threads that register one and the threads of cs, which
\* are others inside acquire(), hold a resource each.
LEMMA UsersHoldPermits ==
  ASSUME IInv, PermitsCounted, NEW cs \in SUBSET Conns, NEW ts \in SUBSET Threads,
         \A c \in cs : \E t \in Threads : c \in held[t],
         \A t \in ts : InCall(t) >= 1
  PROVE  /\ IsFiniteSet(cs) /\ IsFiniteSet(ts)
         /\ Cardinality(cs) <= Cardinality(HeldPermits)
         /\ Cardinality(ts) <= Cardinality(CallPermits)
<1>1. IsFiniteSet(cs) /\ Cardinality(cs) <= Cardinality(HeldPermits)
  <2> DEFINE f == [c \in cs |-> <<CHOOSE t \in Threads : c \in held[t], c>>]
  <2>1. f \in [cs -> HeldPermits]
    BY DEF HeldPermits
  <2>2. \A a, b \in cs : f[a] = f[b] => a = b
    OBVIOUS
  <2> HIDE DEF f
  <2> QED
    BY <2>1, <2>2, InjectionBounds DEF PermitsCounted
<1>2. IsFiniteSet(ts) /\ Cardinality(ts) <= Cardinality(CallPermits)
  <2> DEFINE f == [t \in ts |-> <<t, 1>>]
  <2>1. f \in [ts -> CallPermits]
    BY DEF CallPermits
  <2>2. \A a, b \in ts : f[a] = f[b] => a = b
    OBVIOUS
  <2> HIDE DEF f
  <2> QED
    BY <2>1, <2>2, InjectionBounds DEF PermitsCounted
<1> QED
  BY <1>1, <1>2

\* When nothing is idle, the open connections and the creations hold a resource
\* each, and the one of another call is enough for one creation more.
LEMMA RoomForOne ==
  ASSUME CInv, conns = {}, NEW t \in Threads, pc[t] = "lookup"
  PROVE  Cardinality(OpenConns) + Cardinality(Creating \cup {t}) <= Capacity
<1> DEFINE used == {c \in OpenConns : \E u \in Threads : c \in held[u]}
           fresh == {c \in OpenConns : \E u \in Threads : pc[u] = "register" /\ opened[u] = c}
           registering == {u \in Threads : pc[u] = "register"}
           creating == Creating \cup {t}
<1>1. OpenConns = used \cup fresh
  BY DEF CInv, OpenAccounted, OpenConns
<1>2. \A u \in registering \cup creating : InCall(u) >= 1
  BY DEF Creating, InCall
<1>3. /\ IsFiniteSet(used) /\ Cardinality(used) <= Cardinality(HeldPermits)
      /\ IsFiniteSet(registering \cup creating)
      /\ Cardinality(registering \cup creating) <= Cardinality(CallPermits)
  <2>1. used \in SUBSET Conns /\ registering \cup creating \in SUBSET Threads
    BY DEF OpenConns, Creating
  <2>2. \A c \in used : \E u \in Threads : c \in held[u]
    OBVIOUS
  <2> HIDE DEF used, registering, creating
  <2> QED
    BY <1>2, <2>1, <2>2, UsersHoldPermits DEF CInv
<1>4. IsFiniteSet(fresh) /\ Cardinality(fresh) <= Cardinality(registering)
  <2> DEFINE f == [c \in fresh |-> CHOOSE u \in Threads : pc[u] = "register" /\ opened[u] = c]
  <2>1. \A c \in fresh : f[c] \in registering /\ opened[f[c]] = c
    OBVIOUS
  <2>2. f \in [fresh -> registering] /\ \A a, b \in fresh : f[a] = f[b] => a = b
    BY <2>1
  <2>3. IsFiniteSet(registering)
    BY <1>3, FS_Subset
  <2> HIDE DEF f, fresh, registering
  <2> QED
    BY <2>2, <2>3, InjectionBounds
<1>5. registering \cap creating = {} /\ IsFiniteSet(registering) /\ IsFiniteSet(creating)
  <2>1. registering \cap creating = {}
    BY DEF Creating
  <2>2. registering \subseteq registering \cup creating /\ creating \subseteq registering \cup creating
    OBVIOUS
  <2> HIDE DEF registering, creating
  <2> QED
    BY <1>3, <2>1, <2>2, FS_Subset
<1> HIDE DEF used, fresh, registering, creating
<1>6. Cardinality(registering \cup creating) = Cardinality(registering) + Cardinality(creating)
  <2>1. Cardinality(registering \cup creating) =
          Cardinality(registering) + Cardinality(creating) - Cardinality(registering \cap creating)
    BY <1>5, FS_Union
  <2>2. Cardinality(registering \cap creating) = 0
    BY <1>5, FS_EmptySet, Zenon
  <2>3. Cardinality(registering) \in Nat /\ Cardinality(creating) \in Nat
    BY <1>5, FS_CardinalityType
  <2> QED
    BY <2>1, <2>2, <2>3
<1>7. Cardinality(OpenConns) <= Cardinality(used) + Cardinality(fresh)
  <2>1. Cardinality(used \cup fresh) =
          Cardinality(used) + Cardinality(fresh) - Cardinality(used \cap fresh)
    BY <1>3, <1>4, FS_Union
  <2>2. IsFiniteSet(used \cap fresh)
    BY <1>3, FS_Subset
  <2>3. Cardinality(used) \in Nat /\ Cardinality(fresh) \in Nat
          /\ Cardinality(used \cap fresh) \in Nat
    BY <1>3, <1>4, <2>2, FS_CardinalityType
  <2>4. Cardinality(used \cup fresh) <= Cardinality(used) + Cardinality(fresh)
    BY <2>1, <2>3
  <2> QED
    BY <1>1, <2>4, Zenon
<1>8. Cardinality(HeldPermits) + Cardinality(CallPermits) <= Capacity
  <2>1. Cardinality(HeldPermits) \in Nat /\ Cardinality(CallPermits) \in Nat /\ sem \in Nat
    BY FS_CardinalityType DEF CInv, PermitsCounted
  <2> QED
    BY <2>1 DEF CInv, PermitsCounted, SemConservation
<1>9. /\ Cardinality(used) \in Nat /\ Cardinality(fresh) \in Nat
      /\ Cardinality(registering) \in Nat /\ Cardinality(creating) \in Nat
      /\ Cardinality(HeldPermits) \in Nat /\ Cardinality(CallPermits) \in Nat
      /\ Cardinality(OpenConns) \in Nat /\ Capacity \in Nat
  BY <1>3, <1>4, <1>5, FS_CardinalityType
     DEF CInv, PermitsCounted, OpenBounded, Capacity, CONN_POOL_SPARE_CONNECTIONS
<1>10. Cardinality(OpenConns) + Cardinality(creating) <= Capacity
  BY <1>3, <1>4, <1>6, <1>7, <1>8, <1>9
<1> QED
  BY <1>10 DEF creating

\* A request that is not nested is let in only when three resources are free:
\* the connections of such requests, and those requests, are fewer than the
\* limit.
LEMMA RoomForOuter ==
  ASSUME CInv, sem >= 3
  PROVE  Cardinality(outer) + Cardinality(OuterCalls) + 1 <= MaxConcurrentConnections
<1>1. /\ Cardinality(outer) <= Cardinality(HeldPermits)
      /\ Cardinality(OuterCalls) <= Cardinality(CallPermits)
  <2>1. outer \in SUBSET Conns /\ OuterCalls \in SUBSET Threads
    BY DEF CInv, IInv, TypeOK, OuterCalls
  <2>2. \A t \in OuterCalls : InCall(t) >= 1
    BY DEF OuterCalls, InCall
  <2>3. \A c \in outer : \E t \in Threads : c \in held[t]
    BY DEF CInv, OuterBounded
  <2> QED
    BY <2>1, <2>2, <2>3, UsersHoldPermits DEF CInv
<1>2. /\ Cardinality(outer) \in Nat /\ Cardinality(OuterCalls) \in Nat
      /\ Cardinality(HeldPermits) \in Nat /\ Cardinality(CallPermits) \in Nat /\ sem \in Nat
  BY FS_CardinalityType DEF CInv, PermitsCounted, OuterBounded
<1>3. sem + Cardinality(HeldPermits) + Cardinality(CallPermits) = MaxConcurrentConnections + 2
  BY DEF CInv, PermitsCounted, SemConservation, Capacity, CONN_POOL_SPARE_CONNECTIONS
<1> QED
  BY <1>1, <1>2, <1>3

-----------------------------------------------------------------------------
(***************************************************************************)
(* Every step keeps the counts                                             *)
(***************************************************************************)

\* A step of one thread that moves resources between the semaphore, the thread's
\* call and the connections in use loses none.
LEMMA PermitsMoved ==
  ASSUME IInv, PermitsCounted, TypeOK', NEW t \in Threads,
         \A u \in Threads \ {t} : pc'[u] = pc[u] /\ need'[u] = need[u],
         IsFiniteSet(HeldPermits'), sem' \in Nat,
         sem' + Cardinality(HeldPermits') + InCall(t)'
           = sem + Cardinality(HeldPermits) + InCall(t)
  PROVE  PermitsCounted'
<1>1. \A u \in Threads \ {t} : InCall(u)' = InCall(u)
  BY DEF InCall
<1>2. /\ IsFiniteSet(CallPermits')
      /\ Cardinality(CallPermits') = Cardinality(CallPermits) + InCall(t)' - InCall(t)
  BY <1>1, CallPermitsChange DEF IInv, PermitsCounted
<1>3. /\ Cardinality(HeldPermits) \in Nat /\ Cardinality(HeldPermits') \in Nat
      /\ Cardinality(CallPermits) \in Nat /\ sem \in Nat
  BY FS_CardinalityType DEF PermitsCounted
<1>4. InCall(t) \in 0..3 /\ InCall(t)' \in 0..3
  BY InCallType DEF IInv
<1>5. SemConservation'
  BY <1>2, <1>3, <1>4 DEF PermitsCounted, SemConservation, Capacity
<1> QED
  BY <1>2, <1>5 DEF PermitsCounted

\* Steps that move no resource.
LEMMA PermitsUnchanged ==
  ASSUME IInv, PermitsCounted, UNCHANGED <<sem, held>>,
         \A u \in Threads : InCall(u)' = InCall(u)
  PROVE  PermitsCounted'
<1>1. HeldPermits' = HeldPermits /\ CallPermits' = CallPermits
  BY DEF HeldPermits, CallPermits
<1> QED
  BY <1>1 DEF PermitsCounted, SemConservation, Capacity

\* No step of acquire() or release() loses or invents a resource.
LEMMA NextPermits ==
  ASSUME IInv, PermitsCounted, TypeOK', [Next]_vars
  PROVE  PermitsCounted'
<1> USE DEF IInv, groupVars, timerVars, threadVars, historyVars
<1>0. sem \in Nat /\ pc \in [Threads -> PC] /\ need \in [Threads -> {1, 3}]
        /\ held \in [Threads -> SUBSET Conns]
  BY DEF PermitsCounted, TypeOK
<1>1. ASSUME NEW t \in Threads, NEW mayBeNested \in BOOLEAN, Request(t, mayBeNested)
      PROVE  PermitsCounted'
  <2>1. \A u \in Threads : InCall(u)' = InCall(u)
    BY <1>0, <1>1 DEF Request, InCall
  <2> QED
    BY <1>1, <2>1, PermitsUnchanged DEF Request
<1>2. ASSUME NEW t \in Threads, NEW c \in Conns, Release(t, c)
      PROVE  PermitsCounted'
  <2>1. /\ c \in held[t] /\ held' = [held EXCEPT ![t] = @ \ {c}] /\ sem' = sem
        /\ InCall(t) = 0 /\ InCall(t)' = 1
        /\ \A u \in Threads \ {t} : pc'[u] = pc[u] /\ need'[u] = need[u]
    BY <1>0, <1>2 DEF Release, InCall
  <2>2. /\ IsFiniteSet(HeldPermits')
        /\ Cardinality(HeldPermits') = Cardinality(HeldPermits) - 1
    BY <2>1, HeldPermitsShrink DEF PermitsCounted
  <2>3. Cardinality(HeldPermits) \in Nat
    BY FS_CardinalityType DEF PermitsCounted
  <2> QED
    BY <1>0, <2>1, <2>2, <2>3, PermitsMoved
<1>3. ASSUME NEW t \in Threads, NEW c \in Conns, c \notin held[t],
             held' = [held EXCEPT ![t] = @ \cup {c}], sem' = sem,
             pc[t] \in {"lookup", "register"}, pc' = [pc EXCEPT ![t] = "idle"],
             need' = need
      PROVE  PermitsCounted'
  <2>1. /\ InCall(t) = 1 /\ InCall(t)' = 0
        /\ \A u \in Threads \ {t} : pc'[u] = pc[u] /\ need'[u] = need[u]
    BY <1>0, <1>3 DEF InCall
  <2>2. /\ IsFiniteSet(HeldPermits')
        /\ Cardinality(HeldPermits') = Cardinality(HeldPermits) + 1
    BY <1>3, HeldPermitsGrow DEF PermitsCounted
  <2>3. Cardinality(HeldPermits) \in Nat
    BY FS_CardinalityType DEF PermitsCounted
  <2> QED
    BY <1>0, <1>3, <2>1, <2>2, <2>3, PermitsMoved
<1>4. ASSUME NEW t \in Threads, AcquireCached(t) PROVE PermitsCounted'
  <2>1. PICK c \in conns : HandOut(t, c)
    BY <1>4 DEF AcquireCached
  <2>2. c \in Conns /\ c \notin held[t]
    BY <2>1 DEF TypeOK, ExclusiveUse
  <2> QED
    BY <1>3, <1>4, <2>1, <2>2 DEF AcquireCached, HandOut
<1>5. ASSUME NEW t \in Threads, AcquireRegister(t) PROVE PermitsCounted'
  <2>1. opened[t] \in Conns /\ opened[t] \notin held[t]
    BY <1>5 DEF AcquireRegister, TypeOK, ExclusiveUse, OpenedInRegister
  <2> QED
    BY <1>3, <1>5, <2>1 DEF AcquireRegister, HandOut
<1>6. ASSUME UNCHANGED held PROVE HeldPermits' = HeldPermits
  BY <1>6 DEF HeldPermits
<1>7. ASSUME NEW t \in Threads,
             AcquireSemaphore(t) \/ GiveBackSpare(t) \/ ConnectionCreateFails(t)
               \/ ReleaseSemaphore(t)
      PROVE  PermitsCounted'
  <2>1. held' = held /\ \A u \in Threads \ {t} : pc'[u] = pc[u] /\ need'[u] = need[u]
    BY <1>0, <1>7 DEF AcquireSemaphore, GiveBackSpare, ConnectionCreateFails, ReleaseSemaphore
  <2>2. sem' \in Nat /\ sem' + InCall(t)' = sem + InCall(t)
    <3>1. CASE AcquireSemaphore(t)
      BY <1>0, <3>1 DEF AcquireSemaphore, InCall
    <3>2. CASE GiveBackSpare(t)
      BY <1>0, <3>2 DEF GiveBackSpare, InCall
    <3>3. CASE ConnectionCreateFails(t)
      BY <1>0, <3>3 DEF ConnectionCreateFails, InCall
    <3>4. CASE ReleaseSemaphore(t)
      BY <1>0, <3>4 DEF ReleaseSemaphore, InCall
    <3> QED
      BY <1>7, <3>1, <3>2, <3>3, <3>4
  <2>3. HeldPermits' = HeldPermits
    BY <1>6, <2>1
  <2>4. Cardinality(HeldPermits') = Cardinality(HeldPermits) /\ IsFiniteSet(HeldPermits')
    BY <2>3 DEF PermitsCounted
  <2>5. Cardinality(HeldPermits) \in Nat /\ InCall(t) \in 0..3 /\ InCall(t)' \in 0..3
    BY FS_CardinalityType, InCallType DEF PermitsCounted
  <2>6. sem' + Cardinality(HeldPermits') + InCall(t)'
           = sem + Cardinality(HeldPermits) + InCall(t)
    BY <1>0, <2>2, <2>4, <2>5
  <2> QED
    BY <2>1, <2>2, <2>4, <2>6, PermitsMoved
<1>8. ASSUME NEW t \in Threads,
             AcquireTimeout(t) \/ AcquireMiss(t) \/ ConnectionCreate(t)
      PROVE  PermitsCounted'
  <2>1. \A u \in Threads : InCall(u)' = InCall(u)
    BY <1>0, <1>8 DEF AcquireTimeout, AcquireMiss, ConnectionCreate, InCall
  <2>2. UNCHANGED <<sem, held>>
    BY <1>8 DEF AcquireTimeout, AcquireMiss, ConnectionCreate
  <2> QED
    BY <2>1, <2>2, PermitsUnchanged
<1>9. CASE InvalidateConnections \/ OnConnectionExpired \/ RunSlot \/ TimePasses
             \/ UNCHANGED vars
  <2>1. UNCHANGED <<sem, held, pc, need>>
    BY <1>9 DEF InvalidateConnections, OnConnectionExpired, RunSlot, TimePasses, vars
  <2>2. \A u \in Threads : InCall(u)' = InCall(u)
    BY <2>1 DEF InCall
  <2> QED
    BY <2>1, <2>2, PermitsUnchanged
<1> QED
  BY <1>1, <1>2, <1>4, <1>5, <1>7, <1>8, <1>9 DEF Next, ThreadStep

\* No open connection is forgotten.
LEMMA NextOpenAccounted ==
  ASSUME IInv, OpenAccounted, [Next]_vars
  PROVE  OpenAccounted'
<1> USE DEF IInv, TypeOK, OpenAccounted, OpenedInRegister,
            groupVars, timerVars, threadVars, historyVars
<1>1. ASSUME NEW t \in Threads, NEW c \in Conns, Release(t, c)
      PROVE  OpenAccounted'
  <2>1. /\ \A d \in Conns \ {c} : handle'[d] = handle[d]
        /\ handle'[c] = "closed" \/ c \in conns'
        /\ conns \subseteq conns' /\ opened' = opened
    BY <1>1 DEF Release
  <2>2. \A u \in Threads : held[u] \ {c} \subseteq held'[u]
    BY <1>1 DEF Release
  <2>3. \A u \in Threads : pc[u] = "register" => pc'[u] = "register"
    BY <1>1 DEF Release
  <2> QED
    BY <2>1, <2>2, <2>3
<1>2. ASSUME NEW t \in Threads, AcquireCached(t) PROVE OpenAccounted'
  <2>1. PICK c \in conns : /\ conns' = conns \ {c} /\ opened' = opened
                          /\ handle' = [handle EXCEPT ![c] = "valid"]
                          /\ held' = [held EXCEPT ![t] = @ \cup {c}]
    BY <1>2 DEF AcquireCached, Unstack, HandOut
  <2>2. c \in held'[t] /\ \A u \in Threads : held[u] \subseteq held'[u]
    BY <2>1
  <2>3. \A u \in Threads : pc[u] = "register" => pc'[u] = "register"
    BY <1>2 DEF AcquireCached, HandOut
  <2> QED
    BY <2>1, <2>2, <2>3
<1>3. ASSUME NEW t \in Threads, ConnectionCreate(t) PROVE OpenAccounted'
  <2>1. PICK c \in Conns : /\ handle' = [handle EXCEPT ![c] = "valid"]
                          /\ opened' = [opened EXCEPT ![t] = c]
    BY <1>3 DEF ConnectionCreate
  <2>2. /\ UNCHANGED <<conns, held>> /\ pc[t] = "create"
        /\ pc' = [pc EXCEPT ![t] = "register"]
    BY <1>3 DEF ConnectionCreate
  <2>3. pc'[t] = "register" /\ opened'[t] = c
    BY <2>1, <2>2
  <2>4. \A u \in Threads : pc[u] = "register" => pc'[u] = "register" /\ opened'[u] = opened[u]
    BY <2>1, <2>2
  <2> SUFFICES ASSUME NEW d \in Conns, handle'[d] # "closed"
               PROVE  \/ d \in conns'
                      \/ \E u \in Threads : d \in held'[u]
                      \/ \E u \in Threads : pc'[u] = "register" /\ opened'[u] = d
    OBVIOUS
  <2>5. CASE d = c
    BY <2>3, <2>5
  <2>6. CASE d # c
    <3>1. handle[d] # "closed"
      BY <2>1, <2>6
    <3>2. \/ d \in conns
          \/ \E u \in Threads : d \in held[u]
          \/ \E u \in Threads : pc[u] = "register" /\ opened[u] = d
      BY <3>1
    <3> QED
      BY <2>2, <2>4, <3>2
  <2> QED
    BY <2>5, <2>6
<1>4. ASSUME NEW t \in Threads, AcquireRegister(t) PROVE OpenAccounted'
  <2>1. /\ UNCHANGED <<conns, handle>> /\ held' = [held EXCEPT ![t] = @ \cup {opened[t]}]
        /\ opened' = [opened EXCEPT ![t] = NoConn] /\ pc' = [pc EXCEPT ![t] = "idle"]
    BY <1>4 DEF AcquireRegister, HandOut
  <2>2. opened[t] \in held'[t] /\ \A u \in Threads : held[u] \subseteq held'[u]
    BY <2>1
  <2>3. \A u \in Threads \ {t} : pc[u] = pc'[u] /\ opened'[u] = opened[u]
    BY <2>1
  <2> SUFFICES ASSUME NEW d \in Conns, handle'[d] # "closed"
               PROVE  \/ d \in conns'
                      \/ \E u \in Threads : d \in held'[u]
                      \/ \E u \in Threads : pc'[u] = "register" /\ opened'[u] = d
    OBVIOUS
  <2>4. \/ d \in conns
        \/ \E u \in Threads : d \in held[u]
        \/ \E u \in Threads : pc[u] = "register" /\ opened[u] = d
    BY <2>1
  <2>5. CASE d = opened[t]
    BY <2>2, <2>5
  <2>6. CASE d # opened[t]
    BY <2>1, <2>2, <2>3, <2>4, <2>6
  <2> QED
    BY <2>5, <2>6
<1>5. ASSUME NEW t \in Threads,
             \/ \E mayBeNested \in BOOLEAN : Request(t, mayBeNested)
             \/ AcquireSemaphore(t) \/ AcquireTimeout(t) \/ GiveBackSpare(t)
             \/ AcquireMiss(t) \/ ConnectionCreateFails(t) \/ ReleaseSemaphore(t)
      PROVE  OpenAccounted'
  <2>1. UNCHANGED <<handle, conns, held, opened>> /\ pc[t] # "register"
          /\ \A u \in Threads \ {t} : pc'[u] = pc[u]
    BY <1>5 DEF Request, AcquireSemaphore, AcquireTimeout, GiveBackSpare, AcquireMiss,
                ConnectionCreateFails, ReleaseSemaphore
  <2> QED
    BY <2>1
<1>6. CASE InvalidateConnections
  BY <1>6 DEF InvalidateConnections, Unstack, AcquiredAreHeld
<1>7. CASE OnConnectionExpired
  BY <1>7 DEF OnConnectionExpired, Unstack
<1>8. CASE RunSlot \/ TimePasses \/ UNCHANGED vars
  BY <1>8 DEF RunSlot, TimePasses, vars
<1> QED
  BY <1>1, <1>2, <1>3, <1>4, <1>5, <1>6, <1>7, <1>8 DEF Next, ThreadStep

\* Opening a connection was provided for when the stack was found to be empty.
LEMMA NextOpenBounded ==
  ASSUME CInv, [Next]_vars
  PROVE  OpenBounded'
<1> USE DEF CInv, IInv, TypeOK, OpenBounded, groupVars, timerVars, threadVars, historyVars
<1>0. /\ Cardinality(OpenConns) \in Nat /\ Cardinality(Creating) \in Nat /\ Capacity \in Nat
      /\ Capacity' = Capacity
  BY FS_CardinalityType DEF Capacity, CONN_POOL_SPARE_CONNECTIONS
<1>1. ASSUME OpenConns' \subseteq OpenConns, Creating' \subseteq Creating
      PROVE  OpenBounded'
  <2>1. /\ IsFiniteSet(OpenConns') /\ Cardinality(OpenConns') <= Cardinality(OpenConns)
        /\ IsFiniteSet(Creating') /\ Cardinality(Creating') <= Cardinality(Creating)
    BY <1>1, FS_Subset
  <2>2. Cardinality(OpenConns') \in Nat /\ Cardinality(Creating') \in Nat
    BY <2>1, FS_CardinalityType
  <2> QED
    BY <1>0, <2>1, <2>2
<1>2. ASSUME NEW t \in Threads, AcquireMiss(t) PROVE OpenBounded'
  <2>1. OpenConns' = OpenConns /\ Creating' = Creating \cup {t}
    BY <1>2 DEF AcquireMiss, OpenConns, Creating, PC
  <2>2. Cardinality(OpenConns) + Cardinality(Creating \cup {t}) <= Capacity
    BY <1>2, RoomForOne DEF AcquireMiss
  <2>3. IsFiniteSet(Creating \cup {t})
    BY FS_AddElement
  <2> QED
    BY <1>0, <2>1, <2>2, <2>3
<1>3. ASSUME NEW t \in Threads, ConnectionCreate(t) PROVE OpenBounded'
  <2>1. PICK c \in Conns : handle[c] = "closed" /\ handle' = [handle EXCEPT ![c] = "valid"]
    BY <1>3 DEF ConnectionCreate
  <2>2. c \notin OpenConns /\ OpenConns' = OpenConns \cup {c}
    BY <2>1 DEF OpenConns
  <2>3. t \in Creating /\ Creating' = Creating \ {t}
    BY <1>3 DEF ConnectionCreate, Creating
  <2>4. /\ IsFiniteSet(OpenConns') /\ Cardinality(OpenConns') = Cardinality(OpenConns) + 1
    BY <2>2, FS_AddElement
  <2>5. /\ IsFiniteSet(Creating') /\ Cardinality(Creating') = Cardinality(Creating) - 1
    BY <2>3, FS_RemoveElement
  <2> QED
    BY <1>0, <2>4, <2>5
<1>4. ASSUME NEW t \in Threads, NEW c \in Conns, Release(t, c)
      PROVE  OpenBounded'
  BY <1>1, <1>4 DEF Release, OpenConns, Creating
<1>5. ASSUME NEW t \in Threads, AcquireCached(t) PROVE OpenBounded'
  <2>1. PICK c \in conns : handle' = [handle EXCEPT ![c] = "valid"]
    BY <1>5 DEF AcquireCached
  <2>2. OpenConns' \subseteq OpenConns
    BY <2>1 DEF OpenConns, IdleValid
  <2>3. Creating' \subseteq Creating
    BY <1>5 DEF AcquireCached, HandOut, Creating
  <2> QED
    BY <1>1, <2>2, <2>3
<1>6. ASSUME NEW t \in Threads, AcquireRegister(t) PROVE OpenBounded'
  BY <1>1, <1>6 DEF AcquireRegister, HandOut, OpenConns, Creating
<1>7. ASSUME NEW t \in Threads,
             \/ \E mayBeNested \in BOOLEAN : Request(t, mayBeNested)
             \/ AcquireSemaphore(t) \/ AcquireTimeout(t) \/ GiveBackSpare(t)
             \/ ConnectionCreateFails(t) \/ ReleaseSemaphore(t)
      PROVE  OpenBounded'
  <2>1. handle' = handle /\ \A u \in Threads : pc'[u] = "create" => pc[u] = "create"
    BY <1>7 DEF Request, AcquireSemaphore, AcquireTimeout, GiveBackSpare,
                ConnectionCreateFails, ReleaseSemaphore
  <2> QED
    BY <1>1, <2>1 DEF OpenConns, Creating
<1>8. ASSUME UNCHANGED pc, \A c \in Conns : handle'[c] # "closed" => handle[c] # "closed"
      PROVE  OpenBounded'
  <2>1. OpenConns' \subseteq OpenConns
    BY <1>8 DEF OpenConns
  <2>2. Creating' \subseteq Creating
    BY <1>8 DEF Creating
  <2> QED
    BY <1>1, <2>1, <2>2
<1>9. CASE InvalidateConnections
  <2>1. \A c \in acquiredConns : handle[c] # "closed"
    BY DEF AcquiredAreHeld, NoUseAfterClose
  <2>2. \A c \in Conns : handle'[c] # "closed" => handle[c] # "closed"
    BY <1>9, <2>1 DEF InvalidateConnections
  <2> QED
    BY <1>8, <1>9, <2>2 DEF InvalidateConnections
<1>10. CASE OnConnectionExpired
  <2>1. \A c \in Conns : handle'[c] # "closed" => handle[c] # "closed"
    BY <1>10 DEF OnConnectionExpired
  <2> QED
    BY <1>8, <1>10, <2>1 DEF OnConnectionExpired
<1>11. CASE RunSlot \/ TimePasses \/ UNCHANGED vars
  <2>1. UNCHANGED <<pc, handle>>
    BY <1>11 DEF RunSlot, TimePasses, vars
  <2> QED
    BY <1>8, <2>1
<1> QED
  BY <1>2, <1>3, <1>4, <1>5, <1>6, <1>7, <1>9, <1>10, <1>11 DEF Next, ThreadStep

\* A request that is not nested was provided for when it passed the semaphore.
LEMMA NextOuterBounded ==
  ASSUME CInv, [Next]_vars
  PROVE  OuterBounded'
<1> USE DEF OuterBounded, groupVars, timerVars, threadVars, historyVars
<1>0. /\ pc \in [Threads -> PC] /\ need \in [Threads -> {1, 3}]
      /\ held \in [Threads -> SUBSET Conns] /\ outer \subseteq Conns
      /\ \A c \in outer : \E t \in Threads : c \in held[t]
      /\ \A t, u \in Threads : t # u => held[t] \cap held[u] = {}
      /\ IsFiniteSet(outer) /\ IsFiniteSet(OuterCalls)
      /\ Cardinality(outer) + Cardinality(OuterCalls) <= MaxConcurrentConnections
  BY DEF CInv, IInv, TypeOK, ExclusiveUse
<1>n. /\ Cardinality(outer) \in Nat /\ Cardinality(OuterCalls) \in Nat
      /\ MaxConcurrentConnections \in Nat
  BY <1>0, FS_CardinalityType
<1>1. ASSUME outer' \subseteq outer, OuterCalls' \subseteq OuterCalls,
             \A c \in outer' : \E t \in Threads : c \in held'[t]
      PROVE  OuterBounded'
  <2>1. /\ IsFiniteSet(outer') /\ Cardinality(outer') <= Cardinality(outer)
        /\ IsFiniteSet(OuterCalls') /\ Cardinality(OuterCalls') <= Cardinality(OuterCalls)
    BY <1>0, <1>1, FS_Subset
  <2>2. Cardinality(outer') \in Nat /\ Cardinality(OuterCalls') \in Nat
    BY <2>1, FS_CardinalityType
  <2> QED
    BY <1>0, <1>n, <1>1, <2>1, <2>2
<1>2. ASSUME UNCHANGED <<outer, held>>, OuterCalls' \subseteq OuterCalls
      PROVE  OuterBounded'
  BY <1>0, <1>1, <1>2
<1>3. ASSUME NEW t \in Threads, AcquireSemaphore(t) PROVE OuterBounded'
  <2>1. CASE need[t] = 3
    <3>1. OuterCalls' = OuterCalls \cup {t} /\ UNCHANGED <<outer, held>>
      BY <1>0, <1>3, <2>1 DEF AcquireSemaphore, OuterCalls
    <3>2. Cardinality(outer) + Cardinality(OuterCalls) + 1 <= MaxConcurrentConnections
      BY <1>3, <2>1, RoomForOuter DEF AcquireSemaphore
    <3>3. /\ IsFiniteSet(OuterCalls')
          /\ Cardinality(OuterCalls') = Cardinality(OuterCalls) \/
             Cardinality(OuterCalls') = Cardinality(OuterCalls) + 1
      BY <1>0, <3>1, FS_AddElement
    <3> QED
      BY <1>0, <1>n, <3>1, <3>2, <3>3
  <2>2. CASE need[t] # 3
    <3>1. OuterCalls' \subseteq OuterCalls
      BY <1>0, <1>3, <2>2 DEF AcquireSemaphore, OuterCalls
    <3> QED
      BY <1>2, <1>3, <3>1 DEF AcquireSemaphore
  <2> QED
    BY <2>1, <2>2
<1>4. ASSUME NEW t \in Threads, NEW c \in Conns, HandOut(t, c), UNCHANGED need,
             pc[t] \in {"lookup", "register"}
      PROVE  OuterBounded'
  <2>1. \A d \in outer' : \E u \in Threads : d \in held'[u]
    <3>1. c \in held'[t] /\ \A u \in Threads : held[u] \subseteq held'[u]
      BY <1>0, <1>4 DEF HandOut
    <3>2. outer' \subseteq outer \cup {c}
      BY <1>4 DEF HandOut
    <3> QED
      BY <1>0, <3>1, <3>2
  <2>2. CASE need[t] = 3
    <3>1. /\ t \in OuterCalls /\ OuterCalls' = OuterCalls \ {t}
          /\ outer' = outer \cup {c}
      BY <1>0, <1>4, <2>2 DEF HandOut, OuterCalls, requiredFreeConnectionCount
    <3>2. /\ IsFiniteSet(OuterCalls')
          /\ Cardinality(OuterCalls') = Cardinality(OuterCalls) - 1
      BY <1>0, <3>1, FS_RemoveElement
    <3>3. /\ IsFiniteSet(outer')
          /\ Cardinality(outer') = Cardinality(outer) \/
             Cardinality(outer') = Cardinality(outer) + 1
      BY <1>0, <3>1, FS_AddElement
    <3> QED
      BY <1>0, <1>n, <2>1, <3>2, <3>3
  <2>3. CASE need[t] # 3
    <3>1. OuterCalls' \subseteq OuterCalls /\ outer' = outer
      BY <1>0, <1>4, <2>3 DEF HandOut, OuterCalls, requiredFreeConnectionCount
    <3> QED
      BY <1>1, <2>1, <3>1
  <2> QED
    BY <2>2, <2>3
<1>5. ASSUME NEW t \in Threads, AcquireCached(t) PROVE OuterBounded'
  <2>1. PICK c \in conns : HandOut(t, c)
    BY <1>5 DEF AcquireCached
  <2>2. c \in Conns
    BY <2>1 DEF CInv, IInv, TypeOK
  <2> QED
    BY <1>4, <1>5, <2>1, <2>2 DEF AcquireCached
<1>6. ASSUME NEW t \in Threads, AcquireRegister(t) PROVE OuterBounded'
  <2>1. opened[t] \in Conns
    BY <1>6 DEF AcquireRegister, CInv, IInv, TypeOK, OpenedInRegister
  <2> QED
    BY <1>4, <1>6, <2>1 DEF AcquireRegister
<1>7. ASSUME NEW t \in Threads, NEW c \in Conns, Release(t, c) PROVE OuterBounded'
  <2>1. OuterCalls' \subseteq OuterCalls
    BY <1>0, <1>7 DEF Release, OuterCalls
  <2>2. outer' = outer \ {c} /\ \A u \in Threads : held[u] \ {c} \subseteq held'[u]
    BY <1>0, <1>7 DEF Release
  <2> QED
    BY <1>0, <1>1, <2>1, <2>2
<1>8. ASSUME NEW t \in Threads,
             \/ \E mayBeNested \in BOOLEAN : Request(t, mayBeNested)
             \/ AcquireTimeout(t) \/ GiveBackSpare(t) \/ AcquireMiss(t)
             \/ ConnectionCreate(t) \/ ConnectionCreateFails(t) \/ ReleaseSemaphore(t)
      PROVE  OuterBounded'
  <2>1. UNCHANGED <<outer, held>>
    BY <1>8 DEF Request, AcquireTimeout, GiveBackSpare, AcquireMiss, ConnectionCreate,
                ConnectionCreateFails, ReleaseSemaphore
  <2>2. OuterCalls' \subseteq OuterCalls
    BY <1>0, <1>8 DEF OuterCalls, Request, AcquireTimeout, GiveBackSpare, AcquireMiss,
                      ConnectionCreate, ConnectionCreateFails, ReleaseSemaphore
  <2> QED
    BY <1>2, <2>1, <2>2
<1>9. CASE InvalidateConnections \/ OnConnectionExpired \/ RunSlot \/ TimePasses
             \/ UNCHANGED vars
  <2>1. UNCHANGED <<outer, held, pc, need>>
    BY <1>9 DEF InvalidateConnections, OnConnectionExpired, RunSlot, TimePasses, vars
  <2> QED
    BY <1>2, <2>1 DEF OuterCalls
<1> QED
  BY <1>3, <1>5, <1>6, <1>7, <1>8, <1>9 DEF CInv, Next, ThreadStep

-----------------------------------------------------------------------------
(***************************************************************************)
(* The theorems                                                            *)
(***************************************************************************)

\* A new group has all its resources and no open connection.
LEMMA InitCInv == Init => CInv
<1> SUFFICES ASSUME Init PROVE CInv
  OBVIOUS
<1>1. HeldPermits = {} /\ CallPermits = {}
  BY DEF Init, HeldPermits, CallPermits, InCall
<1>2. OpenConns = {} /\ Creating = {} /\ outer = {} /\ OuterCalls = {}
  BY DEF Init, OpenConns, Creating, OuterCalls
<1>3. IsFiniteSet({}) /\ Cardinality({}) = 0
  BY FS_EmptySet
<1>4. sem = Capacity /\ Capacity \in Nat /\ MaxConcurrentConnections \in Nat
  BY DEF Init, Capacity, CONN_POOL_SPARE_CONNECTIONS
<1>5. PermitsCounted
  <2>1. Cardinality(HeldPermits) = 0 /\ Cardinality(CallPermits) = 0
    BY <1>1, <1>3, Zenon
  <2>2. IsFiniteSet(HeldPermits) /\ IsFiniteSet(CallPermits)
    BY <1>1, <1>3, Zenon
  <2> QED
    BY <1>4, <2>1, <2>2 DEF PermitsCounted, SemConservation
<1>6. OpenAccounted
  BY DEF Init, OpenAccounted
<1>7. OpenBounded
  <2>1. Cardinality(OpenConns) = 0 /\ Cardinality(Creating) = 0
    BY <1>2, <1>3, Zenon
  <2>2. IsFiniteSet(OpenConns) /\ IsFiniteSet(Creating)
    BY <1>2, <1>3, Zenon
  <2> QED
    BY <1>4, <2>1, <2>2 DEF OpenBounded
<1>8. OuterBounded
  <2>1. Cardinality(outer) = 0 /\ Cardinality(OuterCalls) = 0
    BY <1>2, <1>3, Zenon
  <2>2. IsFiniteSet(outer) /\ IsFiniteSet(OuterCalls)
    BY <1>2, <1>3, Zenon
  <2> QED
    BY <1>2, <1>4, <2>1, <2>2 DEF OuterBounded
<1> QED
  BY <1>5, <1>6, <1>7, <1>8, InitIInv DEF CInv

\* The counts hold in every state of the group.
THEOREM CountsInductive == Spec => []CInv
<1>1. CInv /\ [Next]_vars => CInv'
  <2> SUFFICES ASSUME CInv, [Next]_vars PROVE CInv'
    OBVIOUS
  <2>1. IInv
    BY DEF CInv
  <2>2. TypeOK'
    BY <2>1, NextTypeOK
  <2>3. IInv'
    BY <2>1, <2>2, NextRelations DEF IInv
  <2>4. PermitsCounted' /\ OpenAccounted'
    BY <2>1, <2>2, NextPermits, NextOpenAccounted DEF CInv
  <2>5. OpenBounded' /\ OuterBounded'
    BY NextOpenBounded, NextOuterBounded
  <2> QED
    BY <2>3, <2>4, <2>5 DEF CInv
<1> QED
  BY InitCInv, <1>1, PTL DEF Spec

\* SemConservation, for any number of threads: whatever way a call of acquire()
\* or release() ends (served from the stack, with a new connection, a timeout, a
\* failed creation, an invalidated connection closed), the semaphore gets back
\* what the call took from it.
THEOREM SemConservationHolds == Spec => []SemConservation
<1>1. CInv => SemConservation
  BY DEF CInv, PermitsCounted
<1> QED
  BY <1>1, CountsInductive, PTL

\* PoolBound, for any limit: acquire() looks up the stack in one critical section
\* and creates in another, and still no more connections are open or about to be
\* than the semaphore has resources; requests that are not nested leave the spare
\* connections to the nested ones.
THEOREM PoolBoundHolds == Spec => []PoolBound
<1>1. CInv => PoolBound
  <2> SUFFICES ASSUME CInv PROVE PoolBound
    OBVIOUS
  <2>1. Cardinality(OpenConns) + Cardinality(Creating) <= Capacity
    BY DEF CInv, OpenBounded
  <2>2. Cardinality(outer) <= MaxConcurrentConnections
    <3>1. /\ Cardinality(outer) \in Nat /\ Cardinality(OuterCalls) \in Nat
          /\ Cardinality(outer) + Cardinality(OuterCalls) <= MaxConcurrentConnections
      BY FS_CardinalityType DEF CInv, OuterBounded
    <3> QED
      BY <3>1
  <2> QED
    BY <2>1, <2>2 DEF PoolBound, OpenConns
<1> QED
  BY <1>1, CountsInductive, PTL

=============================================================================
