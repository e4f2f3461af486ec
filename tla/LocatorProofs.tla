---------------------------- MODULE LocatorProofs ----------------------------
(***************************************************************************)
(* Proofs about Locator, for any set of filters and of texts, any number   *)
(* of results and of calls.                                                *)
(***************************************************************************)
EXTENDS Locator, TLAPS

Results == [filter : Filters, query : Nat, number : 1..MaxResults]

Events == [kind : {"result", "quit", "finished"}, filter : Filters,
           result : Results \cup {NoResult}]

\* The results the main thread has not handled yet.
QueuedResults ==
  {events[i].result : i \in {j \in 1..Len(events) : events[j].kind = "result"}}

\* What is in the event queue says how far the thread that posted it has got:
\* results come from a thread that searches or has left fetchResults(), the call
\* of quit() from the latter, finished() from a thread that has ended.  All are
\* of the current query.
EventsOfThreads ==
  \A i \in 1..Len(events) : LET e == events[i] IN
    /\ e.filter \in mActiveThreads
    /\ e.kind = "result" =>
         /\ threads[e.filter].at \in {"fetching", "finished"}
         /\ e.result \in Results
         /\ e.result.filter = e.filter /\ e.result.query = query
    /\ e.kind = "quit" => threads[e.filter].at = "finished"
    /\ e.kind = "finished" => threads[e.filter].at = "none"

\* Of what a thread has posted, everything but the last is a result.
EventsInOrder ==
  \A i, j \in 1..Len(events) :
    i < j /\ events[i].filter = events[j].filter => events[i].kind = "result"

\* Threads work for the current query, with filters that exist.
ThreadsOfQuery ==
  /\ \A f \in Filters : threads[f].at # "none" =>
       f \in mActiveThreads /\ threads[f].query = query
  /\ mActiveThreads \subseteq mFilters
  /\ isRunning => query > 0

\* The model shows one query's results: those of the current query once the old
\* ones need not be cleared any more.
ResultsOfQuery ==
  /\ \A r, s \in mResults : r.query = s.query
  /\ ~mDeferredClear => \A r \in mResults : r.query = query

\* The text that was searched, or will be as soon as the query ends, is that of
\* the line edit.
TextsAgree ==
  alive =>
    /\ ~mPopupTimer =>
         /\ mNextRequestedString # NoText => mNextRequestedString = mLineEdit
         /\ mNextRequestedString = NoText /\ query > 0 => searched = mLineEdit
    /\ ~stopped /\ mFeedback => mNextRequestedString # NoText

\* No result of the query has got lost.
ResultsAgree ==
  alive /\ ~stopped =>
    sent = QueuedResults \cup (IF mDeferredClear THEN {} ELSE mResults)

\* The inductive invariant.
IInv ==
  /\ TypeOK
  /\ events \in Seq(Events)
  /\ EventsOfThreads /\ EventsInOrder /\ ThreadsOfQuery
  /\ ResultsOfQuery
  /\ QueuedWillRun /\ TextsAgree /\ ResultsAgree

USE FiltersAssumption, TextsAssumption, BoundsAssumption

-----------------------------------------------------------------------------
(***************************************************************************)
(* The event queue                                                         *)
(***************************************************************************)

\* What a thread posts is queued behind what was posted before.
LEMMA PostQueues ==
  ASSUME events \in Seq(Events), NEW e \in Events, events' = Append(events, e)
  PROVE  /\ events' \in Seq(Events)
         /\ Len(events') = Len(events) + 1
         /\ \A i \in 1..Len(events) : events'[i] = events[i]
         /\ events'[Len(events) + 1] = e
         /\ QueuedResults' = QueuedResults \cup
                               (IF e.kind = "result" THEN {e.result} ELSE {})
<1>1. /\ events' \in Seq(Events)
      /\ Len(events') = Len(events) + 1 /\ Len(events) \in Nat
      /\ \A i \in 1..Len(events) : events'[i] = events[i]
      /\ events'[Len(events) + 1] = e
  OBVIOUS
<1>2. 1..Len(events') = (1..Len(events)) \cup {Len(events) + 1}
  BY <1>1
<1>3. QueuedResults' = QueuedResults \cup
                         (IF e.kind = "result" THEN {e.result} ELSE {})
  BY <1>1, <1>2 DEF QueuedResults
<1> QED
  BY <1>1, <1>3

\* The event loop takes the first event; the order of the others stays.
LEMMA HeadLeaves ==
  ASSUME events \in Seq(Events), events # <<>>, events' = Tail(events)
  PROVE  /\ events' \in Seq(Events)
         /\ Len(events') + 1 = Len(events) /\ Len(events') \in Nat
         /\ \A i \in 1..Len(events') : events'[i] = events[i + 1]
         /\ Head(events) = events[1] /\ events[1] \in Events
         /\ QueuedResults = QueuedResults' \cup
              (IF Head(events).kind = "result" THEN {Head(events).result} ELSE {})
<1>1. /\ events' \in Seq(Events)
      /\ Len(events') + 1 = Len(events) /\ Len(events') \in Nat
      /\ \A i \in 1..Len(events') : events'[i] = events[i + 1]
      /\ Head(events) = events[1] /\ events[1] \in Events
  OBVIOUS
<1>2. QueuedResults = QueuedResults' \cup
              (IF Head(events).kind = "result" THEN {Head(events).result} ELSE {})
  <2>1. \A j \in 1..Len(events) : j = 1 \/ (j - 1 \in 1..Len(events') /\ events'[j - 1] = events[j])
    BY <1>1
  <2>2. \A i \in 1..Len(events') : i + 1 \in 1..Len(events)
    BY <1>1
  <2>3. 1 \in 1..Len(events)
    BY <1>1
  <2> DEFINE first == IF Head(events).kind = "result" THEN {Head(events).result} ELSE {}
  <2>4. QueuedResults \subseteq QueuedResults' \cup first
    <3> SUFFICES ASSUME NEW j \in 1..Len(events), events[j].kind = "result"
                 PROVE  events[j].result \in QueuedResults' \cup first
      BY DEF QueuedResults
    <3>1. CASE j = 1
      BY <1>1, <3>1
    <3>2. CASE j # 1
      BY <2>1, <3>2 DEF QueuedResults
    <3> QED
      BY <3>1, <3>2
  <2>5. QueuedResults' \subseteq QueuedResults
    BY <1>1, <2>2 DEF QueuedResults
  <2>6. first \subseteq QueuedResults
    BY <1>1, <2>3 DEF QueuedResults
  <2> QED
    BY <2>4, <2>5, <2>6
<1> QED
  BY <1>1, <1>2

-----------------------------------------------------------------------------
\* The invariant holds of a new locator.
LEMMA InitIInv == Init => IInv
<1> SUFFICES ASSUME Init PROVE IInv
  OBVIOUS
<1>1. TypeOK
  <2>1. threads \in [Filters -> [at : {"none", "started", "fetching", "finished", "quitting"},
                                 query : Nat, found : 0..MaxResults]]
    BY DEF Init, Idle
  <2>2. /\ {mDeferredClear, mIsRunning, alive, mPopupTimer, stopped} \subseteq BOOLEAN
        /\ mFeedback \in BOOLEAN
    BY Zenon DEF Init
  <2>3. /\ mFilters \subseteq Filters /\ mActiveThreads \subseteq Filters \ Fast
        /\ mResults \subseteq [filter : Filters, query : Nat, number : 1..MaxResults]
        /\ calls \in 0..MaxCalls
        /\ leaving \subseteq mFilters /\ query \in Nat
        /\ mNextRequestedString \in Texts \cup {NoText}
        /\ mLineEdit \in Texts /\ searched \in Texts \cup {NoText}
    BY DEF Init
  <2> QED
    BY <2>1, <2>2, <2>3 DEF TypeOK
<1>2. events \in Seq(Events) /\ Len(events) = 0
  BY DEF Init
<1>3. QueuedResults = {}
  BY <1>2 DEF QueuedResults
<1>4. EventsOfThreads /\ EventsInOrder
  BY <1>2 DEF EventsOfThreads, EventsInOrder
<1>5. ThreadsOfQuery /\ ResultsOfQuery /\ QueuedWillRun /\ TextsAgree
  BY DEF Init, ThreadsOfQuery, ResultsOfQuery, QueuedWillRun, TextsAgree, isRunning, Idle
<1>6. ResultsAgree
  BY <1>3 DEF Init, ResultsAgree
<1> QED
  BY <1>1, <1>2, <1>4, <1>5, <1>6 DEF IInv

\* What the fast filters find is of the new query.
LEMMA FastResultsOfQuery ==
  ASSUME NEW fs \in SUBSET Filters, NEW found \in FastResults(fs), query \in Nat
  PROVE  found \subseteq Results /\ \A r \in found : r.query = query + 1
<1> PICK count \in [fs \cap Fast -> 0..MaxResults] :
      found = UNION {{[filter |-> f, query |-> query + 1, number |-> n] : n \in 1..count[f]} :
                       f \in fs \cap Fast}
  BY DEF FastResults
<1> SUFFICES ASSUME NEW f \in fs \cap Fast, NEW n \in 1..count[f],
                    NEW r, r = [filter |-> f, query |-> query + 1, number |-> n]
             PROVE  r \in Results /\ r.query = query + 1
  OBVIOUS
<1>1. count[f] \in 0..MaxResults
  OBVIOUS
<1>2. n \in 1..MaxResults
  BY <1>1
<1> QED
  BY <1>2 DEF Results

\* A query is started when no thread is left, so that nothing is in the event
\* queue: all its threads, and all that the model shows, are its own.
LEMMA FetchResultsKeeps ==
  ASSUME IInv, NEW text \in Texts, FetchResults(text),
         \A f \in Filters : threads[f].at = "none",
         events' \in Seq(Events), Len(events') = 0,
         UNCHANGED <<mFilters, leaving, alive>>,
         mNextRequestedString' = NoText,
         mLineEdit' \in Texts, mPopupTimer' \in BOOLEAN, calls' \in 0..MaxCalls,
         alive => (mPopupTimer' \/ mLineEdit' = text)
  PROVE  IInv'
<1> DEFINE active == FiltersOf[text] \cap mFilters
           threaded == active \ Fast
<1> PICK found \in FastResults(active) :
       /\ query' = query + 1
       /\ mFeedback' = FALSE
       /\ mActiveThreads' = threaded
       /\ threads' = [f \in Filters |->
            IF f \in threaded THEN [at |-> "started", query |-> query + 1, found |-> 0]
            ELSE threads[f]]
       /\ mIsRunning' = (threaded # {})
       /\ mResults' = IF found = {} THEN mResults ELSE found
       /\ mDeferredClear' = (found = {})
       /\ searched' = text /\ sent' = found /\ stopped' = FALSE
  BY DEF FetchResults
<1>1. active \subseteq Filters /\ active \subseteq mFilters /\ query \in Nat
  BY DEF IInv, TypeOK
<1>2. found \subseteq Results /\ \A r \in found : r.query = query + 1
  BY <1>1, FastResultsOfQuery
<1>3. QueuedResults' = {}
  BY DEF QueuedResults
<1>4. TypeOK'
  <2>1. threads' \in [Filters -> [at : {"none", "started", "fetching", "finished", "quitting"},
                                  query : Nat, found : 0..MaxResults]]
    BY <1>1 DEF IInv, TypeOK
  <2>2. mResults' \subseteq Results
    BY <1>2 DEF IInv, TypeOK, Results
  <2>3. {mDeferredClear, mIsRunning, alive, mPopupTimer, stopped}' \subseteq BOOLEAN
    BY DEF IInv, TypeOK
  <2>4. /\ mFilters' \subseteq Filters /\ mActiveThreads' \subseteq Filters \ Fast
        /\ leaving' \subseteq mFilters' /\ query' \in Nat
    BY <1>1 DEF IInv, TypeOK
  <2>5. mFeedback' \in BOOLEAN
    BY Zenon
  <2>6. /\ mNextRequestedString' \in Texts \cup {NoText}
        /\ mLineEdit' \in Texts /\ searched' \in Texts \cup {NoText}
        /\ calls' \in 0..MaxCalls
    OBVIOUS
  <2> QED
    BY <2>1, <2>2, <2>3, <2>4, <2>5, <2>6, Zenon DEF TypeOK, Results
<1>5. EventsOfThreads' /\ EventsInOrder'
  BY DEF EventsOfThreads, EventsInOrder
<1>6. ThreadsOfQuery'
  BY <1>1 DEF ThreadsOfQuery, isRunning
<1>7. ResultsOfQuery'
  BY <1>2 DEF IInv, ResultsOfQuery
<1>8. QueuedWillRun' /\ TextsAgree'
  BY DEF QueuedWillRun, TextsAgree
<1>9. ResultsAgree'
  BY <1>3 DEF ResultsAgree
<1> QED
  BY <1>4, <1>5, <1>6, <1>7, <1>8, <1>9 DEF IInv

\* With no thread in the list none runs, and nothing is queued.
LEMMA NothingQueued ==
  ASSUME IInv, ~isRunning
  PROVE  Len(events) = 0 /\ \A f \in Filters : threads[f].at = "none"
<1>1. \A f \in Filters : threads[f].at = "none"
  BY DEF IInv, ThreadsOfQuery, isRunning
<1>2. \A i \in 1..Len(events) : FALSE
  BY DEF IInv, EventsOfThreads, isRunning
<1>3. Len(events) \in Nat
  BY DEF IInv
<1> QED
  BY <1>1, <1>2, <1>3

\* A search starts a query or is put off, and has the text of the line edit.
LEMMA PerformSearchKeepsIInv ==
  ASSUME IInv, alive, NEW text \in Texts, PerformSearch(text),
         UNCHANGED <<mFilters, events, leaving, alive>>,
         mLineEdit' = text, mPopupTimer' = FALSE, calls' \in 0..MaxCalls
  PROVE  IInv'
<1>1. CASE isRunning
  <2>1. /\ mIsRunning' = TRUE /\ mFeedback' = TRUE /\ mNextRequestedString' = text
        /\ UNCHANGED <<mActiveThreads, query, threads, mResults, mDeferredClear,
                       searched, sent, stopped>>
    BY <1>1 DEF PerformSearch, modelVars, historyVars
  <2>2. TypeOK'
    BY <2>1 DEF IInv, TypeOK
  <2>3. EventsOfThreads' /\ EventsInOrder' /\ ThreadsOfQuery' /\ ResultsOfQuery'
    BY <2>1 DEF IInv, EventsOfThreads, EventsInOrder, ThreadsOfQuery, ResultsOfQuery,
                isRunning
  <2>4. QueuedWillRun' /\ TextsAgree' /\ ResultsAgree'
    BY <1>1, <2>1 DEF IInv, QueuedWillRun, TextsAgree, ResultsAgree, QueuedResults, isRunning
  <2> QED
    BY <2>2, <2>3, <2>4 DEF IInv
<1>2. CASE ~isRunning
  <2>1. FetchResults(text) /\ mNextRequestedString' = mNextRequestedString
    BY <1>2 DEF PerformSearch
  <2>2. mNextRequestedString' = NoText
    BY <1>2, <2>1 DEF IInv, QueuedWillRun
  <2>3. events' \in Seq(Events) /\ Len(events') = 0
    BY <1>2, NothingQueued DEF IInv
  <2> QED
    BY <1>2, <2>1, <2>2, <2>3, NothingQueued, FetchResultsKeeps
<1> QED
  BY <1>1, <1>2

-----------------------------------------------------------------------------
(***************************************************************************)
(* The threads                                                             *)
(***************************************************************************)

ThreadType == [at : {"none", "started", "fetching", "finished", "quitting"},
               query : Nat, found : 0..MaxResults]

\* The events are events, of threads of filters.
LEMMA EventsTyped ==
  ASSUME events \in Seq(Events)
  PROVE  /\ Len(events) \in Nat
         /\ \A i \in 1..Len(events) : events[i] \in Events /\ events[i].filter \in Filters
<1>1. Len(events) \in Nat /\ \A i \in 1..Len(events) : events[i] \in Events
  OBVIOUS
<1>2. \A e \in Events : e.filter \in Filters
  BY DEF Events
<1> QED
  BY <1>1, <1>2

\* What no step of a thread changes.
ThreadsLeave ==
  UNCHANGED <<mFilters, mActiveThreads, query, mFeedback, leaving, modelVars,
              bridgeVars, widgetVars, calls, searched, stopped>>

\* A thread that goes on keeps what does not depend on the event queue.
LEMMA ThreadGoesOn ==
  ASSUME IInv, NEW f \in Filters, threads[f].at # "none",
         ThreadsLeave, NEW u \in ThreadType,
         threads' = [threads EXCEPT ![f] = u],
         u.at # "none" => u.query = threads[f].query
  PROVE  TypeOK' /\ ThreadsOfQuery' /\ ResultsOfQuery' /\ QueuedWillRun' /\ TextsAgree'
<1>1. UNCHANGED <<mFilters, mActiveThreads, query, mFeedback, leaving, mResults,
                  mDeferredClear, mIsRunning, mNextRequestedString, alive, mLineEdit,
                  mPopupTimer, calls, searched, stopped>>
  BY DEF ThreadsLeave, modelVars, bridgeVars, widgetVars
<1>2. threads' \in [Filters -> ThreadType]
  BY DEF IInv, TypeOK, ThreadType
<1>3. TypeOK'
  BY <1>1, <1>2 DEF IInv, TypeOK, ThreadType
<1>4. ThreadsOfQuery'
  <2>1. \A g \in Filters : threads'[g].at # "none" =>
          threads[g].at # "none" /\ threads'[g].query = threads[g].query
    BY DEF IInv, TypeOK
  <2> QED
    BY <1>1, <2>1 DEF IInv, ThreadsOfQuery, isRunning
<1>5. ResultsOfQuery' /\ QueuedWillRun' /\ TextsAgree'
  BY <1>1 DEF IInv, ResultsOfQuery, QueuedWillRun, TextsAgree, isRunning
<1> QED
  BY <1>3, <1>4, <1>5

\* A thread posts the last thing it has to say in its state, quit() or
\* finished(), behind its results.
LEMMA ThreadPosts ==
  ASSUME IInv, NEW f \in Filters, threads[f].at # "none",
         ThreadsLeave, sent' = sent, NEW u \in ThreadType,
         threads' = [threads EXCEPT ![f] = u],
         u.at # "none" => u.query = threads[f].query,
         NEW kind \in {"quit", "finished"}, Post(kind, f, NoResult),
         u.at = IF kind = "quit" THEN "finished" ELSE "none",
         \A i \in 1..Len(events) : 
           events[i].filter = f => kind = "quit" /\ events[i].kind = "result"
  PROVE  IInv'
<1> DEFINE e == [kind |-> kind, filter |-> f, result |-> NoResult]
<1>1. e \in Events /\ events' = Append(events, e) /\ events \in Seq(Events)
  BY DEF Post, Events, IInv
<1>2. /\ events' \in Seq(Events)
      /\ Len(events') = Len(events) + 1 /\ Len(events) \in Nat
      /\ \A i \in 1..Len(events) : events'[i] = events[i]
      /\ events'[Len(events) + 1] = e
      /\ QueuedResults' = QueuedResults
  <2>1. e.kind # "result"
    OBVIOUS
  <2> QED
    BY <1>1, <2>1, PostQueues, EventsTyped
<1>3. UNCHANGED <<mActiveThreads, query, mResults, mDeferredClear, alive, stopped, sent>>
  BY DEF ThreadsLeave, modelVars, widgetVars
<1>4. f \in mActiveThreads
  BY DEF IInv, ThreadsOfQuery
<1>5. EventsOfThreads'
  <2> SUFFICES ASSUME NEW i \in 1..Len(events')
               PROVE  /\ events'[i].filter \in mActiveThreads
                      /\ events'[i].kind = "result" =>
                           /\ threads'[events'[i].filter].at \in {"fetching", "finished"}
                           /\ events'[i].result \in Results
                           /\ events'[i].result.filter = events'[i].filter
                           /\ events'[i].result.query = query
                      /\ events'[i].kind = "quit" => threads'[events'[i].filter].at = "finished"
                      /\ events'[i].kind = "finished" => threads'[events'[i].filter].at = "none"
    BY <1>3 DEF EventsOfThreads
  <2>1. CASE i = Len(events) + 1
    BY <1>2, <1>4, <2>1 DEF IInv, TypeOK
  <2>2. CASE i \in 1..Len(events) /\ events[i].filter = f
    BY <1>2, <2>2 DEF IInv, TypeOK, EventsOfThreads
  <2>3. CASE i \in 1..Len(events) /\ events[i].filter # f
    <3>1. events[i].filter \in Filters
      BY <1>1, <2>3, EventsTyped
    <3> QED
      BY <1>2, <2>3, <3>1, SMTT(20) DEF IInv, TypeOK, EventsOfThreads
  <2> QED
    BY <1>2, <2>1, <2>2, <2>3
<1>6. EventsInOrder'
  <2> SUFFICES ASSUME NEW i \in 1..Len(events'), NEW j \in 1..Len(events'),
                      i < j, events'[i].filter = events'[j].filter
               PROVE  events'[i].kind = "result"
    BY DEF EventsInOrder
  <2>1. i \in 1..Len(events)
    BY <1>2
  <2>2. j \in 1..Len(events) \/ j = Len(events) + 1
    BY <1>2, SMTT(20)
  <2>3. CASE j \in 1..Len(events)
    BY <1>2, <2>1, <2>3 DEF IInv, EventsInOrder
  <2>4. CASE j = Len(events) + 1
    BY <1>2, <2>1, <2>4
  <2> QED
    BY <2>2, <2>3, <2>4
<1>7. ResultsAgree'
  BY <1>2, <1>3 DEF IInv, ResultsAgree
<1> QED
  BY <1>2, <1>5, <1>6, <1>7, ThreadGoesOn DEF IInv

\* Where a thread is that has not ended, and what it has in the event queue.
LEMMA EventsOfThread ==
  ASSUME IInv, NEW f \in Filters, NEW i \in 1..Len(events), events[i].filter = f
  PROVE  /\ threads[f].at \notin {"started", "quitting"}
         /\ threads[f].at = "fetching" => events[i].kind = "result"
         /\ threads[f].at = "none" => events[i].kind = "finished"
<1>1. events[i] \in Events
  BY DEF IInv
<1> QED
  BY <1>1 DEF IInv, EventsOfThreads, Events

\* Every step of a thread keeps the invariant.
LEMMA ThreadStepKeepsIInv ==
  ASSUME IInv, NEW f \in Filters, ThreadStep(f)
  PROVE  IInv'
<1>1. threads \in [Filters -> ThreadType] /\ threads[f] \in ThreadType
  BY DEF IInv, TypeOK, ThreadType
<1>2. CASE ThreadStarts(f) /\ mFeedback
  <2> DEFINE u == [threads[f] EXCEPT !.at = "finished"]
  <2>1. /\ ThreadsLeave /\ sent' = sent
        /\ threads' = [threads EXCEPT ![f] = u] /\ Post("quit", f, NoResult)
        /\ threads[f].at = "started"
    BY <1>1, <1>2 DEF ThreadStarts, ThreadsLeave, historyVars
  <2>2. u \in ThreadType /\ u.at = "finished" /\ u.query = threads[f].query
    BY <1>1 DEF ThreadType
  <2>3. \A i \in 1..Len(events) : events[i].filter # f
    BY <2>1, EventsOfThread
  <2> QED
    BY <2>1, <2>2, <2>3, ThreadPosts
<1>3. CASE FetchReturns(f)
  <2> DEFINE u == [threads[f] EXCEPT !.at = "finished"]
  <2>1. /\ ThreadsLeave /\ sent' = sent
        /\ threads' = [threads EXCEPT ![f] = u] /\ Post("quit", f, NoResult)
        /\ threads[f].at = "fetching"
    BY <1>1, <1>3 DEF FetchReturns, ThreadsLeave, historyVars
  <2>2. u \in ThreadType /\ u.at = "finished" /\ u.query = threads[f].query
    BY <1>1 DEF ThreadType
  <2>3. \A i \in 1..Len(events) : events[i].filter = f => events[i].kind = "result"
    BY <2>1, EventsOfThread
  <2> QED
    BY <2>1, <2>2, <2>3, ThreadPosts
<1>4. CASE ThreadEnds(f)
  <2>1. /\ ThreadsLeave /\ sent' = sent
        /\ threads' = [threads EXCEPT ![f] = Idle] /\ Post("finished", f, NoResult)
        /\ threads[f].at = "quitting"
    BY <1>1, <1>4 DEF ThreadEnds, ThreadsLeave, historyVars
  <2>2. Idle \in ThreadType /\ Idle.at = "none"
    BY DEF ThreadType, Idle
  <2>3. \A i \in 1..Len(events) : events[i].filter # f
    BY <2>1, EventsOfThread
  <2> QED
    BY <2>1, <2>2, <2>3, ThreadPosts
<1>5. CASE ThreadStarts(f) /\ ~mFeedback
  <2> DEFINE u == [threads[f] EXCEPT !.at = "fetching"]
  <2>1. /\ ThreadsLeave /\ UNCHANGED <<events, sent>>
        /\ threads' = [threads EXCEPT ![f] = u]
        /\ threads[f].at = "started"
    BY <1>1, <1>5 DEF ThreadStarts, ThreadsLeave, historyVars
  <2>2. u \in ThreadType /\ u.at = "fetching" /\ u.query = threads[f].query
    BY <1>1 DEF ThreadType
  <2>3. \A i \in 1..Len(events) : events[i].filter # f
    BY <2>1, EventsOfThread
  <2>4. UNCHANGED <<mActiveThreads, query, mResults, mDeferredClear, alive, stopped>>
    BY <2>1 DEF ThreadsLeave, modelVars, widgetVars
  <2>5. \A i \in 1..Len(events) : threads'[events[i].filter] = threads[events[i].filter]
    <3>1. \A i \in 1..Len(events) : events[i].filter \in Filters
      BY EventsTyped DEF IInv
    <3> QED
      BY <1>1, <2>1, <2>3, <3>1
  <2>6. EventsOfThreads' /\ EventsInOrder' /\ ResultsAgree'
    BY <2>1, <2>4, <2>5 DEF IInv, EventsOfThreads, EventsInOrder, ResultsAgree, QueuedResults
  <2> QED
    BY <2>1, <2>2, <2>6, ThreadGoesOn DEF IInv
<1>6. CASE FilterSentResult(f)
  <2> DEFINE n == threads[f].found + 1
             u == [threads[f] EXCEPT !.found = n]
             r == [filter |-> f, query |-> query, number |-> n]
             e == [kind |-> "result", filter |-> f, result |-> r]
  <2>1. /\ ThreadsLeave
        /\ threads' = [threads EXCEPT ![f] = u]
        /\ threads[f].at = "fetching" /\ n <= MaxResults
    BY <1>1, <1>6 DEF FilterSentResult, ThreadsLeave
  <2>2. n \in 1..MaxResults
    BY <1>1, <2>1 DEF ThreadType
  <2>3. u \in ThreadType /\ u.at = "fetching" /\ u.query = threads[f].query
    BY <1>1, <2>1, <2>2 DEF ThreadType
  <2>4. threads[f].query = query /\ f \in mActiveThreads
    BY <2>1 DEF IInv, ThreadsOfQuery
  <2>5. UNCHANGED <<mActiveThreads, query, mFeedback, mResults, mDeferredClear, alive, stopped>>
    BY <2>1 DEF ThreadsLeave, modelVars, widgetVars
  <2>6. \A g \in Filters : threads'[g].at = threads[g].at
    BY <1>1, <2>1, <2>3
  <2>7. \A i \in 1..Len(events) : events[i].filter \in Filters
    BY EventsTyped DEF IInv
  <2>8. CASE mFeedback
    <3>1. UNCHANGED <<events, sent>>
      BY <1>6, <2>8 DEF FilterSentResult
    <3>2. EventsOfThreads' /\ EventsInOrder' /\ ResultsAgree'
      BY <2>5, <2>6, <2>7, <3>1
         DEF IInv, EventsOfThreads, EventsInOrder, ResultsAgree, QueuedResults
    <3> QED
      BY <2>1, <2>3, <3>1, <3>2, ThreadGoesOn DEF IInv
  <2>9. CASE ~mFeedback
    <3>1. events' = Append(events, e) /\ sent' = sent \cup {r}
      BY <1>6, <2>4, <2>9 DEF FilterSentResult, Post, Result
    <3>2. r \in Results /\ e \in Events /\ events \in Seq(Events)
      BY <2>2 DEF Results, Events, IInv, TypeOK
    <3>3. /\ events' \in Seq(Events)
          /\ Len(events') = Len(events) + 1 /\ Len(events) \in Nat
          /\ \A i \in 1..Len(events) : events'[i] = events[i]
          /\ events'[Len(events) + 1] = e
          /\ QueuedResults' = QueuedResults \cup {r}
      BY <3>1, <3>2, PostQueues, EventsTyped
    <3>4. EventsOfThreads'
      <4>1. \A i \in 1..Len(events') : i \in 1..Len(events) \/ i = Len(events) + 1
        BY <3>3
      <4> QED
        BY <2>1, <2>4, <2>5, <2>6, <2>7, <3>2, <3>3, <4>1 DEF IInv, EventsOfThreads
    <3>5. EventsInOrder'
      <4> SUFFICES ASSUME NEW i \in 1..Len(events'), NEW j \in 1..Len(events'),
                          i < j, events'[i].filter = events'[j].filter
                   PROVE  events'[i].kind = "result"
        BY DEF EventsInOrder
      <4>1. i \in 1..Len(events) /\ (j \in 1..Len(events) \/ j = Len(events) + 1)
        BY <3>3
      <4>2. CASE j \in 1..Len(events)
        BY <3>3, <4>1, <4>2 DEF IInv, EventsInOrder
      <4>3. CASE j = Len(events) + 1
        BY <2>1, <3>3, <4>1, <4>3, EventsOfThread
      <4> QED
        BY <4>1, <4>2, <4>3
    <3>6. ResultsAgree'
      BY <2>5, <3>1, <3>3 DEF IInv, ResultsAgree
    <3> QED
      BY <2>1, <2>3, <3>3, <3>4, <3>5, <3>6, ThreadGoesOn DEF IInv
  <2> QED
    BY <2>8, <2>9
<1> QED
  BY <1>2, <1>3, <1>4, <1>5, <1>6 DEF ThreadStep

-----------------------------------------------------------------------------
(***************************************************************************)
(* The main thread                                                         *)
(***************************************************************************)

\* The events that are left are in order, and what they say of the threads is
\* still true if the threads they name have not changed.
LEMMA RestOfEvents ==
  ASSUME IInv, events # <<>>, events' = Tail(events)
  PROVE  /\ events' \in Seq(Events) /\ EventsInOrder'
         /\ \A i \in 1..Len(events') :
              /\ events'[i] = events[i + 1] /\ i + 1 \in 1..Len(events)
              /\ events'[i].filter \in Filters \cap mActiveThreads
              /\ Head(events).kind # "result" => events'[i].filter # Head(events).filter
         /\ Head(events) = events[1] /\ 1 \in 1..Len(events)
         /\ Head(events).filter \in Filters
<1>1. /\ events' \in Seq(Events)
      /\ Len(events') + 1 = Len(events) /\ Len(events') \in Nat /\ Len(events) \in Nat
      /\ \A i \in 1..Len(events') : events'[i] = events[i + 1]
      /\ Head(events) = events[1]
  BY HeadLeaves, EventsTyped DEF IInv
<1>2. 1 \in 1..Len(events) /\ \A i \in 1..Len(events') : i + 1 \in 1..Len(events)
  BY <1>1
<1>3. EventsInOrder'
  <2> SUFFICES ASSUME NEW i \in 1..Len(events'), NEW j \in 1..Len(events'),
                      i < j, events'[i].filter = events'[j].filter
               PROVE  events'[i].kind = "result"
    BY DEF EventsInOrder
  <2>1. i + 1 \in 1..Len(events) /\ j + 1 \in 1..Len(events) /\ i + 1 < j + 1
    BY <1>1, <1>2
  <2> QED
    BY <1>1, <2>1 DEF IInv, EventsInOrder
<1>4. \A i \in 1..Len(events') : events'[i].filter \in Filters \cap mActiveThreads
  BY <1>1, <1>2, EventsTyped DEF IInv, EventsOfThreads
<1>5. ASSUME NEW i \in 1..Len(events'), Head(events).kind # "result"
      PROVE  events'[i].filter # Head(events).filter
  <2>1. i + 1 \in 1..Len(events) /\ 1 < i + 1
    BY <1>1, <1>2
  <2> QED
    BY <1>1, <1>2, <1>5, <2>1 DEF IInv, EventsInOrder
<1>6. Head(events).filter \in Filters
  BY <1>1, <1>2, EventsTyped DEF IInv
<1> QED
  BY <1>1, <1>2, <1>3, <1>4, <1>5, <1>6

\* A result is added to those of its query, or replaces those of an earlier one.
LEMMA DeliverResultKeepsIInv ==
  ASSUME IInv, DeliverResult
  PROVE  IInv'
<1> DEFINE r == Head(events).result
<1>1. events # <<>> /\ Head(events).kind = "result" /\ events' = Tail(events)
  BY DEF DeliverResult
<1>2. UNCHANGED <<mFilters, mActiveThreads, query, mFeedback, threads, leaving, mIsRunning,
                  mNextRequestedString, alive, mLineEdit, mPopupTimer, calls,
                  searched, sent, stopped>>
  BY DEF DeliverResult, locatorVars, bridgeVars, widgetVars, historyVars
<1>3. r \in Results /\ r.query = query
  BY <1>1, RestOfEvents DEF IInv, EventsOfThreads
<1>4. /\ mResults' = IF ~alive THEN mResults
                     ELSE IF mDeferredClear THEN {r} ELSE mResults \cup {r}
      /\ mDeferredClear' = IF alive THEN FALSE ELSE mDeferredClear
  BY Zenon DEF DeliverResult, AddResult, modelVars
<1>5. QueuedResults = QueuedResults' \cup {r}
  BY <1>1, HeadLeaves DEF IInv
<1>6. TypeOK'
  <2>1. mResults' \subseteq Results
    BY <1>3, <1>4 DEF IInv, TypeOK, Results
  <2>2. mDeferredClear' \in BOOLEAN
    BY <1>4, Zenon DEF IInv, TypeOK
  <2> QED
    BY <1>2, <2>1, <2>2 DEF IInv, TypeOK, Results
<1>7. EventsOfThreads'
  BY <1>1, <1>2, RestOfEvents DEF IInv, EventsOfThreads
<1>8. ThreadsOfQuery' /\ QueuedWillRun' /\ TextsAgree'
  BY <1>2 DEF IInv, ThreadsOfQuery, QueuedWillRun, TextsAgree, isRunning
<1>9. ResultsOfQuery'
  <2>1. CASE alive
    <3>1. ~mDeferredClear' /\ \A s \in mResults' : s.query = query'
      BY <1>2, <1>3, <1>4, <2>1 DEF IInv, ResultsOfQuery
    <3> QED
      BY <3>1 DEF ResultsOfQuery
  <2>2. CASE ~alive
    BY <1>2, <1>4, <2>2 DEF IInv, ResultsOfQuery
  <2> QED
    BY <2>1, <2>2
<1>10. ResultsAgree'
  BY <1>2, <1>4, <1>5 DEF IInv, ResultsAgree
<1> QED
  BY <1>1, <1>6, <1>7, <1>8, <1>9, <1>10, RestOfEvents DEF IInv

\* A thread that is told to quit has nothing else in the event queue.
LEMMA DeliverQuitKeepsIInv ==
  ASSUME IInv, DeliverQuit
  PROVE  IInv'
<1> DEFINE f == Head(events).filter
           u == [threads[f] EXCEPT !.at = "quitting"]
<1>1. events # <<>> /\ Head(events).kind = "quit" /\ events' = Tail(events)
  BY DEF DeliverQuit
<1>2. f \in Filters /\ threads[f].at = "finished"
  BY <1>1, RestOfEvents DEF IInv, EventsOfThreads
<1>3. threads[f] \in ThreadType /\ threads \in [Filters -> ThreadType]
  BY <1>2 DEF IInv, TypeOK, ThreadType
<1>4. u \in ThreadType /\ u.at # "none" /\ u.query = threads[f].query
  BY <1>3 DEF ThreadType
<1>5. /\ ThreadsLeave /\ sent' = sent
      /\ threads' = [threads EXCEPT ![f] = u]
  BY <1>2, <1>3 DEF DeliverQuit, ThreadsLeave, historyVars
<1>6. UNCHANGED <<mActiveThreads, query, mResults, mDeferredClear, alive, stopped>>
  BY <1>5 DEF ThreadsLeave, modelVars, widgetVars
<1>7. EventsOfThreads'
  <2>1. \A i \in 1..Len(events') : threads'[events'[i].filter] = threads[events'[i].filter]
    BY <1>1, <1>2, <1>3, <1>5, RestOfEvents
  <2> QED
    BY <1>1, <1>6, <2>1, RestOfEvents DEF IInv, EventsOfThreads
<1>8. ResultsAgree'
  <2>1. QueuedResults' = QueuedResults
    BY <1>1, HeadLeaves DEF IInv
  <2> QED
    BY <1>5, <1>6, <2>1 DEF IInv, ResultsAgree
<1> QED
  BY <1>1, <1>2, <1>4, <1>5, <1>7, <1>8, RestOfEvents, ThreadGoesOn DEF IInv

\* With the last thread of a query the event queue is empty, and the next query
\* can be started.
LEMMA DeliverFinishedKeepsIInv ==
  ASSUME IInv, DeliverFinished
  PROVE  IInv'
<1> DEFINE f == Head(events).filter
<1>1. events # <<>> /\ Head(events).kind = "finished" /\ events' = Tail(events)
  BY DEF DeliverFinished
<1>2. f \in Filters /\ threads[f].at = "none" /\ f \in mActiveThreads
  BY <1>1, RestOfEvents DEF IInv, EventsOfThreads
<1>3. UNCHANGED <<mFilters, leaving, alive, mLineEdit, mPopupTimer, calls>>
  BY DEF DeliverFinished, widgetVars
<1>4. QueuedResults' = QueuedResults
  BY <1>1, HeadLeaves DEF IInv
<1>5. events' \in Seq(Events) /\ EventsInOrder'
  BY <1>1, RestOfEvents
<1>6. CASE mActiveThreads \ {f} = {} /\ alive /\ mNextRequestedString # NoText
  <2>1. FetchResults(mNextRequestedString) /\ mNextRequestedString' = NoText
    BY <1>6 DEF DeliverFinished, SearchFinished
  <2>2. \A g \in Filters : threads[g].at = "none"
    BY <1>2, <1>6 DEF IInv, ThreadsOfQuery
  <2>3. Len(events') = 0
    <3>1. \A i \in 1..Len(events') : FALSE
      BY <1>1, <1>6, RestOfEvents
    <3>2. Len(events') \in Nat
      BY <1>5
    <3> QED
      BY <3>1, <3>2
  <2>4. mNextRequestedString \in Texts
    BY <1>6 DEF IInv, TypeOK
  <2>5. mLineEdit' \in Texts /\ mPopupTimer' \in BOOLEAN /\ calls' \in 0..MaxCalls
    BY <1>3 DEF IInv, TypeOK
  <2>6. mPopupTimer' \/ mLineEdit' = mNextRequestedString
    BY <1>3, <1>6 DEF IInv, TextsAgree
  <2> QED
    BY <1>3, <1>5, <2>1, <2>2, <2>3, <2>4, <2>5, <2>6, FetchResultsKeeps
<1>7. CASE ~(mActiveThreads \ {f} = {} /\ alive /\ mNextRequestedString # NoText)
  <2>1. /\ mActiveThreads' = mActiveThreads \ {f}
        /\ UNCHANGED <<query, mFeedback, threads, mResults, mDeferredClear,
                       mNextRequestedString, searched, sent, stopped>>
        /\ mIsRunning' \in BOOLEAN
    <3>1. CASE mActiveThreads \ {f} = {} /\ alive
      <4>1. SearchFinished /\ ~(mNextRequestedString # NoText)
        BY <1>7, <3>1 DEF DeliverFinished
      <4>2. /\ mIsRunning' = FALSE
            /\ mActiveThreads' = {}
            /\ UNCHANGED <<mNextRequestedString, query, mFeedback, threads, modelVars,
                           historyVars>>
        BY <4>1 DEF SearchFinished
      <4>3. mIsRunning' \in BOOLEAN
        BY <4>2, Zenon
      <4> QED
        BY <3>1, <4>2, <4>3 DEF modelVars, historyVars
    <3>2. CASE ~(mActiveThreads \ {f} = {} /\ alive)
      <4>1. /\ mActiveThreads' = mActiveThreads \ {f}
            /\ UNCHANGED <<query, mFeedback, threads, modelVars, bridgeVars, historyVars>>
        BY <3>2 DEF DeliverFinished
      <4> QED
        BY <4>1 DEF modelVars, bridgeVars, historyVars, IInv, TypeOK
    <3> QED
      BY <3>1, <3>2
  <2>2. TypeOK'
    BY <1>3, <2>1 DEF IInv, TypeOK
  <2>3. EventsOfThreads'
    BY <1>1, <2>1, RestOfEvents DEF IInv, EventsOfThreads
  <2>4. ThreadsOfQuery'
    BY <1>2, <1>3, <2>1 DEF IInv, ThreadsOfQuery, isRunning
  <2>5. QueuedWillRun'
    BY <1>3, <1>7, <2>1 DEF IInv, QueuedWillRun, isRunning
  <2>6. ResultsOfQuery' /\ TextsAgree' /\ ResultsAgree'
    BY <1>3, <1>4, <2>1 DEF IInv, ResultsOfQuery, TextsAgree, ResultsAgree
  <2> QED
    BY <1>5, <2>2, <2>3, <2>4, <2>5, <2>6 DEF IInv
<1> QED
  BY <1>6, <1>7

\* Steps that leave the queries alone.
LEMMA QueriesLeftAlone ==
  ASSUME IInv,
         UNCHANGED <<mActiveThreads, query, threads, events, mNextRequestedString, sent>>,
         TypeOK', mActiveThreads \subseteq mFilters',
         alive' => alive
  PROVE  /\ events' \in Seq(Events)
         /\ EventsOfThreads' /\ EventsInOrder' /\ ThreadsOfQuery'
         /\ QueuedResults' = QueuedResults
BY DEF IInv, EventsOfThreads, EventsInOrder, ThreadsOfQuery, QueuedResults, isRunning

\* The list is cleared when the deferred clear's timer runs out.
LEMMA DeferredClearKeepsIInv ==
  ASSUME IInv, DeferredClearTimeout
  PROVE  IInv'
<1>1. /\ UNCHANGED <<mFilters, mActiveThreads, query, mFeedback, threads, events, leaving,
                     mIsRunning, mNextRequestedString, alive, mLineEdit, mPopupTimer, calls,
                     searched, sent, stopped>>
      /\ mDeferredClear /\ mResults' = {}
  BY DEF DeferredClearTimeout, Clear, locatorVars, bridgeVars, widgetVars, historyVars
<1>2. mDeferredClear' = FALSE
  BY DEF DeferredClearTimeout, Clear
<1>3. TypeOK'
  <2>1. mDeferredClear' \in BOOLEAN
    BY <1>2, Zenon
  <2> QED
    BY <1>1, <2>1 DEF IInv, TypeOK
<1>4. mActiveThreads \subseteq mFilters'
  BY <1>1 DEF IInv, ThreadsOfQuery
<1>5. ResultsOfQuery' /\ QueuedWillRun' /\ TextsAgree'
  BY <1>1 DEF IInv, ResultsOfQuery, QueuedWillRun, TextsAgree, isRunning
<1>6. ResultsAgree'
  BY <1>1, <1>2, <1>3, <1>4, QueriesLeftAlone DEF IInv, ResultsAgree
<1> QED
  BY <1>1, <1>3, <1>4, <1>5, <1>6, QueriesLeftAlone DEF IInv

\* The user types: the search that follows waits for the timer.
LEMMA TypeKeepsIInv ==
  ASSUME IInv, NEW text \in Texts, Type(text)
  PROVE  IInv'
<1>1. /\ UNCHANGED <<mFilters, mActiveThreads, query, mFeedback, threads, events, leaving,
                     mResults, mDeferredClear, mIsRunning, mNextRequestedString, alive,
                     searched, sent, stopped>>
      /\ mLineEdit' = text /\ mPopupTimer' /\ calls < MaxCalls /\ calls' = calls + 1
  BY DEF Type, Called, locatorVars, modelVars, bridgeVars, historyVars
<1>2. mPopupTimer' = TRUE
  BY DEF Type
<1>3. TypeOK'
  <2>1. mPopupTimer' \in BOOLEAN
    BY <1>2, Zenon
  <2>2. calls' \in 0..MaxCalls
    BY <1>1 DEF IInv, TypeOK
  <2> QED
    BY <1>1, <2>1, <2>2 DEF IInv, TypeOK
<1>4. mActiveThreads \subseteq mFilters'
  BY <1>1 DEF IInv, ThreadsOfQuery
<1>5. ResultsOfQuery' /\ QueuedWillRun' /\ TextsAgree'
  BY <1>1 DEF IInv, ResultsOfQuery, QueuedWillRun, TextsAgree, isRunning
<1>6. ResultsAgree'
  BY <1>1, <1>3, <1>4, QueriesLeftAlone DEF IInv, ResultsAgree
<1> QED
  BY <1>1, <1>3, <1>4, <1>5, <1>6, QueriesLeftAlone DEF IInv

\* The results are dropped, and with them the claim on what the list shows.
LEMMA InvalidateResultsKeepsIInv ==
  ASSUME IInv, InvalidateResults
  PROVE  IInv'
<1>1. /\ UNCHANGED <<mFilters, mActiveThreads, query, threads, events, leaving,
                     mIsRunning, mNextRequestedString, alive, mLineEdit, mPopupTimer,
                     searched, sent>>
      /\ mFeedback' = (query > 0) /\ mResults' = {}
      /\ calls < MaxCalls /\ calls' = calls + 1
  BY DEF InvalidateResults, Clear, Called, bridgeVars, widgetVars
<1>2. mDeferredClear' = FALSE /\ stopped' = TRUE
  BY DEF InvalidateResults, Clear
<1>3. TypeOK'
  <2>1. mDeferredClear' \in BOOLEAN /\ stopped' \in BOOLEAN
    BY <1>2, Zenon
  <2>2. mFeedback' \in BOOLEAN
    <3>1. (query > 0) \in BOOLEAN
      BY SMT DEF IInv, TypeOK
    <3> QED
      BY <1>1, <3>1, Zenon
  <2>3. calls' \in 0..MaxCalls
    BY <1>1 DEF IInv, TypeOK
  <2> QED
    BY <1>1, <2>1, <2>2, <2>3 DEF IInv, TypeOK
<1>4. mActiveThreads \subseteq mFilters'
  BY <1>1 DEF IInv, ThreadsOfQuery
<1>5. ResultsOfQuery' /\ QueuedWillRun' /\ TextsAgree' /\ ResultsAgree'
  BY <1>1, <1>2 DEF IInv, ResultsOfQuery, QueuedWillRun, TextsAgree, ResultsAgree,
                    ThreadsOfQuery, isRunning
<1> QED
  BY <1>1, <1>3, <1>4, <1>5, QueriesLeftAlone DEF IInv

\* Filters are deleted at once if no thread works with them, and the query is
\* canceled if one does.
LEMMA CancelAndDeleteKeepsIInv ==
  ASSUME IInv, NEW fs \in SUBSET mFilters, CancelAndDelete(fs), leaving = {},
         UNCHANGED <<mActiveThreads, query, threads, events, modelVars, bridgeVars,
                     mLineEdit, mPopupTimer, searched, sent>>,
         alive' \in {alive, FALSE}, calls' \in 0..MaxCalls
  PROVE  IInv'
<1>1. UNCHANGED <<mResults, mDeferredClear, mIsRunning, mNextRequestedString>>
  BY DEF modelVars, bridgeVars
<1>2. \/ /\ isRunning
         /\ mFeedback' = TRUE /\ stopped' = TRUE
         /\ leaving' = fs /\ mFilters' = mFilters
      \/ /\ ~isRunning
         /\ mFilters' = mFilters \ fs
         /\ UNCHANGED <<mFeedback, stopped, leaving>>
  BY DEF CancelAndDelete
<1>3. TypeOK'
  <2>1. mFeedback' \in BOOLEAN /\ stopped' \in BOOLEAN
    BY <1>2, Zenon DEF IInv, TypeOK
  <2>2. alive' \in BOOLEAN
    BY Zenon DEF IInv, TypeOK
  <2>3. leaving' \subseteq mFilters' /\ mFilters' \subseteq Filters
    BY <1>2 DEF IInv, TypeOK
  <2> QED
    BY <1>1, <2>1, <2>2, <2>3 DEF IInv, TypeOK
<1>4. mActiveThreads \subseteq mFilters'
  BY <1>2 DEF IInv, ThreadsOfQuery, isRunning
<1>5. alive' => alive
  OBVIOUS
<1>6. ResultsOfQuery'
  BY <1>1 DEF IInv, ResultsOfQuery
<1>7. QueuedWillRun' /\ TextsAgree'
  BY <1>1, <1>2, <1>5 DEF IInv, QueuedWillRun, TextsAgree, isRunning
<1>8. ResultsAgree'
  BY <1>1, <1>2, <1>3, <1>4, <1>5, QueriesLeftAlone DEF IInv, ResultsAgree
<1> QED
  BY <1>3, <1>4, <1>5, <1>6, <1>7, <1>8, <1>1, QueriesLeftAlone DEF IInv

\* The call that waits for the threads deletes its filters when none is left.
LEMMA CancelReturnsKeepsIInv ==
  ASSUME IInv, CancelReturns
  PROVE  IInv'
<1>1. /\ UNCHANGED <<mActiveThreads, query, mFeedback, threads, events, mResults,
                     mDeferredClear, mIsRunning, mNextRequestedString, alive, mLineEdit,
                     mPopupTimer, calls, searched, sent, stopped>>
      /\ mFilters' = mFilters \ leaving /\ leaving' = {} /\ ~isRunning
  BY DEF CancelReturns, modelVars, bridgeVars, widgetVars, historyVars
<1>2. TypeOK'
  BY <1>1 DEF IInv, TypeOK
<1>3. mActiveThreads \subseteq mFilters'
  BY <1>1 DEF isRunning
<1>4. ResultsOfQuery' /\ QueuedWillRun' /\ TextsAgree'
  BY <1>1 DEF IInv, ResultsOfQuery, QueuedWillRun, TextsAgree, isRunning
<1>5. ResultsAgree'
  BY <1>1, <1>2, <1>3, QueriesLeftAlone DEF IInv, ResultsAgree
<1> QED
  BY <1>1, <1>2, <1>3, <1>4, <1>5, QueriesLeftAlone DEF IInv

\* The three ways to a search.
LEMMA SearchesKeepIInv ==
  ASSUME IInv,
         PopupTimeout \/ TriggerSearch \/ (\E text \in Texts : Search(text))
  PROVE  IInv'
<1>1. ASSUME Called PROVE calls' \in 0..MaxCalls
  BY <1>1 DEF Called, IInv, TypeOK
<1>2. CASE PopupTimeout
  <2>1. /\ alive /\ PerformSearch(mLineEdit) /\ mLineEdit \in Texts
        /\ UNCHANGED <<mFilters, events, leaving, alive, mLineEdit>>
        /\ mPopupTimer' = FALSE /\ calls' \in 0..MaxCalls
    BY <1>2 DEF PopupTimeout, IInv, TypeOK
  <2> QED
    BY <2>1, PerformSearchKeepsIInv
<1>3. CASE TriggerSearch
  <2>1. /\ alive /\ PerformSearch(mLineEdit) /\ mLineEdit \in Texts
        /\ UNCHANGED <<mFilters, events, leaving, alive, mLineEdit>>
        /\ mPopupTimer' = FALSE /\ calls' \in 0..MaxCalls
    BY <1>1, <1>3 DEF TriggerSearch, Called, IInv, TypeOK
  <2> QED
    BY <2>1, PerformSearchKeepsIInv
<1>4. ASSUME NEW text \in Texts, Search(text) PROVE IInv'
  <2>1. /\ alive /\ PerformSearch(text)
        /\ UNCHANGED <<mFilters, events, leaving, alive>>
        /\ mLineEdit' = text /\ mPopupTimer' = FALSE /\ calls' \in 0..MaxCalls
    BY <1>1, <1>4 DEF Search, Called
  <2> QED
    BY <2>1, PerformSearchKeepsIInv
<1> QED
  BY <1>2, <1>3, <1>4

\* The two calls that delete filters.
LEMMA DeletionsKeepIInv ==
  ASSUME IInv, Destroy \/ (\E f \in Filters : DeregisterFilter(f))
  PROVE  IInv'
<1>1. ASSUME Called PROVE calls' \in 0..MaxCalls
  BY <1>1 DEF Called, IInv, TypeOK
<1>2. CASE Destroy
  <2>1. alive' \in {alive, FALSE}
    BY <1>2, Zenon DEF Destroy
  <2> QED
    BY <1>1, <1>2, <2>1, CancelAndDeleteKeepsIInv DEF Destroy
<1>3. ASSUME NEW f \in Filters, DeregisterFilter(f) PROVE IInv'
  <2>1. /\ {f} \in SUBSET mFilters /\ CancelAndDelete({f}) /\ leaving = {}
        /\ UNCHANGED <<mActiveThreads, query, threads, events, modelVars, bridgeVars,
                       mLineEdit, mPopupTimer, searched, sent>>
        /\ alive' = alive /\ calls' \in 0..MaxCalls
    BY <1>1, <1>3 DEF DeregisterFilter, widgetVars
  <2> QED
    BY <2>1, CancelAndDeleteKeepsIInv
<1> QED
  BY <1>2, <1>3

-----------------------------------------------------------------------------
\* Every step keeps the invariant.
LEMMA NextKeepsIInv == IInv /\ [Next]_vars => IInv'
<1> SUFFICES ASSUME IInv, [Next]_vars PROVE IInv'
  OBVIOUS
<1>1. ASSUME UNCHANGED vars PROVE IInv'
  <2>1. UNCHANGED <<mFilters, mActiveThreads, query, mFeedback, threads, events, leaving,
                    mResults, mDeferredClear, mIsRunning, mNextRequestedString, alive,
                    mLineEdit, mPopupTimer, calls, searched, sent, stopped>>
    BY <1>1 DEF vars, locatorVars, modelVars, bridgeVars, widgetVars, historyVars
  <2>2. TypeOK'
    BY <2>1 DEF IInv, TypeOK
  <2>3. mActiveThreads \subseteq mFilters'
    BY <2>1 DEF IInv, ThreadsOfQuery
  <2>4. ResultsOfQuery' /\ QueuedWillRun' /\ TextsAgree'
    BY <2>1 DEF IInv, ResultsOfQuery, QueuedWillRun, TextsAgree, isRunning
  <2>5. ResultsAgree'
    BY <2>1, <2>2, <2>3, QueriesLeftAlone DEF IInv, ResultsAgree
  <2> QED
    BY <2>1, <2>2, <2>3, <2>4, <2>5, QueriesLeftAlone DEF IInv
<1>2. ASSUME Call PROVE IInv'
  BY <1>2, TypeKeepsIInv, SearchesKeepIInv, InvalidateResultsKeepsIInv, DeletionsKeepIInv
     DEF Call
<1>3. ASSUME MainStep \/ Timeout PROVE IInv'
  BY <1>3, DeliverResultKeepsIInv, DeliverQuitKeepsIInv, DeliverFinishedKeepsIInv,
     DeferredClearKeepsIInv, SearchesKeepIInv DEF MainStep, Timeout
<1> QED
  BY <1>1, <1>2, <1>3, ThreadStepKeepsIInv, CancelReturnsKeepsIInv DEF Next

\* The inductive invariant holds in every state.
THEOREM Inductive == Spec => []IInv
BY InitIInv, NextKeepsIInv, PTL DEF Spec

\* The list never mixes the results of two queries (run locator).
THEOREM OneSearchShownHolds == Spec => []OneSearchShown
<1>1. IInv => OneSearchShown
  BY DEF IInv, ResultsOfQuery, OneSearchShown
<1> QED
  BY <1>1, Inductive, PTL

\* A filter is deleted, and a query's feedback replaced, only when no thread works
\* with them and no result that names the filter is queued.
THEOREM FilterOutlivesQueryHolds == Spec => []FilterOutlivesQuery
<1>1. IInv => FilterOutlivesQuery
  BY DEF IInv, ThreadsOfQuery, EventsOfThreads, FilterOutlivesQuery
<1> QED
  BY <1>1, Inductive, PTL

\* At rest the list shows all that the last query found, for the text of the line
\* edit, however many searches were put off and canceled before.
THEOREM LastSearchShownHolds == Spec => []LastSearchShown
<1>1. ASSUME IInv PROVE LastSearchShown
  <2>1. SUFFICES ASSUME alive, query > 0, ~stopped, events = <<>>, ~isRunning,
                        ~mPopupTimer, ~mDeferredClear
                 PROVE  searched = mLineEdit /\ mResults = sent /\ ~mFeedback
    BY <1>1 DEF LastSearchShown, IInv
  <2>2. QueuedResults = {}
    BY <2>1 DEF QueuedResults
  <2> QED
    BY <1>1, <2>1, <2>2 DEF IInv, QueuedWillRun, TextsAgree, ResultsAgree
<1> QED
  BY <1>1, Inductive, PTL

=============================================================================
