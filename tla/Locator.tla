------------------------------- MODULE Locator -------------------------------
(***************************************************************************)
(* The search of the locator bar: QgsLocator                               *)
(* (src/core/locator/qgslocator.cpp), which runs the filters of a query in *)
(* threads of their own, QgsLocatorModelBridge                             *)
(* (qgslocatormodelbridge.cpp), which starts one query at a time and       *)
(* queues the next, the list of results of QgsLocatorModel                 *)
(* (qgslocatormodel.cpp) and the timers of QgsLocatorWidget                *)
(* (src/gui/locator/qgslocatorwidget.cpp).                                 *)
(*                                                                         *)
(* A filter's thread searches, sends results and ends.  Everything else    *)
(* runs in the main thread: what a thread sends to it waits in `events`    *)
(* and is handled in that order.  deregisterFilter() and the destructor    *)
(* run the event loop, in which all of this goes on, until no thread is    *)
(* left.                                                                   *)
(***************************************************************************)
EXTENDS Integers, FiniteSets, Sequences

CONSTANTS
  Filters,
  Fast,        \* filters that search in the main thread
  Texts,
  FiltersOf,   \* [Texts -> SUBSET Filters]: those a text activates, by prefix
  EmptyText,   \* what the line edit holds at first
  NoText,      \* not a text
  MaxResults,  \* bound: results of a filter per query
  MaxCalls     \* bound: calls by the user and by plugins

ASSUME FiltersAssumption == IsFiniteSet(Filters) /\ Fast \subseteq Filters
ASSUME TextsAssumption == 
  FiltersOf \in [Texts -> SUBSET Filters] /\ EmptyText \in Texts /\ NoText \notin Texts
ASSUME BoundsAssumption == {MaxResults, MaxCalls} \subseteq Nat

VARIABLES
  \* QgsLocator:
  mFilters,
  mActiveThreads,   \* filters whose thread is in the list
  query,            \* number of the last query, for its feedback
  mFeedback,        \* is the feedback of the last query canceled?
  threads,          \* [Filters -> the thread of the filter]
  events,           \* what threads have posted to the main thread
  leaving,          \* filters deregisterFilter() or the destructor waits to delete
  \* QgsLocatorModel:
  mResults,
  mDeferredClear,   \* and is mDeferredClearTimer active?
  \* QgsLocatorModelBridge:
  mIsRunning,
  mNextRequestedString, \* NoText unless mHasQueuedRequest
  \* QgsLocatorWidget:
  alive,            \* has its destruction not begun?
  mLineEdit,        \* the text
  mPopupTimer,
  \* Bound:
  calls,
  \* History, read by no action:
  searched,         \* the text of the last query
  sent,             \* results of the last query that were not discarded
  stopped           \* was the last query stopped other than for a later one?

locatorVars == <<mFilters, mActiveThreads, query, mFeedback, threads>>
modelVars == <<mResults, mDeferredClear>>
bridgeVars == <<mIsRunning, mNextRequestedString>>
widgetVars == <<alive, mLineEdit, mPopupTimer>>
historyVars == <<searched, sent, stopped>>
vars == <<locatorVars, events, leaving, modelVars, bridgeVars, widgetVars, calls,
          historyVars>>

Idle == [at |-> "none", query |-> 0, found |-> 0]

Result(f, n) == [filter |-> f, query |-> query, number |-> n]

Post(kind, f, r) == events' = Append(events, [kind |-> kind, filter |-> f, result |-> r])

NoResult == [filter |-> "none", query |-> 0, number |-> 0]

Init ==
  /\ mFilters = Filters /\ mActiveThreads = {}
  /\ query = 0 /\ mFeedback = FALSE
  /\ threads = [f \in Filters |-> Idle]
  /\ events = <<>> /\ leaving = {}
  /\ mResults = {} /\ mDeferredClear = FALSE
  /\ mIsRunning = FALSE /\ mNextRequestedString = NoText
  /\ alive = TRUE /\ mLineEdit = EmptyText /\ mPopupTimer = FALSE
  /\ calls = 0
  /\ searched = NoText /\ sent = {} /\ stopped = FALSE

isRunning == mActiveThreads # {}

-----------------------------------------------------------------------------
(***************************************************************************)
(* The thread of a filter                                                  *)
(***************************************************************************)

\* The slot connected to QThread::started.
ThreadStarts(f) ==
  /\ threads[f].at = "started"
  /\ IF mFeedback
       THEN /\ threads' = [threads EXCEPT ![f].at = "finished"]
            /\ Post("quit", f, NoResult)
       ELSE /\ threads' = [threads EXCEPT ![f].at = "fetching"]
            /\ UNCHANGED events
  /\ UNCHANGED <<mFilters, mActiveThreads, query, mFeedback, leaving, modelVars,
                 bridgeVars, widgetVars, calls, historyVars>>

\* The filter sends a result: filterSentResult() runs in the filter's thread and
\* discards it if the query is canceled.
FilterSentResult(f) ==
  LET n == threads[f].found + 1
      r == [Result(f, n) EXCEPT !.query = threads[f].query]
  IN /\ threads[f].at = "fetching"
     /\ n <= MaxResults
     /\ threads' = [threads EXCEPT ![f].found = n]
     /\ IF mFeedback
          THEN UNCHANGED <<events, sent>>
          ELSE Post("result", f, r) /\ sent' = sent \cup {r}
     /\ UNCHANGED <<mFilters, mActiveThreads, query, mFeedback, leaving, modelVars,
                    bridgeVars, widgetVars, calls, searched, stopped>>

\* QgsLocatorFilter::fetchResults() returns: finished() is connected to quit()
\* of the thread object, which belongs to the main thread.
FetchReturns(f) ==
  /\ threads[f].at = "fetching"
  /\ threads' = [threads EXCEPT ![f].at = "finished"]
  /\ Post("quit", f, NoResult)
  /\ UNCHANGED <<mFilters, mActiveThreads, query, mFeedback, leaving, modelVars,
                 bridgeVars, widgetVars, calls, historyVars>>

\* The thread leaves its event loop, in which the clone of the filter is deleted.
ThreadEnds(f) ==
  /\ threads[f].at = "quitting"
  /\ threads' = [threads EXCEPT ![f] = Idle]
  /\ Post("finished", f, NoResult)
  /\ UNCHANGED <<mFilters, mActiveThreads, query, mFeedback, leaving, modelVars,
                 bridgeVars, widgetVars, calls, historyVars>>

-----------------------------------------------------------------------------
(***************************************************************************)
(* Queries.  The operators below are parts of actions of the main thread.  *)
(***************************************************************************)

\* What the fast filters may find.
FastResults(fs) ==
  {UNION {{[filter |-> f, query |-> query + 1, number |-> n] : n \in 1..count[f]} :
            f \in fs \cap Fast} :
     count \in [fs \cap Fast -> 0..MaxResults]}

\* Mutant: finished() is not emitted when no filter needs a thread.
FetchResultsSilently(text) ==
  LET active == FiltersOf[text] \cap mFilters
      threaded == active \ Fast
  IN \E found \in FastResults(active) :
       /\ query' = query + 1
       /\ mFeedback' = FALSE
       /\ mActiveThreads' = threaded
       /\ threads' = [f \in Filters |->
            IF f \in threaded THEN [at |-> "started", query |-> query + 1, found |-> 0]
            ELSE threads[f]]
       /\ mIsRunning' = TRUE
       /\ mResults' = IF found = {} THEN mResults ELSE found
       /\ mDeferredClear' = (found = {})
       /\ searched' = text /\ sent' = found /\ stopped' = FALSE

\* performSearch() of the bridge with no query running: deferredClear() and
\* fetchResults().  The first result replaces what the model shows.  If no
\* filter needs a thread, finished() is emitted at once.
FetchResults(text) ==
  LET active == FiltersOf[text] \cap mFilters
      threaded == active \ Fast
  IN \E found \in FastResults(active) :
       /\ query' = query + 1
       /\ mFeedback' = FALSE
       /\ mActiveThreads' = threaded
       /\ threads' = [f \in Filters |->
            IF f \in threaded THEN [at |-> "started", query |-> query + 1, found |-> 0]
            ELSE threads[f]]
       /\ mIsRunning' = (threaded # {})
       /\ mResults' = IF found = {} THEN mResults ELSE found
       /\ mDeferredClear' = (found = {})
       /\ searched' = text /\ sent' = found /\ stopped' = FALSE

\* Mutant: a search that waits already is kept.
PerformSearchKeepsFirst(text) ==
  IF isRunning
    THEN /\ mIsRunning' = TRUE
         /\ mFeedback' = TRUE
         /\ mNextRequestedString' =
              IF mNextRequestedString = NoText THEN text ELSE mNextRequestedString
         /\ UNCHANGED <<mActiveThreads, query, threads, modelVars, historyVars>>
    ELSE FetchResults(text) /\ UNCHANGED mNextRequestedString

\* QgsLocatorModelBridge::performSearch().
PerformSearch(text) ==
  IF isRunning
    THEN /\ mIsRunning' = TRUE
         /\ mFeedback' = TRUE
         /\ mNextRequestedString' = text
         /\ UNCHANGED <<mActiveThreads, query, threads, modelVars, historyVars>>
    ELSE FetchResults(text) /\ UNCHANGED mNextRequestedString

\* searchFinished(), when the last thread of a query has been removed.
SearchFinished ==
  IF mNextRequestedString # NoText
    THEN /\ mNextRequestedString' = NoText
         /\ FetchResults(mNextRequestedString)
    ELSE /\ mIsRunning' = FALSE
         /\ mActiveThreads' = {}
         /\ UNCHANGED <<mNextRequestedString, query, mFeedback, threads, modelVars,
                        historyVars>>

\* Mutant: the results of an earlier query stay.
AddResultAppends(r) ==
  /\ mResults' = mResults \cup {r}
  /\ mDeferredClear' = FALSE

\* QgsLocatorModel::addResult().
AddResult(r) ==
  /\ mResults' = IF mDeferredClear THEN {r} ELSE mResults \cup {r}
  /\ mDeferredClear' = FALSE

\* QgsLocatorModel::clear().
Clear ==
  /\ mResults' = {}
  /\ mDeferredClear' = FALSE

-----------------------------------------------------------------------------
(***************************************************************************)
(* Events of the main thread                                               *)
(***************************************************************************)

\* foundResult() reaches the bridge, unless it is being destroyed.
DeliverResult ==
  /\ events # <<>> /\ Head(events).kind = "result"
  /\ events' = Tail(events)
  /\ IF alive THEN AddResult(Head(events).result) ELSE UNCHANGED modelVars
  /\ UNCHANGED <<locatorVars, leaving, bridgeVars, widgetVars, calls, historyVars>>

\* QThread::quit().
DeliverQuit ==
  /\ events # <<>> /\ Head(events).kind = "quit"
  /\ events' = Tail(events)
  /\ threads' = [threads EXCEPT ![Head(events).filter].at = "quitting"]
  /\ UNCHANGED <<mFilters, mActiveThreads, query, mFeedback, leaving, modelVars,
                 bridgeVars, widgetVars, calls, historyVars>>

\* The slot connected to QThread::finished.
DeliverFinished ==
  /\ events # <<>> /\ Head(events).kind = "finished"
  /\ events' = Tail(events)
  /\ IF mActiveThreads \ {Head(events).filter} = {} /\ alive
       THEN SearchFinished
       ELSE /\ mActiveThreads' = mActiveThreads \ {Head(events).filter}
            /\ UNCHANGED <<query, mFeedback, threads, modelVars, bridgeVars, historyVars>>
  /\ UNCHANGED <<mFilters, leaving, widgetVars, calls>>

DeferredClearTimeout ==
  /\ alive /\ mDeferredClear
  /\ Clear
  /\ UNCHANGED <<locatorVars, events, leaving, bridgeVars, widgetVars, calls, historyVars>>

\* mPopupTimer: the widget searches for the text of its line edit.
PopupTimeout ==
  /\ alive /\ mPopupTimer
  /\ mPopupTimer' = FALSE
  /\ PerformSearch(mLineEdit)
  /\ UNCHANGED <<mFilters, events, leaving, alive, mLineEdit, calls>>

-----------------------------------------------------------------------------
(***************************************************************************)
(* Calls of the user and of plugins, which the event loop that             *)
(* deregisterFilter() runs handles too                                     *)
(***************************************************************************)
Called ==
  /\ alive /\ calls < MaxCalls
  /\ calls' = calls + 1

\* scheduleDelayedPopup().
Type(text) ==
  /\ Called
  /\ text # mLineEdit
  /\ mLineEdit' = text
  /\ mPopupTimer' = TRUE
  /\ UNCHANGED <<locatorVars, events, leaving, modelVars, bridgeVars, alive, historyVars>>

\* QgsLocatorWidget::search().
Search(text) ==
  /\ Called
  /\ mLineEdit' = text
  /\ mPopupTimer' = FALSE
  /\ PerformSearch(text)
  /\ UNCHANGED <<mFilters, events, leaving, alive>>

\* triggerSearchAndShowList(), by keys and by the focus.
TriggerSearch ==
  /\ Called
  /\ mResults = {}
  /\ mPopupTimer' = FALSE
  /\ PerformSearch(mLineEdit)
  /\ UNCHANGED <<mFilters, events, leaving, alive, mLineEdit>>

InvalidateResults ==
  /\ Called
  /\ mFeedback' = (query > 0)
  /\ Clear
  /\ stopped' = TRUE
  /\ UNCHANGED <<mFilters, mActiveThreads, query, threads, events, leaving, bridgeVars,
                 widgetVars, searched, sent>>

\* cancelRunningQuery() before the filters of fs are deleted.
CancelAndDelete(fs) ==
  IF isRunning
    THEN /\ mFeedback' = TRUE /\ stopped' = TRUE
         /\ leaving' = fs
         /\ UNCHANGED mFilters
    ELSE /\ mFilters' = mFilters \ fs
         /\ UNCHANGED <<mFeedback, stopped, leaving>>

\* Bound: deregisterFilter() is not called while another call waits.
DeregisterFilter(f) ==
  /\ Called
  /\ f \in mFilters /\ leaving = {}
  /\ CancelAndDelete({f})
  /\ UNCHANGED <<mActiveThreads, query, threads, events, modelVars, bridgeVars, widgetVars,
                 searched, sent>>

\* ~QgsLocator(): the bridge no longer receives signals, and the timers of the
\* widget and the model are not handled any more.
Destroy ==
  /\ Called
  /\ leaving = {}
  /\ alive' = FALSE
  /\ CancelAndDelete(mFilters)
  /\ UNCHANGED <<mActiveThreads, query, threads, events, modelVars, bridgeVars, mLineEdit,
                 mPopupTimer, searched, sent>>

\* Mutant: the event loop is run once.
CancelReturnsAtOnce ==
  /\ leaving # {}
  /\ mFilters' = mFilters \ leaving
  /\ leaving' = {}
  /\ UNCHANGED <<mActiveThreads, query, mFeedback, threads, events, modelVars, bridgeVars,
                 widgetVars, calls, historyVars>>

\* The event loop of cancelRunningQuery() finds no thread.
CancelReturns ==
  /\ leaving # {} /\ ~isRunning
  /\ mFilters' = mFilters \ leaving
  /\ leaving' = {}
  /\ UNCHANGED <<mActiveThreads, query, mFeedback, threads, events, modelVars, bridgeVars,
                 widgetVars, calls, historyVars>>

-----------------------------------------------------------------------------
ThreadStep(f) == ThreadStarts(f) \/ FilterSentResult(f) \/ FetchReturns(f) \/ ThreadEnds(f)

MainStep == DeliverResult \/ DeliverQuit \/ DeliverFinished

Timeout == DeferredClearTimeout \/ PopupTimeout

Call ==
  \/ \E text \in Texts : Type(text) \/ Search(text)
  \/ TriggerSearch \/ InvalidateResults
  \/ \E f \in Filters : DeregisterFilter(f)
  \/ Destroy

Next == (\E f \in Filters : ThreadStep(f)) \/ MainStep \/ Timeout \/ CancelReturns \/ Call

Spec == Init /\ [][Next]_vars

\* Filters return, and the main thread runs its event loop.
FairSpec ==
  /\ Spec
  /\ \A f \in Filters : WF_vars(ThreadStarts(f)) /\ WF_vars(FetchReturns(f))
                          /\ WF_vars(ThreadEnds(f))
  /\ WF_vars(MainStep)
  /\ WF_vars(DeferredClearTimeout) /\ WF_vars(PopupTimeout)
  /\ WF_vars(CancelReturns)

-----------------------------------------------------------------------------
TypeOK ==
  /\ mFilters \subseteq Filters /\ mActiveThreads \subseteq Filters \ Fast
  /\ leaving \subseteq mFilters
  /\ query \in Nat /\ mFeedback \in BOOLEAN
  /\ threads \in [Filters -> [at : {"none", "started", "fetching", "finished", "quitting"},
                              query : Nat, found : 0..MaxResults]]
  /\ mResults \subseteq [filter : Filters, query : Nat, number : 1..MaxResults]
  /\ {mDeferredClear, mIsRunning, alive, mPopupTimer, stopped} \subseteq BOOLEAN
  /\ mNextRequestedString \in Texts \cup {NoText}
  /\ mLineEdit \in Texts /\ searched \in Texts \cup {NoText}
  /\ calls \in 0..MaxCalls

\* The list never mixes the results of two queries, although results of a
\* canceled query still arrive while the next one waits, and the old results
\* stay until the first new one replaces them.
OneSearchShown == TypeOK /\ \A r, s \in mResults : r.query = s.query

\* A filter is deleted, and the feedback of a query replaced by that of the next,
\* only when no thread works with them and no result that names the filter waits
\* in the event queue.
FilterOutlivesQuery ==
  /\ \A f \in Filters : threads[f].at # "none" =>
       f \in mFilters /\ f \in mActiveThreads /\ threads[f].query = query
  /\ \A i \in 1..Len(events) : events[i].kind = "result" =>
       events[i].result.filter \in mFilters

\* A search that was put off while a query runs: the query is canceled, and has
\* a thread left whose end starts the search.
QueuedWillRun == alive /\ mNextRequestedString # NoText => isRunning /\ mFeedback

\* When nothing is left to be handled, the list shows what the last query found,
\* and that query was for the text of the line edit and was not canceled; unless
\* invalidateResults() or deregisterFilter() stopped it.  Nor is a search that was
\* put off forgotten before.
LastSearchShown ==
  /\ QueuedWillRun
  /\ alive /\ query > 0 /\ ~stopped /\ events = <<>> /\ ~isRunning
         /\ ~mPopupTimer /\ ~mDeferredClear =>
       searched = mLineEdit /\ mResults = sent /\ ~mFeedback

\* Queries end, one way or the other, and deregisterFilter() and the destructor
\* return, though searches start in the event loop they run; the spinner stops.
ComesToRest ==
  <>[](/\ ~isRunning /\ leaving = {} /\ events = <<>>
       /\ alive => ~mIsRunning /\ ~mDeferredClear /\ mNextRequestedString = NoText)
=============================================================================
