---------------------------- MODULE DashboardPage ----------------------------
(***************************************************************************)
(* The script of the browser page: one selection (an account and a         *)
(* period), the requests that are under way for it, and what the page      *)
(* shows. Every await lets the user, and answers to other requests, in.    *)
(***************************************************************************)
EXTENDS Naturals, FiniteSets

CONSTANTS
    Login,       \* logins of accounts
    All,         \* the empty account: all of them
    Period,
    MaxRefresh,  \* bound: calls of refresh()
    MaxPage,     \* bound: pages of events
    MaxCalls,    \* bound: calls that await an answer, aborted ones included
    None         \* nothing is shown

ASSUME PageAssumption ==
    /\ All \notin Login
    /\ {MaxRefresh, MaxPage, MaxCalls} \subseteq Nat \ {0}

VARIABLES
    selected,     \* state.account and state.period
    page,         \* state.page
    totalPages,   \* state.totalPages
    url,          \* account and period in the address bar
    refreshID,
    calls,        \* calls of refresh() and loadEvents() that await an answer
    content,      \* the usage shown: what it was asked for, and its headings
    contentBusy,  \* aria-busy of the content
    syncing,      \* aria-disabled of the refresh button
    events,       \* the events shown: what they were asked for
    shownEvents,
    eventsBusy,   \* aria-busy of the events
    eventErrors,  \* whose request events the listed errors are about
    pager         \* the buttons that are enabled

viewVars   == <<content, contentBusy, syncing>>
eventsVars == <<events, shownEvents, eventsBusy, eventErrors, pager>>
vars == <<selected, page, totalPages, url, refreshID, calls, viewVars, eventsVars>>

(* An account may be spelled otherwise than upstream does (exact = FALSE). *)
Filters == {f \in [login : Login \cup {All}, exact : BOOLEAN, period : Period] :
               f.login = All => f.exact}

(* What the server reads from a query: logins are case-insensitive.        *)
Query(filters) == [login |-> filters.login, period |-> filters.period]
Queries        == [login : Login \cup {All}, period : Period]

ASSUME NoneAssumption == None \notin [of : Queries, heading : Queries]

Call(kind, id, filters, p) ==
    [kind |-> kind, id |-> id, query |-> Query(filters), page |-> p,
     aborted |-> FALSE]

Abort(cs) == {[c EXCEPT !.aborted = TRUE] : c \in cs}

(* Mutant: answers are applied whenever they arrive.                       *)
MutLive(c) == TRUE

(* The check after each await.                                             *)
Live(c) == c.id = refreshID /\ ~c.aborted

Init ==
    /\ selected \in Filters
    /\ url = selected
    /\ page = 1 /\ totalPages = 1
    /\ refreshID = 1
    /\ calls = {Call("dashboard", 1, selected, 1)}
    /\ content = None /\ contentBusy = TRUE /\ syncing = FALSE
    /\ events = None /\ shownEvents = None /\ eventsBusy = TRUE
    /\ eventErrors = None
    /\ pager = {}

(* refresh() until its first await.                                        *)
Refresh(sync, filters) ==
    /\ refreshID < MaxRefresh /\ Cardinality(calls) < MaxCalls
    /\ refreshID' = refreshID + 1
    /\ calls' = Abort(calls) \cup
           {Call(IF sync THEN "sync" ELSE "dashboard", refreshID + 1, filters, 1)}
    /\ page' = 1
    /\ contentBusy' = TRUE /\ eventsBusy' = TRUE
    /\ pager' = {}
    /\ syncing' = sync
    /\ UNCHANGED <<totalPages, content, events, shownEvents, eventErrors>>

ClickRefresh ==
    /\ ~syncing
    /\ Refresh(TRUE, selected)
    /\ UNCHANGED <<selected, url>>

(* Mutant: the address bar keeps the filters of the last page load.        *)
MutSelectFilters(filters) ==
    /\ selected' = filters
    /\ UNCHANGED url
    /\ Refresh(FALSE, filters)

(* A change of the account list or the period list. A login spelled as in  *)
(* an address is an option until usage is shown for another account.       *)
SelectFilters(filters) ==
    /\ selected' = filters
    /\ url' = filters
    /\ Refresh(FALSE, filters)

(* Back, forward, or a link to a fragment; spelling is no reason to load.  *)
PopState(filters) ==
    /\ url' = filters
    /\ \/ /\ Query(filters) # Query(selected)
          /\ selected' = filters
          /\ Refresh(FALSE, filters)
       \/ /\ Query(filters) = Query(selected)
          /\ UNCHANGED <<selected, page, totalPages, refreshID, calls>>
          /\ UNCHANGED <<viewVars, eventsVars>>

(* Mutant: the request for the page left behind is not aborted.            *)
MutRequested(cs, filters, p) == cs \cup {Call("events", refreshID, filters, p)}

(* The calls once loadEvents() awaits its answer.                          *)
Requested(cs, filters, p) ==
    LET previous == {c \in cs : c.kind = "events"} IN
    (cs \ previous) \cup Abort(previous)
        \cup {Call("events", refreshID, filters, p)}

(* The handlers of the pager, and loadEvents() until its await.            *)
Turn(button, p) ==
    /\ button \in pager /\ Cardinality(calls) < MaxCalls
    /\ page' = p
    /\ calls' = Requested(calls, selected, p)
    /\ eventsBusy' = TRUE
    /\ UNCHANGED <<selected, totalPages, url, refreshID, viewVars>>
    /\ UNCHANGED <<events, shownEvents, eventErrors, pager>>

Previous == page > 1 /\ Turn("previous", page - 1)

(* Mutant: an off-by-one in the check of the handler.                      *)
MutNextPage == page <= totalPages /\ Turn("next", page + 1)

NextPage == page < totalPages /\ Turn("next", page + 1)

(* Mutant: the events are left marked as busy.                             *)
MutResetEvents ==
    /\ events' = None /\ shownEvents' = None
    /\ pager' = {}
    /\ UNCHANGED eventsBusy

ResetEvents ==
    /\ events' = None /\ shownEvents' = None
    /\ eventsBusy' = FALSE
    /\ pager' = {}

(* Mutant: usage is only read when synchronization reported no failure.    *)
MutSyncArrives(c) ==
    /\ Live(c) /\ c.kind = "sync"
    /\ \/ calls' = (calls \ {c}) \cup {[c EXCEPT !.kind = "dashboard"]}
       \/ calls' = calls \ {c}
    /\ UNCHANGED <<selected, page, totalPages, url, refreshID, viewVars, eventsVars>>

(* Whatever POST /api/v1/sync answers, the same refresh reads next.        *)
SyncArrives(c) ==
    /\ Live(c) /\ c.kind = "sync"
    /\ calls' = (calls \ {c}) \cup {[c EXCEPT !.kind = "dashboard"]}
    /\ UNCHANGED <<selected, page, totalPages, url, refreshID, viewVars, eventsVars>>

(* Mutant: events once shown stay until the next ones arrive.              *)
MutOutdated(filters) == FALSE

(* The events shown are about another account, spelling or period.         *)
Outdated(filters) == shownEvents # filters

(* The rest of refresh(): the usage is shown, the account gets the         *)
(* spelling of upstream if discovery finds it, and its events are loaded.  *)
DashboardArrives(c) ==
    /\ Live(c) /\ c.kind = "dashboard"
    /\ content' = [of |-> c.query, heading |-> Query(selected)]
    /\ contentBusy' = FALSE
    /\ syncing' = FALSE
    /\ eventErrors' = None
    /\ \/ /\ selected' = selected
          /\ ResetEvents
          /\ calls' = calls \ {c}
       \/ /\ selected.login # All
          /\ selected' = [selected EXCEPT !.exact = TRUE]
          /\ calls' = Requested(calls \ {c}, selected, page)
          /\ eventsBusy' = TRUE
          /\ \/ /\ Outdated(selected')
                /\ events' = None /\ shownEvents' = None /\ pager' = {}
             \/ /\ ~Outdated(selected')
                /\ UNCHANGED <<events, shownEvents, pager>>
    /\ url' = IF url.login = selected.login
                THEN [url EXCEPT !.exact = selected'.exact] ELSE url
    /\ UNCHANGED <<page, totalPages, refreshID>>

(* The rest of loadEvents(); errors may come with data. Upstream answers    *)
(* with the page that was asked for.                                       *)
EventsArrive(c) ==
    /\ Live(c) /\ c.kind = "events"
    /\ calls' = calls \ {c}
    /\ \/ /\ ResetEvents
          /\ eventErrors' = c.query
          /\ UNCHANGED <<page, totalPages>>
       \/ \E total \in 0 .. MaxPage :
          /\ events' = [of |-> c.query, page |-> c.page]
          /\ shownEvents' = selected
          /\ eventsBusy' = FALSE
          /\ eventErrors' \in {None, c.query}
          /\ page' = c.page
          /\ totalPages' = total
          /\ pager' = {b \in {"previous", "next"} :
                 IF b = "previous" THEN c.page > 1 ELSE c.page < total}
    /\ UNCHANGED <<selected, url, refreshID, viewVars>>

(* An answer, or an abort, that comes after the check would fail.          *)
Ignored(c) ==
    /\ ~Live(c)
    /\ calls' = calls \ {c}
    /\ UNCHANGED <<selected, page, totalPages, url, refreshID, viewVars, eventsVars>>

Answer(c) == SyncArrives(c) \/ DashboardArrives(c) \/ EventsArrive(c)

Next ==
    \/ ClickRefresh
    \/ \E f \in Filters : SelectFilters(f) \/ PopState(f)
    \/ Previous \/ NextPage
    \/ \E c \in calls : Answer(c) \/ Ignored(c)

Spec == Init /\ [][Next]_vars

(* Every request that is not aborted is answered or fails.                 *)
Fairness == WF_vars(\E c \in calls : Answer(c))

FairSpec == Spec /\ Fairness

-----------------------------------------------------------------------------
(***************************************************************************)
(* Properties.                                                             *)
(***************************************************************************)
Calls == [kind : {"sync", "dashboard", "events"}, id : 1 .. MaxRefresh,
          query : Queries, page : 1 .. MaxPage, aborted : BOOLEAN]

TypeOK ==
    /\ {selected, url} \subseteq Filters
    /\ page \in 1 .. MaxPage
    /\ totalPages \in 0 .. MaxPage
    /\ refreshID \in 1 .. MaxRefresh
    /\ calls \subseteq Calls
    /\ \A c \in calls : c.id <= refreshID
    /\ content = None \/ content \in [of : Queries, heading : Queries]
    /\ events = None \/ events \in [of : Queries, page : 1 .. MaxPage]
    /\ shownEvents \in Filters \cup {None}
    /\ eventErrors \in Queries \cup {None}
    /\ {contentBusy, syncing, eventsBusy} \subseteq BOOLEAN
    /\ pager \subseteq {"previous", "next"}

(* Usage is shown under the headings it was asked for, and once the page   *)
(* is not busy it is that of the selection, however often that changed.    *)
ContentIsSelection ==
    /\ content # None => content.of = content.heading
    /\ ~contentBusy => content # None /\ content.of = Query(selected)

(* The events below the usage, and the errors listed for them, are about   *)
(* the account and period of the usage, also while the next is loading.    *)
EventsBelongToContent ==
    /\ events # None => content # None /\ events.of = content.of
    /\ eventErrors # None => content # None /\ eventErrors = content.of

(* Only answers about the current selection and page are awaited: there is *)
(* one request at a time whose answer will be shown.                       *)
AnswersAreWanted ==
    \A c \in calls : Live(c) =>
        /\ c.query = Query(selected)
        /\ c.page = page
        /\ \A d \in calls : Live(d) => d = c

(* A part that is marked as busy is waiting for an answer: no indicator    *)
(* and no disabled button stays behind.                                    *)
BusyIsPending ==
    LET pending == {c.kind : c \in {d \in calls : Live(d)}} IN
    /\ contentBusy <=> pending \cap {"sync", "dashboard"} # {}
    /\ eventsBusy <=> pending # {}
    /\ "sync" \in pending => syncing
    /\ syncing => contentBusy

(* The address bar, which is what a reload or a bookmark uses, names the   *)
(* selection, up to spelling.                                              *)
UrlIsSelection == Query(url) = Query(selected)

(* Loading ends, and so does the lock on the refresh button.               *)
PageSettles == contentBusy ~> ~contentBusy /\ ~syncing
=============================================================================
