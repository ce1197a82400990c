------------------------- MODULE DashboardPageProofs -------------------------
(***************************************************************************)
(* Proofs about DashboardPage, for any accounts, periods and bounds.       *)
(***************************************************************************)
EXTENDS DashboardPage, TLAPS

(* The calls whose answer will be shown.                                   *)
LiveCalls == {c \in calls : Live(c)}

(* The pager is locked as long as the usage is being loaded.               *)
PagerIsLocked == contentBusy => pager = {}

(* The filters that refresh() compares with the selection are those of the *)
(* events shown.                                                           *)
EventsAreShown == events # None => events.of = Query(shownEvents)

PageInv ==
    /\ TypeOK
    /\ ContentIsSelection
    /\ EventsBelongToContent
    /\ AnswersAreWanted
    /\ BusyIsPending
    /\ UrlIsSelection
    /\ PagerIsLocked
    /\ EventsAreShown

-----------------------------------------------------------------------------
(* Queries and calls. *)
LEMMA QueryType == ASSUME NEW f \in Filters PROVE Query(f) \in Queries
BY DEF Filters, Query, Queries

(* A call that the page begins is one of its calls.                        *)
LEMMA CallType ==
    ASSUME NEW kind \in {"sync", "dashboard", "events"}, NEW id \in 1 .. MaxRefresh,
           NEW f \in Filters, NEW p \in 1 .. MaxPage
    PROVE  Call(kind, id, f, p) \in Calls
BY QueryType DEF Call, Calls

(* An aborted call is the same call, aborted.                              *)
LEMMA AbortedType ==
    ASSUME NEW cs \in SUBSET Calls, NEW d \in Abort(cs)
    PROVE  d \in Calls /\ d.aborted /\ \E c \in cs : d.id = c.id
<1>1. PICK c \in cs : d = [c EXCEPT !.aborted = TRUE]
  BY DEF Abort
<1>2. QED
  BY <1>1 DEF Calls

(* refresh() leaves one call that counts, the one it makes.                *)
LEMMA RefreshCalls ==
    ASSUME TypeOK, NEW sync \in BOOLEAN, NEW f \in Filters, Refresh(sync, f)
    PROVE  /\ calls' \subseteq Calls
           /\ \A c \in calls' : c.id <= refreshID'
           /\ refreshID' \in 1 .. MaxRefresh
           /\ LiveCalls' = {Call(IF sync THEN "sync" ELSE "dashboard", refreshID', f, 1)}
<1> DEFINE new == Call(IF sync THEN "sync" ELSE "dashboard", refreshID', f, 1)
<1>1. refreshID' = refreshID + 1 /\ refreshID' \in 1 .. MaxRefresh
  BY PageAssumption DEF Refresh, TypeOK
<1>2. new \in Calls
  <2>1. 1 \in 1 .. MaxPage
    BY PageAssumption
  <2>2. QED
    BY <1>1, <2>1, CallType
<1>3. new.id = refreshID' /\ new.aborted = FALSE
  BY DEF Call
<1>4. calls' = Abort(calls) \cup {new}
  BY <1>1 DEF Refresh
<1> HIDE DEF new
<1>5. ASSUME NEW d \in Abort(calls)
      PROVE  d \in Calls /\ d.aborted /\ d.id <= refreshID'
  <2>1. calls \in SUBSET Calls
    BY DEF TypeOK
  <2>2. d \in Calls /\ d.aborted /\ \E c \in calls : d.id = c.id
    BY <2>1, AbortedType
  <2>3. PICK c \in calls : d.id = c.id
    BY <2>2
  <2>4. c.id <= refreshID /\ c.id \in Nat
    BY DEF TypeOK, Calls
  <2>5. QED
    BY <1>1, <2>2, <2>3, <2>4 DEF TypeOK
<1>6. calls' \subseteq Calls /\ \A c \in calls' : c.id <= refreshID'
  BY <1>1, <1>2, <1>3, <1>4, <1>5
<1>7. LiveCalls' = {new}
  BY <1>3, <1>4, <1>5 DEF LiveCalls, Live
<1>8. QED
  BY <1>1, <1>6, <1>7 DEF new

(* loadEvents() does so too, where it only finds calls of its own.         *)
LEMMA RequestedCalls ==
    ASSUME TypeOK, NEW cs \in SUBSET calls, NEW f \in Filters, NEW p \in 1 .. MaxPage,
           \A c \in cs : Live(c) => c.kind = "events",
           calls' = Requested(cs, f, p), UNCHANGED refreshID
    PROVE  /\ calls' \subseteq Calls
           /\ \A c \in calls' : c.id <= refreshID'
           /\ LiveCalls' = {Call("events", refreshID, f, p)}
<1> DEFINE new == Call("events", refreshID, f, p)
           previous == {c \in cs : c.kind = "events"}
<1>1. new \in Calls /\ new.id = refreshID /\ new.aborted = FALSE
  <2>1. refreshID \in 1 .. MaxRefresh
    BY DEF TypeOK
  <2>2. QED
    BY <2>1, CallType DEF Call
<1>2. calls' = (cs \ previous) \cup Abort(previous) \cup {new}
  BY DEF Requested
<1>3. cs \subseteq Calls /\ previous \in SUBSET Calls /\ previous \subseteq calls
  BY DEF TypeOK
<1> HIDE DEF new
<1>4. ASSUME NEW d \in Abort(previous)
      PROVE  d \in Calls /\ d.aborted /\ d.id <= refreshID
  <2>1. d \in Calls /\ d.aborted /\ \E c \in previous : d.id = c.id
    BY <1>3, AbortedType
  <2>2. PICK c \in previous : d.id = c.id
    BY <2>1
  <2>3. c.id <= refreshID
    BY <1>3 DEF TypeOK
  <2>4. QED
    BY <2>1, <2>2, <2>3
<1>5. ASSUME NEW d \in cs \ previous PROVE ~Live(d) /\ d \in Calls /\ d.id <= refreshID
  BY <1>3 DEF TypeOK
<1>6. refreshID \in Nat
  BY DEF TypeOK
<1> HIDE DEF previous
<1>7. calls' \subseteq Calls /\ \A c \in calls' : c.id <= refreshID'
  BY <1>1, <1>2, <1>4, <1>5, <1>6
<1>8. LiveCalls' = {new}
  BY <1>1, <1>2, <1>4, <1>5 DEF LiveCalls, Live
<1>9. QED
  BY <1>7, <1>8 DEF new

(* A call that is answered for good, or was never waited for.              *)
LEMMA CallEnds ==
    ASSUME TypeOK, NEW c, calls' = calls \ {c}, UNCHANGED refreshID
    PROVE  /\ calls' \subseteq Calls
           /\ \A d \in calls' : d.id <= refreshID'
           /\ LiveCalls' = LiveCalls \ {c}
BY DEF TypeOK, LiveCalls, Live

(* What the two invariants about calls say when one call counts, or none.  *)
LEMMA OneCallCounts ==
    ASSUME NEW x, LiveCalls' = {x},
           x.query = Query(selected)', x.page = page',
           contentBusy' <=> x.kind \in {"sync", "dashboard"},
           eventsBusy',
           x.kind = "sync" => syncing',
           syncing' => contentBusy'
    PROVE  AnswersAreWanted' /\ BusyIsPending'
<1>1. AnswersAreWanted'
  BY DEF AnswersAreWanted, LiveCalls
<1>2. {c.kind : c \in {d \in calls : Live(d)}}' = {x.kind}
  BY DEF LiveCalls
<1>3. QED
  BY <1>1, <1>2 DEF BusyIsPending

(* Without a call whose answer will be shown nothing is busy.              *)
LEMMA NoCallCounts ==
    ASSUME LiveCalls' = {}, ~contentBusy', ~eventsBusy', ~syncing'
    PROVE  AnswersAreWanted' /\ BusyIsPending'
<1>1. AnswersAreWanted'
  BY DEF AnswersAreWanted, LiveCalls
<1>2. {c.kind : c \in {d \in calls : Live(d)}}' = {}
  BY DEF LiveCalls
<1>3. QED
  BY <1>1, <1>2 DEF BusyIsPending

(* A call that counts is the only one, and what is busy waits for it.      *)
LEMMA TheLiveCall ==
    ASSUME TypeOK, AnswersAreWanted, BusyIsPending, NEW c \in calls, Live(c)
    PROVE  /\ LiveCalls = {c}
           /\ c.query = Query(selected) /\ c.page = page
           /\ contentBusy <=> c.kind \in {"sync", "dashboard"}
           /\ eventsBusy
           /\ c.kind = "sync" => syncing
           /\ syncing => contentBusy
<1>1. LiveCalls = {c} /\ c.query = Query(selected) /\ c.page = page
  BY DEF AnswersAreWanted, LiveCalls
<1>2. {d.kind : d \in {e \in calls : Live(e)}} = {c.kind}
  BY <1>1 DEF LiveCalls
<1>3. QED
  BY <1>1, <1>2 DEF BusyIsPending

-----------------------------------------------------------------------------
(* The page begins with the call for its own selection.                    *)
LEMMA InitPageInv == Init => PageInv
<1> SUFFICES ASSUME Init PROVE PageInv
  OBVIOUS
<1> DEFINE first == Call("dashboard", 1, selected, 1)
<1>1. 1 \in 1 .. MaxPage /\ 1 \in 1 .. MaxRefresh /\ 1 \in 0 .. MaxPage
  BY PageAssumption
<1>2. first \in Calls
  BY <1>1, CallType DEF Init
<1>3. calls = {first} /\ first.id = 1 /\ Live(first) /\ first.kind = "dashboard"
      /\ first.query = Query(selected) /\ first.page = 1
  BY DEF Init, Call, Live
<1> HIDE DEF first
<1>4. TypeOK
  <2>1. calls \subseteq Calls /\ \A c \in calls : c.id <= refreshID
    BY <1>2, <1>3 DEF Init
  <2>2. /\ {contentBusy, syncing, eventsBusy} \subseteq BOOLEAN
        /\ {selected, url} \subseteq Filters /\ pager \subseteq {"previous", "next"}
    BY DEF Init
  <2>3. /\ content = None /\ events = None /\ shownEvents = None /\ eventErrors = None
        /\ page = 1 /\ totalPages = 1 /\ refreshID = 1
    BY DEF Init
  <2>4. QED
    BY <1>1, <2>1, <2>2, <2>3 DEF TypeOK
<1>5. AnswersAreWanted
  BY <1>3 DEF Init, AnswersAreWanted
<1>6. BusyIsPending
  <2>1. {c.kind : c \in {d \in calls : Live(d)}} = {"dashboard"}
    BY <1>3
  <2>2. QED
    BY <2>1 DEF Init, BusyIsPending
<1>7. QED
  BY <1>4, <1>5, <1>6 DEF Init, PageInv, ContentIsSelection, EventsBelongToContent,
     UrlIsSelection, PagerIsLocked, EventsAreShown

(* refresh(), whoever calls it and for whichever filters.                  *)
LEMMA RefreshKeepsPageInv ==
    ASSUME PageInv, NEW sync \in BOOLEAN, NEW f \in Filters, Refresh(sync, f),
           selected' = f, url' \in Filters, UrlIsSelection'
    PROVE  PageInv'
<1> USE DEF PageInv
<1> DEFINE x == Call(IF sync THEN "sync" ELSE "dashboard", refreshID', f, 1)
<1>1. /\ calls' \subseteq Calls
      /\ \A c \in calls' : c.id <= refreshID'
      /\ refreshID' \in 1 .. MaxRefresh
      /\ LiveCalls' = {x}
  BY RefreshCalls
<1>2. TypeOK'
  <2>1. 1 \in 1 .. MaxPage
    BY PageAssumption
  <2>2. QED
    BY <1>1, <2>1 DEF TypeOK, Refresh
<1>3. AnswersAreWanted' /\ BusyIsPending'
  <2>1. x.query = Query(selected)' /\ x.page = page'
    BY DEF Call, Refresh, Query
  <2>2. x.kind = IF sync THEN "sync" ELSE "dashboard"
    BY DEF Call
  <2>3. contentBusy' = TRUE /\ eventsBusy' = TRUE /\ syncing' = sync
    BY DEF Refresh
  <2> HIDE DEF x
  <2>4. QED
    BY <1>1, <2>1, <2>2, <2>3, OneCallCounts
<1>4. UNCHANGED <<content, events, shownEvents, eventErrors>>
      /\ contentBusy' = TRUE /\ pager' = {}
  BY DEF Refresh
<1>5. /\ ContentIsSelection' /\ EventsBelongToContent'
      /\ PagerIsLocked' /\ EventsAreShown'
  BY <1>4 DEF ContentIsSelection, EventsBelongToContent, PagerIsLocked,
              EventsAreShown, Query
<1>6. QED
  BY <1>2, <1>3, <1>5

(* Selecting filters, going back and refreshing start over.                *)
LEMMA SelectionsKeepPageInv ==
    ASSUME PageInv, ClickRefresh \/ \E f \in Filters : SelectFilters(f) \/ PopState(f)
    PROVE  PageInv'
<1>1. CASE ClickRefresh
  BY <1>1, RefreshKeepsPageInv DEF ClickRefresh, PageInv, TypeOK, UrlIsSelection, Query
<1>2. ASSUME NEW f \in Filters, SelectFilters(f) PROVE PageInv'
  BY <1>2, RefreshKeepsPageInv DEF SelectFilters, UrlIsSelection, Query
<1>3. ASSUME NEW f \in Filters, PopState(f) PROVE PageInv'
  <2>1. CASE Query(f) # Query(selected)
    BY <1>3, <2>1, RefreshKeepsPageInv DEF PopState, UrlIsSelection, Query
  <2>2. CASE Query(f) = Query(selected)
    <3>1. /\ url' = f
          /\ UNCHANGED <<selected, page, totalPages, refreshID, calls>>
          /\ UNCHANGED <<viewVars, eventsVars>>
      BY <1>3, <2>2 DEF PopState
    <3>2. TypeOK'
      BY <3>1 DEF PageInv, TypeOK, viewVars, eventsVars
    <3>3. UrlIsSelection'
      BY <2>2, <3>1 DEF UrlIsSelection, Query
    <3>4. AnswersAreWanted' /\ BusyIsPending'
      BY <3>1 DEF PageInv, AnswersAreWanted, BusyIsPending, Live, Query, viewVars, eventsVars
    <3>5. QED
      BY <3>1, <3>2, <3>3, <3>4 DEF PageInv, ContentIsSelection, EventsBelongToContent,
         PagerIsLocked, EventsAreShown, Query, viewVars, eventsVars
  <2>3. QED
    BY <2>1, <2>2
<1>4. QED
  BY <1>1, <1>2, <1>3

(* The pager only works when nothing but events is being loaded.           *)
LEMMA TurnKeepsPageInv ==
    ASSUME PageInv, NEW button, NEW p \in 1 .. MaxPage, Turn(button, p)
    PROVE  PageInv'
<1> USE DEF PageInv
<1> DEFINE x == Call("events", refreshID, selected, p)
<1>1. ~contentBusy /\ ~contentBusy' /\ ~syncing'
  <2>1. ~contentBusy /\ UNCHANGED <<contentBusy, syncing>>
    BY DEF Turn, PagerIsLocked, viewVars
  <2>2. ~syncing
    BY <2>1 DEF BusyIsPending
  <2>3. QED
    BY <2>1, <2>2
<1>2. \A c \in calls : Live(c) => c.kind = "events"
  <2>1. SUFFICES ASSUME NEW c \in calls, Live(c) PROVE c.kind = "events"
    OBVIOUS
  <2>2. c.kind \notin {"sync", "dashboard"} /\ c \in Calls
    BY <1>1, <2>1, TheLiveCall DEF TypeOK
  <2>3. QED
    BY <2>2 DEF Calls
<1>3. /\ calls' \subseteq Calls
      /\ \A c \in calls' : c.id <= refreshID'
      /\ LiveCalls' = {x}
  BY <1>2, RequestedCalls DEF Turn, TypeOK
<1>4. TypeOK'
  BY <1>3 DEF Turn, TypeOK, viewVars
<1>5. AnswersAreWanted' /\ BusyIsPending'
  <2>1. x.query = Query(selected)' /\ x.page = page' /\ x.kind = "events" /\ eventsBusy'
    BY DEF Call, Turn, Query
  <2> HIDE DEF x
  <2>2. QED
    BY <1>1, <1>3, <2>1, OneCallCounts
<1>6. QED
  BY <1>4, <1>5 DEF Turn, ContentIsSelection, EventsBelongToContent, UrlIsSelection,
     PagerIsLocked, EventsAreShown, Query, viewVars

(* Turning a page of the events.                                           *)
LEMMA PagerKeepsPageInv == ASSUME PageInv, Previous \/ NextPage PROVE PageInv'
<1>1. CASE Previous
  <2>1. page - 1 \in 1 .. MaxPage
    BY <1>1, PageAssumption DEF Previous, PageInv, TypeOK
  <2>2. QED
    BY <1>1, <2>1, TurnKeepsPageInv DEF Previous
<1>2. CASE NextPage
  <2>1. page + 1 \in 1 .. MaxPage
    BY <1>2, PageAssumption DEF NextPage, PageInv, TypeOK
  <2>2. QED
    BY <1>2, <2>1, TurnKeepsPageInv DEF NextPage
<1>3. QED
  BY <1>1, <1>2

-----------------------------------------------------------------------------
(* The answers. *)
LEMMA SyncArrivesKeepsPageInv ==
    ASSUME PageInv, NEW c \in calls, SyncArrives(c)
    PROVE  PageInv'
<1> USE DEF PageInv
<1> DEFINE x == [c EXCEPT !.kind = "dashboard"]
<1>1. /\ LiveCalls = {c} /\ c.query = Query(selected) /\ c.page = page
      /\ contentBusy /\ eventsBusy
  BY TheLiveCall DEF SyncArrives
<1>2. x \in Calls /\ x.kind = "dashboard" /\ x.query = c.query /\ x.page = c.page
      /\ x.id = c.id /\ x.aborted = c.aborted
  BY DEF TypeOK, Calls
<1>3. calls' = (calls \ {c}) \cup {x}
  BY DEF SyncArrives
<1>4. UNCHANGED <<selected, page, totalPages, url, refreshID, viewVars, eventsVars>>
  BY DEF SyncArrives
<1> HIDE DEF x
<1>5. LiveCalls' = {x}
  BY <1>1, <1>2, <1>3, <1>4 DEF LiveCalls, Live, SyncArrives
<1>6. TypeOK'
  BY <1>2, <1>3, <1>4 DEF TypeOK, viewVars, eventsVars
<1>7. AnswersAreWanted' /\ BusyIsPending'
  <2>1. x.query = Query(selected)' /\ x.page = page'
    BY <1>1, <1>2, <1>4 DEF Query
  <2>2. contentBusy' /\ eventsBusy'
    BY <1>1, <1>4 DEF viewVars, eventsVars
  <2>3. QED
    BY <1>2, <1>5, <2>1, <2>2, OneCallCounts
<1>8. QED
  BY <1>4, <1>6, <1>7 DEF ContentIsSelection, EventsBelongToContent, UrlIsSelection,
     PagerIsLocked, EventsAreShown, Query, viewVars, eventsVars

(* An answer that came too late changes nothing that is shown.             *)
LEMMA IgnoredKeepsPageInv ==
    ASSUME PageInv, NEW c \in calls, Ignored(c)
    PROVE  PageInv'
<1> USE DEF PageInv
<1>1. UNCHANGED <<selected, page, totalPages, url, refreshID, viewVars, eventsVars>>
  BY DEF Ignored
<1>2. /\ calls' \subseteq Calls
      /\ \A d \in calls' : d.id <= refreshID'
      /\ LiveCalls' = LiveCalls \ {c}
  BY CallEnds DEF Ignored
<1>3. LiveCalls' = LiveCalls
  BY <1>2 DEF Ignored, LiveCalls
<1>4. TypeOK'
  BY <1>1, <1>2 DEF TypeOK, viewVars, eventsVars
<1>5. AnswersAreWanted' /\ BusyIsPending'
  BY <1>1, <1>3 DEF AnswersAreWanted, BusyIsPending, LiveCalls, Query, viewVars, eventsVars
<1>6. QED
  BY <1>1, <1>4, <1>5 DEF ContentIsSelection, EventsBelongToContent, UrlIsSelection,
     PagerIsLocked, EventsAreShown, Query, viewVars, eventsVars

(* What refresh() does to the selection and the address: only spelling.    *)
LEMMA DashboardSelection ==
    ASSUME TypeOK, UrlIsSelection, NEW c \in calls, DashboardArrives(c)
    PROVE  /\ selected' \in Filters /\ url' \in Filters
           /\ Query(selected)' = Query(selected)
           /\ UrlIsSelection'
<1>1. selected' \in Filters /\ Query(selected)' = Query(selected)
      /\ selected'.exact \in BOOLEAN /\ (selected.login = All => selected'.exact)
  BY DEF DashboardArrives, TypeOK, Filters, Query
<1>2. url' \in Filters /\ Query(url)' = Query(url)
  <2>1. url \in Filters /\ url' = IF url.login = selected.login
                THEN [url EXCEPT !.exact = selected'.exact] ELSE url
    BY DEF DashboardArrives, TypeOK
  <2>2. QED
    BY <1>1, <2>1 DEF Filters, Query
<1>3. QED
  BY <1>1, <1>2 DEF UrlIsSelection, Query

(* The dashboard that arrives is the one for the selection; the events     *)
(* follow.                                                                 *)
LEMMA DashboardArrivesKeepsPageInv ==
    ASSUME PageInv, NEW c \in calls, DashboardArrives(c)
    PROVE  PageInv'
<1> USE DEF PageInv
<1>1. /\ LiveCalls = {c} /\ c.query = Query(selected) /\ c.page = page
      /\ c.query \in Queries
  BY TheLiveCall DEF DashboardArrives, TypeOK, Calls
<1>2. /\ selected' \in Filters /\ url' \in Filters
      /\ Query(selected)' = Query(selected)
      /\ UrlIsSelection'
  BY DashboardSelection
<1>3. /\ content' = [of |-> c.query, heading |-> Query(selected)]
      /\ ~contentBusy' /\ ~syncing' /\ contentBusy' \in BOOLEAN /\ syncing' \in BOOLEAN
      /\ eventErrors' = None
      /\ UNCHANGED <<page, totalPages, refreshID>>
  BY DEF DashboardArrives
<1>4. content' \in [of : Queries, heading : Queries] /\ content' # None
  <2>1. content' \in [of : Queries, heading : Queries]
    BY <1>1, <1>3
  <2>2. QED
    BY <2>1, NoneAssumption
<1>5. content'.of = c.query /\ content'.heading = c.query
  BY <1>1, <1>3
<1>6. ContentIsSelection' /\ PagerIsLocked'
  BY <1>1, <1>2, <1>3, <1>4, <1>5 DEF ContentIsSelection, PagerIsLocked
<1>7. CASE ResetEvents /\ calls' = calls \ {c}
  <2>1. /\ calls' \subseteq Calls
        /\ \A d \in calls' : d.id <= refreshID'
        /\ LiveCalls' = {}
    BY <1>1, <1>3, <1>7, CallEnds
  <2>2. /\ events' = None /\ shownEvents' = None /\ pager' = {}
        /\ ~eventsBusy' /\ eventsBusy' \in BOOLEAN
    BY <1>7 DEF ResetEvents
  <2>3. TypeOK'
    BY <1>2, <1>3, <1>4, <2>1, <2>2 DEF TypeOK
  <2>4. AnswersAreWanted' /\ BusyIsPending'
    BY <1>3, <2>1, <2>2, NoCallCounts
  <2>5. QED
    BY <1>2, <1>3, <1>6, <2>2, <2>3, <2>4 DEF EventsBelongToContent, EventsAreShown
<1>8. CASE /\ calls' = Requested(calls \ {c}, selected, page)
           /\ eventsBusy' = TRUE
           /\ \/ events' = None /\ shownEvents' = None /\ pager' = {}
              \/ ~Outdated(selected') /\ UNCHANGED <<events, shownEvents, pager>>
  <2> DEFINE x == Call("events", refreshID, selected, page)
  <2>1. \A d \in calls \ {c} : Live(d) => d.kind = "events"
    BY <1>1 DEF LiveCalls
  <2>2. /\ calls' \subseteq Calls
        /\ \A d \in calls' : d.id <= refreshID'
        /\ LiveCalls' = {x}
    <3>1. calls \ {c} \in SUBSET calls /\ selected \in Filters /\ page \in 1 .. MaxPage
      BY DEF TypeOK
    <3>2. QED
      BY <1>3, <1>8, <2>1, <3>1, RequestedCalls
  <2>3. TypeOK'
    <3>1. /\ events' = None \/ events' = events
          /\ shownEvents' = None \/ shownEvents' = shownEvents
          /\ pager' = {} \/ pager' = pager
          /\ eventsBusy' \in BOOLEAN
      BY <1>8
    <3>2. QED
      BY <1>2, <1>3, <1>4, <2>2, <3>1 DEF TypeOK
  <2>4. AnswersAreWanted' /\ BusyIsPending'
    <3>1. x.query = Query(selected)' /\ x.page = page' /\ x.kind = "events"
      BY <1>2, <1>3 DEF Call
    <3>2. eventsBusy'
      BY <1>8
    <3> HIDE DEF x
    <3>3. QED
      BY <1>3, <2>2, <3>1, <3>2, OneCallCounts
  <2>5. EventsAreShown' /\ EventsBelongToContent'
    <3>1. CASE events' = None
      BY <1>3, <3>1 DEF EventsAreShown, EventsBelongToContent
    <3>2. CASE ~Outdated(selected') /\ UNCHANGED <<events, shownEvents>>
      <4>1. shownEvents = selected'
        BY <3>2 DEF Outdated
      <4>2. Query(shownEvents) = Query(selected)
        BY <1>2, <4>1 DEF Query
      <4>3. events # None => events.of = c.query
        BY <1>1, <4>2 DEF EventsAreShown
      <4>4. EventsAreShown'
        BY <3>2 DEF EventsAreShown, Query
      <4>5. QED
        BY <1>3, <1>4, <1>5, <3>2, <4>3, <4>4 DEF EventsBelongToContent
    <3>3. QED
      BY <1>8, <3>1, <3>2
  <2>6. QED
    BY <1>2, <1>6, <2>3, <2>4, <2>5
<1>9. QED
  BY <1>7, <1>8 DEF DashboardArrives

(* The events that arrive are those of the page and the selection.         *)
LEMMA EventsArriveKeepsPageInv ==
    ASSUME PageInv, NEW c \in calls, EventsArrive(c)
    PROVE  PageInv'
<1> USE DEF PageInv
<1>1. /\ LiveCalls = {c} /\ c.query = Query(selected) /\ c.page = page
      /\ c.query \in Queries /\ c.page \in 1 .. MaxPage
      /\ ~contentBusy /\ ~syncing
  BY TheLiveCall DEF EventsArrive, TypeOK, Calls
<1>2. UNCHANGED <<selected, url, refreshID, viewVars>> /\ calls' = calls \ {c}
  BY DEF EventsArrive
<1>3. /\ calls' \subseteq Calls
      /\ \A d \in calls' : d.id <= refreshID'
      /\ LiveCalls' = {}
  BY <1>1, <1>2, CallEnds
<1>4. content # None /\ content.of = c.query
  BY <1>1 DEF ContentIsSelection
<1>5. /\ eventErrors' \in {None, c.query}
      /\ ~eventsBusy' /\ eventsBusy' \in BOOLEAN
      /\ pager' \subseteq {"previous", "next"}
  BY DEF EventsArrive, ResetEvents
<1>6. \/ events' = None /\ shownEvents' = None /\ UNCHANGED <<page, totalPages>>
      \/ /\ events' = [of |-> c.query, page |-> c.page]
         /\ shownEvents' = selected
         /\ page' = c.page
         /\ totalPages' \in 0 .. MaxPage
  BY DEF EventsArrive, ResetEvents
<1>7. events' = None \/ events'.of = c.query
  BY <1>6
<1>8. TypeOK'
  <2>1. events' = None \/ events' \in [of : Queries, page : 1 .. MaxPage]
    BY <1>1, <1>6
  <2>2. shownEvents' \in Filters \cup {None} /\ page' \in 1 .. MaxPage
        /\ totalPages' \in 0 .. MaxPage
    BY <1>1, <1>6 DEF TypeOK
  <2>3. QED
    BY <1>1, <1>2, <1>3, <1>5, <2>1, <2>2 DEF TypeOK, viewVars
<1>9. AnswersAreWanted' /\ BusyIsPending'
  BY <1>1, <1>2, <1>3, <1>5, NoCallCounts DEF viewVars
<1>10. EventsBelongToContent'
  BY <1>2, <1>4, <1>5, <1>7 DEF EventsBelongToContent, viewVars
<1>11. EventsAreShown'
  BY <1>1, <1>6, <1>7 DEF EventsAreShown, Query
<1>12. QED
  BY <1>1, <1>2, <1>8, <1>9, <1>10, <1>11 DEF ContentIsSelection, UrlIsSelection,
     PagerIsLocked, Query, viewVars

(* Every step keeps what the page shows in agreement.                      *)
LEMMA NextKeepsPageInv == ASSUME PageInv, [Next]_vars PROVE PageInv'
<1>1. CASE Next
  BY <1>1, SelectionsKeepPageInv, PagerKeepsPageInv, SyncArrivesKeepsPageInv,
     DashboardArrivesKeepsPageInv, EventsArriveKeepsPageInv, IgnoredKeepsPageInv
     DEF Next, Answer
<1>2. CASE UNCHANGED vars
  BY <1>2 DEF vars, viewVars, eventsVars, PageInv, TypeOK, ContentIsSelection,
     EventsBelongToContent, AnswersAreWanted, BusyIsPending, UrlIsSelection,
     PagerIsLocked, EventsAreShown, Live, Query
<1>3. QED
  BY <1>1, <1>2

(* Whatever the user does while requests are under way, and in whichever   *)
(* order answers and aborts arrive, the state of the page hangs together.  *)
THEOREM SpecPageInv == Spec => []PageInv
<1>1. Init => PageInv
  BY InitPageInv
<1>2. PageInv /\ [Next]_vars => PageInv'
  BY NextKeepsPageInv
<1>3. QED
  BY <1>1, <1>2, PTL DEF Spec

(* The page keeps to its pages: no click on the pager asks for one that    *)
(* does not exist.                                                         *)
THEOREM SpecTypeOK == Spec => []TypeOK
<1>1. PageInv => TypeOK
  BY DEF PageInv
<1>2. QED
  BY <1>1, SpecPageInv, PTL

(* Usage never stands under the headings of another account or period.     *)
THEOREM SpecContentIsSelection == Spec => []ContentIsSelection
<1>1. PageInv => ContentIsSelection
  BY DEF PageInv
<1>2. QED
  BY <1>1, SpecPageInv, PTL

(* Events and their errors never stand below the usage of another account  *)
(* or period, also when the spelling of a login is corrected meanwhile.    *)
THEOREM SpecEventsBelongToContent == Spec => []EventsBelongToContent
<1>1. PageInv => EventsBelongToContent
  BY DEF PageInv
<1>2. QED
  BY <1>1, SpecPageInv, PTL

(* refreshID and the AbortController leave one answer that can be applied, *)
(* and it is about what is selected.                                       *)
THEOREM SpecAnswersAreWanted == Spec => []AnswersAreWanted
<1>1. PageInv => AnswersAreWanted
  BY DEF PageInv
<1>2. QED
  BY <1>1, SpecPageInv, PTL

(* No indicator and no disabled button is left without a request that will *)
(* clear it.                                                               *)
THEOREM SpecBusyIsPending == Spec => []BusyIsPending
<1>1. PageInv => BusyIsPending
  BY DEF PageInv
<1>2. QED
  BY <1>1, SpecPageInv, PTL

(* A reload or a bookmark shows what is selected.                          *)
THEOREM SpecUrlIsSelection == Spec => []UrlIsSelection
<1>1. PageInv => UrlIsSelection
  BY DEF PageInv
<1>2. QED
  BY <1>1, SpecPageInv, PTL
=============================================================================
