----------------------------- MODULE PageContent -----------------------------
(***************************************************************************)
(* What the browser page draws of an answer, and what the user does to it: *)
(* the sortable tables of accounts, models and days, the names of the      *)
(* accounts, and the chart of the days with its tooltip. Requests and      *)
(* their order are DashboardPage's; here an answer arrives or it does not. *)
(***************************************************************************)
EXTENDS SortedTables

CONSTANTS
    Answer,       \* usage the dashboard may answer with
    Columns,      \* per table, the columns considered
    Quota,        \* quotas an account may have
    Left, Right   \* the chart's first and last day, in pixels

INSTANCE Quotas

Table == {"accounts", "models", "days"}

ASSUME ContentAssumption ==
    /\ Columns \in [Table -> SUBSET {"name", "used", "rate", "cost"}]
    /\ \A id \in Table : /\ "name" \in Columns[id]
                         /\ "used" \in Columns[id] <=> id = "accounts"
    /\ "rate" \in Columns["models"] /\ "rate" \notin Columns["accounts"]
    /\ {Left, Right} \subseteq Nat /\ Left < Right

IsQuota(q) ==
    {q.entitlement, q.remaining, q.percentRemaining, q.creditsUsed} \subseteq Int \cup {None}

(* An account, or what was used by a model or on a day.                    *)
IsItem(id, item) ==
    /\ \A c \in DOMAIN item.costs : item.costs[c] \in Int
    /\ IF id = "accounts"
         THEN item.login \in Int /\ item.alias \in Int \cup {None} /\ IsQuota(item.quota)
         ELSE item.name \in Int /\ {item.input, item.read} \subseteq Nat

(* Answers have lists, and the fields of a quota that are present numbers. *)
ASSUME AnswerAssumption ==
    /\ None \notin Answer
    /\ \A answer \in Answer : \A id \in Table :
           /\ answer[id] \in Seq(ToSet(answer[id]))
           /\ \A i \in DOMAIN answer[id] : IsItem(id, answer[id][i])

ASSUME QuotaAssumption ==
    /\ None \notin Int
    /\ \A q \in Quota : IsQuota(q)

VARIABLES
    filters,         \* whether one account, and whether today is selected
    busy,            \* an answer to the current selection is awaited
    data,            \* the answer drawn last
    accountsHidden,  \* the sections of accounts and of the trend
    trendHidden,
    showNames,       \* state.showAccountNames
    sorts,
    tableViews,      \* what redrawTable draws: the closures of sortableTable
    drawn,           \* the tables in the document
    chart            \* the chart in the document and the state of its handlers

tableVars == <<sorts, tableViews, drawn>>
vars == <<filters, busy, data, accountsHidden, trendHidden, showNames, tableVars, chart>>

-----------------------------------------------------------------------------
(***************************************************************************)
(* Tables.                                                                 *)
(***************************************************************************)
(* An account is listed under its login or, if names are shown, under its  *)
(* display name, to which its login is added when it is not the only one.  *)
Name(accounts, i) ==
    IF accounts[i].alias = None THEN accounts[i].login ELSE accounts[i].alias

Label(accounts, i) ==
    LET same == {j \in DOMAIN accounts : Name(accounts, j) = Name(accounts, i)}
        span == 1 + Max({accounts[j].login : j \in DOMAIN accounts})
    IN  span * Name(accounts, i) +
            IF accounts[i].alias # None /\ Cardinality(same) > 1
              THEN accounts[i].login ELSE 0

(* The least number of parts of which every total is a multiple.           *)
Parts == 60

CacheHitRate(usage) ==
    LET total == usage.input + usage.read IN
    IF total > 0 THEN usage.read * (Parts \div total) ELSE None

(* The getters of the columns.                                             *)
Row(id, items, names, i) ==
    [column \in Columns[id] |->
        CASE column = "name" /\ id = "accounts" ->
                IF names THEN Label(items, i) ELSE items[i].login
          [] column = "name" /\ id # "accounts" -> items[i].name
          [] column = "used" -> UsedValue(items[i].quota)
          [] column = "rate" -> CacheHitRate(items[i])
          [] column = "cost" -> CostValue(items[i].costs)]

TableRows(id, items, names) == [i \in DOMAIN items |-> Row(id, items, names, i)]

View(items) == [items |-> items, disabledCost |-> DisabledCost(items)]

Draw(id, view, sort, names) ==
    [rows |-> Sorted(TableRows(id, view.items, names), sort),
     sort |-> sort, disabledCost |-> view.disabledCost]

(* The sort of a table that is drawn anew.                                 *)
SortFor(id, items) ==
    IF DisabledCost(items) /\ sorts[id].column = "cost"
      THEN [column |-> "name", direction |-> 1] ELSE sorts[id]

Items(answer, id) == answer[id]

(* Mutant: with today selected the trend is hidden, but left as it is.     *)
MutTabulated(answer) ==
    {id \in Table : Items(answer, id) # <<>>}

(* The tables of an answer: none for a list that is missing or empty.      *)
Tabulated(answer) ==
    {id \in Table : Items(answer, id) # <<>> /\ (id = "days" => ~filters.today)}

(* A chart of n days as it is when it is drawn.                            *)
NewChart(n) ==
    [days |-> n, selected |-> -1, tooltip |-> FALSE, focused |-> FALSE,
     hovered |-> FALSE]

Init ==
    /\ filters \in [single : BOOLEAN, today : BOOLEAN]
    /\ busy = TRUE
    /\ data = None
    /\ accountsHidden = FALSE /\ trendHidden = FALSE
    /\ showNames = FALSE
    /\ sorts = [id \in Table |->
           CASE id = "accounts" -> [column |-> "used", direction |-> -1]
             [] id = "models" -> [column |-> "rate", direction |-> -1]
             [] id = "days" -> [column |-> "name", direction |-> 1]]
    /\ tableViews = <<>> /\ drawn = <<>>
    /\ chart = NewChart(0)

(* A filter changes, or a refresh begins: the current view is kept.        *)
Select(f) ==
    /\ filters' = f
    /\ busy' = TRUE
    /\ UNCHANGED <<data, accountsHidden, trendHidden, showNames, tableVars, chart>>

(* renderDashboard. All views are dropped before the tables are drawn.     *)
Arrive(answer) ==
    LET tables == Tabulated(answer)
        View_(id) == View(Items(answer, id))
    IN
    /\ busy
    /\ busy' = FALSE
    /\ data' = answer
    /\ accountsHidden' = filters.single
    /\ trendHidden' = filters.today
    /\ sorts' = [id \in Table |->
           IF id \in tables THEN SortFor(id, Items(answer, id)) ELSE sorts[id]]
    /\ tableViews' = [id \in tables |-> View_(id)]
    /\ drawn' = [id \in tables |-> Draw(id, View_(id), sorts'[id], showNames)]
    /\ chart' = NewChart(IF "days" \in tables THEN Len(Items(answer, "days")) ELSE 0)
    /\ UNCHANGED <<filters, showNames>>

(* The views or the tables of the document, the one of the days replaced.  *)
WithDays(tables, new) ==
    [id \in {"days"} \cup DOMAIN tables |-> IF id = "days" THEN new ELSE tables[id]]

(* renderTrend(chartDays), with the period that is selected now.           *)
RenderTrend ==
    /\ trendHidden' = filters.today
    /\ \/ /\ "days" \in Tabulated(data)
          /\ LET view == View(Items(data, "days")) IN
             /\ sorts' = [sorts EXCEPT !["days"] = SortFor("days", view.items)]
             /\ tableViews' = WithDays(tableViews, view)
             /\ drawn' = WithDays(drawn, Draw("days", view, sorts'["days"], showNames))
          /\ chart' = NewChart(Len(Items(data, "days")))
       \/ /\ "days" \notin Tabulated(data)
          /\ drawn' = [id \in DOMAIN drawn \ {"days"} |-> drawn[id]]
          /\ chart' = NewChart(0)
          /\ UNCHANGED <<sorts, tableViews>>

(* The width of the chart changes.                                         *)
Resize ==
    /\ data # None
    /\ RenderTrend
    /\ UNCHANGED <<filters, busy, data, accountsHidden, showNames>>

(* Whether the user sees a table.                                          *)
Visible(id) ==
    /\ id \in DOMAIN drawn
    /\ id = "accounts" => ~accountsHidden
    /\ id = "days" => ~trendHidden

RedrawTable(id, sort, names) ==
    drawn' = [drawn EXCEPT ![id] = Draw(id, tableViews[id], sort, names)]

(* A click on the button in the header of a column.                        *)
ClickHeader(id, column) ==
    /\ Visible(id)
    /\ column \in Columns[id]
    /\ column = "cost" => ~drawn[id].disabledCost
    /\ sorts' = [sorts EXCEPT ![id] =
           [column    |-> column,
            direction |-> IF @.column = column THEN -@.direction ELSE 1]]
    /\ RedrawTable(id, sorts'[id], showNames)
    /\ UNCHANGED <<filters, busy, data, accountsHidden, trendHidden, showNames>>
    /\ UNCHANGED <<tableViews, chart>>

HasAliases == \E i \in DOMAIN data.accounts : data.accounts[i].alias # None

(* Mutant: the table is left as it is.                                     *)
MutToggleNames ==
    /\ ~accountsHidden
    /\ "accounts" \in DOMAIN tableViews /\ HasAliases
    /\ showNames' = ~showNames
    /\ UNCHANGED <<filters, busy, data, accountsHidden, trendHidden, tableVars, chart>>

(* The key d.                                                              *)
ToggleNames ==
    /\ ~accountsHidden
    /\ "accounts" \in DOMAIN tableViews /\ HasAliases
    /\ showNames' = ~showNames
    /\ RedrawTable("accounts", sorts["accounts"], ~showNames)
    /\ UNCHANGED <<filters, busy, data, accountsHidden, trendHidden>>
    /\ UNCHANGED <<sorts, tableViews, chart>>

-----------------------------------------------------------------------------
(***************************************************************************)
(* The chart.                                                              *)
(***************************************************************************)
(* Mutant: a position beside the plot is taken as it is.                   *)
MutClamp(p) == p

Clamp(p) == MinOf(Right, MaxOf(Left, p))

(* The day at a position, halves upwards.                                  *)
TrendIndexAt(p, n) ==
    IF n <= 1 THEN 0
    ELSE (2 * (Clamp(p) - Left) * (n - 1) + Right - Left) \div (2 * (Right - Left))

Show(c, i) ==
    IF i \in 0 .. c.days - 1 THEN [c EXCEPT !.selected = i, !.tooltip = TRUE] ELSE c

Hide(c) == [c EXCEPT !.tooltip = FALSE]

Interact(c) ==
    /\ chart.days > 0 /\ ~trendHidden
    /\ chart' = c
    /\ UNCHANGED <<filters, busy, data, accountsHidden, trendHidden, showNames>>
    /\ UNCHANGED tableVars

(* The handlers tell a mouse from other pointers: pens, and fingers.       *)
Pointers == {"mouse", "other"}

Under(pointer) == [chart EXCEPT !.hovered = @ \/ pointer = "mouse"]

(* Any pointer, the chart need not have seen it before: a pen hovers, and  *)
(* a finger may have been put down on what was here before this chart.     *)
PointerMove(pointer, p) ==
    Interact(Show(Under(pointer), TrendIndexAt(p, chart.days)))

(* The handler moves the focus here, and so does the browser for a mouse.  *)
PointerDown(pointer, p) ==
    Interact(Show([Under(pointer) EXCEPT !.focused = TRUE], TrendIndexAt(p, chart.days)))

(* The mouse leaves. It need not have moved since the chart was drawn; the *)
(* listener does nothing when other pointers leave.                        *)
PointerLeave == Interact([Hide(chart) EXCEPT !.hovered = FALSE])

(* The day the keyboard starts from.                                       *)
Current == IF chart.selected >= 0 THEN chart.selected ELSE chart.days - 1

Focus ==
    /\ ~chart.focused
    /\ Interact(Show([chart EXCEPT !.focused = TRUE], Current))

(* Mutant: the selected day is kept, and the tooltip with it.              *)
MutBlur ==
    /\ chart.focused
    /\ Interact([chart EXCEPT !.focused = FALSE])

Blur ==
    /\ chart.focused
    /\ Interact([Hide(chart) EXCEPT !.focused = FALSE, !.selected = -1])

Key(key) ==
    /\ chart.focused
    /\ Interact(CASE key = "ArrowLeft"  -> Show(chart, MaxOf(0, Current - 1))
                  [] key = "ArrowRight" -> Show(chart, MinOf(chart.days - 1, Current + 1))
                  [] key = "Home"       -> Show(chart, 0)
                  [] key = "End"        -> Show(chart, chart.days - 1)
                  [] key = "Escape"     -> Hide(chart))

Keys      == {"ArrowLeft", "ArrowRight", "Home", "End", "Escape"}

(* A finger that went down on the plot is followed outside of it: here by  *)
(* the width of the plot.                                                  *)
Positions == 2 * Left - Right .. 2 * Right - Left

Next ==
    \/ \E f \in [single : BOOLEAN, today : BOOLEAN] : Select(f)
    \/ \E answer \in Answer : Arrive(answer)
    \/ Resize
    \/ \E id \in Table, column \in UNION {Columns[t] : t \in Table} :
           ClickHeader(id, column)
    \/ ToggleNames
    \/ \E pointer \in Pointers, p \in Positions :
           PointerMove(pointer, p) \/ PointerDown(pointer, p)
    \/ PointerLeave \/ Focus \/ Blur
    \/ \E key \in Keys : Key(key)

Spec == Init /\ [][Next]_vars

-----------------------------------------------------------------------------
(***************************************************************************)
(* Properties.                                                             *)
(***************************************************************************)
(* Whatever was clicked, toggled, resized or loaded since, a table lists   *)
(* the items of the last answer under the names that are shown now, in the *)
(* order its arrow says, and never by costs of more than one currency.     *)
TablesAreSorted ==
    \A id \in DOMAIN drawn :
        LET rows == TableRows(id, Items(data, id), showNames) IN
        /\ drawn[id].sort = sorts[id]
        /\ InOrder(drawn[id].rows, sorts[id])
        /\ ToBag(drawn[id].rows) = ToBag(rows)
        /\ sorts[id].column = "cost" => ~DisabledCost(Items(data, id))

(* A table in the document can be redrawn, so no click fails, and once the *)
(* page is not busy it shows the tables of the answer and of the period: a *)
(* change of width while loading leaves nothing of the last one behind.    *)
TablesAreContent ==
    /\ DOMAIN drawn \subseteq DOMAIN tableViews
    /\ "days" \in DOMAIN drawn <=> chart.days > 0
    /\ ~busy => /\ trendHidden = filters.today
                /\ accountsHidden = filters.single
                /\ \A id \in Table : id \in DOMAIN drawn <=>
                       Items(data, id) # <<>> /\ (id = "days" => ~trendHidden)

(* A position selects a day, and no other one is closer to it.             *)
Nearest(p, n) ==
    LET distance(i) == LET d == (Right - Left) * i - (p - Left) * (n - 1)
                       IN  MaxOf(d, -d)
        index == TrendIndexAt(p, n)
    IN  /\ index \in 0 .. n - 1
        /\ \A i \in 0 .. n - 1 : distance(index) <= distance(i)

(* The tooltip is about a day of the chart in the document, and a pointer  *)
(* finds the nearest one, in the plot or beside it.                        *)
TooltipIsDay ==
    /\ chart.selected \in -1 .. chart.days - 1
    /\ chart.tooltip => chart.selected >= 0
    /\ chart.days > 0 => \A p \in Positions : Nearest(p, chart.days)

(* A tooltip that is shown though the chart has neither focus nor mouse:   *)
(* it stays after whoever asked for it is gone.                            *)
LeftBehind == chart.tooltip /\ ~chart.focused /\ ~chart.hovered

(* No blur, no key, no mouse and no redrawing, in any order, leaves a      *)
(* tooltip behind. A pen or a finger does, by a move over a chart that has *)
(* not got the focus: it has hovered only, was put down before the chart   *)
(* was drawn anew under it, or has lost the focus since.                   *)
TooltipIsHeld ==
    [][LeftBehind' => \/ LeftBehind
                      \/ \E p \in Positions : ~chart.focused /\ PointerMove("other", p)]_vars

(* Whatever quota the first answer may bring, its row and its card agree,  *)
(* see Consistent.                                                         *)
QuotasAgree == data = None => \A q \in Quota : Consistent(q)
=============================================================================
