-------------------------- MODULE PageContentProofs --------------------------
(***************************************************************************)
(* Proofs about PageContent, for any answers, columns and quotas, and a    *)
(* chart of any width.                                                     *)
(***************************************************************************)
EXTENDS PageContent, DailySegmentsProofs

Charts ==
    [days : Nat, selected : Int, tooltip : BOOLEAN, focused : BOOLEAN,
     hovered : BOOLEAN]

(* A chart, and the day that is selected in it.                            *)
ChartOk(c) ==
    /\ c \in Charts
    /\ c.selected \in -1 .. c.days - 1
    /\ c.tooltip => c.selected >= 0

ContentInv ==
    /\ data \in Answer \cup {None}
    /\ drawn = [id \in DOMAIN drawn |-> drawn[id]]
    /\ TablesAreContent

PageIInv == ContentInv /\ ChartOk(chart)

-----------------------------------------------------------------------------
(***************************************************************************)
(* Quotas.                                                                 *)
(***************************************************************************)
(* What is rounded to one decimal stays, and so do the ends of the scale.  *)
LEMMA RoundedAgain ==
    ASSUME NEW p \in 0 .. Full
    PROVE  /\ Rounded(p) \in 0 .. Full
           /\ Rounded(Rounded(p)) = Rounded(p)
<1>1. Percent = 100 /\ Full = 10000 /\ Decimal = 10
  BY DEF Percent, Full, Decimal
<1>2. PICK k \in Int : k = (p + 5) \div 10
  BY <1>1
<1>3. Rounded(p) = 10 * k /\ 10 * k <= p + 5 /\ p + 5 < 10 * k + 10
  BY <1>1, <1>2 DEF Rounded
<1>4. (10 * k + 5) \div 10 = k
  BY <1>2
<1>5. Rounded(10 * k) = 10 * k
  BY <1>1, <1>4 DEF Rounded
<1> QED BY <1>1, <1>2, <1>3, <1>5

(* The whole of a quota, in hundredths of a percent.                       *)
LEMMA FullIs == Full = 10000 /\ Full \in Nat
BY DEF Full, Percent

(* The share of a quota that is used, if there is one.                     *)
LEMMA Share ==
    ASSUME NEW x \in Int
    PROVE  Full - MinOf(Full, MaxOf(0, x)) \in 0 .. Full
<1> DEFINE m == MaxOf(0, x)
           k == MinOf(Full, m)
<1>1. m \in Nat
  BY DEF MaxOf
<1> HIDE DEF m
<1>2. k \in 0 .. Full
  BY <1>1, FullIs DEF MinOf
<1> HIDE DEF k
<1>3. Full - k \in 0 .. Full
  BY <1>2, FullIs
<1> QED BY <1>3 DEF k, m

(* A used share lies between nothing and all.                              *)
LEMMA UsedPercentType ==
    ASSUME NEW q, q.percentRemaining \in Int \cup {None}
    PROVE  UsedPercentValue(q) \in 0 .. Full \cup {None}
<1>1. CASE Metered(q) /\ q.percentRemaining # None
  BY <1>1, Share DEF UsedPercentValue
<1>2. CASE ~(Metered(q) /\ q.percentRemaining # None)
  BY <1>2 DEF UsedPercentValue
<1> QED BY <1>1, <1>2

(* Row and card of an account agree whatever its quota is: they round in   *)
(* different places, to the same number and the same level, only what      *)
(* reads 100% is marked as exhausted, and the parts make up the total.     *)
THEOREM QuotasAreConsistent == \A q \in Quota : Consistent(q)
<1> SUFFICES ASSUME NEW q \in Quota PROVE Consistent(q)
  OBVIOUS
<1> DEFINE used == UsedPercentValue(q)
<1>1. /\ None \notin Int
      /\ q.entitlement \in Int \cup {None} /\ q.remaining \in Int \cup {None}
      /\ q.percentRemaining \in Int \cup {None}
  BY QuotaAssumption DEF IsQuota
<1>2. used \in 0 .. Full \cup {None}
  BY <1>1, UsedPercentType
<1>3. QuotaUsage(q) = QuotaCard(q)
  <2>1. CASE Unlimited(q) \/ used = None
    BY <2>1 DEF QuotaUsage, QuotaCard
  <2>2. CASE ~Unlimited(q) /\ used # None
    <3>1. Rounded(Rounded(used)) = Rounded(used)
      BY <1>2, <2>2, RoundedAgain
    <3> QED BY <2>2, <3>1 DEF QuotaUsage, QuotaCard, UsageLevel
  <2> QED BY <2>1, <2>2
<1>4. QuotaCard(q).number = Full <=> QuotaCard(q).level = "exhausted"
  <2>1. CASE Unlimited(q) \/ used = None
    <3>1. Full # None
      BY <1>1 DEF Full, Percent
    <3> QED BY <2>1, <3>1 DEF QuotaCard, Shown
  <2>2. CASE ~Unlimited(q) /\ used # None
    <3>1. Rounded(used) \in 0 .. Full
      BY <1>2, <2>2, RoundedAgain
    <3>2. QuotaCard(q).number = Rounded(used) /\ QuotaCard(q).level = Level(Rounded(used))
      BY <2>2 DEF QuotaCard, Shown, UsageLevel
    <3>3. Level(Rounded(used)) = "exhausted" <=> Rounded(used) >= Full
      BY DEF Level
    <3>4. Rounded(used) >= Full <=> Rounded(used) = Full
      <4>1. \A r \in 0 .. Full : r >= Full <=> r = Full
        BY FullIs
      <4> QED BY <3>1, <4>1
    <3> QED BY <3>2, <3>3, <3>4
  <2> QED BY <2>1, <2>2
<1>5. ASSUME TotalValue(q) # None, RemainingValue(q) # None
      PROVE  UsedValue(q) = IF RemainingValue(q) <= TotalValue(q)
                              THEN Full * (TotalValue(q) - RemainingValue(q)) ELSE 0
  <2>1. ValidMeteredQuota(q) /\ TotalValue(q) = q.entitlement /\ q.entitlement \in Int
    BY <1>1, <1>5 DEF TotalValue, ValidMeteredQuota
  <2>2. RemainingValue(q) = q.remaining /\ q.remaining \in Int
    BY <1>1, <1>5 DEF RemainingValue
  <2>3. ~Unlimited(q)
    BY <2>1 DEF Unlimited, ValidMeteredQuota, Metered
  <2>4. UsedValue(q) = Full * MaxOf(0, q.entitlement - q.remaining)
    BY <1>5, <2>1, <2>2, <2>3 DEF UsedValue
  <2> QED BY <2>1, <2>2, <2>4 DEF MaxOf, Full, Percent
<1> QED BY <1>3, <1>4, <1>5 DEF Consistent

(* So do the row and the card of an account in the first answer.           *)
THEOREM SpecQuotasAgree == Spec => []QuotasAgree
<1>1. QuotasAgree
  BY QuotasAreConsistent DEF QuotasAgree
<1> QED BY <1>1, PTL

-----------------------------------------------------------------------------
(***************************************************************************)
(* The position of a day in the chart.                                     *)
(***************************************************************************)
LEMMA Quotient ==
    ASSUME NEW a \in Int, NEW b \in Nat \ {0}
    PROVE  /\ a \div b \in Int
           /\ b * (a \div b) <= a /\ a < b * (a \div b) + b
OBVIOUS

(* Multiples of w other than the one closest to x are no closer to it.     *)
LEMMA Closest ==
    ASSUME NEW w \in Nat \ {0}, NEW x \in Int, NEW k \in Int, NEW i \in Int,
           2 * (w * k) <= 2 * x + w, 2 * x + w < 2 * (w * k) + 2 * w
    PROVE  MaxOf(w * k - x, -(w * k - x)) <= MaxOf(w * i - x, -(w * i - x))
<1>1. w * k \in Int /\ w * i \in Int
  OBVIOUS
<1>2. CASE i = k
  BY <1>1, <1>2 DEF MaxOf
<1>3. CASE i > k
  <2>1. w * (k + 1) <= w * i
    BY <1>3
  <2>2. w * (k + 1) = w * k + w
    OBVIOUS
  <2> QED BY <1>1, <2>1, <2>2 DEF MaxOf
<1>4. CASE i < k
  <2>1. w * i <= w * (k - 1)
    BY <1>4
  <2>2. w * (k - 1) = w * k - w
    OBVIOUS
  <2> QED BY <1>1, <2>1, <2>2 DEF MaxOf
<1> QED BY <1>2, <1>3, <1>4

(* The position that counts is the one clamped to the plot.                *)
LEMMA ClampedPosition ==
    ASSUME NEW p \in Int
    PROVE  /\ Left \in Int /\ Right \in Int /\ Right - Left \in Nat \ {0}
           /\ Clamp(p) \in Left .. Right
           /\ Clamp(p) = p \/ (p < Left /\ Clamp(p) = Left) \/ (p > Right /\ Clamp(p) = Right)
BY ContentAssumption DEF Clamp, MinOf, MaxOf

(* A day closest to the clamped position is closest to the position.       *)
LEMMA ClosestUnclamped ==
    ASSUME NEW a \in Int, NEW b \in Int, NEW x \in Int, NEW y \in Int, NEW w \in Int,
           0 <= a, a <= w, 0 <= b, b <= w,
           MaxOf(a - x, -(a - x)) <= MaxOf(b - x, -(b - x)),
           x = y \/ (y <= 0 /\ x = 0) \/ (y >= w /\ x = w)
    PROVE  MaxOf(a - y, -(a - y)) <= MaxOf(b - y, -(b - y))
BY DEF MaxOf

(* Whatever the width of the chart and the number of its days: a position, *)
(* in the plot or beside it, selects a day, and none is closer to it.      *)
LEMMA NearestIsNearest ==
    ASSUME NEW p \in Int, NEW n \in Nat, n > 1
    PROVE  Nearest(p, n)
<1> DEFINE w == Right - Left
           m == n - 1
           x == (Clamp(p) - Left) * m
           y == (p - Left) * m
           k == TrendIndexAt(p, n)
<1>1. w \in Nat \ {0} /\ Left \in Int /\ Right \in Int /\ m \in Nat \ {0}
  BY ClampedPosition
<1>2. Clamp(p) \in Int /\ Clamp(p) - Left \in 0 .. w
  BY <1>1, ClampedPosition
<1>3. x \in Int /\ y \in Int
  BY <1>1, <1>2
<1>4. 2 * (Clamp(p) - Left) * (n - 1) + Right - Left = 2 * x + w
  BY <1>1, <1>2
<1>5. k = (2 * x + w) \div (2 * w)
  BY <1>4 DEF TrendIndexAt
<1>p. /\ 0 <= x /\ x <= w * m
      /\ x = y \/ (y <= 0 /\ x = 0) \/ (y >= w * m /\ x = w * m)
  <2> DEFINE c == Clamp(p) - Left
             d == p - Left
  <2>1. c \in 0 .. w /\ d \in Int
    BY <1>1, <1>2
  <2>2. c = d \/ (d < 0 /\ c = 0) \/ (d > w /\ c = w)
    BY <1>1, ClampedPosition
  <2>3. x = c * m /\ y = d * m
    OBVIOUS
  <2> HIDE DEF c, d, x, y, w, m
  <2>4. 0 <= c * m /\ c * m <= w * m
    BY <1>1, <2>1
  <2>5. d < 0 => d * m <= 0
    BY <1>1, <2>1
  <2>6. d > w => d * m >= w * m
    BY <1>1, <2>1
  <2>7. c = 0 => c * m = 0
    BY <1>1
  <2> QED BY <2>1, <2>2, <2>3, <2>4, <2>5, <2>6, <2>7
<1>n. m = n - 1
  OBVIOUS
<1> HIDE DEF x, y, k, w, m
<1>6. /\ k \in Int
      /\ (2 * w) * k <= 2 * x + w /\ 2 * x + w < (2 * w) * k + 2 * w
  <2>1. 2 * x + w \in Int /\ 2 * w \in Nat \ {0}
    BY <1>1, <1>3
  <2> QED BY <1>5, <2>1, Quotient
<1>7. (2 * w) * k = 2 * (w * k) /\ w * k \in Int /\ w * m \in Int
  BY <1>1, <1>6
<1>8. \A i \in Int : MaxOf(w * k - x, -(w * k - x)) <= MaxOf(w * i - x, -(w * i - x))
  BY <1>1, <1>3, <1>6, <1>7, Closest
<1>9. 0 <= k /\ k <= m
  <2>1. CASE k < 0
    <3>1. w * k <= w * (-1)
      BY <1>1, <1>6, <2>1
    <3>2. w * (-1) = -w
      BY <1>1
    <3> QED BY <1>1, <1>3, <1>p, <1>6, <1>7, <3>1, <3>2
  <2>2. CASE k > m
    <3>1. w * k >= w * (m + 1)
      BY <1>1, <1>6, <2>2
    <3>2. w * (m + 1) = w * m + w
      BY <1>1
    <3> QED BY <1>1, <1>3, <1>p, <1>6, <1>7, <3>1, <3>2
  <2> QED BY <1>1, <1>6, <2>1, <2>2
<1>10. ASSUME NEW i \in 0 .. m
       PROVE  MaxOf(w * k - y, -(w * k - y)) <= MaxOf(w * i - y, -(w * i - y))
  <2>1. i \in Int /\ 0 <= i /\ i <= m
    BY <1>1
  <2>2. w * i \in Int /\ 0 <= w * i /\ w * i <= w * m
    BY <1>1, <2>1
  <2>3. 0 <= w * k /\ w * k <= w * m
    BY <1>1, <1>6, <1>9
  <2>4. MaxOf(w * k - x, -(w * k - x)) <= MaxOf(w * i - x, -(w * i - x))
    BY <1>8, <2>1
  <2> QED BY <1>3, <1>7, <1>p, <2>2, <2>3, <2>4, ClosestUnclamped
<1>11. k \in 0 .. n - 1
  BY <1>1, <1>6, <1>9, <1>n
<1> QED BY <1>10, <1>11 DEF Nearest, w, y, k, m

(* A single day is selected from everywhere.                               *)
LEMMA OnlyDayIsNearest ==
    ASSUME NEW p \in Int PROVE Nearest(p, 1)
<1>1. TrendIndexAt(p, 1) = 0
  BY DEF TrendIndexAt
<1>2. /\ 0 .. 1 - 1 = {0} /\ Left \in Int /\ Right \in Int
      /\ (p - Left) * (1 - 1) = 0
  BY ClampedPosition
<1> QED BY <1>1, <1>2 DEF Nearest, MaxOf

-----------------------------------------------------------------------------
(***************************************************************************)
(* What the user does to the chart.                                        *)
(***************************************************************************)
LEMMA NewChartOk ==
    ASSUME NEW n \in Nat PROVE ChartOk(NewChart(n)) /\ NewChart(n).days = n
BY DEF ChartOk, Charts, NewChart

(* A day that is shown is one of the chart.                                *)
LEMMA ShowOk ==
    ASSUME NEW c, ChartOk(c), NEW i
    PROVE  /\ ChartOk(Show(c, i)) /\ Show(c, i).days = c.days
           /\ Show(c, i).focused = c.focused /\ Show(c, i).hovered = c.hovered
<1>1. CASE i \in 0 .. c.days - 1
  <2> DEFINE n == [c EXCEPT !.selected = i, !.tooltip = TRUE]
  <2>1. i \in Int /\ c.days \in Nat
    BY <1>1 DEF ChartOk, Charts
  <2>2. c \in Charts
    BY DEF ChartOk, Charts
  <2>3. /\ n \in Charts /\ n.days = c.days /\ n.selected = i
        /\ n.focused = c.focused /\ n.hovered = c.hovered
    BY <2>1, <2>2 DEF Charts
  <2>4. Show(c, i) = n
    BY <1>1 DEF Show
  <2> HIDE DEF n
  <2>5. (n.tooltip => n.selected >= 0) /\ n.selected \in -1 .. n.days - 1
    BY <1>1, <2>1, <2>3
  <2> QED BY <2>3, <2>4, <2>5 DEF ChartOk
<1>2. CASE i \notin 0 .. c.days - 1
  BY <1>2 DEF Show
<1> QED BY <1>1, <1>2

(* Hiding the tooltip changes nothing else.                                *)
LEMMA HideOk ==
    ASSUME NEW c, ChartOk(c)
    PROVE  /\ ChartOk(Hide(c)) /\ Hide(c).days = c.days
           /\ Hide(c).tooltip = FALSE /\ Hide(c).hovered = c.hovered
           /\ Hide(c).focused = c.focused
BY DEF ChartOk, Charts, Hide

(* What the listeners note before a day is shown or hidden.                *)
LEMMA NoticedOk ==
    ASSUME NEW c, ChartOk(c), NEW f \in BOOLEAN, NEW h \in BOOLEAN
    PROVE  /\ ChartOk([c EXCEPT !.focused = f])
           /\ [c EXCEPT !.focused = f].days = c.days
           /\ [c EXCEPT !.focused = f].focused = f
           /\ [c EXCEPT !.focused = f].hovered = c.hovered
           /\ ChartOk([c EXCEPT !.hovered = h])
           /\ [c EXCEPT !.hovered = h].days = c.days
           /\ [c EXCEPT !.hovered = h].tooltip = c.tooltip
           /\ [c EXCEPT !.hovered = h].focused = c.focused
           /\ [c EXCEPT !.hovered = h].hovered = h
BY DEF ChartOk, Charts

(* Under a mouse the chart is hovered, other pointers leave that as it is. *)
LEMMA UnderOk ==
    ASSUME ChartOk(chart), NEW pointer
    PROVE  /\ ChartOk(Under(pointer)) /\ Under(pointer).days = chart.days
           /\ Under(pointer).focused = chart.focused
           /\ pointer = "mouse" => Under(pointer).hovered
           /\ pointer # "mouse" => Under(pointer).hovered = chart.hovered
<1> DEFINE h == chart.hovered \/ pointer = "mouse"
<1>1. Under(pointer) = [chart EXCEPT !.hovered = h]
  BY DEF Under, ChartOk, Charts
<1>2. h \in BOOLEAN /\ (pointer = "mouse" => h) /\ (pointer # "mouse" => h = chart.hovered)
  BY DEF ChartOk, Charts
<1> HIDE DEF h
<1> QED BY <1>1, <1>2, NoticedOk DEF ChartOk, Charts

(* A blur hides the tooltip and forgets the day.                           *)
LEMMA BlurredOk ==
    ASSUME ChartOk(chart)
    PROVE  LET c == [Hide(chart) EXCEPT !.focused = FALSE, !.selected = -1] IN
           ChartOk(c) /\ c.days = chart.days /\ c.tooltip = FALSE
<1> DEFINE h == Hide(chart)
           g == [h EXCEPT !.focused = FALSE]
<1>1. ChartOk(h) /\ h.days = chart.days /\ h.tooltip = FALSE
  BY HideOk
<1> HIDE DEF h
<1>2. ChartOk(g) /\ g.days = h.days /\ g.tooltip = FALSE
  BY <1>1, NoticedOk DEF ChartOk, Charts
<1>3. [h EXCEPT !.focused = FALSE, !.selected = -1] = [g EXCEPT !.selected = -1]
  OBVIOUS
<1> HIDE DEF g
<1>4. /\ ChartOk([g EXCEPT !.selected = -1]) /\ [g EXCEPT !.selected = -1].days = g.days
      /\ [g EXCEPT !.selected = -1].tooltip = FALSE
  BY <1>2 DEF ChartOk, Charts
<1> QED BY <1>1, <1>2, <1>3, <1>4 DEF h

(* Only the chart changes, and not its days.                               *)
LEMMA InteractKeepsPageIInv ==
    ASSUME PageIInv, NEW c, Interact(c), ChartOk(c), c.days = chart.days
    PROVE  PageIInv'
BY DEF PageIInv, ContentInv, TablesAreContent, Interact, tableVars, Items

(* The pointer selects a day that exists.                                  *)
LEMMA PointerMoveKeepsPageIInv ==
    ASSUME PageIInv, NEW pointer \in Pointers, NEW p \in Positions, PointerMove(pointer, p)
    PROVE  PageIInv'
<1>1. ChartOk(Under(pointer)) /\ Under(pointer).days = chart.days
  BY UnderOk DEF PageIInv
<1> QED BY <1>1, ShowOk, InteractKeepsPageIInv DEF PointerMove

(* So does a click or a touch.                                             *)
LEMMA PointerDownKeepsPageIInv ==
    ASSUME PageIInv, NEW pointer \in Pointers, NEW p \in Positions, PointerDown(pointer, p)
    PROVE  PageIInv'
<1> DEFINE u == Under(pointer)
           c == [u EXCEPT !.focused = TRUE]
<1>1. ChartOk(c) /\ c.days = chart.days
  <2>1. ChartOk(u) /\ u.days = chart.days
    BY UnderOk DEF PageIInv
  <2> HIDE DEF u
  <2> QED BY <2>1, NoticedOk
<1>2. Interact(Show(c, TrendIndexAt(p, chart.days)))
  BY DEF PointerDown
<1> HIDE DEF c
<1> QED BY <1>1, <1>2, ShowOk, InteractKeepsPageIInv

(* A mouse that leaves takes the tooltip with it.                          *)
LEMMA PointerLeaveKeepsPageIInv ==
    ASSUME PageIInv, PointerLeave PROVE PageIInv'
<1> DEFINE c == [Hide(chart) EXCEPT !.hovered = FALSE]
<1>1. ChartOk(c) /\ c.days = chart.days
  BY HideOk, NoticedOk DEF PageIInv
<1>2. Interact(c)
  BY DEF PointerLeave
<1> HIDE DEF c
<1> QED BY <1>1, <1>2, InteractKeepsPageIInv

(* The keyboard focus shows a day that exists.                             *)
LEMMA FocusKeepsPageIInv ==
    ASSUME PageIInv, Focus PROVE PageIInv'
<1> DEFINE c == [chart EXCEPT !.focused = TRUE]
<1>1. ChartOk(c) /\ c.days = chart.days
  BY NoticedOk DEF PageIInv
<1>2. Interact(Show(c, Current))
  BY DEF Focus
<1> HIDE DEF c
<1> QED BY <1>1, <1>2, ShowOk, InteractKeepsPageIInv

(* Losing the focus deselects it.                                          *)
LEMMA BlurKeepsPageIInv ==
    ASSUME PageIInv, Blur PROVE PageIInv'
<1> DEFINE c == [Hide(chart) EXCEPT !.focused = FALSE, !.selected = -1]
<1>1. ChartOk(c) /\ c.days = chart.days
  BY BlurredOk DEF PageIInv
<1>2. Interact(c)
  BY DEF Blur
<1> HIDE DEF c
<1> QED BY <1>1, <1>2, InteractKeepsPageIInv

(* Keys stay within the days of the chart.                                 *)
LEMMA KeyKeepsPageIInv ==
    ASSUME PageIInv, NEW key \in Keys, Key(key) PROVE PageIInv'
<1>1. ChartOk(chart)
  BY DEF PageIInv
<1>2. \A i : ChartOk(Show(chart, i)) /\ Show(chart, i).days = chart.days
  BY <1>1, ShowOk
<1>3. ChartOk(Hide(chart)) /\ Hide(chart).days = chart.days
  BY <1>1, HideOk
<1>4. CASE key = "Escape"
  <2>1. Interact(Hide(chart))
    BY <1>4 DEF Key
  <2> QED BY <1>3, <2>1, InteractKeepsPageIInv
<1>5. CASE key # "Escape"
  <2>1. \E i : Interact(Show(chart, i))
    BY <1>5 DEF Key, Keys
  <2> QED BY <1>2, <2>1, InteractKeepsPageIInv
<1> QED BY <1>4, <1>5

-----------------------------------------------------------------------------
(***************************************************************************)
(* The tables.                                                             *)
(***************************************************************************)
LEMMA InitPageIInv == Init => PageIInv
<1> SUFFICES ASSUME Init PROVE PageIInv
  OBVIOUS
<1>1. ChartOk(chart) /\ chart.days = 0
  BY NewChartOk DEF Init
<1>2. drawn = <<>> /\ tableViews = <<>> /\ busy = TRUE /\ data = None
  BY DEF Init
<1>3. ContentInv
  BY <1>1, <1>2 DEF ContentInv, TablesAreContent
<1> QED BY <1>1, <1>3 DEF PageIInv

(* The length of a list of days that is drawn.                             *)
LEMMA DaysDrawn ==
    ASSUME NEW answer \in Answer
    PROVE  /\ Len(Items(answer, "days")) \in Nat
           /\ Items(answer, "days") # <<>> <=> Len(Items(answer, "days")) > 0
<1>1. answer["days"] \in Seq(ToSet(answer["days"]))
  BY AnswerAssumption DEF Table
<1> QED BY <1>1 DEF Items

(* An answer replaces all tables and the chart.                            *)
LEMMA ArriveKeepsPageIInv ==
    ASSUME PageIInv, NEW answer \in Answer, Arrive(answer) PROVE PageIInv'
<1> DEFINE tables == Tabulated(answer)
           n == IF "days" \in tables THEN Len(Items(answer, "days")) ELSE 0
<1>1. /\ data' = answer /\ busy' = FALSE
      /\ accountsHidden' = filters.single /\ trendHidden' = filters.today
      /\ filters' = filters
      /\ DOMAIN tableViews' = tables
      /\ drawn' = [id \in tables |-> Draw(id, View(Items(answer, id)), sorts'[id], showNames)]
      /\ chart' = NewChart(n)
  BY DEF Arrive
<1>2. \A id \in Table : id \in tables <=> Items(answer, id) # <<>> /\ (id = "days" => ~filters.today)
  BY DEF Tabulated
<1>3. n \in Nat /\ ("days" \in tables <=> n > 0)
  BY <1>2, DaysDrawn DEF Table
<1> HIDE DEF n, tables
<1>4. ChartOk(chart') /\ chart'.days = n
  BY <1>1, <1>3, NewChartOk
<1>5. DOMAIN drawn' = tables /\ drawn' = [id \in DOMAIN drawn' |-> drawn'[id]]
  BY <1>1
<1>6. TablesAreContent'
  BY <1>1, <1>2, <1>3, <1>4, <1>5 DEF TablesAreContent, Items
<1> QED BY <1>1, <1>4, <1>5, <1>6 DEF PageIInv, ContentInv, ChartOk, Charts

(* Resizing the window redraws the chart of the same days.                 *)
LEMMA ResizeKeepsPageIInv ==
    ASSUME PageIInv, Resize PROVE PageIInv'
<1>1. /\ data \in Answer /\ data' = data /\ trendHidden' = filters.today
      /\ UNCHANGED <<filters, busy, accountsHidden>>
      /\ DOMAIN drawn \subseteq DOMAIN tableViews
      /\ ~busy => /\ accountsHidden = filters.single
                  /\ \A id \in Table : id \in DOMAIN drawn <=>
                         Items(data, id) # <<>> /\ (id = "days" => ~trendHidden)
      /\ ~busy => trendHidden = filters.today
  BY DEF Resize, RenderTrend, PageIInv, ContentInv, TablesAreContent
<1>2. "days" \in Tabulated(data) <=> Items(data, "days") # <<>> /\ ~filters.today
  BY DEF Tabulated, Table
<1>3. CASE "days" \in Tabulated(data)
  <2> DEFINE n == Len(Items(data, "days"))
  <2>1. /\ \E view : tableViews' = WithDays(tableViews, view)
        /\ \E table : drawn' = WithDays(drawn, table)
        /\ chart' = NewChart(n)
    BY <1>3 DEF Resize, RenderTrend
  <2>2. /\ DOMAIN tableViews' = {"days"} \cup DOMAIN tableViews
        /\ DOMAIN drawn' = {"days"} \cup DOMAIN drawn
        /\ drawn' = [id \in DOMAIN drawn' |-> drawn'[id]]
    BY <2>1 DEF WithDays
  <2>3. n \in Nat /\ n > 0
    BY <1>1, <1>2, <1>3, DaysDrawn
  <2> HIDE DEF n
  <2>4. ChartOk(chart') /\ chart'.days = n
    BY <2>1, <2>3, NewChartOk
  <2>5. TablesAreContent'
    BY <1>1, <1>2, <1>3, <2>2, <2>3, <2>4 DEF TablesAreContent, Items
  <2> QED BY <1>1, <2>2, <2>4, <2>5 DEF PageIInv, ContentInv, ChartOk, Charts
<1>4. CASE "days" \notin Tabulated(data)
  <2>1. /\ tableViews' = tableViews
        /\ drawn' = [id \in DOMAIN drawn \ {"days"} |-> drawn[id]]
        /\ chart' = NewChart(0)
    BY <1>4 DEF Resize, RenderTrend
  <2>2. /\ DOMAIN drawn' = DOMAIN drawn \ {"days"}
        /\ drawn' = [id \in DOMAIN drawn' |-> drawn'[id]]
    BY <2>1
  <2>3. ChartOk(chart') /\ chart'.days = 0
    BY <2>1, NewChartOk
  <2>4. TablesAreContent'
    BY <1>1, <1>2, <1>4, <2>1, <2>2, <2>3 DEF TablesAreContent, Items
  <2> QED BY <1>1, <2>2, <2>3, <2>4 DEF PageIInv, ContentInv, ChartOk, Charts
<1> QED BY <1>3, <1>4

(* Another selection, or a table that is drawn again where it is.          *)
LEMMA SameTablesKeepPageIInv ==
    ASSUME PageIInv,
           UNCHANGED <<data, accountsHidden, trendHidden, tableViews, chart>>,
           busy' = TRUE \/ UNCHANGED <<filters, busy>>,
           DOMAIN drawn' = DOMAIN drawn, drawn' = [id \in DOMAIN drawn |-> drawn'[id]]
    PROVE  PageIInv'
BY DEF PageIInv, ContentInv, TablesAreContent, Items, ChartOk, Charts

(* Redrawing a table adds none and removes none.                           *)
LEMMA RedrawKeepsDomain ==
    ASSUME ContentInv, NEW id, NEW sort, NEW names, RedrawTable(id, sort, names)
    PROVE  DOMAIN drawn' = DOMAIN drawn /\ drawn' = [t \in DOMAIN drawn |-> drawn'[t]]
<1>1. drawn = [t \in DOMAIN drawn |-> drawn[t]]
  BY DEF ContentInv
<1> QED BY <1>1 DEF RedrawTable

(* Every step keeps the tables and the chart in agreement with the answer. *)
LEMMA NextKeepsPageIInv == PageIInv /\ [Next]_vars => PageIInv'
<1> SUFFICES ASSUME PageIInv, [Next]_vars PROVE PageIInv'
  OBVIOUS
<1>s. ContentInv /\ drawn = [t \in DOMAIN drawn |-> drawn[t]]
  BY DEF PageIInv, ContentInv
<1>1. ASSUME NEW f, Select(f) PROVE PageIInv'
  BY <1>1, <1>s, SameTablesKeepPageIInv DEF Select, tableVars
<1>2. ASSUME NEW id, NEW column, ClickHeader(id, column) PROVE PageIInv'
  <2>1. DOMAIN drawn' = DOMAIN drawn /\ drawn' = [t \in DOMAIN drawn |-> drawn'[t]]
    BY <1>2, <1>s, RedrawKeepsDomain DEF ClickHeader
  <2> QED BY <1>2, <2>1, SameTablesKeepPageIInv DEF ClickHeader
<1>3. CASE ToggleNames
  <2>1. DOMAIN drawn' = DOMAIN drawn /\ drawn' = [t \in DOMAIN drawn |-> drawn'[t]]
    BY <1>3, <1>s, RedrawKeepsDomain DEF ToggleNames
  <2> QED BY <1>3, <2>1, SameTablesKeepPageIInv DEF ToggleNames
<1>4. CASE UNCHANGED vars
  BY <1>4, <1>s, SameTablesKeepPageIInv DEF vars, tableVars
<1> QED BY <1>1, <1>2, <1>3, <1>4, ArriveKeepsPageIInv, ResizeKeepsPageIInv,
           PointerMoveKeepsPageIInv, PointerDownKeepsPageIInv, PointerLeaveKeepsPageIInv,
           FocusKeepsPageIInv, BlurKeepsPageIInv, KeyKeepsPageIInv DEF Next

(* What the document, its views and the chart have to do with each other.  *)
THEOREM SpecPageIInv == Spec => []PageIInv
BY InitPageIInv, NextKeepsPageIInv, PTL DEF Spec

(* Whatever is clicked, resized, selected and loaded in between: a table   *)
(* in the document has a view, so that no click on it fails, there is a    *)
(* table of days exactly with a chart, and once the page is not busy it    *)
(* shows the tables of its answer and of the period that is selected.      *)
THEOREM SpecTablesAreContent == Spec => []TablesAreContent
<1>1. PageIInv => TablesAreContent
  BY DEF PageIInv, ContentInv
<1> QED BY <1>1, SpecPageIInv, PTL

(* In a chart of any width, with any number of days: a pointer, in the     *)
(* plot or beside it, finds the day nearest to it, and the tooltip is      *)
(* about a day of the chart in the document.                               *)
THEOREM SpecTooltipIsDay == Spec => []TooltipIsDay
<1>1. PageIInv => TooltipIsDay
  <2> SUFFICES ASSUME PageIInv PROVE TooltipIsDay
    OBVIOUS
  <2>1. chart.days \in Nat
    BY DEF PageIInv, ChartOk, Charts
  <2>2. Positions \subseteq Int
    BY ContentAssumption DEF Positions
  <2>3. chart.days > 0 => \A p \in Positions : Nearest(p, chart.days)
    BY <2>1, <2>2, NearestIsNearest, OnlyDayIsNearest
  <2> QED BY <2>3 DEF PageIInv, ChartOk, TooltipIsDay
<1> QED BY <1>1, SpecPageIInv, PTL

(* A chart drawn anew, a blur, a key, the focus and the mouse leave no     *)
(* tooltip behind that was not there.                                      *)
LEMMA StepsHoldTooltip ==
    ASSUME PageIInv, [Next]_vars, ~LeftBehind,
           ~ \E p \in Positions : ~chart.focused /\ PointerMove("other", p)
    PROVE  ~LeftBehind'
<1>c. ChartOk(chart)
  BY DEF PageIInv
<1>1. ASSUME UNCHANGED chart PROVE ~LeftBehind'
  BY <1>1 DEF LeftBehind
<1>2. ASSUME NEW n, chart' = NewChart(n) PROVE ~LeftBehind'
  BY <1>2 DEF LeftBehind, NewChart
<1>3. ASSUME NEW i, NEW c, ChartOk(c), c.focused \/ c.hovered, chart' = Show(c, i)
      PROVE  ~LeftBehind'
  BY <1>3, ShowOk DEF LeftBehind
<1>4. CASE \E f \in [single : BOOLEAN, today : BOOLEAN] : Select(f)
  BY <1>1, <1>4 DEF Select
<1>5. CASE \E answer \in Answer : Arrive(answer)
  BY <1>2, <1>5 DEF Arrive
<1>6. CASE Resize
  BY <1>2, <1>6 DEF Resize, RenderTrend
<1>7. CASE \E id \in Table, column \in UNION {Columns[t] : t \in Table} :
               ClickHeader(id, column)
  BY <1>1, <1>7 DEF ClickHeader
<1>8. CASE ToggleNames
  BY <1>1, <1>8 DEF ToggleNames
<1>9. ASSUME NEW pointer \in Pointers, NEW p \in Positions, PointerMove(pointer, p)
      PROVE  ~LeftBehind'
  <2>1. chart' = Show(Under(pointer), TrendIndexAt(p, chart.days))
    BY <1>9 DEF PointerMove, Interact
  <2>2. pointer = "mouse" \/ chart.focused
    BY <1>9 DEF Pointers
  <2>3. ChartOk(Under(pointer)) /\ (Under(pointer).focused \/ Under(pointer).hovered)
    BY <1>c, <2>2, UnderOk
  <2> QED BY <1>3, <2>1, <2>3
<1>10. ASSUME NEW pointer \in Pointers, NEW p \in Positions, PointerDown(pointer, p)
       PROVE  ~LeftBehind'
  <2> DEFINE c == [Under(pointer) EXCEPT !.focused = TRUE]
  <2>1. chart' = Show(c, TrendIndexAt(p, chart.days))
    BY <1>10 DEF PointerDown, Interact
  <2>2. ChartOk(c) /\ c.focused
    BY <1>c, UnderOk, NoticedOk
  <2> HIDE DEF c
  <2> QED BY <1>3, <2>1, <2>2
<1>11. CASE PointerLeave
  <2> DEFINE h == Hide(chart)
  <2>1. chart' = [h EXCEPT !.hovered = FALSE]
    BY <1>11 DEF PointerLeave, Interact
  <2>2. ChartOk(h) /\ h.tooltip = FALSE
    BY <1>c, HideOk
  <2> HIDE DEF h
  <2>3. chart'.tooltip = FALSE
    BY <2>1, <2>2, NoticedOk
  <2> QED BY <2>3 DEF LeftBehind
<1>12. CASE Focus
  <2> DEFINE c == [chart EXCEPT !.focused = TRUE]
  <2>1. chart' = Show(c, Current)
    BY <1>12 DEF Focus, Interact
  <2>2. ChartOk(c) /\ c.focused
    BY <1>c, NoticedOk
  <2> HIDE DEF c
  <2> QED BY <1>3, <2>1, <2>2
<1>13. CASE Blur
  <2>1. chart' = [Hide(chart) EXCEPT !.focused = FALSE, !.selected = -1]
    BY <1>13 DEF Blur, Interact
  <2>2. chart'.tooltip = FALSE
    BY <1>c, <2>1, BlurredOk
  <2> QED BY <2>2 DEF LeftBehind
<1>14. ASSUME NEW key \in Keys, Key(key) PROVE ~LeftBehind'
  <2>1. CASE key = "Escape"
    <3>1. chart' = Hide(chart)
      BY <1>14, <2>1 DEF Key, Interact
    <3>2. chart'.tooltip = FALSE
      BY <1>c, <3>1, HideOk
    <3> QED BY <3>2 DEF LeftBehind
  <2>2. CASE key # "Escape"
    <3>1. chart.focused /\ \E i : chart' = Show(chart, i)
      BY <1>14, <2>2 DEF Key, Keys, Interact
    <3> QED BY <1>3, <1>c, <3>1
  <2> QED BY <2>1, <2>2
<1>15. CASE UNCHANGED vars
  BY <1>1, <1>15 DEF vars
<1> QED BY <1>4, <1>5, <1>6, <1>7, <1>8, <1>9, <1>10, <1>11, <1>12, <1>13, <1>14, <1>15
        DEF Next

(* For any answers, in a chart of any width: whatever comes between, only  *)
(* a pen or a finger that moves over a chart without the focus leaves a    *)
(* tooltip that neither the focus nor the mouse holds.                     *)
THEOREM SpecTooltipIsHeld == Spec => TooltipIsHeld
<1>1. PageIInv /\ [Next]_vars =>
          [LeftBehind' => \/ LeftBehind
                          \/ \E p \in Positions : ~chart.focused /\ PointerMove("other", p)]_vars
  BY StepsHoldTooltip
<1> QED BY <1>1, SpecPageIInv, PTL DEF Spec, TooltipIsHeld

-----------------------------------------------------------------------------
(***************************************************************************)
(* The order of a table.                                                   *)
(***************************************************************************)
Value == Int \cup {None}

(* Rows that can be compared.                                              *)
RowsOk(rows, sort) ==
    /\ sort \in Sort
    /\ \A i \in DOMAIN rows : rows[i][sort.column] \in Value /\ rows[i]["name"] \in Int

(* What comes first in the column itself: numbers in the direction of the  *)
(* sort, then what is missing.                                             *)
Earlier(v, w, direction) ==
    v # None /\ (w = None \/ IF direction = 1 THEN v < w ELSE w < v)

RowBefore(rows, sort, i, j) ==
    LET v == rows[i][sort.column]
        w == rows[j][sort.column]
    IN  \/ Earlier(v, w, sort.direction)
        \/ v = w /\ rows[i]["name"] < rows[j]["name"]
        \/ v = w /\ rows[i]["name"] = rows[j]["name"] /\ i < j

(* The comparison of sortableTable, in these words.                        *)
LEMMA CompareIsBefore ==
    ASSUME NEW rows, NEW sort, RowsOk(rows, sort), NEW i \in DOMAIN rows, NEW j \in DOMAIN rows
    PROVE  LET c == Compare(sort, rows[i], rows[j])
           IN  c < 0 \/ (c = 0 /\ i < j) <=> RowBefore(rows, sort, i, j)
<1> DEFINE v == rows[i][sort.column]
           w == rows[j][sort.column]
           m == rows[i]["name"]
           n == rows[j]["name"]
           d == sort.direction
           order == IF v = None \/ w = None
                      THEN IF v = w THEN 0 ELSE IF v = None THEN 1 ELSE -1
                      ELSE Sign(v, w) * d
           c == IF order # 0 THEN order ELSE Sign(m, n)
<1>1. v \in Value /\ w \in Value /\ m \in Int /\ n \in Int /\ d \in {1, -1} /\ None \notin Int
  BY QuotaAssumption DEF RowsOk, Sort
<1>2. Compare(sort, rows[i], rows[j]) = c
  BY DEF Compare
<1>3. RowBefore(rows, sort, i, j) <=>
          Earlier(v, w, d) \/ (v = w /\ m < n) \/ (v = w /\ m = n /\ i < j)
  BY DEF RowBefore
<1> HIDE DEF v, w, m, n, d
<1>4. order = IF Earlier(v, w, d) THEN -1 ELSE IF v = w THEN 0 ELSE 1
  <2>1. CASE v = None \/ w = None
    BY <1>1, <2>1 DEF Earlier
  <2>2. CASE v # None /\ w # None
    <3>1. v \in Int /\ w \in Int
      BY <1>1, <2>2 DEF Value
    <3>2. CASE d = 1
      BY <2>2, <3>1, <3>2 DEF Earlier, Sign
    <3>3. CASE d = -1
      BY <2>2, <3>1, <3>3 DEF Earlier, Sign
    <3> QED BY <1>1, <3>2, <3>3
  <2> QED BY <2>1, <2>2
<1>5. Earlier(v, w, d) => v # w
  BY <1>1 DEF Earlier, Value
<1> HIDE DEF order
<1>6. Sign(m, n) = IF m < n THEN -1 ELSE IF m = n THEN 0 ELSE 1
  BY <1>1 DEF Sign
<1>7. c < 0 \/ (c = 0 /\ i < j) <=>
          Earlier(v, w, d) \/ (v = w /\ m < n) \/ (v = w /\ m = n /\ i < j)
  <2>1. CASE Earlier(v, w, d)
    BY <1>4, <1>5, <2>1
  <2>2. CASE ~Earlier(v, w, d) /\ v # w
    BY <1>4, <2>2
  <2>3. CASE v = w
    BY <1>1, <1>4, <1>5, <1>6, <2>3
  <2> QED BY <2>1, <2>2, <2>3
<1> HIDE DEF c
<1> QED BY <1>2, <1>3, <1>7

(* It is an order.                                                         *)
LEMMA RowsAreOrdered ==
    ASSUME NEW rows, NEW sort, RowsOk(rows, sort), DOMAIN rows \subseteq Int, NEW before,
           \A i, j \in DOMAIN rows : <<i, j>> \in before <=> RowBefore(rows, sort, i, j)
    PROVE  StrictOrder(DOMAIN rows, before)
<1> DEFINE v(i) == rows[i][sort.column]
           n(i) == rows[i]["name"]
           d == sort.direction
<1>1. /\ \A i \in DOMAIN rows : v(i) \in Value /\ n(i) \in Int /\ i \in Int
      /\ d \in {1, -1} /\ None \notin Int
  BY QuotaAssumption DEF RowsOk, Sort
<1>2. \A i, j \in DOMAIN rows : RowBefore(rows, sort, i, j) <=>
          \/ Earlier(v(i), v(j), d)
          \/ v(i) = v(j) /\ n(i) < n(j)
          \/ v(i) = v(j) /\ n(i) = n(j) /\ i < j
  BY DEF RowBefore
<1> HIDE DEF v, n, d
<1>3. \A x \in Value : ~Earlier(x, x, d)
  BY <1>1 DEF Earlier, Value
<1>4. \A x, y, z \in Value : Earlier(x, y, d) /\ Earlier(y, z, d) => Earlier(x, z, d)
  BY <1>1 DEF Earlier, Value
<1>5. \A x, y \in Value : x # y => Earlier(x, y, d) \/ Earlier(y, x, d)
  BY <1>1 DEF Earlier, Value
<1>6. \A i \in DOMAIN rows : <<i, i>> \notin before
  BY <1>1, <1>2, <1>3
<1>7. ASSUME NEW i \in DOMAIN rows, NEW j \in DOMAIN rows, NEW k \in DOMAIN rows,
             <<i, j>> \in before, <<j, k>> \in before
      PROVE  <<i, k>> \in before
  <2>1. RowBefore(rows, sort, i, j) /\ RowBefore(rows, sort, j, k)
    BY <1>7
  <2>2. /\ v(i) \in Value /\ v(j) \in Value /\ v(k) \in Value
        /\ n(i) \in Int /\ n(j) \in Int /\ n(k) \in Int /\ i \in Int /\ j \in Int /\ k \in Int
    BY <1>1
  <2>3. CASE Earlier(v(i), v(j), d) \/ Earlier(v(j), v(k), d)
    <3>1. Earlier(v(i), v(k), d)
      BY <1>2, <1>4, <2>1, <2>2, <2>3
    <3> QED BY <1>2, <3>1
  <2>4. CASE v(i) = v(j) /\ v(j) = v(k)
    <3>1. n(i) < n(j) \/ (n(i) = n(j) /\ i < j)
      BY <1>2, <1>3, <2>1, <2>2, <2>4
    <3>2. n(j) < n(k) \/ (n(j) = n(k) /\ j < k)
      BY <1>2, <1>3, <2>1, <2>2, <2>4
    <3>3. n(i) < n(k) \/ (n(i) = n(k) /\ i < k)
      BY <2>2, <3>1, <3>2
    <3> QED BY <1>2, <2>4, <3>3
  <2> QED BY <1>2, <2>1, <2>3, <2>4
<1>8. ASSUME NEW i \in DOMAIN rows, NEW j \in DOMAIN rows, i # j
      PROVE  <<i, j>> \in before \/ <<j, i>> \in before
  <2>1. /\ v(i) \in Value /\ v(j) \in Value /\ n(i) \in Int /\ n(j) \in Int
        /\ i \in Int /\ j \in Int
    BY <1>1
  <2>2. CASE v(i) # v(j)
    BY <1>2, <1>5, <2>1, <2>2
  <2>3. CASE v(i) = v(j)
    BY <1>2, <1>8, <2>1, <2>3
  <2> QED BY <2>2, <2>3
<1> QED BY <1>6, <1>7, <1>8 DEF StrictOrder

(* A sorted table is made of the rows of the table, each of them once, by  *)
(* an arrangement of their places.                                         *)
LEMMA SortedRows ==
    ASSUME NEW rows, NEW sort, RowsOk(rows, sort), NEW n \in Nat, DOMAIN rows = 1 .. n
    PROVE  \E order \in [1 .. n -> 1 .. n] :
               /\ Sorted(rows, sort) = [k \in 1 .. n |-> rows[order[k]]]
               /\ \A i, j \in 1 .. n : order[i] = order[j] => i = j
               /\ \A k \in 1 .. n : \E i \in 1 .. n : order[i] = k
               /\ \A i, j \in 1 .. n : i < j => RowBefore(rows, sort, order[i], order[j])
<1> DEFINE D == 1 .. n
           before == {p \in D \X D : RowBefore(rows, sort, p[1], p[2])}
           First(i, j) == LET c == Compare(sort, rows[i], rows[j])
                          IN  c < 0 \/ (c = 0 /\ i < j)
           Right_(o) == \A i, j \in DOMAIN o : i < j => First(o[i], o[j])
           order == CHOOSE o \in SetToSeqs(DOMAIN rows) : Right_(o)
<1>1. IsFiniteSet(D) /\ Cardinality(D) = n /\ D \subseteq Int
  BY FS_Interval
<1>2. \A i, j \in D : <<i, j>> \in before <=> RowBefore(rows, sort, i, j)
  OBVIOUS
<1>3. \A i, j \in D : First(i, j) <=> RowBefore(rows, sort, i, j)
  BY CompareIsBefore
<1>4. Sorted(rows, sort) = [k \in DOMAIN rows |-> rows[order[k]]]
  BY DEF Sorted
<1> HIDE DEF before
<1>5. StrictOrder(D, before)
  BY <1>1, <1>2, RowsAreOrdered
<1>6. PICK o \in SetToSeqs(D) : Increasing(o, before)
  BY <1>1, <1>5, ArrangementExists
<1> HIDE DEF First
<1>7. \A s \in SetToSeqs(D) : DOMAIN s = D /\ s \in [D -> D]
                              /\ (\A i, j \in D : s[i] = s[j] => i = j)
                              /\ (\A k \in D : \E i \in D : s[i] = k)
  <2> SUFFICES ASSUME NEW s \in SetToSeqs(D)
               PROVE  /\ DOMAIN s = D /\ s \in [D -> D]
                      /\ \A i, j \in D : s[i] = s[j] => i = j
                      /\ \A k \in D : \E i \in D : s[i] = k
    OBVIOUS
  <2>1. D = 1 .. Cardinality(D)
    BY <1>1
  <2> HIDE DEF D
  <2>2. /\ DOMAIN s = 1 .. Cardinality(D) /\ s \in [1 .. Cardinality(D) -> D]
        /\ \A i, j \in DOMAIN s : s[i] = s[j] => i = j
        /\ \A k \in D : \E i \in DOMAIN s : s[i] = k
    BY <1>1, ArrangementShape
  <2> QED BY <2>1, <2>2
<1>8. Right_(o)
  BY <1>2, <1>3, <1>6, <1>7 DEF Increasing
<1> HIDE DEF Right_
<1>9. order \in SetToSeqs(D) /\ Right_(order)
  BY <1>6, <1>8
<1> HIDE DEF order
<1>10. \A i, j \in D : i < j => First(order[i], order[j])
  BY <1>7, <1>9 DEF Right_
<1>11. \A i, j \in D : i < j => RowBefore(rows, sort, order[i], order[j])
  <2> SUFFICES ASSUME NEW i \in D, NEW j \in D, i < j
               PROVE  RowBefore(rows, sort, order[i], order[j])
    OBVIOUS
  <2>1. order[i] \in D /\ order[j] \in D
    BY <1>7, <1>9
  <2> QED BY <1>3, <1>10, <2>1
<1> QED BY <1>4, <1>7, <1>9, <1>11

(* It is in the order that a reader expects.                               *)
LEMMA SortedIsInOrder ==
    ASSUME NEW rows, NEW sort, RowsOk(rows, sort), NEW n \in Nat, DOMAIN rows = 1 .. n
    PROVE  InOrder(Sorted(rows, sort), sort)
<1>1. PICK order \in [1 .. n -> 1 .. n] :
               /\ Sorted(rows, sort) = [k \in 1 .. n |-> rows[order[k]]]
               /\ \A i, j \in 1 .. n : i < j => RowBefore(rows, sort, order[i], order[j])
  BY SortedRows
<1> DEFINE new == Sorted(rows, sort)
<1>2. DOMAIN new = 1 .. n /\ \A i \in 1 .. n : new[i] = rows[order[i]]
  BY <1>1
<1> HIDE DEF new
<1> SUFFICES ASSUME NEW i \in 1 .. n, NEW j \in 1 .. n, i < j
             PROVE  LET v == new[i][sort.column]
                        w == new[j][sort.column]
                    IN  /\ v = None => w = None
                        /\ v # None /\ w # None =>
                               IF sort.direction = 1 THEN v <= w ELSE v >= w
                        /\ v = w => \/ new[i]["name"] <= new[j]["name"]
                                    \/ sort.column = "name"
  BY <1>2 DEF InOrder, new
<1> DEFINE v == rows[order[i]][sort.column]
           w == rows[order[j]][sort.column]
           a == rows[order[i]]["name"]
           b == rows[order[j]]["name"]
<1>3. v \in Value /\ w \in Value /\ a \in Int /\ b \in Int /\ None \notin Int
      /\ sort.direction \in {1, -1}
  BY QuotaAssumption DEF RowsOk, Sort
<1>4. \/ Earlier(v, w, sort.direction)
      \/ v = w /\ a <= b
  <2>1. RowBefore(rows, sort, order[i], order[j])
    BY <1>1
  <2> QED BY <1>3, <2>1 DEF RowBefore
<1>5. /\ new[i][sort.column] = v /\ new[j][sort.column] = w
      /\ new[i]["name"] = a /\ new[j]["name"] = b
  BY <1>2
<1> HIDE DEF v, w, a, b
<1>6. CASE Earlier(v, w, sort.direction)
  BY <1>3, <1>5, <1>6 DEF Earlier, Value
<1>7. CASE v = w /\ a <= b
  BY <1>3, <1>5, <1>7 DEF Value
<1> QED BY <1>4, <1>6, <1>7

(* It has the rows it had, as often as it had them.                        *)
LEMMA SortedIsSameBag ==
    ASSUME NEW rows, NEW sort, RowsOk(rows, sort), NEW n \in Nat, DOMAIN rows = 1 .. n
    PROVE  ToBag(Sorted(rows, sort)) = ToBag(rows)
<1>1. PICK order \in [1 .. n -> 1 .. n] :
               /\ Sorted(rows, sort) = [k \in 1 .. n |-> rows[order[k]]]
               /\ \A i, j \in 1 .. n : order[i] = order[j] => i = j
               /\ \A k \in 1 .. n : \E i \in 1 .. n : order[i] = k
               /\ \A i, j \in 1 .. n : i < j => RowBefore(rows, sort, order[i], order[j])
  BY SortedRows
<1> DEFINE new == Sorted(rows, sort)
           places(seq, x) == {i \in DOMAIN seq : seq[i] = x}
<1>2. DOMAIN new = 1 .. n /\ \A i \in 1 .. n : new[i] = rows[order[i]]
  BY <1>1
<1> HIDE DEF new
<1>3. Range(new) = Range(rows)
  <2>1. ASSUME NEW x \in Range(new) PROVE x \in Range(rows)
    BY <1>1, <1>2, <2>1 DEF Range
  <2>2. ASSUME NEW x \in Range(rows) PROVE x \in Range(new)
    <3>1. PICK k \in 1 .. n : x = rows[k]
      BY <2>2 DEF Range
    <3>2. PICK i \in 1 .. n : order[i] = k
      BY <1>1
    <3> QED BY <1>2, <3>1, <3>2 DEF Range
  <2> QED BY <2>1, <2>2
<1>4. ASSUME NEW x PROVE Cardinality(places(new, x)) = Cardinality(places(rows, x))
  <2> DEFINE from == places(new, x)
             to == places(rows, x)
             move == [i \in from |-> order[i]]
  <2>1. from \in SUBSET (1 .. n) /\ IsFiniteSet(1 .. n)
    BY <1>2, FS_Interval
  <2>2. IsFiniteSet(from)
    <3> HIDE DEF from
    <3> QED BY <2>1, FS_Subset
  <2>3. \A i \in from : i \in 1 .. n /\ order[i] \in to
    BY <1>1, <1>2
  <2>4. \A k \in to : \E i \in from : order[i] = k
    <3> SUFFICES ASSUME NEW k \in to PROVE \E i \in from : order[i] = k
      OBVIOUS
    <3>1. k \in 1 .. n /\ rows[k] = x
      OBVIOUS
    <3>2. PICK i \in 1 .. n : order[i] = k
      BY <1>1, <3>1
    <3> QED BY <1>2, <3>1, <3>2
  <2> HIDE DEF from, to
  <2>5. move \in [from -> to] /\ \A i, j \in from : move[i] = move[j] => i = j
    BY <1>1, <2>3
  <2>6. \A k \in to : \E i \in from : move[i] = k
    BY <2>4
  <2> HIDE DEF move
  <2>7. move \in Bijection(from, to)
    BY <2>5, <2>6, Fun_IsBij
  <2>8. ExistsBijection(from, to)
    BY <2>7 DEF ExistsBijection
  <2> QED BY <2>2, <2>8, FS_Bijection DEF from, to
<1> QED BY <1>3, <1>4 DEF ToBag, new

-----------------------------------------------------------------------------
(***************************************************************************)
(* The values of a table.                                                  *)
(***************************************************************************)
(* What of a quota is used is a number or missing.                         *)
LEMMA UsedValueType ==
    ASSUME NEW q, IsQuota(q) PROVE UsedValue(q) \in Value
<1>1. /\ q.entitlement \in Value /\ q.remaining \in Value
      /\ q.percentRemaining \in Value /\ q.creditsUsed \in Value
  BY DEF IsQuota, Value
<1>2. CASE Unlimited(q) /\ AvailableCredits(q)
  <2>1. q.creditsUsed \in Int
    BY <1>1, <1>2 DEF AvailableCredits, Value
  <2>2. UsedValue(q) = Full * q.creditsUsed
    BY <1>2 DEF UsedValue, Unlimited, ValidMeteredQuota, Metered
  <2> QED BY <2>1, <2>2, FullIs DEF Value
<1>3. CASE ValidMeteredQuota(q)
  <2>1. q.entitlement \in Int /\ ~Unlimited(q)
    BY <1>1, <1>3 DEF ValidMeteredQuota, Metered, Unlimited, Value
  <2>2. CASE RemainingValue(q) # None
    <3>1. RemainingValue(q) \in Int
      BY <1>1, <2>2 DEF RemainingValue, Value
    <3>2. UsedValue(q) = Full * MaxOf(0, q.entitlement - RemainingValue(q))
      BY <1>3, <2>1, <2>2 DEF UsedValue
    <3>3. MaxOf(0, q.entitlement - RemainingValue(q)) \in Int
      BY <2>1, <3>1 DEF MaxOf
    <3> QED BY <3>2, <3>3, FullIs DEF Value
  <2>3. CASE RemainingValue(q) = None /\ UsedPercentValue(q) # None
    <3>1. UsedPercentValue(q) \in Int
      <4>1. UsedPercentValue(q) \in 0 .. Full \cup {None}
        BY <1>1, UsedPercentType DEF Value
      <4>2. UsedPercentValue(q) \in 0 .. Full
        BY <2>3, <4>1
      <4>3. \A x \in 0 .. Full : x \in Int
        BY FullIs
      <4> QED BY <4>2, <4>3
    <3>2. UsedValue(q) = q.entitlement * UsedPercentValue(q)
      BY <1>3, <2>1, <2>3 DEF UsedValue
    <3> QED BY <2>1, <3>1, <3>2 DEF Value
  <2>4. CASE RemainingValue(q) = None /\ UsedPercentValue(q) = None
    BY <2>1, <2>4 DEF UsedValue, Value
  <2> QED BY <2>2, <2>3, <2>4
<1>4. CASE ~(Unlimited(q) /\ AvailableCredits(q)) /\ ~ValidMeteredQuota(q)
  BY <1>4 DEF UsedValue, Value
<1> QED BY <1>2, <1>3, <1>4

(* So are costs.                                                           *)
LEMMA CostValueType ==
    ASSUME NEW costs, \A c \in DOMAIN costs : costs[c] \in Int
    PROVE  CostValue(costs) \in Value
<1>1. CASE Cardinality(DOMAIN costs) = 1 /\ DOMAIN costs # {}
  <2>1. (CHOOSE c \in DOMAIN costs : TRUE) \in DOMAIN costs
    BY <1>1
  <2> QED BY <1>1, <2>1 DEF CostValue, Value
<1>2. CASE Cardinality(DOMAIN costs) # 1
  BY <1>2 DEF CostValue, Value
<1>3. CASE DOMAIN costs = {}
  <2>1. Cardinality(DOMAIN costs) = 0
    BY <1>3, FS_EmptySet
  <2> QED BY <2>1 DEF CostValue, Value
<1> QED BY <1>1, <1>2, <1>3

(* And the share of what was read from a cache.                            *)
LEMMA CacheHitRateType ==
    ASSUME NEW usage, {usage.input, usage.read} \subseteq Nat
    PROVE  CacheHitRate(usage) \in Value
<1> DEFINE total == usage.input + usage.read
<1>1. total \in Nat /\ usage.read \in Int
  OBVIOUS
<1> HIDE DEF total
<1>2. CASE total > 0
  <2>1. Parts \div total \in Int
    BY <1>1, <1>2, Quotient DEF Parts
  <2>2. CacheHitRate(usage) = usage.read * (Parts \div total)
    BY <1>2 DEF CacheHitRate, total
  <2> HIDE DEF CacheHitRate
  <2>3. \A k \in Int : usage.read * k \in Int
    BY <1>1
  <2> QED BY <2>1, <2>2, <2>3 DEF Value
<1>3. CASE ~(total > 0)
  BY <1>3 DEF CacheHitRate, Value, total
<1> QED BY <1>2, <1>3

(* The items of a table.                                                   *)
LEMMA ItemsAre ==
    ASSUME NEW answer \in Answer, NEW id \in Table
    PROVE  LET items == Items(answer, id) IN
           /\ Len(items) \in Nat /\ DOMAIN items = 1 .. Len(items)
           /\ \A i \in DOMAIN items : IsItem(id, items[i])
<1>1. answer[id] \in Seq(ToSet(answer[id])) /\ \A i \in DOMAIN answer[id] : IsItem(id, answer[id][i])
  BY AnswerAssumption
<1> QED BY <1>1 DEF Items

(* Labels are places in the collation, as names are.                       *)
LEMMA LabelType ==
    ASSUME NEW answer \in Answer, NEW i \in DOMAIN Items(answer, "accounts")
    PROVE  Label(Items(answer, "accounts"), i) \in Int
<1> DEFINE accounts == Items(answer, "accounts")
           D == DOMAIN accounts
           logins == {accounts[j].login : j \in D}
           login == [j \in D |-> accounts[j].login]
<1>1. /\ Len(accounts) \in Nat /\ D = 1 .. Len(accounts)
      /\ \A j \in D : accounts[j].login \in Int /\ accounts[j].alias \in Int \cup {None}
  BY ItemsAre DEF Table, IsItem
<1> HIDE DEF accounts
<1>2. IsFiniteSet(D)
  BY <1>1, FS_Interval
<1>3. login \in [D -> logins] /\ \A x \in logins : \E j \in D : login[j] = x
  OBVIOUS
<1>4. IsFiniteSet(logins)
  <2> HIDE DEF logins, login, D
  <2> QED BY <1>2, <1>3, Fun_IsSurj, FS_Surjection
<1>5. logins \subseteq Int /\ logins # {}
  BY <1>1 DEF accounts
<1>6. Max(logins) \in Int
  <2> HIDE DEF logins
  <2> QED BY <1>4, <1>5, MaxIsGreatest
<1>7. Name(accounts, i) \in Int /\ accounts[i].login \in Int
  BY <1>1 DEF Name, accounts
<1> HIDE DEF logins, D
<1>8. (1 + Max(logins)) * Name(accounts, i) \in Int
  BY <1>6, <1>7
<1> QED BY <1>7, <1>8 DEF Label, logins, accounts, D

(* Rows have their columns, with numbers in them, or nothing.              *)
LEMMA RowType ==
    ASSUME NEW answer \in Answer, NEW id \in Table, NEW names,
           NEW i \in DOMAIN Items(answer, id), NEW column \in Columns[id]
    PROVE  LET row == Row(id, Items(answer, id), names, i) IN
           /\ row[column] \in Value
           /\ row["name"] \in Int
<1> DEFINE items == Items(answer, id)
           row == Row(id, items, names, i)
<1>1. IsItem(id, items[i])
  BY ItemsAre
<1>2. /\ column \in {"name", "used", "rate", "cost"} /\ "name" \in Columns[id]
      /\ "used" \in Columns[id] <=> id = "accounts"
      /\ "rate" \in Columns[id] => id # "accounts"
  BY ContentAssumption
<1>3. row["name"] \in Int
  <2>1. row["name"] = IF id = "accounts" THEN IF names THEN Label(items, i) ELSE items[i].login
                        ELSE items[i].name
    BY <1>2 DEF Row
  <2>2. CASE id = "accounts"
    <3>1. items[i].login \in Int /\ Label(items, i) \in Int
      BY <1>1, <2>2, LabelType DEF IsItem
    <3> HIDE DEF items, row
    <3> QED BY <2>1, <2>2, <3>1
  <2>3. CASE id # "accounts"
    BY <1>1, <2>1, <2>3 DEF IsItem
  <2> QED BY <2>2, <2>3
<1>4. CASE column = "name"
  BY <1>3, <1>4 DEF Value
<1>5. CASE column = "used"
  <2>1. row[column] = UsedValue(items[i].quota)
    BY <1>5 DEF Row
  <2>2. IsQuota(items[i].quota)
    BY <1>1, <1>2, <1>5 DEF IsItem
  <2> QED BY <1>3, <2>1, <2>2, UsedValueType
<1>6. CASE column = "rate"
  <2>1. row[column] = CacheHitRate(items[i])
    BY <1>6 DEF Row
  <2>2. {items[i].input, items[i].read} \subseteq Nat
    BY <1>1, <1>2, <1>6 DEF IsItem
  <2> QED BY <1>3, <2>1, <2>2, CacheHitRateType
<1>7. CASE column = "cost"
  <2>1. row[column] = CostValue(items[i].costs)
    BY <1>7 DEF Row
  <2>2. \A c \in DOMAIN items[i].costs : items[i].costs[c] \in Int
    BY <1>1 DEF IsItem
  <2> QED BY <1>3, <2>1, <2>2, CostValueType
<1> QED BY <1>2, <1>4, <1>5, <1>6, <1>7, <1>3

-----------------------------------------------------------------------------
(***************************************************************************)
(* What is drawn.                                                          *)
(***************************************************************************)
(* The sorts are about columns of their tables, and each table in the      *)
(* document is what its view would draw now, of the last answer.           *)
SortsOk(s) ==
    /\ s \in [Table -> Sort]
    /\ \A id \in Table : s[id].column \in Columns[id]

DrawnAsSorted(id) ==
    /\ id \in Table /\ data # None
    /\ tableViews[id] = View(Items(data, id))
    /\ drawn[id] = Draw(id, tableViews[id], sorts[id], showNames)
    /\ sorts[id].column = "cost" => ~DisabledCost(Items(data, id))

DrawnInv == SortsOk(sorts) /\ \A id \in DOMAIN drawn : DrawnAsSorted(id)

(* Only accounts have other names.                                         *)
LEMMA OthersHaveOneName ==
    ASSUME NEW id \in Table, id # "accounts", NEW view, NEW sort, NEW a, NEW b
    PROVE  Draw(id, view, sort, a) = Draw(id, view, sort, b)
<1>1. ASSUME NEW items, NEW i PROVE Row(id, items, a, i) = Row(id, items, b, i)
  <2> DEFINE row(names, column) ==
        CASE column = "name" /\ id = "accounts" ->
                IF names THEN Label(items, i) ELSE items[i].login
          [] column = "name" /\ id # "accounts" -> items[i].name
          [] column = "used" -> UsedValue(items[i].quota)
          [] column = "rate" -> CacheHitRate(items[i])
          [] column = "cost" -> CostValue(items[i].costs)
  <2>1. ASSUME NEW column \in Columns[id] PROVE row(a, column) = row(b, column)
    <3>1. CASE column = "name"
      <4>1. row(a, column) = items[i].name /\ row(b, column) = items[i].name
        BY <3>1
      <4> QED BY <4>1
    <3>2. CASE column = "used"
      BY <3>2
    <3>3. CASE column = "rate"
      BY <3>3
    <3>4. CASE column = "cost"
      BY <3>4
    <3> QED BY <3>1, <3>2, <3>3, <3>4, ContentAssumption
  <2>2. \A names : Row(id, items, names, i) = [column \in Columns[id] |-> row(names, column)]
    BY DEF Row
  <2> HIDE DEF row
  <2> QED BY <2>1, <2>2
<1>2. \A items : TableRows(id, items, a) = TableRows(id, items, b)
  BY <1>1 DEF TableRows
<1> QED BY <1>2 DEF Draw

(* The sort of a table that is drawn anew is about one of its columns, and *)
(* not about costs that cannot be compared.                                *)
LEMMA SortForIsOk ==
    ASSUME SortsOk(sorts), NEW id \in Table, NEW items
    PROVE  /\ SortFor(id, items) \in Sort /\ SortFor(id, items).column \in Columns[id]
           /\ SortFor(id, items).column = "cost" => ~DisabledCost(items)
<1>1. sorts[id] \in Sort /\ sorts[id].column \in Columns[id] /\ "name" \in Columns[id]
  BY ContentAssumption DEF SortsOk
<1>2. [column |-> "name", direction |-> 1] \in Sort
  BY DEF Sort
<1> QED BY <1>1, <1>2 DEF SortFor

(* At first nothing is drawn.                                              *)
LEMMA InitDrawnInv == Init => DrawnInv
<1> SUFFICES ASSUME Init PROVE DrawnInv
  OBVIOUS
<1>1. drawn = <<>>
  BY DEF Init
<1>2. SortsOk(sorts)
  BY ContentAssumption DEF Init, SortsOk, Table, Sort
<1> QED BY <1>1, <1>2 DEF DrawnInv

(* An answer draws its tables.                                             *)
LEMMA ArriveKeepsDrawnInv ==
    ASSUME DrawnInv, NEW answer \in Answer, Arrive(answer) PROVE DrawnInv'
<1> DEFINE tables == Tabulated(answer)
           Of(id) == Items(answer, id)
<1>1. /\ data' = answer /\ showNames' = showNames
      /\ sorts' = [id \in Table |-> IF id \in tables THEN SortFor(id, Of(id)) ELSE sorts[id]]
      /\ tableViews' = [id \in tables |-> View(Of(id))]
      /\ drawn' = [id \in tables |-> Draw(id, View(Of(id)), sorts'[id], showNames)]
  BY DEF Arrive
<1>2. tables \subseteq Table /\ data' # None
  BY <1>1, AnswerAssumption DEF Tabulated
<1> HIDE DEF tables
<1>3. SortsOk(sorts')
  <2>1. SortsOk(sorts)
    BY DEF DrawnInv
  <2>2. ASSUME NEW id \in Table PROVE sorts'[id] \in Sort /\ sorts'[id].column \in Columns[id]
    <3>1. sorts'[id] = IF id \in tables THEN SortFor(id, Of(id)) ELSE sorts[id]
      BY <1>1
    <3>2. sorts[id] \in Sort /\ sorts[id].column \in Columns[id]
      BY <2>1 DEF SortsOk
    <3>3. SortFor(id, Of(id)) \in Sort /\ SortFor(id, Of(id)).column \in Columns[id]
      BY <2>1, SortForIsOk
    <3> QED BY <3>1, <3>2, <3>3
  <2> QED BY <1>1, <2>2 DEF SortsOk
<1>4. ASSUME NEW id \in tables PROVE DrawnAsSorted(id)'
  <2>1. /\ id \in Table /\ tableViews'[id] = View(Of(id))
        /\ sorts'[id] = SortFor(id, Of(id))
        /\ drawn'[id] = Draw(id, View(Of(id)), sorts'[id], showNames)
    BY <1>1, <1>2
  <2>2. sorts'[id].column = "cost" => ~DisabledCost(Of(id))
    BY <2>1, SortForIsOk DEF DrawnInv
  <2>3. Items(answer, id) = Items(data', id)
    BY <1>1
  <2> QED BY <1>1, <1>2, <2>1, <2>2 DEF DrawnAsSorted, Items
<1>5. DOMAIN drawn' = tables
  BY <1>1
<1> QED BY <1>3, <1>4, <1>5 DEF DrawnInv, SortsOk

(* A change of width draws the days again, or drops them.                  *)
LEMMA ResizeKeepsDrawnInv ==
    ASSUME PageIInv, DrawnInv, Resize PROVE DrawnInv'
<1>1. /\ data # None /\ data' = data /\ showNames' = showNames
      /\ RenderTrend
      /\ drawn = [id \in DOMAIN drawn |-> drawn[id]]
      /\ SortsOk(sorts)
  BY DEF Resize, PageIInv, ContentInv, DrawnInv
<1>2. CASE "days" \in Tabulated(data)
  <2> DEFINE items == Items(data, "days")
             sort == SortFor("days", items)
  <2>1. /\ sorts' = [sorts EXCEPT !["days"] = sort]
        /\ tableViews' = WithDays(tableViews, View(items))
        /\ drawn' = WithDays(drawn, Draw("days", View(items), sorts'["days"], showNames))
    BY <1>1, <1>2 DEF RenderTrend, View
  <2>2. /\ sort \in Sort /\ sort.column \in Columns["days"]
        /\ sort.column = "cost" => ~DisabledCost(items)
    BY <1>1, SortForIsOk DEF Table
  <2> HIDE DEF sort, items
  <2>3. SortsOk(sorts')
    BY <1>1, <2>1, <2>2 DEF SortsOk, Table
  <2>4. /\ sorts'["days"] = sort
        /\ \A id \in Table : id # "days" => sorts'[id] = sorts[id]
    BY <1>1, <2>1 DEF SortsOk, Table
  <2>5. /\ DOMAIN drawn' = {"days"} \cup DOMAIN drawn
        /\ drawn'["days"] = Draw("days", View(items), sort, showNames)
        /\ tableViews'["days"] = View(items)
        /\ \A id \in DOMAIN drawn : id # "days" =>
               drawn'[id] = drawn[id] /\ tableViews'[id] = tableViews[id]
    <3>1. DOMAIN drawn \subseteq DOMAIN tableViews
      BY DEF PageIInv, ContentInv, TablesAreContent
    <3> QED BY <2>1, <2>4, <3>1 DEF WithDays
  <2>6. DrawnAsSorted("days")'
    BY <1>1, <2>2, <2>4, <2>5 DEF DrawnAsSorted, Items, Table, items
  <2>7. ASSUME NEW id \in DOMAIN drawn, id # "days" PROVE DrawnAsSorted(id)'
    <3>1. DrawnAsSorted(id)
      BY DEF DrawnInv
    <3> QED BY <1>1, <2>4, <2>5, <2>7, <3>1 DEF DrawnAsSorted, Items
  <2> QED BY <2>3, <2>5, <2>6, <2>7 DEF DrawnInv, SortsOk
<1>3. CASE "days" \notin Tabulated(data)
  <2>1. /\ DOMAIN drawn' \subseteq DOMAIN drawn
        /\ \A id \in DOMAIN drawn' : drawn'[id] = drawn[id]
        /\ sorts' = sorts /\ tableViews' = tableViews
    BY <1>1, <1>3 DEF RenderTrend
  <2> QED BY <1>1, <2>1 DEF DrawnInv, DrawnAsSorted, SortsOk, Items
<1> QED BY <1>2, <1>3

(* A click on a header sorts its table anew.                               *)
LEMMA ClickKeepsDrawnInv ==
    ASSUME PageIInv, DrawnInv, NEW id \in Table, NEW column, ClickHeader(id, column)
    PROVE  DrawnInv'
<1> DEFINE sort == [column    |-> column,
                    direction |-> IF sorts[id].column = column THEN -sorts[id].direction ELSE 1]
<1>1. /\ id \in DOMAIN drawn /\ column \in Columns[id]
      /\ column = "cost" => ~drawn[id].disabledCost
      /\ sorts' = [sorts EXCEPT ![id] = sort]
      /\ drawn' = [drawn EXCEPT ![id] = Draw(id, tableViews[id], sorts'[id], showNames)]
      /\ UNCHANGED <<data, showNames, tableViews>>
  BY DEF ClickHeader, Visible, RedrawTable
<1>2. SortsOk(sorts) /\ DrawnAsSorted(id) /\ drawn = [t \in DOMAIN drawn |-> drawn[t]]
  BY <1>1 DEF DrawnInv, PageIInv, ContentInv
<1>3. sort \in Sort /\ sort.column = column
  <2>1. sorts[id].direction \in {1, -1}
    BY <1>2 DEF SortsOk, Sort
  <2>2. column \in {"name", "used", "rate", "cost"}
    BY <1>1, ContentAssumption
  <2> QED BY <2>1, <2>2 DEF Sort
<1> HIDE DEF sort
<1>4. sorts'[id] = sort /\ \A t \in Table : t # id => sorts'[t] = sorts[t]
  BY <1>1, <1>2 DEF SortsOk
<1>5. SortsOk(sorts')
  BY <1>1, <1>2, <1>3, <1>4 DEF SortsOk
<1>6. /\ DOMAIN drawn' = DOMAIN drawn
      /\ drawn'[id] = Draw(id, tableViews[id], sort, showNames)
      /\ \A t \in DOMAIN drawn : t # id => drawn'[t] = drawn[t]
  BY <1>1, <1>2, <1>4
<1>7. column = "cost" => ~DisabledCost(Items(data, id))
  BY <1>1, <1>2 DEF DrawnAsSorted, Draw, View
<1>8. DrawnAsSorted(id)'
  BY <1>1, <1>2, <1>3, <1>4, <1>6, <1>7 DEF DrawnAsSorted, Items
<1>9. ASSUME NEW t \in DOMAIN drawn, t # id PROVE DrawnAsSorted(t)'
  <2>1. DrawnAsSorted(t)
    BY DEF DrawnInv
  <2> QED BY <1>1, <1>4, <1>6, <1>9, <2>1 DEF DrawnAsSorted, Items
<1> QED BY <1>5, <1>6, <1>8, <1>9 DEF DrawnInv, SortsOk

(* The key for names draws the accounts anew.                              *)
LEMMA ToggleKeepsDrawnInv ==
    ASSUME PageIInv, DrawnInv, ToggleNames PROVE DrawnInv'
<1>1. /\ UNCHANGED <<data, sorts, tableViews>> /\ showNames' = ~showNames
      /\ drawn' = [drawn EXCEPT !["accounts"] =
             Draw("accounts", tableViews["accounts"], sorts["accounts"], ~showNames)]
      /\ drawn = [t \in DOMAIN drawn |-> drawn[t]]
  BY DEF ToggleNames, RedrawTable, PageIInv, ContentInv
<1>2. SortsOk(sorts) /\ SortsOk(sorts')
  BY <1>1 DEF DrawnInv, SortsOk
<1>3. DOMAIN drawn' = DOMAIN drawn
  BY <1>1
<1>4. ASSUME NEW id \in DOMAIN drawn PROVE DrawnAsSorted(id)'
  <2>1. DrawnAsSorted(id)
    BY DEF DrawnInv
  <2>2. drawn'[id] = Draw(id, tableViews[id], sorts[id], ~showNames)
    <3>1. CASE id = "accounts"
      BY <1>1, <3>1
    <3>2. CASE id # "accounts"
      <4>1. drawn'[id] = drawn[id]
        BY <1>1, <3>2
      <4>2. drawn[id] = Draw(id, tableViews[id], sorts[id], showNames)
        BY <2>1 DEF DrawnAsSorted
      <4>3. Draw(id, tableViews[id], sorts[id], showNames)
              = Draw(id, tableViews[id], sorts[id], ~showNames)
        BY <2>1, <3>2, OthersHaveOneName DEF DrawnAsSorted
      <4> QED BY <4>1, <4>2, <4>3
    <3> QED BY <3>1, <3>2
  <2>3. drawn'[id] = Draw(id, tableViews'[id], sorts'[id], showNames')
    BY <1>1, <2>2
  <2> QED BY <1>1, <2>1, <2>3 DEF DrawnAsSorted, Items
<1> QED BY <1>2, <1>3, <1>4 DEF DrawnInv

(* Every step keeps the tables as their views would draw them.             *)
LEMMA NextKeepsDrawnInv == PageIInv /\ DrawnInv /\ [Next]_vars => DrawnInv'
<1> SUFFICES ASSUME PageIInv, DrawnInv, [Next]_vars PROVE DrawnInv'
  OBVIOUS
<1>1. CASE UNCHANGED <<data, showNames, tableVars>>
  BY <1>1 DEF DrawnInv, DrawnAsSorted, SortsOk, tableVars, Items
<1>2. ASSUME NEW f, Select(f) PROVE DrawnInv'
  BY <1>1, <1>2 DEF Select
<1>3. ASSUME NEW c, Interact(c) PROVE DrawnInv'
  BY <1>1, <1>3 DEF Interact
<1>4. CASE UNCHANGED vars
  BY <1>1, <1>4 DEF vars
<1>5. CASE \E pointer \in Pointers, p \in Positions :
               PointerMove(pointer, p) \/ PointerDown(pointer, p)
  BY <1>3, <1>5 DEF PointerMove, PointerDown
<1>6. CASE PointerLeave \/ Focus \/ Blur \/ \E key \in Keys : Key(key)
  BY <1>3, <1>6 DEF PointerLeave, Focus, Blur, Key
<1> QED BY <1>2, <1>4, <1>5, <1>6, ArriveKeepsDrawnInv, ResizeKeepsDrawnInv,
           ClickKeepsDrawnInv, ToggleKeepsDrawnInv DEF Next

(* A table that is drawn has rows that can be compared.                    *)
LEMMA DrawnIsSorted ==
    ASSUME NEW answer \in Answer, NEW id \in Table, NEW names, NEW sort \in Sort,
           sort.column \in Columns[id]
    PROVE  LET rows == TableRows(id, Items(answer, id), names) IN
           /\ InOrder(Sorted(rows, sort), sort)
           /\ ToBag(Sorted(rows, sort)) = ToBag(rows)
<1> DEFINE items == Items(answer, id)
           rows == TableRows(id, items, names)
           n == Len(items)
<1>1. n \in Nat /\ DOMAIN rows = 1 .. n /\ DOMAIN items = 1 .. n
  BY ItemsAre DEF TableRows
<1>2. \A i \in DOMAIN rows : rows[i][sort.column] \in Value /\ rows[i]["name"] \in Int
  <2> SUFFICES ASSUME NEW i \in DOMAIN items
               PROVE  rows[i][sort.column] \in Value /\ rows[i]["name"] \in Int
    BY <1>1
  <2>1. rows[i] = Row(id, items, names, i)
    BY DEF TableRows
  <2> QED BY <2>1, RowType
<1> HIDE DEF rows, n
<1>3. RowsOk(rows, sort)
  BY <1>2 DEF RowsOk
<1> QED BY <1>1, <1>3, SortedIsInOrder, SortedIsSameBag DEF rows

(* Whatever was clicked, toggled, resized or loaded since, for any answers *)
(* and any number of rows: sortableTable and redrawTable show the items of *)
(* the last answer, each as often as it is there, under the names shown    *)
(* now, in the order that the arrow says, and not by costs of more than    *)
(* one currency.                                                           *)
THEOREM SpecTablesAreSorted == Spec => []TablesAreSorted
<1>1. Spec => []DrawnInv
  BY InitDrawnInv, NextKeepsDrawnInv, SpecPageIInv, PTL DEF Spec
<1>2. PageIInv /\ DrawnInv => TablesAreSorted
  <2> SUFFICES ASSUME PageIInv, DrawnInv, NEW id \in DOMAIN drawn
               PROVE  LET rows == TableRows(id, Items(data, id), showNames) IN
                      /\ drawn[id].sort = sorts[id]
                      /\ InOrder(drawn[id].rows, sorts[id])
                      /\ ToBag(drawn[id].rows) = ToBag(rows)
                      /\ sorts[id].column = "cost" => ~DisabledCost(Items(data, id))
    BY DEF TablesAreSorted
  <2>1. DrawnAsSorted(id)
    BY DEF DrawnInv
  <2>2. data \in Answer /\ id \in Table
    BY <2>1 DEF PageIInv, ContentInv, DrawnAsSorted
  <2>3. sorts[id] \in Sort /\ sorts[id].column \in Columns[id]
    BY <2>2 DEF DrawnInv, SortsOk
  <2>4. /\ drawn[id].sort = sorts[id]
        /\ drawn[id].rows = Sorted(TableRows(id, Items(data, id), showNames), sorts[id])
    BY <2>1 DEF DrawnAsSorted, Draw, View
  <2> QED BY <2>1, <2>2, <2>3, <2>4, DrawnIsSorted DEF DrawnAsSorted
<1> QED BY <1>1, <1>2, SpecPageIInv, PTL
=============================================================================
