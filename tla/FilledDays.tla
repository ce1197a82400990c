----------------------------- MODULE FilledDays -----------------------------
(***************************************************************************)
(* The days of an answer: those of several accounts added up by date, and  *)
(* the dates of the period that nothing was recorded for. A list of days   *)
(* is sorted by date at the end, so that the number of its entries for     *)
(* each date stands for it. Dates are day numbers, 0 being a Monday.       *)
(***************************************************************************)
EXTENDS Integers, FiniteSets, FiniteSetsExt

CONSTANTS
    None,
    MonthStarts,            \* the first dates of the months
    MaxFilledLifetimeDays,  \* the longest history whose dates are filled in
    Gap,                    \* a date that begins at 1:00 because the clocks
                            \* go forward at midnight, or None
    Skew                    \* what time.Date makes of its midnight, in hours

ASSUME FilledDaysAssumption ==
    /\ MonthStarts \subseteq Nat /\ 0 \in MonthStarts
    /\ MaxFilledLifetimeDays \in Nat
    /\ Gap \in Nat \cup {None} /\ None \notin Int
    /\ Skew \in {1, -1}

Periods == {"today", "this_week", "last_7_days", "this_month", "last_30_days", "lifetime"}

(* Instants are the hours that a clock shows, counted from date 0. For one *)
(* that the clock leaves out, time.Date gives an instant an hour before or *)
(* after; its documentation leaves open which.                             *)
Time(date, hour) == 24 * date + IF date = Gap /\ hour = 0 THEN Skew ELSE hour
DateOf(t)        == t \div 24
AddDate(t, n)    == Time(DateOf(t) + n, t % 24)

(* The days of one more account.                                           *)
MergeDays(days, more) ==
    LET of(function, d) == IF d \in DOMAIN function THEN function[d] ELSE 0
    IN  [d \in DOMAIN days \cup DOMAIN more |-> of(days, d) + of(more, d)]

(* The first instant of a period.                                          *)
Start(days, period, today) ==
    CASE period = "this_week"    -> AddDate(today, -(DateOf(today) % 7))
      [] period = "last_7_days"  -> AddDate(today, -6)
      [] period = "this_month"   -> Time(Max({m \in MonthStarts : m <= DateOf(today)}), 0)
      [] period = "last_30_days" -> AddDate(today, -29)
      [] period = "lifetime"     -> Min({AddDate(today, -6)} \cup {Time(d, 0) : d \in DOMAIN days})

(* AddDate(_, 1) n times: once an hour is left out, the clock stays at the *)
(* one that stood for it.                                                  *)
Nth(start, n) ==
    LET t == start + 24 * n
    IN  IF Gap # None /\ start % 24 = 0 /\ DateOf(start) < Gap /\ Gap <= DateOf(t)
          THEN t + Skew ELSE t

Instants(start, today) == {Nth(start, n) : n \in 0 .. DateOf(today) - DateOf(start) + 1}

(* Mutant: the loop ends before today.                                     *)
MutVisited(start, today) == {t \in Instants(start, today) : t < today}

(* The loop: while not after today.                                        *)
Visited(start, today) == {t \in Instants(start, today) : t <= today}

Once(days) == [d \in DOMAIN days |-> 1]

(* fillDays, for a day of now: the entries for each date.                  *)
FillDays(days, period, now) ==
    LET today == Time(now, 0)
        start == Start(days, period, today)
        added == {t \in Visited(start, today) : DateOf(t) \notin DOMAIN days}
        dates == {DateOf(t) : t \in added}
    IN  IF \/ period = "today"
           \/ period = "lifetime" /\ DOMAIN days = {}
           \/ period = "lifetime" /\ AddDate(start, MaxFilledLifetimeDays - 1) < today
        THEN Once(days)
        ELSE [d \in DOMAIN days \cup dates |->
                 IF d \in DOMAIN days THEN 1 ELSE Cardinality({t \in added : DateOf(t) = d})]

(* The date from which a reader expects every date to be listed, up to now. *)
FirstListed(dates, period, now) ==
    CASE period = "today"        -> now + 1
      [] period = "this_week"    -> now - (now % 7)
      [] period = "last_7_days"  -> now - 6
      [] period = "this_month"   -> Max(MonthStarts \cap 0 .. now)
      [] period = "last_30_days" -> now - 29
      [] period = "lifetime"     ->
             LET first == Min({now - 6} \cup dates)
             IN  IF dates = {} \/ now - first >= MaxFilledLifetimeDays THEN now + 1 ELSE first

Complete(entries, dates, period, now) ==
    /\ DOMAIN entries = dates \cup FirstListed(dates, period, now) .. now
    /\ \A d \in DOMAIN entries : entries[d] = 1
=============================================================================
