---------------------------- MODULE MCUsageStore ----------------------------
(***************************************************************************)
(* UsageStore for TLC. A day has DayLength instants; a report covers the   *)
(* dates from the first request that the upstream database knows to the    *)
(* instant it was taken, its first and last bucket cut off.                *)
(***************************************************************************)
EXTENDS UsageStore

CONSTANTS
    Model,      \* models that requests may use
    DayLength,  \* instants in a day
    Ends,       \* when reports are taken
    MaxTokens   \* bound: tokens of a date

Date(t) == t \div DayLength

(* All of the usage of a date is on one model, or there is none. *)
Bucket(start, end, tokens, model) ==
    [start   |-> start,
     end     |-> end,
     totals  |-> [k \in {"tokens"} |-> tokens],
     details |-> [m \in {x \in {model} : tokens > 0} |-> tokens]]

Report(first, end, tokens, model) ==
    LET from(d) == Max({first, d * DayLength})
        to(d)   == Min({end, (d + 1) * DayLength})
    IN  [end  |-> end,
         days |-> [d \in {x \in DOMAIN tokens : from(x) < to(x)} |->
                      Bucket(from(d), to(d), tokens[d], model)]]

Days == 0 .. Date(Max(Ends) - 1)

(* A report that claims to be older than one of its days. *)
Misdated == [Report(0, Max(Ends), [d \in Days |-> 0], CHOOSE m \in Model : TRUE)
                EXCEPT !.end = @ - 1]

(* A report with a day from before the epoch. *)
Negative == [Report(0, Max(Ends), [d \in Days |-> 0], CHOOSE m \in Model : TRUE)
                EXCEPT !.days[0].start = -1]

(* Everything an upstream may send, consistent with earlier reports or not *)
(* and in any order.                                                       *)
Reports ==
    {Misdated, Negative} \cup
    {Report(first, end, tokens, model) :
        first \in 0 .. Max(Ends), end \in Ends,
        tokens \in [Days -> 0 .. MaxTokens], model \in Model}

(* One report is enough for endpoints that move between sources, and one   *)
(* account for the reports: not both grow at a time.                       *)
Simple == Report(0, 1, [d \in Days |-> 0], CHOOSE m \in Model : TRUE)

Plain == SaveSegments(<<>>, Simple)

Focused == Cardinality(DOMAIN history) <= 1 \/ \A a \in DOMAIN history : history[a] = Plain

FocusedSpec == Init /\ [][Next /\ Focused']_vars
=============================================================================
