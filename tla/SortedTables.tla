---------------------------- MODULE SortedTables ----------------------------
(***************************************************************************)
(* The order of a table's rows. A row is a function from columns to        *)
(* values: numbers, None where a value is missing, and in the column       *)
(* "name" the place of a text in the collation.                            *)
(***************************************************************************)
EXTENDS Integers, Sequences, FiniteSets, SequencesExt

CONSTANT None

Sort == [column : {"name", "used", "rate", "cost"}, direction : {1, -1}]

Sign(x, y) == IF x = y THEN 0 ELSE IF x < y THEN -1 ELSE 1

(* Missing values come last in both directions; names decide between equals. *)
Compare(sort, a, b) ==
    LET av == a[sort.column]
        bv == b[sort.column]
        order == IF av = None \/ bv = None
                   THEN IF av = bv THEN 0 ELSE IF av = None THEN 1 ELSE -1
                   ELSE Sign(av, bv) * sort.direction
    IN  IF order # 0 THEN order ELSE Sign(a["name"], b["name"])

(* The rows in order; Array.prototype.sort is stable.                      *)
Sorted(rows, sort) ==
    LET Before(i, j) == LET c == Compare(sort, rows[i], rows[j])
                        IN  c < 0 \/ (c = 0 /\ i < j)
        order == CHOOSE o \in SetToSeqs(DOMAIN rows) :
                     \A i, j \in DOMAIN o : i < j => Before(o[i], o[j])
    IN  [n \in DOMAIN rows |-> rows[order[n]]]

(* Costs are comparable if the items have one currency between them.       *)
Currencies(items) == UNION {DOMAIN items[i].costs : i \in DOMAIN items}
DisabledCost(items) == Cardinality(Currencies(items)) # 1

CostValue(costs) ==
    IF Cardinality(DOMAIN costs) = 1
      THEN costs[CHOOSE c \in DOMAIN costs : TRUE] ELSE None

(* The order a reader expects, said without reference to the comparison.   *)
InOrder(rows, sort) ==
    \A i, j \in DOMAIN rows : i < j =>
        LET v == rows[i][sort.column]
            w == rows[j][sort.column]
        IN  /\ v = None => w = None
            /\ v # None /\ w # None =>
                   IF sort.direction = 1 THEN v <= w ELSE v >= w
            /\ v = w => \/ rows[i]["name"] <= rows[j]["name"]
                        \/ sort.column = "name"
=============================================================================
