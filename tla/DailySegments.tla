---------------------------- MODULE DailySegments ----------------------------
(***************************************************************************)
(* The daily usage of one account in the SQLite store: the segments that   *)
(* SaveDaily writes and LoadDaily adds up. A segment collects what one     *)
(* lifetime of the upstream database reported; a new one is opened when a  *)
(* snapshot shows that the upstream database was rebuilt.                  *)
(*                                                                         *)
(* A day is [start, end, totals, details]: totals maps the counters that   *)
(* are present to their values (total_nano_aiu may be absent), details     *)
(* maps the costs and model rows that are present to theirs. A snapshot is *)
(* [end, days], days indexed by date. A stored day also has the end of the *)
(* snapshot it was taken from. Dates are day numbers.                      *)
(***************************************************************************)
EXTENDS Integers, Sequences, SequencesExt, FiniteSetsExt, Functions

Amounts(values) == \A k \in DOMAIN values : values[k] \in Int

(* What decoding a report yields: instants and amounts are numbers. *)
Decoded(snapshot) ==
    /\ snapshot.end \in Int
    /\ \A d \in DOMAIN snapshot.days :
           LET day == snapshot.days[d] IN
           /\ {day.start, day.end} \subseteq Int
           /\ Amounts(day.totals) /\ Amounts(day.details)

(* validateDaily; a snapshot indexed by date has no date twice. *)
ValidDaily(snapshot) ==
    /\ snapshot.end > 0
    /\ \A d \in DOMAIN snapshot.days :
           LET day == snapshot.days[d] IN
           0 <= day.start /\ day.start < day.end /\ day.end <= snapshot.end

(* The date of the day that sorts first, by start and then by date. *)
FirstDate(days) ==
    CHOOSE d \in DOMAIN days : \A e \in DOMAIN days :
        \/ days[d].start < days[e].start
        \/ days[d].start = days[e].start /\ d <= e

NewSegment(date) == [start |-> date, days |-> <<>>]

(* Mutant: an amount that did not grow counts as one that became smaller. *)
MutTotalsRegressed(old, current) ==
    \E k \in DOMAIN old \cap DOMAIN current : current[k] <= old[k]

(* Some amount that both have became smaller. *)
TotalsRegressed(old, current) ==
    \E k \in DOMAIN old \cap DOMAIN current : current[k] < old[k]

(* A counter, cost or model got lost, or a detail became smaller. *)
DetailsRegressed(stored, day) ==
    \/ ~ (DOMAIN stored.totals \subseteq DOMAIN day.totals)
    \/ ~ (DOMAIN stored.details \subseteq DOMAIN day.details)
    \/ TotalsRegressed(stored.details, day.details)

(* Mutant: only smaller totals count as a rebuild. *)
MutSnapshotResetByTotals(stored, day) ==
    TotalsRegressed(stored.totals, day.totals)

(* A rebuilt upstream database has less, or starts after what is stored. *)
SnapshotReset(stored, day) ==
    \/ TotalsRegressed(stored.totals, day.totals)
    \/ day.start > stored.start /\ day.start >= stored.end

(* Days that were still running when their snapshot was taken. *)
MutableDates(segment) ==
    {d \in DOMAIN segment.days : segment.days[d].end = segment.days[d].snap}

(* Mutant: a snapshot taken earlier is checked too. *)
MutComparable(segment, snapshot) ==
    {d \in DOMAIN snapshot.days \cap MutableDates(segment) : d >= segment.start}

(* The stored days that a snapshot is checked against. *)
Comparable(segment, snapshot) ==
    {d \in DOMAIN snapshot.days \cap MutableDates(segment) :
        d >= segment.start /\ snapshot.end >= segment.days[d].snap}

ResetDates(segment, snapshot) ==
    {d \in Comparable(segment, snapshot) :
        SnapshotReset(segment.days[d], snapshot.days[d])}

(* validateDetails refuses the snapshot. *)
Incomplete(segment, snapshot) ==
    \E d \in Comparable(segment, snapshot) :
        DetailsRegressed(segment.days[d], snapshot.days[d])

(* Mutant: days that were over when they were stored stay as they are. *)
MutReplacedOpen(segment, snapshot) ==
    {d \in DOMAIN snapshot.days :
        /\ d >= segment.start
        /\ d \in DOMAIN segment.days =>
              /\ d \in MutableDates(segment)
              /\ snapshot.end >= segment.days[d].snap}

(* Mutant: a snapshot taken earlier overwrites one taken later. *)
MutReplaced(segment, snapshot) ==
    {d \in DOMAIN snapshot.days : d >= segment.start}

(* Mutant: days before the segment are written to it too. *)
MutReplacedEarlier(segment, snapshot) ==
    {d \in DOMAIN snapshot.days :
        d \in DOMAIN segment.days => snapshot.end >= segment.days[d].snap}

(* The days replaceDay writes: new ones, and those not taken later. *)
Replaced(segment, snapshot) ==
    {d \in DOMAIN snapshot.days :
        /\ d >= segment.start
        /\ d \in DOMAIN segment.days => snapshot.end >= segment.days[d].snap}

StoredDay(day, snap) ==
    [start |-> day.start, end |-> day.end, snap |-> snap,
     totals |-> day.totals, details |-> day.details]

ReplaceDays(segment, snapshot) ==
    LET written == Replaced(segment, snapshot) IN
    [segment EXCEPT !.days =
        [d \in written \cup DOMAIN segment.days |->
            IF d \in written THEN StoredDay(snapshot.days[d], snapshot.end)
                             ELSE segment.days[d]]]

(* The segments SaveDaily finds, or the first one it creates. *)
OpenSegments(segments, snapshot) ==
    IF segments = <<>> THEN <<NewSegment(FirstDate(snapshot.days))>> ELSE segments

(* Mutant: the details are checked before a rebuild is looked for. *)
MutAccepted(segments, snapshot) ==
    /\ ValidDaily(snapshot)
    /\ DOMAIN snapshot.days # {} =>
           ~Incomplete(Last(OpenSegments(segments, snapshot)), snapshot)

Accepted(segments, snapshot) ==
    /\ ValidDaily(snapshot)
    /\ DOMAIN snapshot.days # {} =>
           LET latest == Last(OpenSegments(segments, snapshot)) IN
           ResetDates(latest, snapshot) = {} => ~Incomplete(latest, snapshot)

(* Mutant: the newest snapshot always replaces the days. *)
MutSaveSegments(segments, snapshot) ==
    IF ~Accepted(segments, snapshot) \/ DOMAIN snapshot.days = {} THEN segments
    ELSE LET open == OpenSegments(segments, snapshot)
         IN  ReplaceAt(open, Len(open), ReplaceDays(Last(open), snapshot))

(* SaveDaily on an account's segments; a refused snapshot changes nothing. *)
SaveSegments(segments, snapshot) ==
    IF ~Accepted(segments, snapshot) \/ DOMAIN snapshot.days = {} THEN segments
    ELSE LET open   == OpenSegments(segments, snapshot)
             latest == Last(open)
             resets == ResetDates(latest, snapshot)
         IN  IF resets = {}
               THEN ReplaceAt(open, Len(open), ReplaceDays(latest, snapshot))
               ELSE Append(open, ReplaceDays(NewSegment(Min(resets)), snapshot))

AllRows(segments) ==
    UNION {{i} \X DOMAIN segments[i].days : i \in DOMAIN segments}

(* Mutant: a day counts for the period in which it ends. *)
MutRows(segments, from, now) ==
    {r \in AllRows(segments) :
        LET day == segments[r[1]].days[r[2]] IN day.end >= from /\ day.start <= now}

(* The rows LoadDaily selects: all segments, by the start of the day. *)
Rows(segments, from, now) ==
    {r \in AllRows(segments) :
        LET day == segments[r[1]].days[r[2]] IN day.start >= from /\ day.start <= now}

LoadedDates(segments, from, now) == {r[2] : r \in Rows(segments, from, now)}

Amount(values, k) == IF k \in DOMAIN values THEN values[k] ELSE 0

RowsTotal(segments, rows, k) ==
    SumFunction([r \in rows |-> Amount(segments[r[1]].days[r[2]].totals, k)])

(* The sum of one counter over the segments, and of one detail. *)
LoadedTotal(segments, from, now, d, k) ==
    RowsTotal(segments, {r \in Rows(segments, from, now) : r[2] = d}, k)

(* Mutant: the rows of a model replace each other. *)
MutLoadedDetail(segments, from, now, d, k) ==
    LET rows == {r \in Rows(segments, from, now) :
                    r[2] = d /\ k \in DOMAIN segments[r[1]].days[d].details}
    IN  IF rows = {} THEN 0
        ELSE segments[Max({r[1] : r \in rows})].days[d].details[k]

LoadedDetail(segments, from, now, d, k) ==
    SumFunction([r \in {x \in Rows(segments, from, now) : x[2] = d} |->
        Amount(segments[r[1]].days[r[2]].details, k)])
=============================================================================
