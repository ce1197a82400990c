-------------------------- MODULE HistorySyncProofs --------------------------
(***************************************************************************)
(* Proofs about HistorySync, for any models, lengths of a day, rebuilds    *)
(* and tasks: what can be said of the days of snapshots without adding up. *)
(***************************************************************************)
EXTENDS HistorySync, DailySegmentsProofs

(* The days with their dates that segments hold, and those that a snapshot *)
(* brings, as they would be stored.                                        *)
DaysOf(h) == {<<r[2], h[r[1]].days[r[2]]>> : r \in AllRows(h)}
DaysIn(s) == {<<d, StoredDay(s.days[d], s.end)>> : d \in DOMAIN s.days}

Seen == DaysOf(segments) \cup UNION {DaysIn(s.snapshot) : s \in inflight}

(* Upstream will not report a day that began before the end of this one:   *)
(* it was rebuilt since.                                                   *)
Gone(day) == IF first = Never THEN now > day.end ELSE first > day.end

(* Upstream still knows all the requests of the day.                       *)
Known(d, day) ==
    /\ DOMAIN day.totals = {"tokens"}
    /\ \A m \in DOMAIN day.details : m \in Model /\ day.details[m] \in 1 .. usage[d][m]

(* A day is not taken for an incomplete version of a stored one.           *)
Follows(stored, day) ==
    \/ ~DetailsRegressed(stored, day)
    \/ day.start > stored.start /\ day.start >= stored.end

StateTyped ==
    /\ correcting \in BOOLEAN
    /\ now \in 0 .. LastInstant
    /\ first \in Nat
    /\ usage \in [Dates -> [Model -> Nat]]
    /\ IsFiniteSet(inflight)
    /\ IsSegments(segments)

(* A day lies within its date, and before the snapshot it is part of.      *)
DaysInv == \A x \in Seen :
    /\ x[1] \in Dates
    /\ StoredOk(x[2])
    /\ x[1] * DayLength <= x[2].start /\ x[2].start < x[2].end
    /\ x[2].end <= (x[1] + 1) * DayLength
    /\ x[2].end <= x[2].snap /\ x[2].snap <= now

SnapshotsInv == \A s \in inflight : Timed(s.snapshot) /\ s.snapshot.end <= now

KnownInv == \A x \in Seen : Gone(x[2]) \/ Known(x[1], x[2])

(* Snapshots follow each other and what is stored.                         *)
OrderInv == \A x \in Seen : \A s \in inflight :
    /\ x[1] \in DOMAIN s.snapshot.days
    /\ x[2].snap <= s.snapshot.end
    => Follows(x[2], s.snapshot.days[x[1]])

(* Several snapshots of one instant are the same.                          *)
SameInv == Tasks <= 1 \/ \A s \in inflight : s.snapshot.end = now => s.snapshot = Lifetime

HistoryTyped == StateTyped /\ DaysInv /\ SnapshotsInv
HistoryIInv == HistoryTyped /\ (~correcting => KnownInv /\ OrderInv /\ SameInv)

-----------------------------------------------------------------------------
(* Where the days of segments come from.                                   *)
LEMMA DaysOfMember ==
    ASSUME NEW h, NEW x
    PROVE  x \in DaysOf(h) <=>
             \E i \in DOMAIN h : \E d \in DOMAIN h[i].days : x = <<d, h[i].days[d]>>
<1>1. ASSUME x \in DaysOf(h)
      PROVE  \E i \in DOMAIN h : \E d \in DOMAIN h[i].days : x = <<d, h[i].days[d]>>
  <2>1. PICK r \in AllRows(h) : x = <<r[2], h[r[1]].days[r[2]]>>
    BY <1>1 DEF DaysOf
  <2>2. PICK i \in DOMAIN h : r \in {i} \X DOMAIN h[i].days
    BY <2>1 DEF AllRows
  <2> QED BY <2>1, <2>2
<1>2. ASSUME NEW i \in DOMAIN h, NEW d \in DOMAIN h[i].days, x = <<d, h[i].days[d]>>
      PROVE  x \in DaysOf(h)
  <2> DEFINE r == <<i, d>>
  <2>1. r \in {i} \X DOMAIN h[i].days
    OBVIOUS
  <2>2. r \in AllRows(h)
    BY <2>1 DEF AllRows
  <2>3. x = <<r[2], h[r[1]].days[r[2]]>>
    BY <1>2
  <2> QED BY <2>2, <2>3 DEF DaysOf
<1> QED BY <1>1, <1>2

(* An empty segment to begin with changes nothing.                         *)
LEMMA OpenDays ==
    ASSUME NEW h, IsSegments(h), NEW s
    PROVE  DaysOf(OpenSegments(h, s)) = DaysOf(h)
<1> DEFINE open == OpenSegments(h, s)
<1>1. CASE h # <<>>
  BY <1>1, OpenSegmentsAreSegments
<1>2. CASE h = <<>>
  <2>1. open = <<NewSegment(FirstDate(s.days))>>
    BY <1>2, OpenSegmentsAreSegments
  <2>2. \A i \in DOMAIN open : DOMAIN open[i].days = {}
    BY <2>1, NewSegmentIsSegment
  <2>3. DOMAIN h = {}
    BY <1>2
  <2> HIDE DEF open
  <2>4. DaysOf(open) = {} /\ DaysOf(h) = {}
    BY <2>2, <2>3, DaysOfMember
  <2> QED BY <2>4 DEF open
<1> QED BY <1>1, <1>2

(* All days after a save are those before it and those of the snapshot.    *)
LEMMA SaveDays ==
    ASSUME NEW h, IsSegments(h), NEW s, Timed(s)
    PROVE  DaysOf(SaveSegments(h, s)) \subseteq DaysOf(h) \cup DaysIn(s)
<1> DEFINE open == OpenSegments(h, s)
           n == SaveSegments(h, s)
<1>1. IsSegments(open) /\ open # <<>> /\ DaysOf(open) = DaysOf(h)
  BY OpenSegmentsAreSegments, OpenDays
<1>2. /\ Len(open) \in Nat /\ DOMAIN open = 1 .. Len(open) /\ Len(open) \in DOMAIN open
      /\ Last(open) = open[Len(open)] /\ IsSegment(Last(open))
  BY <1>1, SegmentsDomain, LastSegment
<1>3. ASSUME NEW g, IsSegment(g), NEW d \in DOMAIN ReplaceDays(g, s).days
      PROVE  \/ <<d, ReplaceDays(g, s).days[d]>> \in DaysIn(s)
             \/ d \in DOMAIN g.days /\ ReplaceDays(g, s).days[d] = g.days[d]
  <2>1. Replaced(g, s) \subseteq DOMAIN s.days
    BY DEF Replaced
  <2> QED BY <1>3, <2>1, DaysAfter DEF DaysIn
<1>4. CASE n = h
  BY <1>4
<1>5. CASE n = ReplaceAt(open, Len(open), ReplaceDays(Last(open), s))
  <2> DEFINE g == ReplaceDays(Last(open), s)
  <2>1. IsSegment(g)
    BY <1>2, ReplacedSegment
  <2>2. ASSUME NEW d \in DOMAIN g.days
        PROVE  <<d, g.days[d]>> \in DaysOf(h) \cup DaysIn(s)
    BY <1>1, <1>2, <1>3, DaysOfMember
  <2> HIDE DEF g, open, n
  <2>3. /\ IsSegments(n) /\ Len(n) = Len(open) /\ n[Len(open)] = g
        /\ \A i \in 1 .. Len(open) - 1 : n[i] = open[i]
    BY <1>1, <1>5, <2>1, ReplaceLastSegment DEF g
  <2>4. DOMAIN n = 1 .. Len(open)
    BY <2>3, SegmentsDomain
  <2>5. ASSUME NEW x \in DaysOf(n) PROVE x \in DaysOf(h) \cup DaysIn(s)
    <3>1. PICK i \in DOMAIN n : \E d \in DOMAIN n[i].days : x = <<d, n[i].days[d]>>
      BY DaysOfMember
    <3>2. CASE i = Len(open)
      BY <2>2, <2>3, <3>1, <3>2
    <3>3. CASE i # Len(open)
      <4>1. i \in DOMAIN open /\ n[i] = open[i]
        BY <1>2, <2>3, <2>4, <3>3
      <4> QED BY <1>1, <3>1, <4>1, DaysOfMember
    <3> QED BY <3>2, <3>3
  <2> QED BY <2>5 DEF n
<1>6. ASSUME NEW date, n = Append(open, ReplaceDays(NewSegment(date), s))
      PROVE  DaysOf(n) \subseteq DaysOf(h) \cup DaysIn(s)
  <2> DEFINE g == ReplaceDays(NewSegment(date), s)
  <2>1. IsSegment(g)
    BY NewSegmentIsSegment, ReplacedSegment
  <2>2. ASSUME NEW d \in DOMAIN g.days
        PROVE  <<d, g.days[d]>> \in DaysIn(s)
    BY <1>3, NewSegmentIsSegment
  <2> HIDE DEF g, open, n
  <2>3. /\ IsSegments(n) /\ Len(n) = Len(open) + 1 /\ n[Len(open) + 1] = g
        /\ \A i \in 1 .. Len(open) : n[i] = open[i]
    BY <1>1, <1>6, <2>1, AppendSegment DEF g
  <2>4. DOMAIN n = 1 .. Len(open) + 1
    BY <2>3, SegmentsDomain
  <2>5. ASSUME NEW x \in DaysOf(n) PROVE x \in DaysOf(h) \cup DaysIn(s)
    <3>1. PICK i \in DOMAIN n : \E d \in DOMAIN n[i].days : x = <<d, n[i].days[d]>>
      BY DaysOfMember
    <3>2. CASE i = Len(open) + 1
      BY <2>2, <2>3, <3>1, <3>2
    <3>3. CASE i # Len(open) + 1
      <4>1. i \in DOMAIN open /\ n[i] = open[i]
        BY <1>2, <2>3, <2>4, <3>3
      <4> QED BY <1>1, <3>1, <4>1, DaysOfMember
    <3> QED BY <3>2, <3>3
  <2> QED BY <2>5
<1> QED BY <1>4, <1>5, <1>6, SaveShape

-----------------------------------------------------------------------------
(* Products with the length of a day are numbers and keep an order.        *)
LEMMA DayStart ==
    ASSUME NEW a \in Int, NEW b \in Int
    PROVE  /\ a * DayLength \in Int
           /\ a <= b => a * DayLength <= b * DayLength
           /\ a < b => (a + 1) * DayLength <= b * DayLength
           /\ a >= 0 => 0 <= a * DayLength
BY HistoryAssumption

(* Dates are day numbers.                                                  *)
LEMMA DatesAreNumbers ==
    /\ Dates \subseteq Nat
    /\ \A t \in 0 .. LastInstant : Date(t) \in Dates
BY HistoryAssumption DEF Dates, Date

(* The lifetime report.                                                    *)
LEMMA LifetimeDays ==
    ASSUME StateTyped, NEW d \in DOMAIN Lifetime.days
    PROVE  LET day == Lifetime.days[d] IN
           /\ d \in Dates
           /\ day.start \in Int /\ day.end \in Int /\ day.start < day.end
           /\ day.start >= d * DayLength /\ day.start >= first
           /\ day.end <= now /\ day.end <= (d + 1) * DayLength
           /\ DOMAIN day.totals = {"tokens"}
           /\ DOMAIN day.details = {m \in Model : usage[d][m] > 0}
           /\ \A m \in DOMAIN day.details : day.details[m] = usage[d][m]
<1> DEFINE start == MaxOf(first, d * DayLength)
           end == MinOf(now, (d + 1) * DayLength)
           day == Lifetime.days[d]
<1>1. /\ d \in Dates /\ start < end
      /\ day = [start |-> start, end |-> end,
                totals |-> [k \in {"tokens"} |-> Requests(usage, d)],
                details |-> [m \in {m \in Model : usage[d][m] > 0} |-> usage[d][m]]]
  BY DEF Lifetime
<1>2. d * DayLength \in Int /\ (d + 1) * DayLength \in Int /\ first \in Int /\ now \in Int
  BY <1>1, DayStart, DatesAreNumbers DEF StateTyped
<1>3. /\ start \in Int /\ end \in Int /\ start >= d * DayLength /\ start >= first
      /\ end <= now /\ end <= (d + 1) * DayLength
  BY <1>2 DEF MaxOf, MinOf
<1> HIDE DEF start, end
<1> QED BY <1>1, <1>3

(* A report is of the instant at which it is taken.                        *)
LEMMA LifetimeIsTimed ==
    ASSUME StateTyped PROVE Timed(Lifetime) /\ Lifetime.end = now
<1>1. Lifetime.end = now
  BY DEF Lifetime
<1>2. now \in Int
  BY DEF StateTyped
<1> QED BY <1>1, <1>2, LifetimeDays DEF Timed

(* A day of a snapshot, as it would be stored.                             *)
LEMMA DaysInMember ==
    ASSUME NEW s, NEW x \in DaysIn(s)
    PROVE  LET day == s.days[x[1]] IN
           /\ x[1] \in DOMAIN s.days
           /\ x[2].start = day.start /\ x[2].end = day.end /\ x[2].snap = s.end
           /\ x[2].totals = day.totals /\ x[2].details = day.details
<1>1. PICK d \in DOMAIN s.days : x = <<d, StoredDay(s.days[d], s.end)>>
  BY DEF DaysIn
<1> QED BY <1>1 DEF StoredDay

(* Days that upstream reports now are within their dates, and known to it. *)
LEMMA LifetimeIsKnown ==
    ASSUME StateTyped, NEW x \in DaysIn(Lifetime)
    PROVE  /\ x[1] \in Dates
           /\ StoredOk(x[2])
           /\ x[1] * DayLength <= x[2].start /\ x[2].start < x[2].end
           /\ x[2].end <= (x[1] + 1) * DayLength
           /\ x[2].end <= x[2].snap /\ x[2].snap = now
           /\ Known(x[1], x[2])
<1> DEFINE d == x[1]
           day == Lifetime.days[d]
<1>1. /\ d \in DOMAIN Lifetime.days
      /\ x[2].start = day.start /\ x[2].end = day.end /\ x[2].snap = now
      /\ x[2].totals = day.totals /\ x[2].details = day.details
  BY DaysInMember, LifetimeIsTimed
<1>2. /\ d \in Dates
      /\ day.start \in Int /\ day.end \in Int /\ day.start < day.end
      /\ day.start >= d * DayLength
      /\ day.end <= now /\ day.end <= (d + 1) * DayLength
      /\ DOMAIN day.totals = {"tokens"}
      /\ DOMAIN day.details = {m \in Model : usage[d][m] > 0}
      /\ \A m \in DOMAIN day.details : day.details[m] = usage[d][m]
  BY <1>1, LifetimeDays
<1>3. now \in Int /\ d * DayLength \in Int /\ \A m \in Model : usage[d][m] \in Nat
  <2> HIDE DEF d, day
  <2>1. d \in Int /\ usage[d] \in [Model -> Nat]
    BY <1>2, DatesAreNumbers DEF StateTyped
  <2>2. d * DayLength \in Int
    BY <2>1, DayStart
  <2> QED BY <2>1, <2>2 DEF StateTyped
<1> HIDE DEF d, day
<1>4. Known(d, x[2])
  BY <1>1, <1>2, <1>3 DEF Known
<1> QED BY <1>1, <1>2, <1>3, <1>4 DEF StoredOk, d

(* A report of what upstream knows follows every day it may know: either   *)
(* all of that day's amounts are there, or it was rebuilt and then starts  *)
(* after that day.                                                         *)
LEMMA LifetimeFollows ==
    ASSUME StateTyped, NEW d \in DOMAIN Lifetime.days, NEW stored, StoredOk(stored),
           stored.start < stored.end, Gone(stored) \/ Known(d, stored)
    PROVE  Follows(stored, Lifetime.days[d])
<1> DEFINE day == Lifetime.days[d]
<1>1. /\ d \in Dates
      /\ day.start \in Int /\ day.end \in Int /\ day.start < day.end
      /\ day.start >= first /\ day.end <= now
      /\ DOMAIN day.totals = {"tokens"}
      /\ DOMAIN day.details = {m \in Model : usage[d][m] > 0}
      /\ \A m \in DOMAIN day.details : day.details[m] = usage[d][m]
  BY LifetimeDays
<1> HIDE DEF day
<1>2. now \in 0 .. LastInstant /\ LastInstant \in Nat /\ first \in Nat
  BY HistoryAssumption DEF StateTyped
<1>3. CASE Gone(stored)
  <2>1. first # Never
    BY <1>1, <1>2 DEF Never
  <2>2. first > stored.end
    BY <1>3, <2>1 DEF Gone
  <2> QED BY <1>1, <1>2, <2>2 DEF Follows, StoredOk, day
<1>4. CASE Known(d, stored)
  <2>1. \A m \in Model : usage[d][m] \in Nat
    BY <1>1 DEF StateTyped
  <2>2. DOMAIN stored.totals \subseteq DOMAIN day.totals
    BY <1>1, <1>4 DEF Known
  <2>3. \A m \in DOMAIN stored.details :
            m \in DOMAIN day.details /\ ~(day.details[m] < stored.details[m])
    BY <1>1, <1>4, <2>1 DEF Known
  <2>4. ~DetailsRegressed(stored, day)
    BY <2>2, <2>3 DEF DetailsRegressed, TotalsRegressed
  <2> QED BY <2>4 DEF Follows, day
<1> QED BY <1>3, <1>4

-----------------------------------------------------------------------------
(* Nothing is stored or under way at first.                                *)
LEMMA InitHistoryIInv == Init => HistoryIInv
<1> SUFFICES ASSUME Init PROVE HistoryIInv
  OBVIOUS
<1> USE DEF Init
<1>1. IsSegments(segments)
  BY DEF IsSegments
<1>2. usage \in [Dates -> [Model -> Nat]]
  BY DEF Nothing
<1>3. StateTyped
  BY <1>1, <1>2, HistoryAssumption, FS_EmptySet DEF StateTyped, Never
<1>4. Seen = {}
  <2>1. DaysOf(segments) = {}
    BY DaysOfMember
  <2> QED BY <2>1 DEF Seen
<1> QED BY <1>3, <1>4
  DEF HistoryIInv, HistoryTyped, DaysInv, SnapshotsInv, KnownInv, OrderInv, SameInv

(* A step in which time passes or upstream changes.                        *)
LEMMA UpstreamKeepsHistoryIInv ==
    ASSUME HistoryIInv, StateTyped', correcting' = correcting, now <= now',
           inflight' = inflight, segments' = segments,
           ~correcting => /\ \A x \in Seen : Gone(x[2]) \/ Known(x[1], x[2])
                                => Gone(x[2])' \/ Known(x[1], x[2])'
                          /\ SameInv'
    PROVE  HistoryIInv'
<1>1. Seen' = Seen
  BY DEF Seen, DaysOf, DaysIn, AllRows
<1>2. now \in Int /\ now' \in Int
  BY DEF HistoryIInv, HistoryTyped, StateTyped
<1>3. DaysInv'
  BY <1>1, <1>2 DEF HistoryIInv, HistoryTyped, DaysInv, StoredOk
<1>4. SnapshotsInv'
  BY <1>2 DEF HistoryIInv, HistoryTyped, SnapshotsInv, Timed
<1>5. ~correcting => KnownInv'
  BY <1>1 DEF HistoryIInv, KnownInv
<1>6. ~correcting => OrderInv'
  BY <1>1 DEF HistoryIInv, OrderInv
<1> QED BY <1>3, <1>4, <1>5, <1>6 DEF HistoryIInv, HistoryTyped

(* Time passes: days of the past stay known.                               *)
LEMMA TickKeepsHistoryIInv ==
    ASSUME HistoryIInv, Tick PROVE HistoryIInv'
<1>1. StateTyped /\ StateTyped' /\ now < now' /\ correcting' = correcting
      /\ inflight' = inflight /\ segments' = segments
  BY HistoryAssumption DEF HistoryIInv, HistoryTyped, StateTyped, Tick
<1>2. ASSUME NEW x \in Seen, Gone(x[2]) \/ Known(x[1], x[2])
      PROVE  Gone(x[2])' \/ Known(x[1], x[2])'
  <2>1. x[2].end \in Int /\ now \in Int /\ now' \in Int
    BY <1>1 DEF HistoryIInv, HistoryTyped, DaysInv, StoredOk, StateTyped
  <2> QED BY <1>1, <1>2, <2>1 DEF Gone, Known, Tick
<1>3. SameInv'
  BY <1>1 DEF HistoryIInv, HistoryTyped, SnapshotsInv, Timed, SameInv, StateTyped
<1>4. now <= now'
  BY <1>1 DEF StateTyped
<1> QED BY <1>1, <1>2, <1>3, <1>4, UpstreamKeepsHistoryIInv

(* The days of an upstream database that is lost are of its past.          *)
LEMMA RebuildKeepsHistoryIInv ==
    ASSUME HistoryIInv, Rebuild PROVE HistoryIInv'
<1>1. Nothing \in [Dates -> [Model -> Nat]] /\ Never \in Nat
  BY HistoryAssumption DEF Nothing, Never
<1>2. StateTyped /\ StateTyped' /\ now < now' /\ correcting' = correcting
      /\ inflight' = inflight /\ segments' = segments
  BY <1>1, HistoryAssumption DEF HistoryIInv, HistoryTyped, StateTyped, Rebuild
<1>3. ASSUME NEW x \in Seen PROVE Gone(x[2])'
  <2>1. x[2].end \in Int /\ x[2].snap \in Int /\ x[2].end <= x[2].snap /\ x[2].snap <= now
    BY DEF HistoryIInv, HistoryTyped, DaysInv, StoredOk
  <2>2. now \in Int /\ now' \in Int
    BY <1>2 DEF StateTyped
  <2> QED BY <1>2, <2>1, <2>2 DEF Gone, Rebuild
<1>4. SameInv'
  BY <1>2 DEF HistoryIInv, HistoryTyped, SnapshotsInv, Timed, SameInv, StateTyped
<1>5. now <= now'
  BY <1>2 DEF StateTyped
<1> QED BY <1>2, <1>3, <1>4, <1>5, UpstreamKeepsHistoryIInv

(* Usage grows, from the current date on.                                  *)
LEMMA RequestKeepsHistoryIInv ==
    ASSUME HistoryIInv, NEW m \in Model, Request(m) PROVE HistoryIInv'
<1>1. StateTyped /\ now' = now /\ correcting' = correcting
      /\ inflight' = inflight /\ segments' = segments
  BY DEF HistoryIInv, HistoryTyped, Request
<1>2. Date(now) \in Dates
  BY <1>1, DatesAreNumbers DEF StateTyped
<1>3. /\ usage' \in [Dates -> [Model -> Nat]]
      /\ \A d \in Dates : \A k \in Model : usage[d][k] \in Nat /\ usage[d][k] <= usage'[d][k]
  BY <1>1, <1>2 DEF StateTyped, Request
<1>4. first' \in Nat /\ (first' = first \/ (first = Never /\ first' = now))
  <2>1. first' = IF first = Never THEN now ELSE first
    BY DEF Request
  <2>2. first \in Nat /\ now \in Nat
    BY <1>1 DEF StateTyped
  <2> QED BY <2>1, <2>2
<1>5. StateTyped'
  BY <1>1, <1>3, <1>4 DEF StateTyped
<1>6. ASSUME NEW x \in Seen, Gone(x[2]) \/ Known(x[1], x[2])
      PROVE  Gone(x[2])' \/ Known(x[1], x[2])'
  <2>1. x[1] \in Dates
    BY DEF HistoryIInv, HistoryTyped, DaysInv
  <2>2. CASE Gone(x[2])
    <3>1. now # Never /\ Never' = Never
      BY <1>1, HistoryAssumption DEF Never, StateTyped
    <3> QED BY <1>1, <1>4, <2>2, <3>1 DEF Gone
  <2>3. CASE Known(x[1], x[2])
    BY <1>3, <2>1, <2>3 DEF Known
  <2> QED BY <1>6, <2>2, <2>3
<1>7. SameInv'
  <2>1. CASE Tasks <= 1
    BY <2>1 DEF SameInv
  <2>2. CASE ~(Tasks <= 1)
    <3>1. Tasks # 1
      BY <2>2, HistoryAssumption
    <3>2. \A s \in inflight : s.snapshot.end < now
      BY <3>1 DEF Request
    <3>3. \A s \in inflight : s.snapshot.end # now
      BY <1>1, <3>2 DEF HistoryIInv, HistoryTyped, SnapshotsInv, Timed, StateTyped
    <3> QED BY <1>1, <3>3 DEF SameInv
  <2> QED BY <2>1, <2>2
<1>8. now <= now'
  BY <1>1 DEF StateTyped
<1> QED BY <1>1, <1>5, <1>6, <1>7, <1>8, UpstreamKeepsHistoryIInv

(* A correction leaves the instants of all days alone.                     *)
LEMMA CorrectKeepsHistoryIInv ==
    ASSUME HistoryIInv, NEW m \in Model, Correct(m) PROVE HistoryIInv'
<1>1. StateTyped /\ now' = now /\ correcting /\ correcting' = correcting /\ first' = first
      /\ inflight' = inflight /\ segments' = segments
  BY DEF HistoryIInv, HistoryTyped, Correct
<1>2. usage' \in [Dates -> [Model -> Nat]]
  <2>1. PICK d \in Dates :
           /\ usage[d][m] > 0
           /\ LET without == [usage[d] EXCEPT ![m] = @ - 1] IN
              \/ usage' = [usage EXCEPT ![d] = without]
              \/ \E n \in Model \ {m} :
                     usage' = [usage EXCEPT ![d] = [without EXCEPT ![n] = @ + 1]]
    BY DEF Correct
  <2> DEFINE without == [usage[d] EXCEPT ![m] = @ - 1]
  <2>2. without \in [Model -> Nat]
    BY <1>1, <2>1 DEF StateTyped
  <2>3. \A n \in Model : [without EXCEPT ![n] = @ + 1] \in [Model -> Nat]
    BY <2>2
  <2>4. PICK of \in [Model -> Nat] : usage' = [usage EXCEPT ![d] = of]
    BY <2>1, <2>2, <2>3
  <2> QED BY <1>1, <2>4 DEF StateTyped
<1>3. StateTyped'
  BY <1>1, <1>2 DEF StateTyped
<1>4. now <= now'
  BY <1>1 DEF StateTyped
<1> QED BY <1>1, <1>3, <1>4, UpstreamKeepsHistoryIInv

(* A step that stores or drops snapshots.                                  *)
LEMMA StoreKeepsHistoryIInv ==
    ASSUME HistoryIInv, UNCHANGED <<correcting, now, first, usage>>,
           inflight' \subseteq inflight, Seen' \subseteq Seen, IsSegments(segments')
    PROVE  HistoryIInv'
<1>1. StateTyped'
  BY FS_Subset DEF HistoryIInv, HistoryTyped, StateTyped
<1>2. DaysInv' /\ SnapshotsInv'
  BY DEF HistoryIInv, HistoryTyped, DaysInv, SnapshotsInv
<1>3. ~correcting => KnownInv'
  BY DEF HistoryIInv, KnownInv, Gone, Known
<1>4. ~correcting => OrderInv'
  BY DEF HistoryIInv, OrderInv
<1>5. ~correcting => SameInv'
  <2>1. Lifetime' = Lifetime
    BY DEF Lifetime
  <2> QED BY <2>1 DEF HistoryIInv, SameInv
<1> QED BY <1>1, <1>2, <1>3, <1>4, <1>5 DEF HistoryIInv, HistoryTyped

(* What SaveDaily stores was a day of the snapshot.                        *)
LEMMA SaveKeepsHistoryIInv ==
    ASSUME HistoryIInv, NEW s \in inflight, Save(s) PROVE HistoryIInv'
<1>1. IsSegments(segments) /\ Timed(s.snapshot)
  BY DEF HistoryIInv, HistoryTyped, StateTyped, SnapshotsInv
<1>2. segments' = SaveSegments(segments, s.snapshot) /\ inflight' = inflight \ {s}
      /\ UNCHANGED <<correcting, now, first, usage>>
  BY DEF Save
<1>3. IsSegments(segments')
  BY <1>1, <1>2, SaveKeepsSegments
<1>4. DaysOf(segments') \subseteq DaysOf(segments) \cup DaysIn(s.snapshot)
  BY <1>1, <1>2, SaveDays
<1>5. Seen' = DaysOf(segments') \cup UNION {DaysIn(t.snapshot) : t \in inflight'}
  BY DEF Seen, DaysOf, DaysIn, AllRows
<1>6. Seen' \subseteq Seen
  BY <1>2, <1>4, <1>5 DEF Seen
<1> QED BY <1>2, <1>3, <1>6, StoreKeepsHistoryIInv

(* A snapshot is lost.                                                     *)
LEMMA LoseKeepsHistoryIInv ==
    ASSUME HistoryIInv, NEW s \in inflight, Lose(s) PROVE HistoryIInv'
<1>1. segments' = segments /\ inflight' = inflight \ {s}
      /\ UNCHANGED <<correcting, now, first, usage>>
  BY DEF Lose
<1>2. Seen' = DaysOf(segments') \cup UNION {DaysIn(t.snapshot) : t \in inflight'}
  BY DEF Seen, DaysOf, DaysIn, AllRows
<1>3. Seen' \subseteq Seen /\ IsSegments(segments')
  BY <1>1, <1>2 DEF Seen, HistoryIInv, HistoryTyped, StateTyped
<1> QED BY <1>1, <1>3, StoreKeepsHistoryIInv

(* A new snapshot is taken after all days that are known.                  *)
LEMMA FetchKeepsHistoryIInv ==
    ASSUME HistoryIInv, Fetch PROVE HistoryIInv'
<1> DEFINE s == [epoch |-> epoch, snapshot |-> Lifetime]
<1>1. /\ StateTyped /\ DaysInv /\ SnapshotsInv
      /\ inflight' = inflight \cup {s} /\ segments' = segments
      /\ UNCHANGED <<correcting, now, first, usage>>
  BY DEF HistoryIInv, HistoryTyped, Fetch
<1>2. s.snapshot = Lifetime
  OBVIOUS
<1> HIDE DEF s
<1>3. StateTyped'
  BY <1>1, FS_AddElement DEF StateTyped
<1>4. Seen' = Seen \cup DaysIn(Lifetime)
  <2>1. Seen' = DaysOf(segments') \cup UNION {DaysIn(t.snapshot) : t \in inflight'}
    BY DEF Seen, DaysOf, DaysIn, AllRows
  <2> QED BY <1>1, <1>2, <2>1 DEF Seen
<1>5. DaysInv'
  <2>1. now \in Int
    BY <1>1 DEF StateTyped
  <2> QED BY <1>1, <1>4, <2>1, LifetimeIsKnown DEF DaysInv
<1>6. SnapshotsInv'
  <2>1. now \in Int
    BY <1>1 DEF StateTyped
  <2> QED BY <1>1, <1>2, <2>1, LifetimeIsTimed DEF SnapshotsInv
<1>7. ASSUME ~correcting PROVE KnownInv'
  BY <1>1, <1>4, <1>7, LifetimeIsKnown DEF HistoryIInv, KnownInv, Gone, Known
<1>8. Lifetime' = Lifetime
  BY <1>1 DEF Lifetime
<1>9. ASSUME ~correcting PROVE SameInv'
  BY <1>1, <1>2, <1>8, <1>9 DEF HistoryIInv, SameInv
(* Beside a snapshot that was taken a moment ago, there is another task    *)
(* only if snapshots of one instant are the same.                          *)
<1>10. ASSUME ~correcting, NEW t \in inflight, t.snapshot.end = now
       PROVE  t.snapshot = Lifetime
  <2>1. CASE Tasks <= 1
    <3>1. Cardinality(inflight) \in Nat /\ (Cardinality(inflight) = 0 <=> inflight = {})
      BY <1>1, FS_CardinalityType, FS_EmptySet DEF StateTyped
    <3>2. Cardinality(inflight) < Tasks
      BY DEF Fetch
    <3> QED BY <2>1, <3>1, <3>2, HistoryAssumption
  <2>2. CASE ~(Tasks <= 1)
    BY <1>10, <2>2 DEF HistoryIInv, SameInv
  <2> QED BY <2>1, <2>2
<1>11. ASSUME ~correcting, NEW x \in Seen', x[1] \in DOMAIN Lifetime.days
       PROVE  Follows(x[2], Lifetime.days[x[1]])
  <2>1. StoredOk(x[2]) /\ x[2].start < x[2].end
    BY <1>5 DEF DaysInv
  <2>2. Gone(x[2]) \/ Known(x[1], x[2])
    BY <1>4, <1>1, <1>11, LifetimeIsKnown DEF HistoryIInv, KnownInv
  <2> QED BY <1>1, <1>11, <2>1, <2>2, LifetimeFollows
<1>12. ASSUME ~correcting PROVE OrderInv'
  <2> SUFFICES ASSUME NEW x \in Seen', NEW t \in inflight',
                      x[1] \in DOMAIN t.snapshot.days,
                      x[2].snap <= t.snapshot.end
               PROVE  Follows(x[2], t.snapshot.days[x[1]])
    BY DEF OrderInv, Follows, DetailsRegressed, TotalsRegressed
  <2>1. CASE t = s
    BY <1>2, <1>11, <1>12, <2>1
  <2>2. CASE t \in inflight /\ x \in Seen
    BY <1>12, <2>2 DEF HistoryIInv, OrderInv
  <2>3. CASE t \in inflight /\ x \in DaysIn(Lifetime)
    <3>1. x[2].snap = now /\ t.snapshot.end <= now /\ t.snapshot.end \in Int /\ now \in Int
      BY <1>1, <2>3, LifetimeIsKnown DEF SnapshotsInv, Timed, StateTyped
    <3>2. t.snapshot = Lifetime
      BY <1>10, <1>12, <2>3, <3>1
    <3> QED BY <1>11, <1>12, <3>2
  <2> QED BY <1>1, <1>4, <2>1, <2>2, <2>3
<1> QED BY <1>1, <1>3, <1>5, <1>6, <1>7, <1>9, <1>12 DEF HistoryIInv, HistoryTyped

(* Whatever is rebuilt, lost or late: reports follow each other, unless    *)
(* upstream corrects past dates.                                           *)
THEOREM SpecHistoryIInv == Spec => []HistoryIInv
<1>1. HistoryIInv /\ [Next]_vars => HistoryIInv'
  <2> SUFFICES ASSUME HistoryIInv, [Next]_vars PROVE HistoryIInv'
    OBVIOUS
  <2>1. CASE UNCHANGED vars
    <3>1. UNCHANGED <<correcting, now, first, usage, inflight, segments>>
      BY <2>1 DEF vars
    <3>2. Seen' = Seen
      BY <3>1 DEF Seen, DaysOf, DaysIn, AllRows
    <3> QED BY <3>1, <3>2, StoreKeepsHistoryIInv DEF HistoryIInv, HistoryTyped, StateTyped
  <2> QED BY <2>1, TickKeepsHistoryIInv, RebuildKeepsHistoryIInv, FetchKeepsHistoryIInv,
             RequestKeepsHistoryIInv, CorrectKeepsHistoryIInv, SaveKeepsHistoryIInv,
             LoseKeepsHistoryIInv DEF Next
<1> QED BY <1>1, InitHistoryIInv, PTL DEF Spec

-----------------------------------------------------------------------------
(* A snapshot under way is valid.                                          *)
LEMMA SnapshotIsValid ==
    ASSUME HistoryTyped, NEW s \in inflight, s.snapshot.end > 0
    PROVE  ValidDaily(s.snapshot)
<1> SUFFICES ASSUME NEW d \in DOMAIN s.snapshot.days
             PROVE  LET day == s.snapshot.days[d] IN
                    /\ 0 <= day.start /\ day.start < day.end
                    /\ day.end <= s.snapshot.end
  BY DEF ValidDaily
<1> DEFINE x == <<d, StoredDay(s.snapshot.days[d], s.snapshot.end)>>
<1>1. x \in DaysIn(s.snapshot)
  BY DEF DaysIn
<1>2. x \in Seen
  BY <1>1 DEF Seen
<1>3. x[2].start < x[2].end /\ x[2].end <= x[2].snap
  BY <1>2 DEF HistoryTyped, DaysInv
<1>4. 0 <= x[2].start
  <2>1. x[1] \in Nat /\ DayLength \in Nat /\ x[2].start \in Int
    BY <1>2, HistoryAssumption DEF HistoryTyped, DaysInv, StoredOk, Dates
  <2>2. x[1] * DayLength <= x[2].start
    BY <1>2 DEF HistoryTyped, DaysInv
  <2>3. x[1] * DayLength \in Nat
    BY <2>1
  <2> QED BY <2>1, <2>2, <2>3
<1> QED BY <1>3, <1>4 DEF StoredDay

(* Whatever lifetimes of the upstream database, lost and late snapshots    *)
(* came before: if upstream takes nothing back, validateDaily accepts each *)
(* of its snapshots, and where validateDetails would refuse one, saveAt    *)
(* has seen that upstream was rebuilt.                                     *)
THEOREM SpecNeverRefused == Spec => [](~correcting => NeverRefused)
<1>1. HistoryIInv => (~correcting => NeverRefused)
  <2> SUFFICES ASSUME HistoryIInv, ~correcting, NEW s \in inflight, s.snapshot.end > 0
               PROVE  Accepted(segments, s.snapshot)
    BY DEF NeverRefused
  <2> DEFINE latest == Last(OpenSegments(segments, s.snapshot))
  <2>1. HistoryTyped /\ OrderInv /\ IsSegments(segments)
    BY DEF HistoryIInv, HistoryTyped, StateTyped
  <2>2. ValidDaily(s.snapshot)
    BY <2>1, SnapshotIsValid
  <2>3. ASSUME NEW d \in DOMAIN latest.days PROVE <<d, latest.days[d]>> \in Seen
    <3> DEFINE open == OpenSegments(segments, s.snapshot)
    <3>1. IsSegments(open) /\ open # <<>> /\ DaysOf(open) = DaysOf(segments)
      BY <2>1, OpenSegmentsAreSegments, OpenDays
    <3>2. Len(open) \in DOMAIN open /\ latest = open[Len(open)]
      BY <3>1, LastSegment
    <3>3. <<d, latest.days[d]>> \in DaysOf(open)
      BY <2>3, <3>2, DaysOfMember
    <3> QED BY <3>1, <3>3 DEF Seen
  <2>4. ASSUME NEW d \in Comparable(latest, s.snapshot),
               DetailsRegressed(latest.days[d], s.snapshot.days[d])
        PROVE  d \in ResetDates(latest, s.snapshot)
    <3>1. /\ d \in DOMAIN latest.days /\ d \in DOMAIN s.snapshot.days
          /\ latest.days[d].end = latest.days[d].snap
          /\ s.snapshot.end >= latest.days[d].snap
      BY <2>4 DEF Comparable, MutableDates
    <3> DEFINE x == <<d, latest.days[d]>>
    <3>2. x \in Seen
      BY <2>3, <3>1
    <3>3. Follows(x[2], s.snapshot.days[x[1]])
      <4>1. x[1] = d /\ x[2] = latest.days[d]
        OBVIOUS
      <4>2. x[2].snap <= s.snapshot.end
        BY <2>1, <3>1, <3>2, <4>1 DEF HistoryTyped, DaysInv, SnapshotsInv, StoredOk, Timed
      <4> HIDE DEF x, latest
      <4> QED BY <2>1, <3>1, <3>2, <4>1, <4>2 DEF OrderInv
    <3>4. SnapshotReset(latest.days[d], s.snapshot.days[d])
      BY <2>4, <3>3 DEF Follows, SnapshotReset
    <3> QED BY <2>4, <3>4 DEF ResetDates
  <2>5. ResetDates(latest, s.snapshot) = {} => ~Incomplete(latest, s.snapshot)
    BY <2>4 DEF Incomplete
  <2> QED BY <2>2, <2>5 DEF Accepted
<1> QED BY <1>1, SpecHistoryIInv, PTL

(* LoadDaily selects by the start of a day what a reader selects by date:  *)
(* a day of a cut off bucket, the first or the last one of a lifetime of   *)
(* upstream, belongs to the same periods as the other days of its date.    *)
THEOREM SpecPeriodsAgree == Spec => []PeriodsAgree
<1>1. HistoryIInv => PeriodsAgree
  <2> SUFFICES ASSUME HistoryTyped, NEW d \in Dates
               PROVE  /\ LoadedDates(segments, d * DayLength, now)
                           = {x \in LoadedDates(segments, 0, now) : x >= d}
                      /\ \A x \in Dates : x >= d =>
                            LoadedTotal(segments, d * DayLength, now, x, "tokens") = Loaded(x)
    BY DEF PeriodsAgree, HistoryIInv
  <2> DEFINE startOf(r) == segments[r[1]].days[r[2]].start
             from == d * DayLength
  <2>1. d \in Nat /\ from \in Int
    BY DatesAreNumbers, DayStart
  <2>2. ASSUME NEW r \in AllRows(segments)
        PROVE  /\ r[2] \in Nat /\ startOf(r) \in Int /\ 0 <= startOf(r)
               /\ startOf(r) >= from <=> r[2] >= d
    <3> DEFINE x == <<r[2], segments[r[1]].days[r[2]]>>
    <3>1. x \in Seen
      BY DEF Seen, DaysOf
    <3>2. /\ r[2] \in Dates /\ startOf(r) \in Int
          /\ r[2] * DayLength <= startOf(r)
          /\ startOf(r) < x[2].end /\ x[2].end <= (r[2] + 1) * DayLength
          /\ x[2].end \in Int
      BY <3>1 DEF HistoryTyped, DaysInv, StoredOk
    <3> HIDE DEF x, startOf, from
    <3>3. r[2] \in Nat /\ r[2] * DayLength \in Int /\ (r[2] + 1) * DayLength \in Int
      <4>1. r[2] \in Nat
        BY <3>2, DatesAreNumbers
      <4>2. r[2] + 1 \in Int
        BY <4>1
      <4> QED BY <4>1, <4>2, DayStart
    <3>4. 0 <= r[2] * DayLength
      BY <3>3, DayStart
    <3>5. d <= r[2] => from <= r[2] * DayLength
      BY <2>1, <3>3, DayStart DEF from
    <3>6. r[2] < d => (r[2] + 1) * DayLength <= from
      BY <2>1, <3>3, DayStart DEF from
    <3> QED BY <2>1, <3>2, <3>3, <3>4, <3>5, <3>6
  <2>3. Rows(segments, from, now) = {r \in Rows(segments, 0, now) : r[2] >= d}
    BY <2>2 DEF Rows
  <2>4. LoadedDates(segments, from, now) = {x \in LoadedDates(segments, 0, now) : x >= d}
    BY <2>3 DEF LoadedDates
  <2>5. ASSUME NEW x \in Dates, x >= d
        PROVE  LoadedTotal(segments, from, now, x, "tokens") = Loaded(x)
    <3>1. {r \in Rows(segments, from, now) : r[2] = x} = {r \in Rows(segments, 0, now) : r[2] = x}
      BY <2>3, <2>5
    <3> QED BY <3>1 DEF LoadedTotal, Loaded
  <2> QED BY <2>4, <2>5
<1> QED BY <1>1, SpecHistoryIInv, PTL

-----------------------------------------------------------------------------
(***************************************************************************)
(* Sums: the models of a day, and the rows of a date.                      *)
(***************************************************************************)
Details(day) == [m \in Model |-> Amount(day.details, m)]

(* The models of a day add up to its total.                                *)
AddsUp(day) ==
    /\ DOMAIN day.totals = {"tokens"}
    /\ \A m \in Model : Amount(day.details, m) \in Nat
    /\ day.totals["tokens"] = SumFunctionOnSet(Details(day), Model)

SumsInv == \A x \in Seen : AddsUp(x[2])

(* The total of a day is not negative.                                     *)
LEMMA TotalIsNumber ==
    ASSUME NEW day, AddsUp(day)
    PROVE  /\ day.totals["tokens"] \in Int /\ 0 <= day.totals["tokens"]
           /\ Amount(day.totals, "tokens") = day.totals["tokens"]
<1> DEFINE zero == [m \in Model |-> 0]
<1>1. \A m \in Model : Details(day)[m] \in Nat
  BY DEF AddsUp, Details
<1>2. IsFiniteSet(Model)
  BY HistoryAssumption
<1>3. \A m \in Model : /\ Details(day)[m] \in Int /\ zero[m] = 0
                       /\ zero[m] \in Int /\ zero[m] <= Details(day)[m]
  BY <1>1
<1> HIDE DEF zero
<1>4. SumFunctionOnSet(Details(day), Model) \in Int
  BY <1>2, <1>3, SumIsInt
<1>5. SumFunctionOnSet(zero, Model) = 0
  BY <1>2, <1>3, SumOfZeros
<1>6. SumFunctionOnSet(zero, Model) <= SumFunctionOnSet(Details(day), Model)
  BY <1>2, <1>3, SumIsMonotone
<1> QED BY <1>4, <1>5, <1>6 DEF AddsUp, Amount

(* With none of its details smaller, the total of a day is not smaller.    *)
LEMMA TotalsFollow ==
    ASSUME NEW day, AddsUp(day), NEW later, AddsUp(later),
           ~DetailsRegressed(day, later)
    PROVE  day.totals["tokens"] <= later.totals["tokens"]
<1>1. ASSUME NEW m \in Model
      PROVE  /\ Details(day)[m] \in Int /\ Details(later)[m] \in Int
             /\ Details(day)[m] <= Details(later)[m]
  <2>1. Amount(day.details, m) \in Nat /\ Amount(later.details, m) \in Nat
    BY DEF AddsUp
  <2>2. Amount(day.details, m) <= Amount(later.details, m)
    BY <2>1 DEF Amount, DetailsRegressed, TotalsRegressed
  <2> QED BY <2>1, <2>2 DEF Details
<1>2. IsFiniteSet(Model)
  BY HistoryAssumption
<1>3. SumFunctionOnSet(Details(day), Model) <= SumFunctionOnSet(Details(later), Model)
  BY <1>1, <1>2, SumIsMonotone
<1> QED BY <1>3 DEF AddsUp

(* The report totals what it details.                                      *)
LEMMA LifetimeAddsUp ==
    ASSUME StateTyped, NEW x \in DaysIn(Lifetime) PROVE AddsUp(x[2])
<1> DEFINE d == x[1]
           day == Lifetime.days[d]
<1>1. d \in DOMAIN Lifetime.days /\ x[2].totals = day.totals /\ x[2].details = day.details
  BY DaysInMember
<1>2. /\ d \in Dates
      /\ DOMAIN day.totals = {"tokens"}
      /\ DOMAIN day.details = {m \in Model : usage[d][m] > 0}
      /\ \A m \in DOMAIN day.details : day.details[m] = usage[d][m]
  BY <1>1, LifetimeDays
<1>3. day.totals["tokens"] = Requests(usage, d)
  BY <1>1 DEF Lifetime
<1>4. usage[d] \in [Model -> Nat]
  BY <1>2 DEF StateTyped
<1>5. \A m \in Model : Amount(day.details, m) = usage[d][m]
  BY <1>2, <1>4 DEF Amount
<1>6. Requests(usage, d) = SumFunctionOnSet(usage[d], Model)
  BY <1>4 DEF Requests, SumFunction
<1> HIDE DEF day, d
<1>7. \A m \in Model : usage[d][m] \in Nat
  BY <1>4
<1>8. Details(x[2]) = usage[d]
  BY <1>1, <1>4, <1>5 DEF Details
<1> QED BY <1>1, <1>2, <1>3, <1>5, <1>6, <1>7, <1>8 DEF AddsUp

(* Days are only ever seen first in the report of that moment.             *)
LEMMA SeenAfter ==
    ASSUME HistoryIInv, [Next]_vars
    PROVE  Seen' \subseteq Seen \cup DaysIn(Lifetime)
<1>1. Seen' = DaysOf(segments') \cup UNION {DaysIn(t.snapshot) : t \in inflight'}
  BY DEF Seen, DaysOf, DaysIn, AllRows
<1>2. CASE inflight' = inflight /\ segments' = segments
  BY <1>1, <1>2 DEF Seen
<1>3. CASE Fetch
  <2>1. segments' = segments /\ \A t \in inflight' : t \in inflight \/ t.snapshot = Lifetime
    BY <1>3 DEF Fetch
  <2> QED BY <1>1, <2>1 DEF Seen
<1>4. ASSUME NEW s \in inflight, Save(s) PROVE Seen' \subseteq Seen
  <2>1. IsSegments(segments) /\ Timed(s.snapshot)
    BY DEF HistoryIInv, HistoryTyped, StateTyped, SnapshotsInv
  <2>2. segments' = SaveSegments(segments, s.snapshot) /\ inflight' = inflight \ {s}
    BY <1>4 DEF Save
  <2>3. DaysOf(segments') \subseteq DaysOf(segments) \cup DaysIn(s.snapshot)
    BY <2>1, <2>2, SaveDays
  <2> QED BY <1>1, <2>2, <2>3 DEF Seen
<1>5. ASSUME NEW s \in inflight, Lose(s) PROVE Seen' \subseteq Seen
  BY <1>1, <1>5 DEF Lose, Seen
<1> QED BY <1>2, <1>3, <1>4, <1>5 DEF Next, vars, Tick, Rebuild, Request, Correct

(* Every day that is stored or under way adds up.                          *)
LEMMA SpecSumsInv == Spec => []SumsInv
<1>1. Init => SumsInv
  <2> SUFFICES ASSUME Init PROVE SumsInv
    OBVIOUS
  <2>1. segments = <<>> /\ inflight = {}
    BY DEF Init
  <2>2. DaysOf(segments) = {}
    BY <2>1, DaysOfMember
  <2> QED BY <2>1, <2>2 DEF SumsInv, Seen
<1>2. HistoryIInv /\ SumsInv /\ [Next]_vars => SumsInv'
  <2> SUFFICES ASSUME HistoryIInv, SumsInv, [Next]_vars PROVE SumsInv'
    OBVIOUS
  <2>1. Seen' \subseteq Seen \cup DaysIn(Lifetime)
    BY SeenAfter
  <2>2. ASSUME NEW x \in Seen' PROVE AddsUp(x[2])
    BY <2>1, LifetimeAddsUp DEF SumsInv, HistoryIInv, HistoryTyped
  <2> QED BY <2>2 DEF SumsInv, AddsUp, Details
<1> QED BY <1>1, <1>2, SpecHistoryIInv, PTL DEF Spec

RowsOf(h, d) == {r \in AllRows(h) : r[2] = d}

(* The rows of a date are the days that its segments store.                *)
LEMMA RowsOfMember ==
    ASSUME NEW h, NEW d
    PROVE  /\ \A r \in RowsOf(h, d) :
                  /\ r[1] \in DOMAIN h /\ d \in DOMAIN h[r[1]].days /\ r = <<r[1], d>>
                  /\ <<d, h[r[1]].days[r[2]]>> \in DaysOf(h)
           /\ \A i \in DOMAIN h : d \in DOMAIN h[i].days => <<i, d>> \in RowsOf(h, d)
<1>1. ASSUME NEW r \in RowsOf(h, d)
      PROVE  /\ r[1] \in DOMAIN h /\ d \in DOMAIN h[r[1]].days /\ r = <<r[1], d>>
             /\ <<d, h[r[1]].days[r[2]]>> \in DaysOf(h)
  <2>1. r \in AllRows(h) /\ r[2] = d
    BY DEF RowsOf
  <2>2. PICK i \in DOMAIN h : r \in {i} \X DOMAIN h[i].days
    BY <2>1 DEF AllRows
  <2>3. r[1] = i /\ r = <<i, d>>
    BY <2>1, <2>2
  <2> QED BY <2>1, <2>2, <2>3 DEF DaysOf
<1>2. ASSUME NEW i \in DOMAIN h, d \in DOMAIN h[i].days
      PROVE  <<i, d>> \in RowsOf(h, d)
  <2>1. <<i, d>> \in {i} \X DOMAIN h[i].days
    BY <1>2
  <2>2. <<i, d>> \in AllRows(h)
    BY <2>1 DEF AllRows
  <2> QED BY <2>2 DEF RowsOf
<1> QED BY <1>1, <1>2

(* There are only finitely many.                                           *)
LEMMA RowsOfFinite ==
    ASSUME NEW h, IsSegments(h), NEW d PROVE IsFiniteSet(RowsOf(h, d))
<1>1. IsFiniteSet(DOMAIN h)
  <2>1. Len(h) \in Nat /\ DOMAIN h = 1 .. Len(h)
    BY SegmentsDomain
  <2> QED BY <2>1, FS_Interval
<1>2. IsFiniteSet((DOMAIN h) \X {d})
  BY <1>1, FS_Singleton, FS_Product
<1>3. RowsOf(h, d) \subseteq (DOMAIN h) \X {d}
  <2>1. \A r \in RowsOf(h, d) : r[1] \in DOMAIN h /\ r = <<r[1], d>>
    BY RowsOfMember
  <2> QED BY <2>1
<1> QED BY <1>2, <1>3, FS_Subset

(* What a row counts.                                                      *)
RowTokens(h, d) ==
    [r \in RowsOf(h, d) |-> Amount(h[r[1]].days[r[2]].totals, "tokens")]

(* Instants at which all days of the segments have begun.                  *)
Begun(h, t) == \A x \in DaysOf(h) : x[2].start \in 0 .. t

(* No stored day begins after now: the period of the dashboard misses none. *)
LEMMA SeenHasBegun ==
    ASSUME HistoryIInv PROVE Begun(segments, now) /\ now \in Int /\ IsSegments(segments)
<1>1. ASSUME NEW x \in DaysOf(segments) PROVE x[2].start \in 0 .. now
  <2> DEFINE d == x[1]
             day == x[2]
  <2>1. x \in Seen
    BY DEF Seen
  <2>2. /\ d \in Dates /\ StoredOk(day) /\ d * DayLength <= day.start
        /\ day.start < day.end /\ day.end <= day.snap /\ day.snap <= now
    BY <2>1 DEF HistoryIInv, HistoryTyped, DaysInv
  <2> HIDE DEF d, day
  <2>3. d \in Nat /\ d * DayLength \in Int /\ 0 <= d * DayLength /\ now \in Int
    BY <2>2, DatesAreNumbers, DayStart DEF HistoryIInv, HistoryTyped, StateTyped
  <2>4. day.start \in 0 .. now
    BY <2>2, <2>3 DEF StoredOk
  <2> QED BY <2>4 DEF day
<1> QED BY <1>1 DEF Begun, HistoryIInv, HistoryTyped, StateTyped

(* LoadDaily of the lifetime selects all rows.                             *)
LEMMA AllRowsLoaded ==
    ASSUME NEW h, IsSegments(h), NEW t \in Int, Begun(h, t), NEW d
    PROVE  /\ {r \in Rows(h, 0, t) : r[2] = d} = RowsOf(h, d)
           /\ IsFiniteSet(RowsOf(h, d))
           /\ LoadedTotal(h, 0, t, d, "tokens")
                = SumFunctionOnSet(RowTokens(h, d), RowsOf(h, d))
<1>1. ASSUME NEW r \in RowsOf(h, d) PROVE r \in Rows(h, 0, t)
  <2> DEFINE day == h[r[1]].days[r[2]]
             x == <<d, day>>
  <2>1. x \in DaysOf(h) /\ r \in AllRows(h)
    BY RowsOfMember DEF RowsOf
  <2>2. x[2].start \in 0 .. t /\ x[2] = day
    BY <2>1 DEF Begun
  <2> HIDE DEF x, day
  <2>3. day.start >= 0 /\ day.start <= t
    BY <2>2
  <2> QED BY <2>1, <2>3 DEF Rows, day
<1>2. {r \in Rows(h, 0, t) : r[2] = d} = RowsOf(h, d)
  BY <1>1 DEF Rows, RowsOf
<1>3. LoadedTotal(h, 0, t, d, "tokens") = SumFunctionOnSet(RowTokens(h, d), RowsOf(h, d))
  BY <1>2 DEF LoadedTotal, RowsTotal, SumFunction, RowTokens
<1> QED BY <1>2, <1>3, RowsOfFinite

(* The models of a date add up to its total, over all segments, whatever   *)
(* is rebuilt, lost, late or corrected: both are sums over the same rows,  *)
(* of days whose models add up.                                            *)
THEOREM SpecModelsAddUp == Spec => []ModelsAddUp
<1>1. HistoryIInv /\ SumsInv => ModelsAddUp
  <2> SUFFICES ASSUME HistoryIInv, SumsInv, NEW d \in Dates
               PROVE  Loaded(d) = SumFunction([m \in Model |->
                                      LoadedDetail(segments, 0, now, d, m)])
    BY DEF ModelsAddUp
  <2> DEFINE R == RowsOf(segments, d)
             day(r) == segments[r[1]].days[r[2]]
             total == RowTokens(segments, d)
             rows == [m \in Model |-> [r \in R |-> Amount(day(r).details, m)]]
             models == [r \in R |-> Details(day(r))]
             sums == [m \in Model |-> LoadedDetail(segments, 0, now, d, m)]
  <2>1. {r \in Rows(segments, 0, now) : r[2] = d} = R /\ IsFiniteSet(R)
    BY AllRowsLoaded, SeenHasBegun
  <2>2. Loaded(d) = SumFunctionOnSet(total, R)
    BY AllRowsLoaded, SeenHasBegun DEF Loaded
  <2>3. \A m \in Model : sums[m] = SumFunctionOnSet(rows[m], R)
    BY <2>1 DEF LoadedDetail, SumFunction
  <2>4. SumFunction(sums) = SumFunctionOnSet(sums, Model)
    BY DEF SumFunction
  <2>5. ASSUME NEW r \in R
        PROVE  /\ total[r] = SumFunctionOnSet(models[r], Model)
               /\ \A m \in Model : models[r][m] \in Int /\ models[r][m] = rows[m][r]
    <3>1. <<d, day(r)>> \in Seen
      BY RowsOfMember DEF Seen
    <3>2. AddsUp(day(r))
      BY <3>1 DEF SumsInv
    <3>3. total[r] = day(r).totals["tokens"]
      BY <3>2 DEF AddsUp, Amount, RowTokens
    <3>4. models[r] = Details(day(r)) /\ \A m \in Model : models[r][m] = rows[m][r]
      BY DEF Details
    <3>5. \A m \in Model : Details(day(r))[m] \in Int
      BY <3>2 DEF AddsUp, Details
    <3> HIDE DEF total, models, rows, day, R
    <3> QED BY <3>2, <3>3, <3>4, <3>5 DEF AddsUp
  <2>6. IsFiniteSet(Model)
    BY HistoryAssumption
  <2> HIDE DEF R, total, rows, models, sums
  <2>7. SumFunctionOnSet(total, R) = SumFunctionOnSet(sums, Model)
    <3>1. SumFunctionOnSet([r \in R |-> SumFunctionOnSet(models[r], Model)], R)
            = SumFunctionOnSet([m \in Model |-> SumFunctionOnSet(rows[m], R)], Model)
      <4>1. \A r \in R : \A m \in Model :
                models[r][m] \in Int /\ models[r][m] = rows[m][r]
        BY <2>5
      <4>2. IsFiniteSet(R)
        BY <2>1
      <4> QED BY <4>1, <4>2, <2>6, SumOfSums
    <3>2. total = [r \in R |-> SumFunctionOnSet(models[r], Model)]
      <4>1. total = [r \in R |-> total[r]]
        BY DEF total, R, RowTokens
      <4> QED BY <2>5, <4>1
    <3>3. sums = [m \in Model |-> SumFunctionOnSet(rows[m], R)]
      BY <2>3 DEF sums
    <3> QED BY <3>1, <3>2, <3>3
  <2> QED BY <2>2, <2>4, <2>7 DEF sums
<1> QED BY <1>1, SpecHistoryIInv, SpecSumsInv, PTL

-----------------------------------------------------------------------------
(***************************************************************************)
(* What is shown never shrinks: no stored day is replaced by a smaller     *)
(* one, and what is shown stays in the period that ends now.               *)
(***************************************************************************)
(* The instants of a stored day.                                           *)
LEMMA RowFacts ==
    ASSUME HistoryIInv, NEW i \in DOMAIN segments, NEW d \in DOMAIN segments[i].days
    PROVE  LET day == segments[i].days[d] IN
           /\ <<d, day>> \in Seen
           /\ d \in Dates /\ d \in Nat
           /\ d * DayLength \in Int /\ (d + 1) * DayLength \in Int
           /\ day.start \in Int /\ day.end \in Int /\ day.snap \in Int
           /\ d * DayLength <= day.start /\ day.start < day.end
           /\ day.end <= (d + 1) * DayLength
           /\ day.end <= day.snap /\ day.snap <= now /\ day.snap > 0
<1> DEFINE day == segments[i].days[d]
<1>1. <<d, day>> \in Seen
  BY DaysOfMember DEF Seen
<1> HIDE DEF day
<1>2. /\ d \in Dates /\ StoredOk(day)
      /\ d * DayLength <= day.start /\ day.start < day.end
      /\ day.end <= (d + 1) * DayLength /\ day.end <= day.snap /\ day.snap <= now
  BY <1>1 DEF HistoryIInv, HistoryTyped, DaysInv
<1>3. d \in Nat /\ d + 1 \in Int
  BY <1>2, DatesAreNumbers
<1>4. d * DayLength \in Int /\ (d + 1) * DayLength \in Int /\ 0 <= d * DayLength
  BY <1>3, DayStart
<1> QED BY <1>1, <1>2, <1>3, <1>4 DEF StoredOk, day

(* A day ends with its date, or when its snapshot was taken.               *)
EndsInv == \A x \in Seen : x[2].end = MinOf(x[2].snap, (x[1] + 1) * DayLength)

(* Days are cut off only by their snapshot.                                *)
LEMMA SpecEndsInv == Spec => []EndsInv
<1>1. Init => EndsInv
  <2> SUFFICES ASSUME Init PROVE EndsInv
    OBVIOUS
  <2>1. segments = <<>> /\ inflight = {}
    BY DEF Init
  <2>2. DaysOf(segments) = {}
    BY <2>1, DaysOfMember
  <2> QED BY <2>1, <2>2 DEF EndsInv, Seen
<1>2. HistoryIInv /\ EndsInv /\ [Next]_vars => EndsInv'
  <2> SUFFICES ASSUME HistoryIInv, EndsInv, [Next]_vars,
                      NEW x \in Seen'
               PROVE  x[2].end = MinOf(x[2].snap, (x[1] + 1) * DayLength)
    BY DEF EndsInv, MinOf
  <2>1. CASE x \in Seen
    BY <2>1 DEF EndsInv
  <2>2. CASE x \in DaysIn(Lifetime)
    <3>1. /\ x[1] \in DOMAIN Lifetime.days /\ x[2].snap = Lifetime.end
          /\ x[2].end = Lifetime.days[x[1]].end
      BY <2>2, DaysInMember
    <3>2. Lifetime.end = now
      BY DEF Lifetime
    <3>3. Lifetime.days[x[1]].end = MinOf(now, (x[1] + 1) * DayLength)
      BY <3>1 DEF Lifetime
    <3> QED BY <3>1, <3>2, <3>3
  <2> QED BY <2>1, <2>2, SeenAfter
<1> QED BY <1>1, <1>2, SpecHistoryIInv, PTL DEF Spec

(* Rows that stay and count no less load no less.                          *)
LEMMA MoreIsLoaded ==
    ASSUME NEW h, IsSegments(h), NEW t \in Int, Begun(h, t),
           NEW n, IsSegments(n), NEW u \in Int, Begun(n, u), NEW d,
           \A x \in DaysOf(h) \cup DaysOf(n) : AddsUp(x[2]),
           \A i \in DOMAIN h : d \in DOMAIN h[i].days =>
               /\ i \in DOMAIN n /\ d \in DOMAIN n[i].days
               /\ h[i].days[d].totals["tokens"] <= n[i].days[d].totals["tokens"]
    PROVE  LoadedTotal(h, 0, t, d, "tokens") <= LoadedTotal(n, 0, u, d, "tokens")
<1> DEFINE R == RowsOf(h, d)
           S == RowsOf(n, d)
           a == RowTokens(h, d)
           b == RowTokens(n, d)
           c == [r \in S |-> IF r \in R THEN a[r] ELSE 0]
<1>1. /\ IsFiniteSet(R) /\ LoadedTotal(h, 0, t, d, "tokens") = SumFunctionOnSet(a, R)
      /\ IsFiniteSet(S) /\ LoadedTotal(n, 0, u, d, "tokens") = SumFunctionOnSet(b, S)
  BY AllRowsLoaded
<1>2. ASSUME NEW r \in R
      PROVE  /\ r[1] \in DOMAIN h /\ r = <<r[1], d>> /\ d \in DOMAIN h[r[1]].days
             /\ a[r] = h[r[1]].days[d].totals["tokens"] /\ a[r] \in Int
  <2>1. /\ r[1] \in DOMAIN h /\ d \in DOMAIN h[r[1]].days /\ r = <<r[1], d>>
        /\ <<d, h[r[1]].days[r[2]]>> \in DaysOf(h) /\ r[2] = d
    BY RowsOfMember DEF RowsOf
  <2>2. AddsUp(h[r[1]].days[d])
    BY <2>1
  <2>3. a[r] = Amount(h[r[1]].days[d].totals, "tokens")
    BY <2>1 DEF RowTokens
  <2> HIDE DEF a, R
  <2> QED BY <2>1, <2>2, <2>3, TotalIsNumber
<1>3. ASSUME NEW r \in S
      PROVE  /\ r[1] \in DOMAIN n /\ r = <<r[1], d>> /\ d \in DOMAIN n[r[1]].days
             /\ b[r] = n[r[1]].days[d].totals["tokens"] /\ b[r] \in Int /\ 0 <= b[r]
  <2>1. /\ r[1] \in DOMAIN n /\ d \in DOMAIN n[r[1]].days /\ r = <<r[1], d>>
        /\ <<d, n[r[1]].days[r[2]]>> \in DaysOf(n) /\ r[2] = d
    BY RowsOfMember DEF RowsOf
  <2>2. AddsUp(n[r[1]].days[d])
    BY <2>1
  <2>3. b[r] = Amount(n[r[1]].days[d].totals, "tokens")
    BY <2>1 DEF RowTokens
  <2> HIDE DEF b, S
  <2> QED BY <2>1, <2>2, <2>3, TotalIsNumber
<1>4. ASSUME NEW r \in R PROVE r \in S
  <2>1. r[1] \in DOMAIN h /\ r = <<r[1], d>> /\ d \in DOMAIN h[r[1]].days
    BY <1>2
  <2>2. r[1] \in DOMAIN n /\ d \in DOMAIN n[r[1]].days
    BY <2>1
  <2> QED BY <2>1, <2>2, RowsOfMember
<1>5. ASSUME NEW r \in S PROVE c[r] \in Int /\ c[r] <= b[r]
  <2>1. CASE r \in R
    <3>1. h[r[1]].days[d].totals["tokens"] <= n[r[1]].days[d].totals["tokens"]
      BY <1>2, <2>1
    <3> QED BY <1>2, <1>3, <2>1, <3>1
  <2>2. CASE r \notin R
    BY <1>3, <2>2
  <2> QED BY <2>1, <2>2
<1> HIDE DEF R, S, a, b
<1>6. R \in SUBSET S /\ (\A r \in S \ R : c[r] = 0) /\ (\A r \in R : c[r] = a[r])
  BY <1>4
<1> HIDE DEF c
<1>7. SumFunctionOnSet(c, S) = SumFunctionOnSet(c, R)
  BY <1>1, <1>5, <1>6, SumOfOthersIsZero
<1>8. SumFunctionOnSet(c, R) = SumFunctionOnSet(a, R)
  <2>1. IsFiniteSet(R) /\ \A r \in R : c[r] \in Int /\ c[r] = a[r]
    BY <1>1, <1>2, <1>6
  <2> QED BY <2>1, SumOfSame
<1>9. SumFunctionOnSet(c, S) <= SumFunctionOnSet(b, S)
  <2>1. IsFiniteSet(S) /\ \A r \in S : c[r] \in Int /\ b[r] \in Int /\ c[r] <= b[r]
    BY <1>1, <1>3, <1>5
  <2> QED BY <2>1, SumIsMonotone
<1> QED BY <1>1, <1>7, <1>8, <1>9

(* A day is only replaced by one that counts no less: a smaller one would  *)
(* have shown a rebuild.                                                   *)
LEMMA ReplacedDayGrows ==
    ASSUME HistoryIInv, SumsInv, EndsInv, ~correcting, NEW s \in inflight,
           NEW i \in DOMAIN segments, NEW d \in DOMAIN segments[i].days,
           d \in Replaced(segments[i], s.snapshot),
           ResetDates(segments[i], s.snapshot) = {}
    PROVE  LET later == StoredDay(s.snapshot.days[d], s.snapshot.end) IN
           segments[i].days[d].totals["tokens"] <= later.totals["tokens"]
<1> DEFINE day == segments[i].days[d]
           next == s.snapshot.days[d]
           later == StoredDay(next, s.snapshot.end)
           x == <<d, day>>
           y == <<d, later>>
<1>1. /\ d \in DOMAIN s.snapshot.days /\ d >= segments[i].start
      /\ s.snapshot.end >= day.snap
  BY DEF Replaced
<1>2. x \in Seen /\ day.snap \in Int /\ (d + 1) * DayLength \in Int
  BY RowFacts
<1>3. y \in Seen
  BY <1>1 DEF Seen, DaysIn
<1>4. /\ next.start \in Int /\ next.end \in Int /\ s.snapshot.end \in Int
      /\ next.start < next.end /\ next.end <= (d + 1) * DayLength
  <2>1. later.start = next.start /\ later.end = next.end
    BY DEF StoredDay
  <2>2. y[1] = d /\ y[2] = later
    OBVIOUS
  <2> HIDE DEF later, y, next
  <2> QED BY <1>3, <2>1, <2>2
      DEF HistoryIInv, HistoryTyped, DaysInv, StoredOk, SnapshotsInv, Timed
<1>5. Follows(day, next)
  <2>1. x[1] = d /\ x[2] = day
    OBVIOUS
  <2>2. day.snap <= s.snapshot.end
    BY <1>1, <1>2, <1>4
  <2> HIDE DEF x, day, next
  <2> QED BY <1>1, <1>2, <2>1, <2>2 DEF HistoryIInv, OrderInv, next
<1>6. day.end = MinOf(day.snap, (d + 1) * DayLength)
  BY <1>2 DEF EndsInv
<1>7. ~(next.start > day.start /\ next.start >= day.end)
  <2> SUFFICES ASSUME next.start > day.start, next.start >= day.end PROVE FALSE
    OBVIOUS
  <2>1. CASE day.end = day.snap
    <3>1. SnapshotReset(day, next)
      BY DEF SnapshotReset
    <3>2. d \in Comparable(segments[i], s.snapshot)
      BY <1>1, <2>1 DEF Comparable, MutableDates
    <3> QED BY <3>1, <3>2 DEF ResetDates
  <2>2. CASE day.end # day.snap
    <3>1. day.end = (d + 1) * DayLength
      BY <1>6, <2>2 DEF MinOf
    <3> HIDE DEF day, next
    <3> QED BY <1>2, <1>4, <3>1
  <2> QED BY <2>1, <2>2
<1>8. ~DetailsRegressed(day, later)
  <2>1. ~DetailsRegressed(day, next)
    BY <1>5, <1>7 DEF Follows
  <2>2. later.totals = next.totals /\ later.details = next.details
    BY DEF StoredDay
  <2> QED BY <2>1, <2>2 DEF DetailsRegressed
<1>9. AddsUp(day) /\ AddsUp(later)
  <2>1. x[2] = day /\ y[2] = later
    OBVIOUS
  <2> HIDE DEF x, y, day, later
  <2> QED BY <1>2, <1>3, <2>1 DEF SumsInv
<1> HIDE DEF day, later
<1>10. day.totals["tokens"] <= later.totals["tokens"]
  BY <1>8, <1>9, TotalsFollow
<1> QED BY <1>10 DEF day, later

(* All that is known of the days: they add up, only their snapshot cuts    *)
(* them off, and the period that ends now misses none.                     *)
ShownInv ==
    /\ HistoryIInv /\ SumsInv /\ EndsInv
    /\ Begun(segments, now) /\ now \in Int /\ IsSegments(segments)

(* This holds of every state.                                              *)
LEMMA SpecShownInv == Spec => []ShownInv
<1>1. HistoryIInv /\ SumsInv /\ EndsInv => ShownInv
  BY SeenHasBegun DEF ShownInv
<1> QED BY <1>1, SpecHistoryIInv, SpecSumsInv, SpecEndsInv, PTL

(* Whatever is rebuilt, lost or late, usage that was shown never           *)
(* disappears, unless upstream takes it back.                              *)
THEOREM SpecLoadedNeverShrinks == Spec /\ ~correcting => LoadedNeverShrinks
<1>1. ~correcting /\ [Next]_vars => ~correcting'
  BY DEF Next, vars, Tick, Rebuild, Fetch, Request, Correct, Save, Lose
<1>2. ShownInv /\ ShownInv' /\ ~correcting /\ [Next]_vars
        => \A d \in Dates : Loaded(d) <= Loaded(d)'
  <2> SUFFICES ASSUME ShownInv, ShownInv', ~correcting, [Next]_vars, NEW d \in Dates
               PROVE  Loaded(d) <= Loaded(d)'
    OBVIOUS
  <2>1. /\ HistoryIInv /\ SumsInv /\ EndsInv
        /\ IsSegments(segments) /\ now \in Int /\ Begun(segments, now)
    BY DEF ShownInv
  <2>2. IsSegments(segments') /\ now' \in Int /\ Begun(segments', now')
    BY DEF ShownInv
  <2>3. ASSUME NEW x \in DaysOf(segments) \cup DaysOf(segments') PROVE AddsUp(x[2])
    <3>1. DaysOf(segments') \subseteq Seen' /\ DaysOf(segments) \subseteq Seen
      BY DEF Seen
    <3>2. SumsInv'
      BY DEF ShownInv
    <3>3. \A z \in Seen' : AddsUp(z[2])
      BY <3>2 DEF SumsInv, AddsUp, Details
    <3> QED BY <2>1, <3>1, <3>3 DEF SumsInv
  <2>4. ASSUME NEW i \in DOMAIN segments, d \in DOMAIN segments[i].days
        PROVE  /\ i \in DOMAIN segments' /\ d \in DOMAIN segments'[i].days
               /\ segments[i].days[d].totals["tokens"] <= segments'[i].days[d].totals["tokens"]
    <3>1. segments[i].days[d].totals["tokens"] <= segments[i].days[d].totals["tokens"]
      <4>1. <<d, segments[i].days[d]>> \in DaysOf(segments)
        BY <2>4, DaysOfMember
      <4>2. AddsUp(segments[i].days[d])
        BY <2>3, <4>1
      <4>3. segments[i].days[d].totals["tokens"] \in Int
        BY <4>2, TotalIsNumber
      <4> QED BY <4>3
    <3>2. CASE segments' = segments
      BY <2>4, <3>1, <3>2
    <3>3. ASSUME NEW s \in inflight, Save(s)
          PROVE  /\ i \in DOMAIN segments' /\ d \in DOMAIN segments'[i].days
                 /\ segments[i].days[d].totals["tokens"]
                      <= segments'[i].days[d].totals["tokens"]
      <4>1. segments' = SaveSegments(segments, s.snapshot) /\ Timed(s.snapshot)
        BY <2>1, <3>3 DEF Save, HistoryIInv, HistoryTyped, SnapshotsInv
      <4>2. /\ i \in DOMAIN segments' /\ d \in DOMAIN segments'[i].days
            /\ \/ segments'[i].days[d] = segments[i].days[d]
               \/ /\ d \in Replaced(segments[i], s.snapshot)
                  /\ ResetDates(segments[i], s.snapshot) = {}
                  /\ segments'[i].days[d] = StoredDay(s.snapshot.days[d], s.snapshot.end)
        BY <2>1, <2>4, <4>1, SavedDay
      <4> QED BY <2>1, <2>4, <3>1, <4>2, ReplacedDayGrows
    <3>4. segments' = segments \/ \E s \in inflight : Save(s)
      BY DEF Next, vars, Tick, Rebuild, Fetch, Request, Correct, Lose
    <3> QED BY <3>2, <3>3, <3>4
  <2>5. Loaded(d)' = LoadedTotal(segments', 0, now', d, "tokens")
    BY DEF Loaded, LoadedTotal, RowsTotal, Rows, AllRows, Amount
  <2> QED BY <2>1, <2>2, <2>3, <2>4, <2>5, MoreIsLoaded DEF Loaded
<1> QED BY <1>1, <1>2, SpecShownInv, PTL DEF Spec, LoadedNeverShrinks
=============================================================================
