------------------------- MODULE DailySegmentsProofs -------------------------
(***************************************************************************)
(* What SaveDaily does to the segments of an account, for any segments and *)
(* snapshots.                                                              *)
(***************************************************************************)
EXTENDS DailySegments, FiniteSetTheorems, FunctionTheorems, WellFoundedInduction, TLAPS

(* The instants of a stored day, and of a snapshot.                        *)
StoredOk(day) == {day.start, day.end, day.snap} \subseteq Int

Timed(s) ==
    /\ s.end \in Int
    /\ \A d \in DOMAIN s.days : {s.days[d].start, s.days[d].end} \subseteq Int

IsSegment(g) ==
    /\ g = [start |-> g.start, days |-> g.days]
    /\ \A d \in DOMAIN g.days : StoredOk(g.days[d])

IsSegments(h) ==
    /\ h \in Seq({h[i] : i \in DOMAIN h})
    /\ \A i \in DOMAIN h : IsSegment(h[i])

(* The dates of a segment begin with it, and no day ended after the        *)
(* snapshot it was taken from.                                             *)
WellFormed(g) ==
    \A d \in DOMAIN g.days :
        /\ d >= g.start
        /\ g.days[d].start < g.days[d].end
        /\ g.days[d].end <= g.days[d].snap

-----------------------------------------------------------------------------
(* Sequences of segments. *)
LEMMA SegmentsDomain ==
    ASSUME NEW h, IsSegments(h)
    PROVE  Len(h) \in Nat /\ DOMAIN h = 1 .. Len(h) /\ (h = <<>> <=> Len(h) = 0)
BY DEF IsSegments

(* The last of some segments is the one at their length.                   *)
LEMMA LastSegment ==
    ASSUME NEW h, IsSegments(h), h # <<>>
    PROVE  /\ Len(h) \in DOMAIN h
           /\ Last(h) = h[Len(h)]
           /\ IsSegment(Last(h))
BY DEF IsSegments, Last

(* A new segment comes last; the others stay as they are.                  *)
LEMMA AppendSegment ==
    ASSUME NEW h, IsSegments(h), NEW g, IsSegment(g)
    PROVE  /\ IsSegments(Append(h, g))
           /\ Len(Append(h, g)) = Len(h) + 1
           /\ \A i \in 1 .. Len(h) : Append(h, g)[i] = h[i]
           /\ Append(h, g)[Len(h) + 1] = g
           /\ Last(Append(h, g)) = g
           /\ Append(h, g) # <<>>
<1> DEFINE S == {h[i] : i \in DOMAIN h} \cup {g}
           n == Append(h, g)
<1>1. h \in Seq(S) /\ g \in S
  BY DEF IsSegments
<1>2. /\ n \in Seq(S)
      /\ Len(n) = Len(h) + 1
      /\ \A i \in 1 .. Len(h) : n[i] = h[i]
      /\ n[Len(h) + 1] = g
      /\ Len(h) \in Nat /\ DOMAIN n = 1 .. Len(n) /\ DOMAIN h = 1 .. Len(h)
  <2> HIDE DEF S
  <2>1. QED
    BY <1>1
<1> HIDE DEF n
<1>3. n \in Seq({n[i] : i \in DOMAIN n})
  BY <1>2
<1>4. \A i \in DOMAIN n : IsSegment(n[i])
  BY <1>2 DEF IsSegments
<1>5. IsSegments(n)
  BY <1>3, <1>4 DEF IsSegments
<1>6. Last(n) = g /\ n # <<>>
  BY <1>2 DEF Last
<1>7. QED
  BY <1>2, <1>5, <1>6 DEF n

(* The last segment is replaced; the others stay as they are.              *)
LEMMA ReplaceLastSegment ==
    ASSUME NEW h, IsSegments(h), h # <<>>, NEW g, IsSegment(g)
    PROVE  LET n == ReplaceAt(h, Len(h), g) IN
           /\ IsSegments(n)
           /\ Len(n) = Len(h)
           /\ \A i \in 1 .. Len(h) - 1 : n[i] = h[i]
           /\ n[Len(h)] = g
           /\ Last(n) = g
           /\ n # <<>>
<1> DEFINE S == {h[i] : i \in DOMAIN h} \cup {g}
           n == ReplaceAt(h, Len(h), g)
<1>1. h \in Seq(S) /\ g \in S
  BY DEF IsSegments
<1>2. n = [h EXCEPT ![Len(h)] = g]
  BY DEF ReplaceAt
<1>3. /\ n \in Seq(S)
      /\ Len(n) = Len(h)
      /\ \A i \in 1 .. Len(h) - 1 : n[i] = h[i]
      /\ n[Len(h)] = g
      /\ Len(h) \in Nat /\ Len(h) > 0 /\ DOMAIN n = 1 .. Len(n) /\ DOMAIN h = 1 .. Len(h)
  <2> HIDE DEF S, n
  <2>1. QED
    BY <1>1, <1>2
<1> HIDE DEF n
<1>4. n \in Seq({n[i] : i \in DOMAIN n})
  BY <1>3
<1>5. \A i \in DOMAIN n : IsSegment(n[i])
  BY <1>3 DEF IsSegments
<1>6. IsSegments(n)
  BY <1>4, <1>5 DEF IsSegments
<1>7. Last(n) = g /\ n # <<>>
  BY <1>3 DEF Last
<1>8. QED
  BY <1>3, <1>6, <1>7 DEF n

(* A new segment is well-formed: it has no day yet.                        *)
LEMMA NewSegmentIsSegment ==
    ASSUME NEW date
    PROVE  /\ IsSegment(NewSegment(date)) /\ WellFormed(NewSegment(date))
           /\ NewSegment(date).start = date
           /\ DOMAIN NewSegment(date).days = {}
BY DEF NewSegment, IsSegment, WellFormed

(* A snapshot finds the segments that are stored, or a first one, without  *)
(* any day.                                                                *)
LEMMA OpenSegmentsAreSegments ==
    ASSUME NEW h, IsSegments(h), NEW s
    PROVE  /\ IsSegments(OpenSegments(h, s)) /\ OpenSegments(h, s) # <<>>
           /\ h # <<>> => OpenSegments(h, s) = h
           /\ h = <<>> => OpenSegments(h, s) = <<NewSegment(FirstDate(s.days))>>
<1> DEFINE g == NewSegment(FirstDate(s.days))
<1>1. IsSegment(g)
  BY NewSegmentIsSegment
<1> HIDE DEF g
<1>2. IsSegments(<<g>>) /\ <<g>> # <<>>
  <2>1. <<g>> \in Seq({<<g>>[i] : i \in DOMAIN <<g>>})
    OBVIOUS
  <2>2. QED
    BY <1>1, <2>1 DEF IsSegments
<1>3. QED
  BY <1>2 DEF OpenSegments, g

-----------------------------------------------------------------------------
(* replaceDay, for all days of a snapshot. *)
LEMMA DecodedIsTimed ==
    ASSUME NEW s, Decoded(s) PROVE Timed(s)
BY DEF Decoded, Timed

(* A day is stored with instants that are numbers.                         *)
LEMMA StoredDayOk ==
    ASSUME NEW s, Timed(s), NEW d \in DOMAIN s.days
    PROVE  StoredOk(StoredDay(s.days[d], s.end))
BY DEF Timed, StoredOk, StoredDay

(* What becomes of the days of a segment. *)
LEMMA DaysReplaced ==
    ASSUME NEW g, IsSegment(g), NEW s
    PROVE  LET n == ReplaceDays(g, s)
               written == Replaced(g, s) IN
           /\ n = [start |-> g.start, days |-> n.days]
           /\ n.start = g.start
           /\ n.days = [d \in written \cup DOMAIN g.days |->
                  IF d \in written THEN StoredDay(s.days[d], s.end) ELSE g.days[d]]
<1> DEFINE days == [d \in Replaced(g, s) \cup DOMAIN g.days |->
              IF d \in Replaced(g, s) THEN StoredDay(s.days[d], s.end) ELSE g.days[d]]
<1>1. ReplaceDays(g, s) = [g EXCEPT !.days = days]
  BY DEF ReplaceDays
<1>2. g = [start |-> g.start, days |-> g.days]
  BY DEF IsSegment
<1> HIDE DEF days
<1>3. [g EXCEPT !.days = days] = [start |-> g.start, days |-> days]
  BY <1>2
<1>4. QED
  BY <1>1, <1>3 DEF days

(* Each day that is written is the one of the snapshot; the others stay as *)
(* they are.                                                               *)
LEMMA DaysAfter ==
    ASSUME NEW g, IsSegment(g), NEW s
    PROVE  LET n == ReplaceDays(g, s)
               written == Replaced(g, s) IN
           /\ n.start = g.start
           /\ DOMAIN n.days = written \cup DOMAIN g.days
           /\ \A d \in written :
                  /\ n.days[d] = StoredDay(s.days[d], s.end)
                  /\ n.days[d].snap = s.end
                  /\ n.days[d].start = s.days[d].start
                  /\ n.days[d].end = s.days[d].end
                  /\ n.days[d].totals = s.days[d].totals
                  /\ n.days[d].details = s.days[d].details
           /\ \A d \in DOMAIN g.days \ written : n.days[d] = g.days[d]
<1> DEFINE n == ReplaceDays(g, s)
           written == Replaced(g, s)
           stored(d) == StoredDay(s.days[d], s.end)
<1>1. /\ n.start = g.start
      /\ n.days = [d \in written \cup DOMAIN g.days |->
                  IF d \in written THEN stored(d) ELSE g.days[d]]
  BY DaysReplaced
<1>2. \A d : /\ stored(d).snap = s.end
             /\ stored(d).start = s.days[d].start
             /\ stored(d).end = s.days[d].end
             /\ stored(d).totals = s.days[d].totals
             /\ stored(d).details = s.days[d].details
  BY DEF StoredDay
<1> HIDE DEF n, written, stored
<1>3. /\ DOMAIN n.days = written \cup DOMAIN g.days
      /\ \A d \in written : n.days[d] = stored(d)
      /\ \A d \in DOMAIN g.days \ written : n.days[d] = g.days[d]
  BY <1>1
<1>4. QED
  BY <1>1, <1>2, <1>3 DEF n, written, stored

(* A segment loses no day to a snapshot, and none to an earlier one.       *)
LEMMA ReplacedSegment ==
    ASSUME NEW g, IsSegment(g), NEW s, Timed(s)
    PROVE  /\ IsSegment(ReplaceDays(g, s))
           /\ DOMAIN g.days \subseteq DOMAIN ReplaceDays(g, s).days
           /\ \A d \in DOMAIN g.days :
                  ReplaceDays(g, s).days[d].snap >= g.days[d].snap
<1> DEFINE n == ReplaceDays(g, s)
           written == Replaced(g, s)
<1>1. n = [start |-> g.start, days |-> n.days]
  BY DaysReplaced
<1>2. /\ n.start = g.start
      /\ DOMAIN n.days = written \cup DOMAIN g.days
      /\ \A d \in written :
             n.days[d] = StoredDay(s.days[d], s.end) /\ n.days[d].snap = s.end
      /\ \A d \in DOMAIN g.days \ written : n.days[d] = g.days[d]
  BY DaysAfter
<1>3. written \subseteq DOMAIN s.days
  BY DEF Replaced
<1> HIDE DEF n
<1>4. IsSegment(n)
  <2>1. ASSUME NEW d \in DOMAIN n.days PROVE StoredOk(n.days[d])
    <3>1. CASE d \in written
      BY <1>2, <1>3, <3>1, StoredDayOk
    <3>2. CASE d \notin written
      BY <1>2, <2>1, <3>2 DEF IsSegment
    <3>3. QED
      BY <3>1, <3>2
  <2>2. QED
    BY <1>1, <1>2, <2>1 DEF IsSegment
<1>5. ASSUME NEW d \in DOMAIN g.days PROVE n.days[d].snap >= g.days[d].snap
  <2>1. CASE d \in written
    <3>1. s.end >= g.days[d].snap
      BY <2>1 DEF Replaced
    <3>2. n.days[d].snap = s.end
      BY <1>2, <2>1
    <3>3. QED
      BY <3>1, <3>2
  <2>2. CASE d \notin written
    BY <1>2, <2>2 DEF IsSegment, StoredOk
  <2>3. QED
    BY <2>1, <2>2
<1>6. QED
  BY <1>2, <1>4, <1>5 DEF n

(* A valid snapshot leaves a segment well-formed: no day precedes its      *)
(* start, none ends after its snapshot.                                    *)
LEMMA ReplacedIsWellFormed ==
    ASSUME NEW g, IsSegment(g), WellFormed(g), NEW s, ValidDaily(s)
    PROVE  WellFormed(ReplaceDays(g, s))
<1> DEFINE n == ReplaceDays(g, s)
           written == Replaced(g, s)
<1>1. /\ n.start = g.start
      /\ DOMAIN n.days = written \cup DOMAIN g.days
      /\ \A d \in written : /\ n.days[d].snap = s.end
                            /\ n.days[d].start = s.days[d].start
                            /\ n.days[d].end = s.days[d].end
      /\ \A d \in DOMAIN g.days \ written : n.days[d] = g.days[d]
  BY DaysAfter
<1> HIDE DEF n
<1>2. ASSUME NEW d \in written
      PROVE  /\ d >= n.start
             /\ n.days[d].start < n.days[d].end
             /\ n.days[d].end <= n.days[d].snap
  <2>1. d \in DOMAIN s.days /\ d >= g.start
    BY DEF Replaced
  <2>2. s.days[d].start < s.days[d].end /\ s.days[d].end <= s.end
    BY <2>1 DEF ValidDaily
  <2>3. QED
    BY <1>1, <2>1, <2>2
<1>3. QED
  BY <1>1, <1>2 DEF WellFormed, n

(* No amount is smaller than itself. *)
LEMMA SameIsNoRegression ==
    ASSUME NEW a, Amounts(a) PROVE ~TotalsRegressed(a, a)
BY DEF TotalsRegressed, Amounts

(* A snapshot finds its own days unchanged, and changes none of them.      *)
LEMMA ReplacedAgain ==
    ASSUME NEW g, IsSegment(g), NEW s, Decoded(s)
    PROVE  LET n == ReplaceDays(g, s) IN
           /\ ResetDates(n, s) = {}
           /\ ~Incomplete(n, s)
           /\ ReplaceDays(n, s) = n
<1> DEFINE n == ReplaceDays(g, s)
           written == Replaced(g, s)
<1>1. /\ n = [start |-> g.start, days |-> n.days]
      /\ n.start = g.start
      /\ n.days = [d \in written \cup DOMAIN g.days |->
                  IF d \in written THEN StoredDay(s.days[d], s.end) ELSE g.days[d]]
  BY DaysReplaced
<1>2. /\ DOMAIN n.days = written \cup DOMAIN g.days
      /\ \A d \in written :
             /\ n.days[d].snap = s.end
             /\ n.days[d].start = s.days[d].start
             /\ n.days[d].totals = s.days[d].totals
             /\ n.days[d].details = s.days[d].details
             /\ n.days[d] = StoredDay(s.days[d], s.end)
      /\ \A d \in DOMAIN g.days \ written : n.days[d] = g.days[d]
  BY DaysAfter
<1>3. IsSegment(n)
  BY ReplacedSegment, DecodedIsTimed
<1> HIDE DEF n
(* The days that are as new as the snapshot are its own. *)
<1>4. ASSUME NEW d \in DOMAIN s.days, d \in DOMAIN n.days, d >= n.start,
             s.end >= n.days[d].snap
      PROVE  d \in written
  <2>1. CASE d \in DOMAIN g.days /\ d \notin written
    <3>1. s.end >= g.days[d].snap /\ d >= g.start
      BY <1>1, <1>2, <1>4, <2>1
    <3>2. QED
      BY <2>1, <3>1 DEF Replaced
  <2>2. QED
    BY <1>2, <1>4, <2>1
<1>5. ASSUME NEW d \in Comparable(n, s)
      PROVE  ~SnapshotReset(n.days[d], s.days[d]) /\ ~DetailsRegressed(n.days[d], s.days[d])
  <2>1. d \in DOMAIN s.days /\ d \in written
    BY <1>4 DEF Comparable, MutableDates
  <2>2. /\ n.days[d].totals = s.days[d].totals
        /\ n.days[d].details = s.days[d].details
        /\ n.days[d].start = s.days[d].start
    BY <1>2, <2>1
  <2>3. s.days[d].start \in Int /\ Amounts(s.days[d].totals) /\ Amounts(s.days[d].details)
    BY <2>1 DEF Decoded
  <2>4. ~TotalsRegressed(n.days[d].totals, s.days[d].totals)
        /\ ~TotalsRegressed(n.days[d].details, s.days[d].details)
    BY <2>2, <2>3, SameIsNoRegression
  <2>5. QED
    BY <2>2, <2>3, <2>4 DEF SnapshotReset, DetailsRegressed
<1>6. ResetDates(n, s) = {} /\ ~Incomplete(n, s)
  BY <1>5 DEF ResetDates, Incomplete
<1>7. ReplaceDays(n, s) = n
  <2> DEFINE again == ReplaceDays(n, s)
  <2>1. /\ again = [start |-> n.start, days |-> again.days]
        /\ again.days = [d \in Replaced(n, s) \cup DOMAIN n.days |->
               IF d \in Replaced(n, s) THEN StoredDay(s.days[d], s.end) ELSE n.days[d]]
    BY <1>3, DaysReplaced
  <2>2. written \subseteq DOMAIN s.days /\ s.end \in Int
    BY DEF Replaced, Decoded
  <2>3. Replaced(n, s) = written
    <3>1. ASSUME NEW d \in Replaced(n, s) PROVE d \in written
      <4>1. CASE d \in DOMAIN n.days
        BY <1>4, <4>1 DEF Replaced
      <4>2. CASE d \notin DOMAIN n.days
        BY <1>1, <1>2, <4>2 DEF Replaced
      <4>3. QED
        BY <4>1, <4>2
    <3>2. ASSUME NEW d \in written PROVE d \in Replaced(n, s)
      <4>1. d \in DOMAIN s.days /\ d >= n.start
        BY <1>1 DEF Replaced
      <4>2. n.days[d].snap = s.end
        BY <1>2
      <4>3. QED
        BY <2>2, <4>1, <4>2 DEF Replaced
    <3>3. QED
      BY <3>1, <3>2
  <2> HIDE DEF again, written
  <2>4. again.days = n.days
    BY <1>1, <1>2, <2>1, <2>3
  <2>5. QED
    BY <1>1, <2>1, <2>4 DEF again
<1>8. QED
  BY <1>6, <1>7 DEF n

-----------------------------------------------------------------------------
(* SaveDaily on the segments of an account. *)
(* It changes nothing, replaces days of the last segment, or opens one.    *)
LEMMA SaveShape ==
    ASSUME NEW h, NEW s
    PROVE  LET n == SaveSegments(h, s)
               open == OpenSegments(h, s) IN
           \/ n = h /\ (~Accepted(h, s) \/ DOMAIN s.days = {})
           \/ /\ Accepted(h, s) /\ DOMAIN s.days # {}
              /\ \/ n = ReplaceAt(open, Len(open), ReplaceDays(Last(open), s))
                 \/ \E date : n = Append(open, ReplaceDays(NewSegment(date), s))
BY DEF SaveSegments

(* SaveDaily leaves segments.                                              *)
LEMMA SaveKeepsSegments ==
    ASSUME NEW h, IsSegments(h), NEW s, Timed(s)
    PROVE  IsSegments(SaveSegments(h, s))
<1> DEFINE open == OpenSegments(h, s)
<1>1. IsSegments(open) /\ open # <<>>
  BY OpenSegmentsAreSegments
<1>2. IsSegment(Last(open))
  BY <1>1, LastSegment
<1>3. IsSegments(ReplaceAt(open, Len(open), ReplaceDays(Last(open), s)))
  BY <1>1, <1>2, ReplacedSegment, ReplaceLastSegment
<1>4. \A date : IsSegments(Append(open, ReplaceDays(NewSegment(date), s)))
  BY <1>1, NewSegmentIsSegment, ReplacedSegment, AppendSegment
<1>5. QED
  BY <1>3, <1>4, SaveShape

(* SaveDaily leaves every segment well-formed.                             *)
LEMMA SaveKeepsWellFormed ==
    ASSUME NEW h, IsSegments(h), NEW s, Timed(s),
           \A i \in DOMAIN h : WellFormed(h[i])
    PROVE  \A i \in DOMAIN SaveSegments(h, s) : WellFormed(SaveSegments(h, s)[i])
<1> DEFINE open == OpenSegments(h, s)
           n == SaveSegments(h, s)
<1>1. IsSegments(open) /\ open # <<>>
  BY OpenSegmentsAreSegments
<1>2. Len(open) \in Nat /\ DOMAIN open = 1 .. Len(open) /\ Last(open) = open[Len(open)]
      /\ IsSegment(Last(open)) /\ Len(open) \in DOMAIN open
  BY <1>1, SegmentsDomain, LastSegment
<1>3. \A i \in DOMAIN open : WellFormed(open[i])
  <2>1. CASE h # <<>>
    BY <2>1, OpenSegmentsAreSegments
  <2>2. CASE h = <<>>
    <3>1. open = <<NewSegment(FirstDate(s.days))>>
      BY <2>2, OpenSegmentsAreSegments
    <3>2. \A i \in DOMAIN open : open[i] = NewSegment(FirstDate(s.days))
      BY <3>1
    <3>3. QED
      BY <3>2, NewSegmentIsSegment
  <2>3. QED
    BY <2>1, <2>2
<1>4. CASE n = h
  BY <1>4
<1>5. CASE /\ Accepted(h, s)
           /\ n = ReplaceAt(open, Len(open), ReplaceDays(Last(open), s))
  <2> DEFINE g == ReplaceDays(Last(open), s)
  <2>1. WellFormed(g) /\ IsSegment(g)
    BY <1>2, <1>3, <1>5, ReplacedIsWellFormed, ReplacedSegment DEF Accepted
  <2> HIDE DEF g, open, n
  <2>2. /\ IsSegments(n) /\ Len(n) = Len(open) /\ n[Len(open)] = g
        /\ \A i \in 1 .. Len(open) - 1 : n[i] = open[i]
    BY <1>1, <1>5, <2>1, ReplaceLastSegment DEF g
  <2>3. DOMAIN n = 1 .. Len(open)
    BY <2>2, SegmentsDomain
  <2>4. \A i \in DOMAIN n : WellFormed(n[i])
    BY <1>2, <1>3, <2>1, <2>2, <2>3
  <2>5. QED
    BY <2>4 DEF n
<1>6. ASSUME NEW date, Accepted(h, s), n = Append(open, ReplaceDays(NewSegment(date), s))
      PROVE  \A i \in DOMAIN n : WellFormed(n[i])
  <2> DEFINE g == ReplaceDays(NewSegment(date), s)
  <2>1. WellFormed(g) /\ IsSegment(g)
    BY <1>6, NewSegmentIsSegment, ReplacedIsWellFormed, ReplacedSegment DEF Accepted
  <2> HIDE DEF g, open, n
  <2>2. /\ IsSegments(n) /\ Len(n) = Len(open) + 1 /\ n[Len(open) + 1] = g
        /\ \A i \in 1 .. Len(open) : n[i] = open[i]
    BY <1>1, <1>6, <2>1, AppendSegment DEF g
  <2>3. DOMAIN n = 1 .. Len(open) + 1
    BY <2>2, SegmentsDomain
  <2>4. QED
    BY <1>2, <1>3, <2>1, <2>2, <2>3
<1>7. QED
  BY <1>4, <1>5, <1>6, SaveShape

(* What was stored stays: earlier segments as they are, the last one with  *)
(* all its dates, none of them taken back to an earlier snapshot.          *)
LEMMA SaveKeepsHistory ==
    ASSUME NEW h, IsSegments(h), NEW s, Timed(s)
    PROVE  LET n == SaveSegments(h, s) IN
           /\ Len(h) <= Len(n)
           /\ \A i \in 1 .. Len(n) - 1 : i <= Len(h) => n[i] = h[i]
           /\ \A i \in DOMAIN h :
                  /\ i \in DOMAIN n
                  /\ DOMAIN h[i].days \subseteq DOMAIN n[i].days
                  /\ \A d \in DOMAIN h[i].days : n[i].days[d].snap >= h[i].days[d].snap
<1> DEFINE open == OpenSegments(h, s)
           n == SaveSegments(h, s)
<1>1. /\ IsSegments(open) /\ open # <<>>
      /\ h # <<>> => open = h
  BY OpenSegmentsAreSegments
<1>2. /\ Len(open) \in Nat /\ Len(open) > 0 /\ DOMAIN open = 1 .. Len(open)
      /\ Last(open) = open[Len(open)] /\ IsSegment(Last(open))
  BY <1>1, SegmentsDomain, LastSegment
<1>3. Len(h) \in Nat /\ DOMAIN h = 1 .. Len(h) /\ (h = <<>> <=> Len(h) = 0)
  BY SegmentsDomain
<1>4. IsSegments(n) /\ Len(n) \in Nat /\ DOMAIN n = 1 .. Len(n)
  BY SaveKeepsSegments, SegmentsDomain
<1>5. ASSUME NEW i \in DOMAIN h, NEW d \in DOMAIN h[i].days
      PROVE  h[i].days[d].snap >= h[i].days[d].snap
  BY DEF IsSegments, IsSegment, StoredOk
<1>6. CASE h = <<>>
  BY <1>3, <1>4, <1>6
<1>7. CASE n = h
  BY <1>3, <1>5, <1>7
<1>8. CASE h # <<>> /\ n = ReplaceAt(open, Len(open), ReplaceDays(Last(open), s))
  <2> DEFINE g == ReplaceDays(Last(open), s)
  <2>1. /\ IsSegment(g)
        /\ DOMAIN Last(open).days \subseteq DOMAIN g.days
        /\ \A d \in DOMAIN Last(open).days : g.days[d].snap >= Last(open).days[d].snap
    BY <1>2, ReplacedSegment
  <2> HIDE DEF g, open, n
  <2>2. /\ Len(n) = Len(open) /\ n[Len(open)] = g
        /\ \A i \in 1 .. Len(open) - 1 : n[i] = open[i]
    BY <1>1, <1>8, <2>1, ReplaceLastSegment DEF g
  <2>3. open = h
    BY <1>1, <1>8
  <2>4. ASSUME NEW i \in DOMAIN h
        PROVE  /\ i \in DOMAIN n
               /\ DOMAIN h[i].days \subseteq DOMAIN n[i].days
               /\ \A d \in DOMAIN h[i].days : n[i].days[d].snap >= h[i].days[d].snap
    <3>1. CASE i = Len(h)
      BY <1>2, <1>4, <2>1, <2>2, <2>3, <3>1
    <3>2. CASE i # Len(h)
      <4>1. n[i] = h[i] /\ i \in DOMAIN n
        BY <1>3, <1>4, <2>2, <2>3, <3>2
      <4>2. QED
        BY <1>5, <4>1
    <3>3. QED
      BY <3>1, <3>2
  <2>5. Len(h) <= Len(n) /\ \A i \in 1 .. Len(n) - 1 : i <= Len(h) => n[i] = h[i]
    BY <1>3, <2>2, <2>3
  <2>6. QED
    BY <2>4, <2>5 DEF n
<1>9. ASSUME h # <<>>, NEW date, n = Append(open, ReplaceDays(NewSegment(date), s))
      PROVE  /\ Len(h) <= Len(n)
             /\ \A i \in 1 .. Len(n) - 1 : i <= Len(h) => n[i] = h[i]
             /\ \A i \in DOMAIN h : i \in DOMAIN n /\ n[i] = h[i]
  <2> DEFINE g == ReplaceDays(NewSegment(date), s)
  <2>1. IsSegment(g)
    BY NewSegmentIsSegment, ReplacedSegment
  <2> HIDE DEF g, open, n
  <2>2. /\ Len(n) = Len(open) + 1
        /\ \A i \in 1 .. Len(open) : n[i] = open[i]
    BY <1>1, <1>9, <2>1, AppendSegment DEF g
  <2>3. QED
    BY <1>1, <1>2, <1>3, <1>4, <1>9, <2>2
<1>10. QED
  <2>1. CASE \E date : n = Append(open, ReplaceDays(NewSegment(date), s))
    <3>1. CASE h # <<>>
      BY <1>5, <1>9, <2>1, <3>1
    <3>2. QED
      BY <1>6, <3>1
  <2>2. QED
    BY <1>6, <1>7, <1>8, <2>1, SaveShape

(* To save a snapshot again changes nothing: it finds no sign of a rebuild *)
(* and writes the days that are there already.                             *)
LEMMA SaveAgain ==
    ASSUME NEW h, IsSegments(h), NEW s, Decoded(s)
    PROVE  SaveSegments(SaveSegments(h, s), s) = SaveSegments(h, s)
<1> DEFINE open == OpenSegments(h, s)
           n == SaveSegments(h, s)
<1>1. CASE n = h /\ (~Accepted(h, s) \/ DOMAIN s.days = {})
  BY <1>1
<1>2. ASSUME NEW g, IsSegment(g), IsSegments(n), n # <<>>,
             Last(n) = ReplaceDays(g, s)
      PROVE  SaveSegments(n, s) = n
  <2> DEFINE r == ReplaceDays(g, s)
  <2>1. ResetDates(r, s) = {} /\ ~Incomplete(r, s) /\ ReplaceDays(r, s) = r
    BY <1>2, ReplacedAgain
  <2>2. OpenSegments(n, s) = n
    BY <1>2, OpenSegmentsAreSegments
  <2> HIDE DEF r, n
  <2>3. Last(n) = r
    BY <1>2 DEF r
  <2>4. ReplaceAt(n, Len(n), r) = n
    BY <1>2, <2>3, SegmentsDomain, LastSegment DEF ReplaceAt, IsSegments
  <2>5. CASE ~Accepted(n, s) \/ DOMAIN s.days = {}
    BY <2>5 DEF SaveSegments
  <2>6. CASE Accepted(n, s) /\ DOMAIN s.days # {}
    BY <2>1, <2>2, <2>3, <2>4, <2>6 DEF SaveSegments
  <2>7. QED
    BY <2>5, <2>6
<1>3. IsSegments(open) /\ open # <<>> /\ IsSegment(Last(open))
  BY OpenSegmentsAreSegments, LastSegment
<1>4. IsSegments(n)
  BY SaveKeepsSegments, DecodedIsTimed
<1>5. CASE n = ReplaceAt(open, Len(open), ReplaceDays(Last(open), s))
  <2>1. n # <<>> /\ Last(n) = ReplaceDays(Last(open), s)
    BY <1>3, <1>5, ReplacedSegment, ReplaceLastSegment, DecodedIsTimed
  <2>2. QED
    BY <1>2, <1>3, <1>4, <2>1
<1>6. ASSUME NEW date, n = Append(open, ReplaceDays(NewSegment(date), s))
      PROVE  SaveSegments(n, s) = n
  <2> DEFINE g == ReplaceDays(NewSegment(date), s)
  <2>1. IsSegment(g)
    BY NewSegmentIsSegment, ReplacedSegment, DecodedIsTimed
  <2>2. Append(open, g) # <<>> /\ Last(Append(open, g)) = g
    <3> HIDE DEF open, g
    <3>1. QED
      BY <1>3, <2>1, AppendSegment
  <2>3. n # <<>> /\ Last(n) = g
    BY <1>6, <2>2
  <2>4. QED
    BY <1>2, <1>4, <2>3, NewSegmentIsSegment
<1>7. QED
  BY <1>1, <1>5, <1>6, SaveShape

(* What SaveDaily makes of one stored day: nothing, or the same day of the *)
(* snapshot, when it is of the last segment and no rebuild shows.          *)
LEMMA SavedDay ==
    ASSUME NEW h, IsSegments(h), NEW s, Timed(s),
           NEW i \in DOMAIN h, NEW d \in DOMAIN h[i].days
    PROVE  LET n == SaveSegments(h, s) IN
           /\ i \in DOMAIN n /\ d \in DOMAIN n[i].days
           /\ \/ n[i].days[d] = h[i].days[d]
              \/ /\ Accepted(h, s) /\ i = Len(h) /\ h[i] = Last(h)
                 /\ d \in Replaced(h[i], s) /\ ResetDates(h[i], s) = {}
                 /\ n[i].days[d] = StoredDay(s.days[d], s.end)
<1> DEFINE n == SaveSegments(h, s)
           g == Last(h)
           k == Len(h)
           r == ReplaceDays(g, s)
<1>1. k \in Nat /\ DOMAIN h = 1 .. k /\ h # <<>>
  BY SegmentsDomain
<1>2. k \in DOMAIN h /\ g = h[k] /\ IsSegment(g) /\ OpenSegments(h, s) = h
  BY <1>1, LastSegment, OpenSegmentsAreSegments
<1>3. i \in DOMAIN n /\ d \in DOMAIN n[i].days
  BY SaveKeepsHistory
<1>4. CASE n = h
  BY <1>3, <1>4
<1>5. CASE n # h /\ ResetDates(g, s) = {}
  <2>1. n = ReplaceAt(h, k, r) /\ Accepted(h, s)
    BY <1>2, <1>5 DEF SaveSegments
  <2>2. IsSegment(r)
    BY <1>2, ReplacedSegment
  <2>3. \A j \in 1 .. k - 1 : n[j] = h[j]
    <3> HIDE DEF r, n
    <3> QED BY <1>1, <2>1, <2>2, ReplaceLastSegment
  <2>4. n[k] = r
    <3> HIDE DEF r, n
    <3> QED BY <1>1, <2>1, <2>2, ReplaceLastSegment
  <2>5. CASE i # k
    BY <1>1, <1>3, <2>3, <2>5
  <2>6. CASE i = k /\ d \in Replaced(g, s)
    <3>1. r.days[d] = StoredDay(s.days[d], s.end)
      <4> HIDE DEF g
      <4> QED BY <1>2, <2>6, DaysAfter
    <3> QED BY <1>2, <1>3, <1>5, <2>1, <2>4, <2>6, <3>1
  <2>7. CASE i = k /\ d \notin Replaced(g, s)
    <3>1. d \in DOMAIN g.days
      BY <1>2, <2>7
    <3>2. r.days[d] = g.days[d]
      <4> HIDE DEF g
      <4> QED BY <1>2, <2>7, <3>1, DaysAfter
    <3> QED BY <1>2, <1>3, <2>4, <2>7, <3>2
  <2> QED BY <2>5, <2>6, <2>7
<1>6. CASE n # h /\ ResetDates(g, s) # {}
  <2> DEFINE e == ReplaceDays(NewSegment(Min(ResetDates(g, s))), s)
  <2>1. n = Append(h, e)
    BY <1>2, <1>6 DEF SaveSegments
  <2>2. IsSegment(e)
    BY NewSegmentIsSegment, ReplacedSegment
  <2>3. n[i] = h[i]
    <3> HIDE DEF e, n
    <3> QED BY <1>1, <2>1, <2>2, AppendSegment
  <2> QED BY <1>3, <2>3
<1> QED BY <1>4, <1>5, <1>6

-----------------------------------------------------------------------------
(***************************************************************************)
(* Sums over finite sets: what SumFunctionOnSet, the sum of f[x] for the   *)
(* elements x of a set, is. It is defined by recursion over the subsets of *)
(* the set; that this recursion has one solution is proved first. The      *)
(* totals that the dashboard shows are such sums of stored amounts.        *)
(***************************************************************************)
(* Induction over the subsets of a finite set, for a property given as the *)
(* set T of the subsets that have it.                                      *)
LEMMA SubsetInduction ==
    ASSUME NEW S, IsFiniteSet(S), NEW T,
           \A s \in SUBSET S : (\A t \in SUBSET s : t # s => t \in T) => s \in T
    PROVE  S \in T
<1> DEFINE Bad == {s \in SUBSET S : s \notin T}
           R == StrictSubsetOrdering(S)
<1> SUFFICES ASSUME S \notin T PROVE FALSE
  OBVIOUS
<1>1. IsWellFoundedOn(R, SUBSET S)
  <2>1. FiniteSubsetsOf(S) = SUBSET S
    BY FS_FiniteSubsetsOfFinite
  <2>2. IsWellFoundedOn(R, FiniteSubsetsOf(S))
    BY FS_StrictSubsetOrderingWellFounded
  <2> HIDE DEF R
  <2> QED BY <2>1, <2>2
<1>2. Bad \subseteq SUBSET S /\ Bad # {}
  OBVIOUS
<1>3. \A s, t \in SUBSET S : t \subseteq s /\ t # s => <<t, s>> \in R
  BY DEF StrictSubsetOrdering
<1> HIDE DEF R
<1>4. PICK s \in Bad : \A t \in Bad : <<t, s>> \notin R
  <2> HIDE DEF Bad
  <2> QED BY <1>1, <1>2, WFMin
<1>5. ASSUME NEW t \in SUBSET s, t # s PROVE t \in T
  <2>1. s \in SUBSET S /\ t \in SUBSET S
    BY <1>4
  <2>2. <<t, s>> \in R
    BY <1>3, <1>5, <2>1
  <2> QED BY <1>4, <2>1, <2>2
<1> QED BY <1>4, <1>5

-----------------------------------------------------------------------------
(* The recursion of the definition.                                        *)
Pick(s) == CHOOSE x \in s : TRUE

Recursion(f, S, g) ==
    g = [s \in SUBSET S |-> IF s = {} THEN 0 ELSE f[Pick(s)] + g[s \ {Pick(s)}]]

(* The sum is a solution of the recursion.                                 *)
LEMMA SumIsRecursion ==
    ASSUME NEW f, NEW S
    PROVE  SumFunctionOnSet(f, S) = (CHOOSE g : Recursion(f, S, g))[S]
BY DEF SumFunctionOnSet, FoldFunctionOnSet, MapThenFoldSet, Pick, Recursion

(* The element that the recursion takes next.                              *)
LEMMA PickIsIn == ASSUME NEW s, s # {} PROVE Pick(s) \in s
BY DEF Pick

(* One step of the recursion.                                              *)
LEMMA RecursionStep ==
    ASSUME NEW f, NEW S, NEW g, Recursion(f, S, g), NEW s \in SUBSET S
    PROVE  g[s] = IF s = {} THEN 0 ELSE f[Pick(s)] + g[s \ {Pick(s)}]
BY DEF Recursion

(* Solutions over two sets agree on the subsets of both.                   *)
LEMMA RecursionIsUnique ==
    ASSUME NEW f, NEW S, NEW R \in SUBSET S, IsFiniteSet(R),
           NEW g, Recursion(f, S, g), NEW h, Recursion(f, R, h)
    PROVE  g[R] = h[R]
<1> DEFINE T == {s \in SUBSET R : g[s] = h[s]}
<1>1. ASSUME NEW s \in SUBSET R, \A t \in SUBSET s : t # s => t \in T
      PROVE  s \in T
  <2>1. g[s] = IF s = {} THEN 0 ELSE f[Pick(s)] + g[s \ {Pick(s)}]
    BY RecursionStep
  <2>2. h[s] = IF s = {} THEN 0 ELSE f[Pick(s)] + h[s \ {Pick(s)}]
    BY RecursionStep
  <2>3. s # {} => s \ {Pick(s)} \in T
    BY <1>1, PickIsIn
  <2> QED BY <2>1, <2>2, <2>3
<1> HIDE DEF T
<1>2. R \in T
  BY <1>1, SubsetInduction
<1> QED BY <1>2 DEF T

(* Any solution gives the sum.                                             *)
LEMMA SumIsSolution ==
    ASSUME NEW f, NEW S, NEW R \in SUBSET S, IsFiniteSet(R), NEW g, Recursion(f, S, g)
    PROVE  SumFunctionOnSet(f, R) = g[R]
<1> DEFINE h == [s \in SUBSET R |-> g[s]]
<1>1. Recursion(f, R, h)
  <2>1. ASSUME NEW s \in SUBSET R
        PROVE  h[s] = IF s = {} THEN 0 ELSE f[Pick(s)] + h[s \ {Pick(s)}]
    <3>1. h[s] = g[s] /\ h[s \ {Pick(s)}] = g[s \ {Pick(s)}]
      OBVIOUS
    <3>2. g[s] = IF s = {} THEN 0 ELSE f[Pick(s)] + g[s \ {Pick(s)}]
      BY RecursionStep
    <3> HIDE DEF h
    <3> QED BY <3>1, <3>2
  <2> QED BY <2>1 DEF Recursion
<1>2. Recursion(f, R, CHOOSE k : Recursion(f, R, k))
  BY <1>1
<1> QED BY <1>2, RecursionIsUnique, SumIsRecursion

(* There is a solution over every finite set.                              *)
LEMMA RecursionExists ==
    ASSUME NEW f, NEW S, IsFiniteSet(S)
    PROVE  \E g : Recursion(f, S, g)
<1> DEFINE T == {s \in SUBSET S : \E g : Recursion(f, s, g)}
<1>1. ASSUME NEW s \in SUBSET S, \A t \in SUBSET s : t # s => t \in T
      PROVE  s \in T
  <2> DEFINE last == f[Pick(s)] + SumFunctionOnSet(f, s \ {Pick(s)})
             g == [t \in SUBSET s |-> IF t = {} THEN 0
                     ELSE IF t = s THEN last ELSE SumFunctionOnSet(f, t)]
  <2>1. ASSUME NEW t \in SUBSET s, t # s
        PROVE  /\ t = {} => SumFunctionOnSet(f, t) = 0
               /\ t # {} => SumFunctionOnSet(f, t)
                              = f[Pick(t)] + SumFunctionOnSet(f, t \ {Pick(t)})
    <3>1. PICK h : Recursion(f, t, h)
      BY <1>1, <2>1
    <3>2. IsFiniteSet(t) /\ IsFiniteSet(t \ {Pick(t)})
      BY FS_Subset
    <3>3. SumFunctionOnSet(f, t) = h[t]
      BY <3>1, <3>2, SumIsSolution
    <3>4. SumFunctionOnSet(f, t \ {Pick(t)}) = h[t \ {Pick(t)}]
      BY <3>1, <3>2, SumIsSolution
    <3> QED BY <3>1, <3>3, <3>4, RecursionStep
  <2>2. ASSUME NEW t \in SUBSET s
        PROVE  g[t] = IF t = {} THEN 0 ELSE f[Pick(t)] + g[t \ {Pick(t)}]
    <3>1. CASE t = {}
      BY <3>1
    <3>2. CASE t # {}
      <4>1. t \ {Pick(t)} \in SUBSET s /\ t \ {Pick(t)} # s
        BY <3>2, PickIsIn
      <4>2. g[t \ {Pick(t)}] = SumFunctionOnSet(f, t \ {Pick(t)})
        BY <2>1, <4>1
      <4>3. g[t] = f[Pick(t)] + SumFunctionOnSet(f, t \ {Pick(t)})
        BY <2>1, <3>2
      <4> QED BY <3>2, <4>2, <4>3
    <3> QED BY <3>1, <3>2
  <2>3. Recursion(f, s, g)
    BY <2>2 DEF Recursion
  <2> QED BY <2>3
<1> HIDE DEF T
<1>2. S \in T
  BY <1>1, SubsetInduction
<1> QED BY <1>2 DEF T
-----------------------------------------------------------------------------
(* The sum of no elements is 0, of others that of the picked one and the   *)
(* rest.                                                                   *)
LEMMA SumStep ==
    ASSUME NEW f, NEW S, IsFiniteSet(S)
    PROVE  SumFunctionOnSet(f, S) =
             IF S = {} THEN 0 ELSE f[Pick(S)] + SumFunctionOnSet(f, S \ {Pick(S)})
<1>1. PICK g : Recursion(f, S, g)
  BY RecursionExists
<1>2. IsFiniteSet(S \ {Pick(S)}) /\ S \ {Pick(S)} \in SUBSET S /\ S \in SUBSET S
  BY FS_Subset
<1>3. SumFunctionOnSet(f, S) = g[S]
  BY <1>1, <1>2, SumIsSolution
<1>4. SumFunctionOnSet(f, S \ {Pick(S)}) = g[S \ {Pick(S)}]
  BY <1>1, <1>2, SumIsSolution
<1>5. g[S] = IF S = {} THEN 0 ELSE f[Pick(S)] + g[S \ {Pick(S)}]
  <2> DEFINE value(s) == IF s = {} THEN 0 ELSE f[Pick(s)] + g[s \ {Pick(s)}]
  <2>1. g = [s \in SUBSET S |-> value(s)]
    BY <1>1 DEF Recursion
  <2> HIDE DEF value
  <2>2. g[S] = value(S)
    BY <2>1
  <2> QED BY <2>2 DEF value
<1> QED BY <1>3, <1>4, <1>5

(* There is nothing to add.                                                *)
LEMMA SumOfNone == ASSUME NEW f PROVE SumFunctionOnSet(f, {}) = 0
BY SumStep, FS_EmptySet

(* A sum of numbers is a number.                                           *)
LEMMA SumIsInt ==
    ASSUME NEW f, NEW S, IsFiniteSet(S), \A x \in S : f[x] \in Int
    PROVE  SumFunctionOnSet(f, S) \in Int
<1> DEFINE T == {s \in SUBSET S : SumFunctionOnSet(f, s) \in Int}
<1>1. ASSUME NEW s \in SUBSET S, \A t \in SUBSET s : t # s => t \in T
      PROVE  s \in T
  <2>1. IsFiniteSet(s)
    BY FS_Subset
  <2>2. CASE s = {}
    BY <2>2, SumOfNone
  <2>3. CASE s # {}
    <3>1. Pick(s) \in S /\ s \ {Pick(s)} \in T
      BY <1>1, <2>3, PickIsIn
    <3>2. SumFunctionOnSet(f, s) = f[Pick(s)] + SumFunctionOnSet(f, s \ {Pick(s)})
      BY <2>1, <2>3, SumStep
    <3> QED BY <3>1, <3>2
  <2> QED BY <2>2, <2>3
<1> HIDE DEF T
<1>2. S \in T
  BY <1>1, SubsetInduction
<1> QED BY <1>2 DEF T

(* Any element may be the first one to be added. *)
LEMMA SumOfMember ==
    ASSUME NEW f, NEW S, IsFiniteSet(S), \A x \in S : f[x] \in Int, NEW x \in S
    PROVE  SumFunctionOnSet(f, S) = f[x] + SumFunctionOnSet(f, S \ {x})
<1> DEFINE Sum(s) == SumFunctionOnSet(f, s)
           T == {s \in SUBSET S : \A y \in s : Sum(s) = f[y] + Sum(s \ {y})}
<1>1. \A s \in SUBSET S : IsFiniteSet(s) /\ Sum(s) \in Int
  BY FS_Subset, SumIsInt
<1>2. \A s \in SUBSET S : s # {} => Sum(s) = f[Pick(s)] + Sum(s \ {Pick(s)})
  BY <1>1, SumStep
<1> HIDE DEF Sum
<1>3. ASSUME NEW s \in SUBSET S, \A t \in SUBSET s : t # s => t \in T, NEW y \in s
      PROVE  Sum(s) = f[y] + Sum(s \ {y})
  <2> DEFINE z == Pick(s)
  <2>1. z \in s /\ Sum(s) = f[z] + Sum(s \ {z})
    BY <1>2, PickIsIn
  <2> HIDE DEF z
  <2>2. CASE y = z
    BY <2>1, <2>2
  <2>3. CASE y # z
    <3>1. s \ {z} \in T /\ s \ {y} \in T
      BY <1>3, <2>1
    <3>2. y \in s \ {z} /\ z \in s \ {y}
      BY <2>1, <2>3
    <3>3. Sum(s \ {z}) = f[y] + Sum((s \ {z}) \ {y})
      BY <3>1, <3>2
    <3>4. Sum(s \ {y}) = f[z] + Sum((s \ {y}) \ {z})
      BY <3>1, <3>2
    <3>5. (s \ {y}) \ {z} = (s \ {z}) \ {y}
      OBVIOUS
    <3> DEFINE rest == Sum((s \ {z}) \ {y})
    <3>6. f[y] \in Int /\ f[z] \in Int /\ rest \in Int
      BY <1>1, <2>1
    <3>7. Sum(s) = f[z] + (f[y] + rest) /\ Sum(s \ {y}) = f[z] + rest
      BY <2>1, <3>3, <3>4, <3>5
    <3> HIDE DEF rest
    <3>8. f[z] + (f[y] + rest) = f[y] + (f[z] + rest)
      BY <3>6
    <3> QED BY <3>7, <3>8
  <2> QED BY <2>2, <2>3
<1>4. ASSUME NEW s \in SUBSET S, \A t \in SUBSET s : t # s => t \in T
      PROVE  s \in T
  BY <1>3, <1>4
<1> HIDE DEF T
<1>5. S \in T
  BY <1>4, SubsetInduction
<1> QED BY <1>5 DEF T, Sum

(* One more element.                                                       *)
LEMMA SumWithMember ==
    ASSUME NEW f, NEW S, IsFiniteSet(S), \A y \in S : f[y] \in Int,
           NEW x, x \notin S, f[x] \in Int
    PROVE  SumFunctionOnSet(f, S \cup {x}) = f[x] + SumFunctionOnSet(f, S)
<1>1. IsFiniteSet(S \cup {x}) /\ (S \cup {x}) \ {x} = S
  BY FS_AddElement
<1> QED BY <1>1, SumOfMember

(* A set without one of its elements. *)
LEMMA SetInduction ==
    ASSUME NEW S, IsFiniteSet(S), NEW T, {} \in T,
           \A s \in SUBSET S : \A x \in s : s \ {x} \in T => s \in T
    PROVE  S \in T
<1>1. ASSUME NEW s \in SUBSET S, \A t \in SUBSET s : t # s => t \in T
      PROVE  s \in T
  <2>1. CASE s = {}
    BY <2>1
  <2>2. CASE s # {}
    <3>1. PICK x \in s : TRUE
      BY <2>2
    <3>2. s \ {x} \in SUBSET s /\ s \ {x} # s
      BY <3>1
    <3> QED BY <1>1, <3>1, <3>2
  <2> QED BY <2>1, <2>2
<1> QED BY <1>1, SubsetInduction

(* Only the elements that are added count.                                 *)
LEMMA SumOfSame ==
    ASSUME NEW S, IsFiniteSet(S), NEW f, NEW g,
           \A x \in S : f[x] \in Int /\ f[x] = g[x]
    PROVE  SumFunctionOnSet(f, S) = SumFunctionOnSet(g, S)
<1> DEFINE T == {s \in SUBSET S : SumFunctionOnSet(f, s) = SumFunctionOnSet(g, s)}
<1>1. {} \in T
  BY SumOfNone
<1>2. ASSUME NEW s \in SUBSET S, NEW x \in s, s \ {x} \in T
      PROVE  s \in T
  <2>1. IsFiniteSet(s)
    BY FS_Subset
  <2>2. SumFunctionOnSet(f, s) = f[x] + SumFunctionOnSet(f, s \ {x})
    BY <2>1, SumOfMember
  <2>3. SumFunctionOnSet(g, s) = g[x] + SumFunctionOnSet(g, s \ {x})
    BY <2>1, SumOfMember
  <2> QED BY <1>2, <2>2, <2>3
<1> HIDE DEF T
<1>3. S \in T
  BY <1>1, <1>2, SetInduction
<1> QED BY <1>3 DEF T

(* A sum of smaller numbers is not larger.                                 *)
LEMMA SumIsMonotone ==
    ASSUME NEW S, IsFiniteSet(S), NEW f, NEW g,
           \A x \in S : f[x] \in Int /\ g[x] \in Int /\ f[x] <= g[x]
    PROVE  SumFunctionOnSet(f, S) <= SumFunctionOnSet(g, S)
<1> DEFINE T == {s \in SUBSET S : SumFunctionOnSet(f, s) <= SumFunctionOnSet(g, s)}
<1>1. {} \in T
  BY SumOfNone
<1>2. ASSUME NEW s \in SUBSET S, NEW x \in s, s \ {x} \in T
      PROVE  s \in T
  <2>1. IsFiniteSet(s) /\ IsFiniteSet(s \ {x})
    BY FS_Subset
  <2>2. SumFunctionOnSet(f, s) = f[x] + SumFunctionOnSet(f, s \ {x})
    BY <2>1, SumOfMember
  <2>3. SumFunctionOnSet(g, s) = g[x] + SumFunctionOnSet(g, s \ {x})
    BY <2>1, SumOfMember
  <2>4. SumFunctionOnSet(f, s \ {x}) \in Int /\ SumFunctionOnSet(g, s \ {x}) \in Int
    BY <2>1, SumIsInt
  <2> QED BY <1>2, <2>2, <2>3, <2>4
<1> HIDE DEF T
<1>3. S \in T
  BY <1>1, <1>2, SetInduction
<1> QED BY <1>3 DEF T

(* Elements that add nothing may be left out. *)
LEMMA SumOfOthersIsZero ==
    ASSUME NEW S, IsFiniteSet(S), NEW f, NEW R \in SUBSET S,
           \A x \in S : f[x] \in Int, \A x \in S \ R : f[x] = 0
    PROVE  SumFunctionOnSet(f, S) = SumFunctionOnSet(f, R)
<1> DEFINE T == {s \in SUBSET S : SumFunctionOnSet(f, s) = SumFunctionOnSet(f, s \cap R)}
<1>1. {} \in T
  BY SumOfNone
<1>2. ASSUME NEW s \in SUBSET S, NEW x \in s, s \ {x} \in T
      PROVE  s \in T
  <2>1. IsFiniteSet(s) /\ IsFiniteSet(s \cap R) /\ IsFiniteSet((s \ {x}) \cap R)
    BY FS_Subset
  <2>2. SumFunctionOnSet(f, s) = f[x] + SumFunctionOnSet(f, s \ {x})
    BY <2>1, SumOfMember
  <2>3. SumFunctionOnSet(f, (s \ {x}) \cap R) \in Int
    BY <2>1, SumIsInt
  <2>4. CASE x \in R
    <3>1. SumFunctionOnSet(f, s \cap R) = f[x] + SumFunctionOnSet(f, (s \cap R) \ {x})
      BY <2>1, <2>4, SumOfMember
    <3>2. (s \cap R) \ {x} = (s \ {x}) \cap R
      OBVIOUS
    <3> QED BY <1>2, <2>2, <3>1, <3>2
  <2>5. CASE x \notin R
    <3>1. f[x] = 0 /\ (s \ {x}) \cap R = s \cap R
      BY <2>5
    <3>2. SumFunctionOnSet(f, s) = 0 + SumFunctionOnSet(f, s \ {x})
      BY <2>2, <3>1
    <3>3. SumFunctionOnSet(f, s \ {x}) = SumFunctionOnSet(f, s \cap R)
      BY <1>2, <3>1
    <3>4. SumFunctionOnSet(f, s \cap R) \in Int
      BY <2>3, <3>1
    <3>5. SumFunctionOnSet(f, s) = SumFunctionOnSet(f, s \cap R)
      BY <3>2, <3>3, <3>4
    <3> QED BY <3>5
  <2> QED BY <2>4, <2>5
<1> HIDE DEF T
<1>3. S \in T
  BY <1>1, <1>2, SetInduction
<1>4. S \cap R = R
  OBVIOUS
<1> QED BY <1>3, <1>4 DEF T
(* Sums of sums.                                                           *)
LEMMA SumOfPlus ==
    ASSUME NEW S, IsFiniteSet(S), NEW f, NEW g, NEW h,
           \A x \in S : f[x] \in Int /\ g[x] \in Int /\ h[x] = f[x] + g[x]
    PROVE  SumFunctionOnSet(h, S) = SumFunctionOnSet(f, S) + SumFunctionOnSet(g, S)
<1> DEFINE F(s) == SumFunctionOnSet(f, s)
           G(s) == SumFunctionOnSet(g, s)
           H(s) == SumFunctionOnSet(h, s)
           T == {s \in SUBSET S : H(s) = F(s) + G(s)}
<1>1. {} \in T
  BY SumOfNone
<1>2. \A x \in S : h[x] \in Int
  OBVIOUS
<1>3. ASSUME NEW s \in SUBSET S, NEW x \in s
      PROVE  /\ F(s) = f[x] + F(s \ {x}) /\ F(s \ {x}) \in Int
             /\ G(s) = g[x] + G(s \ {x}) /\ G(s \ {x}) \in Int
             /\ H(s) = h[x] + H(s \ {x})
  <2>1. IsFiniteSet(s) /\ IsFiniteSet(s \ {x})
    BY FS_Subset
  <2> QED BY <1>2, <2>1, SumOfMember, SumIsInt
<1> HIDE DEF F, G, H
<1>4. ASSUME NEW s \in SUBSET S, NEW x \in s, s \ {x} \in T
      PROVE  s \in T
  <2> DEFINE F1 == F(s \ {x})
             G1 == G(s \ {x})
  <2>1. H(s) = (f[x] + g[x]) + (F1 + G1) /\ F(s) = f[x] + F1 /\ G(s) = g[x] + G1
    BY <1>3, <1>4
  <2>2. f[x] \in Int /\ g[x] \in Int /\ F1 \in Int /\ G1 \in Int
    BY <1>3
  <2> HIDE DEF F1, G1
  <2>3. (f[x] + g[x]) + (F1 + G1) = (f[x] + F1) + (g[x] + G1)
    BY <2>2
  <2> QED BY <2>1, <2>3
<1> HIDE DEF T
<1>5. S \in T
  BY <1>1, <1>4, SetInduction
<1> QED BY <1>5 DEF T, F, G, H

(* Elements that add nothing.                                              *)
LEMMA SumOfZeros ==
    ASSUME NEW S, IsFiniteSet(S), NEW f, \A x \in S : f[x] = 0
    PROVE  SumFunctionOnSet(f, S) = 0
<1>1. SumFunctionOnSet(f, S) = SumFunctionOnSet(f, {})
  BY SumOfOthersIsZero
<1> QED BY <1>1, SumOfNone

(* The sum of the rows of a table is that of its columns.                  *)
LEMMA SumOfSums ==
    ASSUME NEW S, IsFiniteSet(S), NEW R, IsFiniteSet(R), NEW a, NEW b,
           \A x \in S : \A y \in R : a[x][y] \in Int /\ a[x][y] = b[y][x]
    PROVE  SumFunctionOnSet([x \in S |-> SumFunctionOnSet(a[x], R)], S)
             = SumFunctionOnSet([y \in R |-> SumFunctionOnSet(b[y], S)], R)
<1> DEFINE f == [x \in S |-> SumFunctionOnSet(a[x], R)]
           c == [y \in R |-> SumFunctionOnSet(b[y], S)]
<1>1. \A x \in S : f[x] = SumFunctionOnSet(a[x], R)
  OBVIOUS
<1>2. \A y \in R : c[y] = SumFunctionOnSet(b[y], S)
  OBVIOUS
<1> HIDE DEF f, c
<1> DEFINE Columns(s) == [y \in R |-> SumFunctionOnSet(b[y], s)]
           T == {s \in SUBSET S : SumFunctionOnSet(f, s) = SumFunctionOnSet(Columns(s), R)}
<1>3. {} \in T
  <2>1. \A y \in R : Columns({})[y] = 0
    BY SumOfNone
  <2> HIDE DEF Columns
  <2> QED BY <2>1, SumOfNone, SumOfZeros
<1>4. \A x \in S : f[x] \in Int
  BY <1>1, SumIsInt
<1>5. ASSUME NEW s \in SUBSET S, NEW x \in s, s \ {x} \in T
      PROVE  s \in T
  <2>1. IsFiniteSet(s) /\ IsFiniteSet(s \ {x})
    BY FS_Subset
  <2>2. ASSUME NEW y \in R
        PROVE  /\ a[x][y] \in Int
               /\ Columns(s \ {x})[y] \in Int
               /\ Columns(s)[y] = a[x][y] + Columns(s \ {x})[y]
    <3>1. \A z \in s : b[y][z] \in Int
      OBVIOUS
    <3>2. SumFunctionOnSet(b[y], s) = b[y][x] + SumFunctionOnSet(b[y], s \ {x})
      BY <2>1, <3>1, SumOfMember
    <3>3. SumFunctionOnSet(b[y], s \ {x}) \in Int
      BY <2>1, <3>1, SumIsInt
    <3> QED BY <3>2, <3>3
  <2> HIDE DEF Columns
  <2>3. SumFunctionOnSet(Columns(s), R)
          = SumFunctionOnSet(a[x], R) + SumFunctionOnSet(Columns(s \ {x}), R)
    <3> DEFINE g1 == a[x]
               g2 == Columns(s \ {x})
               g3 == Columns(s)
    <3>1. \A y \in R : g1[y] \in Int /\ g2[y] \in Int /\ g3[y] = g1[y] + g2[y]
      BY <2>2
    <3> HIDE DEF g1, g2, g3
    <3>2. SumFunctionOnSet(g3, R) = SumFunctionOnSet(g1, R) + SumFunctionOnSet(g2, R)
      BY <3>1, SumOfPlus
    <3> QED BY <3>2 DEF g1, g2, g3
  <2>4. SumFunctionOnSet(f, s) = f[x] + SumFunctionOnSet(f, s \ {x})
    BY <1>4, <2>1, SumOfMember
  <2>5. f[x] = SumFunctionOnSet(a[x], R)
    BY <1>1
  <2> QED BY <1>5, <2>3, <2>4, <2>5
<1> HIDE DEF T
<1>6. S \in T
  BY <1>3, <1>5, SetInduction
<1>7. SumFunctionOnSet(Columns(S), R) = SumFunctionOnSet(c, R)
  <2>1. \A y \in R : Columns(S)[y] \in Int /\ Columns(S)[y] = c[y]
    <3>1. \A y \in R : SumFunctionOnSet(b[y], S) \in Int
      BY SumIsInt
    <3> QED BY <1>2, <3>1
  <2> HIDE DEF Columns
  <2> QED BY <2>1, SumOfSame
<1> QED BY <1>6, <1>7 DEF T, f, c

(* The elements may be counted under other names.                          *)
LEMMA SumOfRenamed ==
    ASSUME NEW S, IsFiniteSet(S), NEW R, IsFiniteSet(R), NEW f, NEW h, NEW p,
           \A x \in S : p[x] \in R /\ f[x] = h[p[x]],
           \A x, y \in S : p[x] = p[y] => x = y,
           \A y \in R : h[y] \in Int,
           \A y \in R : (\A x \in S : p[x] # y) => h[y] = 0
    PROVE  SumFunctionOnSet(f, S) = SumFunctionOnSet(h, R)
<1> DEFINE Names(s) == {p[x] : x \in s}
           T == {s \in SUBSET S : SumFunctionOnSet(f, s) = SumFunctionOnSet(h, Names(s))}
<1>1. {} \in T
  <2>1. Names({}) = {}
    OBVIOUS
  <2> QED BY <2>1, SumOfNone
<1>2. ASSUME NEW s \in SUBSET S, NEW x \in s, s \ {x} \in T
      PROVE  s \in T
  <2>1. IsFiniteSet(s) /\ IsFiniteSet(Names(s))
    <3>1. Names(s) \in SUBSET R
      OBVIOUS
    <3> QED BY <3>1, FS_Subset
  <2>2. p[x] \in Names(s) /\ Names(s) \ {p[x]} = Names(s \ {x})
    OBVIOUS
  <2>3. \A y \in Names(s) : h[y] \in Int
    OBVIOUS
  <2>4. \A y \in s : f[y] \in Int
    OBVIOUS
  <2>5. SumFunctionOnSet(f, s) = f[x] + SumFunctionOnSet(f, s \ {x})
    BY <2>1, <2>4, SumOfMember
  <2>6. SumFunctionOnSet(h, Names(s)) = h[p[x]] + SumFunctionOnSet(h, Names(s) \ {p[x]})
    <3> HIDE DEF Names
    <3> QED BY <2>1, <2>2, <2>3, SumOfMember
  <2>7. f[x] = h[p[x]]
    OBVIOUS
  <2> HIDE DEF Names
  <2> QED BY <1>2, <2>2, <2>5, <2>6, <2>7
<1> HIDE DEF T
<1>3. S \in T
  BY <1>1, <1>2, SetInduction
<1>4. SumFunctionOnSet(h, R) = SumFunctionOnSet(h, Names(S))
  <2>1. Names(S) \in SUBSET R /\ \A y \in R \ Names(S) : h[y] = 0
    OBVIOUS
  <2> HIDE DEF Names
  <2> QED BY <2>1, SumOfOthersIsZero
<1> QED BY <1>3, <1>4 DEF T

(* A finite set of numbers has a smallest one.                             *)
LEMMA MinIsLeast ==
    ASSUME NEW S, IsFiniteSet(S), S \subseteq Int, S # {}
    PROVE  Min(S) \in S /\ \A y \in S : Min(S) <= y
<1> DEFINE Least(s, x) == x \in s /\ \A y \in s : x <= y
           T == {s \in SUBSET S : s # {} => \E x \in s : Least(s, x)}
<1>1. {} \in T
  OBVIOUS
<1>2. ASSUME NEW s \in SUBSET S, NEW z \in s, s \ {z} \in T PROVE s \in T
  <2>1. CASE s \ {z} = {}
    <3>1. Least(s, z)
      BY <2>1
    <3> QED BY <3>1
  <2>2. CASE s \ {z} # {}
    <3>1. PICK x \in s \ {z} : Least(s \ {z}, x)
      BY <1>2, <2>2
    <3>2. x \in Int /\ z \in Int /\ \A y \in s : y \in Int /\ (y = z \/ x <= y)
      BY <3>1
    <3>3. CASE x <= z
      <4>1. Least(s, x)
        BY <3>2, <3>3
      <4> QED BY <4>1
    <3>4. CASE z <= x
      <4>1. Least(s, z)
        BY <3>2, <3>4
      <4> QED BY <4>1
    <3> QED BY <3>2, <3>3, <3>4
  <2> QED BY <2>1, <2>2
<1>3. S \in T
  <2> HIDE DEF T
  <2> QED BY <1>1, <1>2, SetInduction
<1>4. \E x \in S : \A y \in S : x <= y
  BY <1>3
<1> QED BY <1>4 DEF Min

(* A finite set of numbers has a greatest one.                             *)
LEMMA MaxIsGreatest ==
    ASSUME NEW S, IsFiniteSet(S), S \subseteq Int, S # {}
    PROVE  Max(S) \in S /\ \A y \in S : Max(S) >= y
<1> DEFINE Most(s, x) == x \in s /\ \A y \in s : x >= y
           T == {s \in SUBSET S : s # {} => \E x \in s : Most(s, x)}
<1>1. {} \in T
  OBVIOUS
<1>2. ASSUME NEW s \in SUBSET S, NEW z \in s, s \ {z} \in T PROVE s \in T
  <2>1. CASE s \ {z} = {}
    <3>1. Most(s, z)
      BY <2>1
    <3> QED BY <3>1
  <2>2. CASE s \ {z} # {}
    <3>1. PICK x \in s \ {z} : Most(s \ {z}, x)
      BY <1>2, <2>2
    <3>2. x \in Int /\ z \in Int /\ \A y \in s : y \in Int /\ (y = z \/ x >= y)
      BY <3>1
    <3>3. CASE x >= z
      <4>1. Most(s, x)
        BY <3>2, <3>3
      <4> QED BY <4>1
    <3>4. CASE z >= x
      <4>1. Most(s, z)
        BY <3>2, <3>4
      <4> QED BY <4>1
    <3> QED BY <3>2, <3>3, <3>4
  <2> QED BY <2>1, <2>2
<1>3. S \in T
  <2> HIDE DEF T
  <2> QED BY <1>1, <1>2, SetInduction
<1>4. \E x \in S : \A y \in S : x >= y
  BY <1>3
<1> QED BY <1>4 DEF Max

-----------------------------------------------------------------------------
(***************************************************************************)
(* Finite sets in order. An order is given as the set of its pairs.        *)
(***************************************************************************)
StrictOrder(S, before) ==
    /\ \A x \in S : <<x, x>> \notin before
    /\ \A x, y, z \in S : <<x, y>> \in before /\ <<y, z>> \in before => <<x, z>> \in before
    /\ \A x, y \in S : x # y => <<x, y>> \in before \/ <<y, x>> \in before

Increasing(seq, before) ==
    \A i, j \in DOMAIN seq : i < j => <<seq[i], seq[j]>> \in before

(* The greatest element.                                                   *)
LEMMA GreatestExists ==
    ASSUME NEW S, IsFiniteSet(S), S # {}, NEW before, StrictOrder(S, before)
    PROVE  \E x \in S : \A y \in S \ {x} : <<y, x>> \in before
<1> DEFINE Greatest(s, x) == x \in s /\ \A y \in s \ {x} : <<y, x>> \in before
           T == {s \in SUBSET S : s # {} => \E x \in s : Greatest(s, x)}
<1>1. {} \in T
  OBVIOUS
<1>2. ASSUME NEW s \in SUBSET S, NEW z \in s, s \ {z} \in T PROVE s \in T
  <2>1. CASE s \ {z} = {}
    <3>1. Greatest(s, z)
      BY <2>1
    <3> QED BY <3>1
  <2>2. CASE s \ {z} # {}
    <3>1. PICK x \in s \ {z} : Greatest(s \ {z}, x)
      BY <1>2, <2>2
    <3>2. CASE <<z, x>> \in before
      <4>1. Greatest(s, x)
        BY <3>1, <3>2
      <4> QED BY <4>1
    <3>3. CASE <<x, z>> \in before
      <4>1. Greatest(s, z)
        BY <3>1, <3>3 DEF StrictOrder
      <4> QED BY <4>1
    <3> QED BY <3>1, <3>2, <3>3 DEF StrictOrder
  <2> QED BY <2>1, <2>2
<1>3. S \in T
  <2> HIDE DEF T
  <2> QED BY <1>1, <1>2, SetInduction
<1> QED BY <1>3

(* What SetToSeqs returns.                                                 *)
LEMMA ArrangementShape ==
    ASSUME NEW S, IsFiniteSet(S), NEW seq \in SetToSeqs(S)
    PROVE  /\ Cardinality(S) \in Nat
           /\ DOMAIN seq = 1 .. Cardinality(S) /\ seq \in [1 .. Cardinality(S) -> S]
           /\ \A i, j \in DOMAIN seq : seq[i] = seq[j] => i = j
           /\ \A x \in S : \E i \in DOMAIN seq : seq[i] = x
<1> DEFINE D == 1 .. Cardinality(S)
<1>1. Cardinality(S) \in Nat /\ IsFiniteSet(D) /\ Cardinality(D) = Cardinality(S)
  BY FS_CardinalityType, FS_Interval
<1>2. seq \in [D -> S] /\ \A i, j \in D : i # j => seq[i] # seq[j]
  BY DEF SetToSeqs
<1> HIDE DEF D
<1>3. seq \in Injection(D, S)
  BY <1>2, Fun_IsInj
<1>4. seq \in Surjection(D, S)
  BY <1>1, <1>3, FS_Injection
<1>5. \A x \in S : \E i \in D : seq[i] = x
  BY <1>4, Fun_SurjectionProperties
<1> QED BY <1>1, <1>2, <1>5 DEF D

(* Every finite set can be put in order.                                   *)
LEMMA ArrangementExists ==
    ASSUME NEW S, IsFiniteSet(S), NEW before, StrictOrder(S, before)
    PROVE  \E seq \in SetToSeqs(S) : Increasing(seq, before)
<1> DEFINE T == {s \in SUBSET S : \E seq \in SetToSeqs(s) : Increasing(seq, before)}
<1>1. ASSUME NEW s \in SUBSET S, \A t \in SUBSET s : t # s => t \in T
      PROVE  s \in T
  <2>0. IsFiniteSet(s)
    BY FS_Subset
  <2>1. CASE s = {}
    <3> DEFINE none == [i \in 1 .. 0 |-> i]
    <3>1. Cardinality(s) = 0
      BY <2>1, FS_EmptySet
    <3>2. none \in SetToSeqs(s) /\ Increasing(none, before)
      BY <2>1, <3>1 DEF SetToSeqs, Increasing
    <3> QED BY <3>2
  <2>2. CASE s # {}
    <3>1. StrictOrder(s, before)
      BY DEF StrictOrder
    <3>2. PICK x \in s : \A y \in s \ {x} : <<y, x>> \in before
      BY <2>0, <2>2, <3>1, GreatestExists
    <3>3. PICK seq \in SetToSeqs(s \ {x}) : Increasing(seq, before)
      BY <1>1, <3>2
    <3> DEFINE n == Cardinality(s \ {x})
               longer == [i \in 1 .. n + 1 |-> IF i = n + 1 THEN x ELSE seq[i]]
    <3>4. IsFiniteSet(s \ {x}) /\ n \in Nat /\ Cardinality(s) = n + 1
      <4>1. IsFiniteSet(s \ {x}) /\ n = Cardinality(s) - 1
        BY <2>0, <3>2, FS_RemoveElement
      <4> HIDE DEF n
      <4>2. Cardinality(s) \in Nat /\ Cardinality(s \ {x}) \in Nat
        BY <2>0, <4>1, FS_CardinalityType
      <4> QED BY <4>1, <4>2 DEF n
    <3>5. /\ DOMAIN seq = 1 .. n /\ \A i \in 1 .. n : seq[i] \in s \ {x}
          /\ \A i, j \in 1 .. n : seq[i] = seq[j] => i = j
      <4>1. IsFiniteSet(s \ {x})
        BY <3>4
      <4> DEFINE rest == s \ {x}
      <4> HIDE DEF rest
      <4>2. /\ DOMAIN seq = 1 .. Cardinality(rest) /\ seq \in [1 .. Cardinality(rest) -> rest]
            /\ \A i, j \in DOMAIN seq : seq[i] = seq[j] => i = j
        <5>1. seq \in SetToSeqs(rest) /\ IsFiniteSet(rest)
          BY <4>1 DEF rest
        <5> QED BY <5>1, ArrangementShape
      <4>3. n = Cardinality(rest)
        BY DEF rest
      <4> HIDE DEF n
      <4>4. \A i \in 1 .. n : seq[i] \in rest
        BY <4>2, <4>3
      <4> QED BY <4>2, <4>3, <4>4 DEF rest
    <3> HIDE DEF n
    <3>6. \A i \in 1 .. n + 1 : i = n + 1 \/ i \in 1 .. n
      BY <3>4
    <3>7. longer \in [1 .. n + 1 -> s]
      BY <3>2, <3>5, <3>6
    <3>8. \A i, j \in 1 .. n + 1 : i # j => longer[i] # longer[j]
      BY <3>5, <3>6
    <3>9. Increasing(longer, before)
      <4> SUFFICES ASSUME NEW i \in 1 .. n + 1, NEW j \in 1 .. n + 1, i < j
                   PROVE  <<longer[i], longer[j]>> \in before
        BY DEF Increasing
      <4>1. i \in 1 .. n /\ longer[i] = seq[i]
        BY <3>4
      <4>2. CASE j = n + 1
        BY <3>2, <3>5, <4>1, <4>2
      <4>3. CASE j \in 1 .. n
        <5>1. longer[j] = seq[j]
          BY <3>4, <4>3
        <5> QED BY <3>3, <3>5, <4>1, <4>3, <5>1 DEF Increasing
      <4> QED BY <3>6, <4>2, <4>3
    <3> HIDE DEF longer
    <3>10. longer \in SetToSeqs(s)
      BY <3>4, <3>7, <3>8 DEF SetToSeqs
    <3> QED BY <3>9, <3>10
  <2> QED BY <2>1, <2>2
<1>2. S \in T
  <2> HIDE DEF T
  <2> QED BY <1>1, SubsetInduction
<1> QED BY <1>2

(* In one way only.                                                        *)
LEMMA ArrangementIsUnique ==
    ASSUME NEW S, IsFiniteSet(S), NEW before, StrictOrder(S, before),
           NEW a \in SetToSeqs(S), Increasing(a, before),
           NEW b \in SetToSeqs(S), Increasing(b, before)
    PROVE  a = b
<1> DEFINE n == Cardinality(S)
           differ == {i \in 1 .. n : a[i] # b[i]}
<1>1. /\ n \in Nat /\ DOMAIN a = 1 .. n /\ DOMAIN b = 1 .. n
      /\ a \in [1 .. n -> S] /\ b \in [1 .. n -> S]
      /\ \A i, j \in 1 .. n : (a[i] = a[j] => i = j) /\ (b[i] = b[j] => i = j)
      /\ \A x \in S : (\E i \in 1 .. n : a[i] = x) /\ (\E i \in 1 .. n : b[i] = x)
  BY ArrangementShape
<1> HIDE DEF n
<1>2. ASSUME differ # {} PROVE FALSE
  <2>1. IsFiniteSet(differ) /\ differ \subseteq Int
    <3>1. differ \in SUBSET (1 .. n) /\ IsFiniteSet(1 .. n)
      BY <1>1, FS_Interval
    <3> QED BY <1>1, <3>1, FS_Subset
  <2>2. PICK i \in differ : \A j \in differ : i <= j
    <3> HIDE DEF differ
    <3> QED BY <1>2, <2>1, MinIsLeast
  <2>3. i \in 1 .. n /\ a[i] # b[i] /\ \A j \in 1 .. n : j < i => a[j] = b[j]
    BY <1>1, <2>2
  <2>4. PICK k \in 1 .. n : b[k] = a[i]
    BY <1>1, <2>3
  <2>5. PICK l \in 1 .. n : a[l] = b[i]
    BY <1>1, <2>3
  <2>6. k > i
    <3>1. k \in Int /\ i \in Int
      BY <1>1, <2>3
    <3>2. k < i => a[k] = a[i]
      BY <2>3, <2>4
    <3>3. k < i => k = i
      BY <1>1, <2>3, <3>2
    <3>4. k # i
      BY <2>3, <2>4
    <3> QED BY <3>1, <3>3, <3>4
  <2>7. l > i
    <3>1. l \in Int /\ i \in Int
      BY <1>1, <2>3
    <3>2. l < i => b[l] = b[i]
      BY <2>3, <2>5
    <3>3. l < i => l = i
      BY <1>1, <2>3, <3>2
    <3>4. l # i
      BY <2>3, <2>5
    <3> QED BY <3>1, <3>3, <3>4
  <2>8. <<b[i], a[i]>> \in before
    BY <1>1, <2>3, <2>4, <2>6 DEF Increasing
  <2>9. <<a[i], b[i]>> \in before
    BY <1>1, <2>3, <2>5, <2>7 DEF Increasing
  <2> QED BY <1>1, <2>3, <2>8, <2>9 DEF StrictOrder
<1>3. \A i \in 1 .. n : a[i] = b[i]
  BY <1>2
<1> QED BY <1>1, <1>3
=============================================================================
