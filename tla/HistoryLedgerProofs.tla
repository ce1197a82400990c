------------------------- MODULE HistoryLedgerProofs -------------------------
(***************************************************************************)
(* The dashboard against what upstream reported: as long as snapshots are  *)
(* saved in the order they were taken, each date that is shown is the sum  *)
(* of what every lifetime of the upstream database last reported for it.   *)
(* Then what remains true when upstream takes usage back, and what remains *)
(* true when snapshots overtake each other.                                *)
(***************************************************************************)
EXTENDS HistorySyncProofs

(***************************************************************************)
(* The lifetimes of the upstream database: births[e] is the instant at     *)
(* which lifetime e began, firsts[e] that of its first request. Snapshots  *)
(* of one lifetime report the dates that it reached.                       *)
(***************************************************************************)
Reach(from, until) ==
    {d \in Dates : from < until /\ from < (d + 1) * DayLength /\ d * DayLength < until}

Bucket(d, day, from, until) ==
    /\ d \in Reach(from, until)
    /\ day.start = MaxOf(from, d * DayLength)
    /\ day.end = MinOf(until, (d + 1) * DayLength)

LifetimesInv(births, firsts) ==
    /\ births[epoch] <= now
    /\ firsts[epoch] = first
    /\ \A e \in 1 .. epoch : births[e] <= firsts[e]

SnapshotOf(s, births, firsts) ==
    /\ s.epoch \in 1 .. epoch
    /\ births[s.epoch] <= s.snapshot.end
    /\ \A f \in s.epoch + 1 .. epoch : s.snapshot.end < births[f]
    /\ DOMAIN s.snapshot.days = Reach(firsts[s.epoch], s.snapshot.end)
    /\ \A d \in DOMAIN s.snapshot.days :
           Bucket(d, s.snapshot.days[d], firsts[s.epoch], s.snapshot.end)

LedgerInv(births) ==
    /\ \A e \in 1 .. epoch :
           /\ ledger[e].end <= now
           /\ ledger[e].end # 0 => births[e] <= ledger[e].end
           /\ \A f \in e + 1 .. epoch : ledger[e].end < births[f]
    /\ \A e \in epoch + 1 .. MaxRebuilds + 1 : ledger[e].end = 0

Lives(births, firsts) ==
    /\ LifetimesInv(births, firsts)
    /\ \A s \in inflight : SnapshotOf(s, births, firsts)
    /\ LedgerInv(births)

(* Snapshots were saved in order, and no correction was taken for a        *)
(* rebuild.                                                                *)
InOrder == ~late /\ (correcting => epoch = 1 /\ Len(segments) <= 1)

(* A day that is stored is what its lifetime last reported for the date;   *)
(* none is stored twice, and all that was reported is stored.              *)
RowsOwned(firsts) ==
    \A i \in DOMAIN segments : \A d \in DOMAIN segments[i].days :
        LET day == segments[i].days[d] IN
        \E e \in Epochs :
            /\ day.snap = ledger[e].end
            /\ Bucket(d, day, firsts[e], day.snap)
            /\ Amount(day.totals, "tokens") = ledger[e].tokens[d]

RowsDistinct ==
    \A i, j \in DOMAIN segments :
        \A d \in DOMAIN segments[i].days \cap DOMAIN segments[j].days :
            i # j => segments[i].days[d].snap # segments[j].days[d].snap

ReportsStored ==
    \A e \in Epochs, d \in Dates : ledger[e].tokens[d] # 0 =>
        \E i \in DOMAIN segments :
            d \in DOMAIN segments[i].days /\ segments[i].days[d].snap = ledger[e].end

(* Nothing of a later lifetime was saved yet.                              *)
Newest(e) == \A f \in e + 1 .. MaxRebuilds + 1 : ledger[f].end = 0

(* The last segment takes all that the newest lifetime reports.            *)
LastSegmentInv(firsts) ==
    /\ segments # <<>> => /\ Last(segments).start \in Dates
                          /\ Last(segments).start * DayLength <= now
    /\ \A e \in 1 .. epoch : Newest(e) =>
           /\ segments # <<>> => Last(segments).start * DayLength <= firsts[e]
           /\ \A d \in Reach(firsts[e], ledger[e].end) :
                  /\ segments # <<>>
                  /\ d \in DOMAIN Last(segments).days
                  /\ Last(segments).days[d].snap = ledger[e].end

RowsInv(firsts) ==
    RowsOwned(firsts) /\ RowsDistinct /\ ReportsStored /\ LastSegmentInv(firsts)

(***************************************************************************)
(* Upstream may take back usage of past dates, but adds none to them. With *)
(* one account task at a time, each report is then covered by a row.       *)
(***************************************************************************)
(* The date was over when the snapshot was taken.                          *)
Over(d, day) == (d + 1) * DayLength <= day.snap

(* A day is of the lifetime that upstream is in, or ended before it began. *)
SideInv == \A x \in Seen :
    IF first = Never THEN x[2].snap < now
                     ELSE x[2].snap < first \/ first <= x[2].start

(* Upstream counts no more for a date than it did when the date was over.  *)
OverInv == \A x \in Seen :
    Over(x[1], x[2]) /\ first <= x[2].start =>
        Requests(usage, x[1]) <= x[2].totals["tokens"]

(* One report at a time: it is newer than all that was saved, and it does  *)
(* not exceed stored days of dates that were over.                         *)
AloneInv ==
    /\ \A s, t \in inflight : s = t
    /\ \A e \in Epochs : ledger[e].end <= now
    /\ \A s \in inflight :
           /\ \A e \in Epochs : ledger[e].end <= s.snapshot.end
           /\ \A x \in DaysOf(segments) :
                  Over(x[1], x[2]) /\ x[1] \in DOMAIN s.snapshot.days =>
                      s.snapshot.days[x[1]].totals["tokens"] <= x[2].totals["tokens"]

(* A row of the date, of the lifetime. *)
IsRow(e, i, d, births) ==
    /\ i \in DOMAIN segments /\ d \in DOMAIN segments[i].days
    /\ births[e] <= segments[i].days[d].snap /\ segments[i].days[d].snap <= ledger[e].end

(* Each row is of a lifetime that has been saved.                          *)
RowsBorn(births, firsts) ==
    \A i \in DOMAIN segments : \A d \in DOMAIN segments[i].days :
        \E e \in Epochs :
            /\ IsRow(e, i, d, births)
            /\ Bucket(d, segments[i].days[d], firsts[e], segments[i].days[d].snap)

(* What a lifetime last reported is covered by one of its rows.            *)
ReportsCovered(births, firsts) ==
    \A e \in Epochs, d \in Dates : ledger[e].tokens[d] # 0 =>
        /\ d \in Reach(firsts[e], ledger[e].end)
        /\ \E i \in DOMAIN segments :
               /\ IsRow(e, i, d, births)
               /\ ledger[e].tokens[d] <= segments[i].days[d].totals["tokens"]

(* The last segment takes what the newest lifetime reports from its start  *)
(* on; of the dates before it there are rows from after they were over.    *)
StartCovered(births, firsts) ==
    /\ segments # <<>> => /\ Last(segments).start \in Dates
                          /\ Last(segments).start * DayLength <= now
    /\ \A e \in 1 .. epoch : Newest(e) =>
           /\ \A d \in Reach(firsts[e], ledger[e].end) :
                  /\ segments # <<>>
                  /\ d >= Last(segments).start =>
                         /\ d \in DOMAIN Last(segments).days
                         /\ Last(segments).days[d].snap = ledger[e].end
           /\ \A d \in Dates : segments # <<>> /\ d < Last(segments).start =>
                  \/ (d + 1) * DayLength <= firsts[e]
                  \/ \E i \in DOMAIN segments :
                         IsRow(e, i, d, births) /\ Over(d, segments[i].days[d])

RowsKept(births, firsts) ==
    /\ RowsBorn(births, firsts)
    /\ ReportsCovered(births, firsts)
    /\ StartCovered(births, firsts)

LedgerTyped ==
    /\ epoch \in Epochs
    /\ ledger \in [Epochs -> [end : Int, tokens : [Dates -> Int]]]

LivesInv ==
    \E births, firsts \in [Epochs -> Nat] :
        /\ Lives(births, firsts)
        /\ InOrder => RowsInv(firsts)
        /\ Tasks <= 1 => RowsKept(births, firsts)

LedgerIInv ==
    /\ HistoryIInv /\ SumsInv /\ LedgerTyped /\ LivesInv
    /\ Tasks <= 1 => SideInv /\ OverInv /\ AloneInv

-----------------------------------------------------------------------------
(* A later report reaches all dates that an earlier one did.               *)
LEMMA ReachGrows ==
    ASSUME NEW f \in Int, NEW t \in Int, NEW u \in Int, t <= u
    PROVE  Reach(f, t) \subseteq Reach(f, u)
<1>1. ASSUME NEW d \in Reach(f, t) PROVE d \in Reach(f, u)
  <2>1. d \in Int /\ d * DayLength \in Int
    BY DatesAreNumbers, DayStart DEF Reach
  <2> QED BY <2>1 DEF Reach
<1> QED BY <1>1

(* The report has a bucket for each date it reaches, and no other.         *)
LEMMA LifetimeReach ==
    ASSUME StateTyped
    PROVE  /\ DOMAIN Lifetime.days = Reach(first, now)
           /\ \A d \in DOMAIN Lifetime.days : Bucket(d, Lifetime.days[d], first, now)
<1>1. first \in Int /\ now \in Int
  BY DEF StateTyped
<1>2. DOMAIN Lifetime.days =
        {d \in Dates : MaxOf(first, d * DayLength) < MinOf(now, (d + 1) * DayLength)}
  BY DEF Lifetime
<1>3. ASSUME NEW d \in Dates
      PROVE  MaxOf(first, d * DayLength) < MinOf(now, (d + 1) * DayLength) <=>
               first < now /\ first < (d + 1) * DayLength /\ d * DayLength < now
  <2>1. d \in Int /\ d + 1 \in Int /\ d < d + 1
    BY DatesAreNumbers
  <2>2. d * DayLength \in Int /\ (d + 1) * DayLength \in Int
        /\ d * DayLength < (d + 1) * DayLength
    BY <2>1, HistoryAssumption
  <2> QED BY <1>1, <2>2 DEF MaxOf, MinOf
<1>4. DOMAIN Lifetime.days = Reach(first, now)
  BY <1>2, <1>3 DEF Reach
<1>5. ASSUME NEW d \in DOMAIN Lifetime.days
      PROVE  Bucket(d, Lifetime.days[d], first, now)
  <2>1. /\ Lifetime.days[d].start = MaxOf(first, d * DayLength)
        /\ Lifetime.days[d].end = MinOf(now, (d + 1) * DayLength)
    BY <1>5 DEF Lifetime
  <2> QED BY <1>4, <2>1 DEF Bucket
<1> QED BY <1>4, <1>5

(* No day is reached before it began: reports without requests are empty.  *)
LEMMA ReachNothing ==
    ASSUME NEW f \in Int, NEW t \in Int, t <= f PROVE Reach(f, t) = {}
BY DEF Reach

(* No rows and no reports.                                                 *)
LEMMA InitRowsKept ==
    ASSUME Init, NEW births, NEW firsts, \A e \in Epochs : firsts[e] \in Nat
    PROVE  RowsKept(births, firsts)
<1>1. segments = <<>> /\ epoch = 1 /\ 1 \in Epochs
  BY HistoryAssumption DEF Init, Epochs
<1>2. \A e \in Epochs : ledger[e].end = 0 /\ \A d \in Dates : ledger[e].tokens[d] = 0
  BY DEF Init
<1>3. Reach(firsts[1], ledger[1].end) = {}
  BY <1>1, <1>2, ReachNothing
<1>4. RowsBorn(births, firsts) /\ ReportsCovered(births, firsts)
  BY <1>1, <1>2 DEF RowsBorn, ReportsCovered
<1>5. StartCovered(births, firsts)
  BY <1>1, <1>3 DEF StartCovered
<1> QED BY <1>4, <1>5 DEF RowsKept

(* Nothing is reported and nothing is stored at first.                     *)
LEMMA InitLedgerIInv == Init => LedgerIInv
<1> SUFFICES ASSUME Init PROVE LedgerIInv
  OBVIOUS
<1> DEFINE births == [e \in Epochs |-> 0]
           firsts == [e \in Epochs |-> Never]
<1>1. /\ Never \in Nat /\ 1 \in Epochs /\ Epochs \subseteq Nat
      /\ births \in [Epochs -> Nat] /\ firsts \in [Epochs -> Nat]
      /\ \A e \in Epochs : births[e] = 0 /\ firsts[e] = Never
  BY HistoryAssumption DEF Never, Epochs
<1>2. HistoryIInv
  BY InitHistoryIInv
<1>3. SumsInv
  <2>1. DaysOf(segments) = {}
    BY DaysOfMember DEF Init
  <2> QED BY <2>1 DEF SumsInv, Seen, Init
<1>4. \A e \in Epochs : ledger[e].end = 0 /\ \A d \in Dates : ledger[e].tokens[d] = 0
  BY DEF Init
<1>5. LedgerTyped
  <2> DEFINE entry == [end |-> 0, tokens |-> [d \in Dates |-> 0]]
  <2>1. entry \in [end : Int, tokens : [Dates -> Int]]
    OBVIOUS
  <2>2. ledger = [e \in Epochs |-> entry]
    BY DEF Init
  <2> HIDE DEF entry
  <2> QED BY <1>1, <2>1, <2>2 DEF LedgerTyped, Init
<1>6. Lives(births, firsts)
  <2>1. epoch = 1 /\ now = 0 /\ first = Never /\ inflight = {}
    BY DEF Init
  <2>2. LifetimesInv(births, firsts)
    BY <1>1, <2>1 DEF LifetimesInv
  <2>3. LedgerInv(births)
    BY <1>1, <1>4, <2>1 DEF LedgerInv, Epochs
  <2> QED BY <2>1, <2>2, <2>3 DEF Lives
<1>7. RowsInv(firsts)
  <2>1. segments = <<>> /\ epoch = 1
    BY DEF Init
  <2>2. Reach(firsts[1], ledger[1].end) = {}
    BY <1>1, <1>4, ReachNothing
  <2>3. LastSegmentInv(firsts)
    BY <2>1, <2>2 DEF LastSegmentInv
  <2> HIDE DEF firsts
  <2>4. RowsOwned(firsts) /\ RowsDistinct /\ ReportsStored
    BY <1>4, <2>1 DEF RowsOwned, RowsDistinct, ReportsStored
  <2> QED BY <2>3, <2>4 DEF RowsInv
<1>8. RowsKept(births, firsts)
  BY <1>1, InitRowsKept
<1>9. SideInv /\ OverInv /\ AloneInv
  <2>1. Seen = {} /\ inflight = {} /\ now = 0
    <3>1. DaysOf(segments) = {}
      BY DaysOfMember DEF Init
    <3> QED BY <3>1 DEF Seen, Init
  <2> QED BY <1>4, <2>1 DEF SideInv, OverInv, AloneInv
<1> HIDE DEF births, firsts
<1> QED BY <1>1, <1>2, <1>3, <1>5, <1>6, <1>7, <1>8, <1>9 DEF LedgerIInv, LivesInv

-----------------------------------------------------------------------------
(* Lifetimes are numbered.                                                 *)
LEMMA EpochNumbers ==
    ASSUME LedgerTyped
    PROVE  /\ MaxRebuilds \in Nat /\ Epochs = 1 .. MaxRebuilds + 1
           /\ epoch \in Epochs /\ epoch \in Nat /\ 1 .. epoch \subseteq Epochs
           /\ \A e \in Epochs : /\ ledger[e].end \in Int
                                /\ \A d \in Dates : ledger[e].tokens[d] \in Int
BY HistoryAssumption DEF LedgerTyped, Epochs

(* Reports of different lifetimes are of different instants.               *)
LEMMA LedgerDistinct ==
    ASSUME LedgerTyped, NEW births \in [Epochs -> Nat], LedgerInv(births),
           NEW a \in Epochs, NEW b \in Epochs, a # b, ledger[a].end # 0
    PROVE  ledger[a].end # ledger[b].end
<1>1. /\ MaxRebuilds \in Nat /\ Epochs = 1 .. MaxRebuilds + 1 /\ epoch \in Nat
      /\ \A e \in Epochs : ledger[e].end \in Int /\ births[e] \in Nat
  BY EpochNumbers
<1>2. ASSUME NEW x \in Epochs, NEW y \in Epochs, x < y,
             ledger[x].end = ledger[y].end, ledger[x].end # 0
      PROVE  FALSE
  <2>1. y \in 1 .. epoch
    BY <1>1, <1>2 DEF LedgerInv
  <2>2. x \in 1 .. epoch /\ y \in x + 1 .. epoch
    BY <1>1, <1>2, <2>1
  <2>3. ledger[x].end < births[y] /\ births[y] <= ledger[y].end
    BY <1>2, <2>1, <2>2 DEF LedgerInv
  <2> QED BY <1>1, <1>2, <2>3
<1>3. a < b \/ b < a
  BY <1>1
<1> QED BY <1>2, <1>3

(* The lifetime that a stored day is of, by its snapshot.                  *)
LEMMA OwnerFacts ==
    ASSUME HistoryIInv, LedgerTyped, NEW births \in [Epochs -> Nat], LedgerInv(births),
           NEW firsts \in [Epochs -> Nat], RowsOwned(firsts),
           NEW i \in DOMAIN segments, NEW d \in DOMAIN segments[i].days
    PROVE  LET day == segments[i].days[d] IN
           /\ \E e \in Epochs : day.snap = ledger[e].end
           /\ \A e \in Epochs : day.snap = ledger[e].end =>
                  /\ Bucket(d, day, firsts[e], day.snap)
                  /\ Amount(day.totals, "tokens") = ledger[e].tokens[d]
<1> DEFINE day == segments[i].days[d]
<1>1. PICK f \in Epochs :
            /\ day.snap = ledger[f].end
            /\ Bucket(d, day, firsts[f], day.snap)
            /\ Amount(day.totals, "tokens") = ledger[f].tokens[d]
  BY DEF RowsOwned
<1>2. day.snap > 0 /\ day.snap \in Int
  BY RowFacts
<1> HIDE DEF day
<1>3. ASSUME NEW e \in Epochs, day.snap = ledger[e].end PROVE e = f
  <2>1. ledger[f].end # 0 /\ ledger[f].end = ledger[e].end
    BY <1>1, <1>2, <1>3
  <2> QED BY <2>1, LedgerDistinct
<1> QED BY <1>1, <1>3 DEF day

(* A snapshot that is not late meets days of its own lifetime and earlier. *)
Ready(s, births, firsts) ==
    /\ HistoryIInv /\ SumsInv /\ LedgerTyped
    /\ births \in [Epochs -> Nat] /\ firsts \in [Epochs -> Nat]
    /\ Lives(births, firsts)
    /\ s \in inflight
    /\ \A e \in Epochs : ledger[e].end <= s.snapshot.end

(* What is known of a snapshot that may be saved: it is the latest of the  *)
(* newest lifetime.                                                        *)
LEMMA ReadyFacts ==
    ASSUME NEW s, NEW births, NEW firsts, Ready(s, births, firsts)
    PROVE  LET e == s.epoch
               t == s.snapshot.end IN
           /\ e \in 1 .. epoch /\ e \in Epochs
           /\ t \in Int /\ now \in Int /\ t <= now
           /\ births[e] \in Nat /\ births[e] <= t
           /\ firsts[e] \in Nat /\ births[e] <= firsts[e]
           /\ Newest(e)
           /\ \A f \in e + 1 .. epoch : t < births[f]
           /\ \A f \in Epochs : f # e => ledger[f].end < births[e]
                                          \/ ledger[f].end = 0
           /\ DOMAIN s.snapshot.days = Reach(firsts[e], t)
           /\ \A d \in DOMAIN s.snapshot.days : Bucket(d, s.snapshot.days[d], firsts[e], t)
<1> DEFINE e == s.epoch
           t == s.snapshot.end
<1>1. SnapshotOf(s, births, firsts) /\ LifetimesInv(births, firsts) /\ LedgerInv(births)
  BY DEF Ready, Lives
<1>2. /\ MaxRebuilds \in Nat /\ Epochs = 1 .. MaxRebuilds + 1 /\ epoch \in Nat
      /\ \A f \in Epochs : ledger[f].end \in Int /\ births[f] \in Nat /\ firsts[f] \in Nat
      /\ 1 .. epoch \subseteq Epochs
  BY EpochNumbers DEF Ready
<1>3. t \in Int /\ now \in Int /\ t <= now
  BY DEF Ready, HistoryIInv, HistoryTyped, StateTyped, SnapshotsInv, Timed
<1>4. /\ e \in 1 .. epoch /\ births[e] <= t /\ births[e] <= firsts[e]
      /\ \A f \in e + 1 .. epoch : t < births[f]
      /\ DOMAIN s.snapshot.days = Reach(firsts[e], t)
      /\ \A d \in DOMAIN s.snapshot.days : Bucket(d, s.snapshot.days[d], firsts[e], t)
  BY <1>1 DEF SnapshotOf, LifetimesInv
<1>5. \A f \in Epochs : ledger[f].end <= t
  BY DEF Ready
<1> HIDE DEF e, t
<1>6. ASSUME NEW f \in e + 1 .. MaxRebuilds + 1 PROVE ledger[f].end = 0
  <2>1. CASE f \in e + 1 .. epoch
    <3>1. f \in 1 .. epoch /\ f \in Epochs
      BY <1>2, <1>4, <2>1
    <3>2. ledger[f].end # 0 => births[f] <= ledger[f].end
      BY <1>1, <3>1 DEF LedgerInv
    <3> QED BY <1>2, <1>3, <1>4, <1>5, <2>1, <3>1, <3>2
  <2>2. CASE f \in epoch + 1 .. MaxRebuilds + 1
    BY <1>1, <2>2 DEF LedgerInv
  <2> QED BY <1>2, <1>4, <2>1, <2>2
<1>7. ASSUME NEW f \in Epochs, f # e
      PROVE  ledger[f].end < births[e] \/ ledger[f].end = 0
  <2>1. CASE f < e
    <3>1. f \in 1 .. epoch /\ e \in f + 1 .. epoch
      BY <1>2, <1>4, <2>1
    <3> QED BY <1>1, <3>1 DEF LedgerInv
  <2>2. CASE e < f
    <3>1. f \in e + 1 .. MaxRebuilds + 1
      BY <1>2, <1>4, <2>2
    <3> QED BY <1>6, <3>1
  <2> QED BY <1>2, <1>4, <1>7, <2>1, <2>2
<1> QED BY <1>2, <1>3, <1>4, <1>6, <1>7 DEF Newest, e, t

(* Its days.                                                               *)
LEMMA SnapshotDay ==
    ASSUME NEW s, NEW births, NEW firsts, Ready(s, births, firsts),
           NEW d \in DOMAIN s.snapshot.days
    PROVE  LET day == s.snapshot.days[d]
               from == firsts[s.epoch] IN
           /\ d \in Dates /\ d \in Nat
           /\ d * DayLength \in Int /\ (d + 1) * DayLength \in Int
           /\ from < s.snapshot.end /\ from < (d + 1) * DayLength
           /\ d * DayLength < s.snapshot.end
           /\ day.start = MaxOf(from, d * DayLength)
           /\ day.start >= from
           /\ DOMAIN day.totals = {"tokens"} /\ day.totals["tokens"] \in Int
           /\ Amount(day.totals, "tokens") = day.totals["tokens"]
           /\ Bucket(d, day, from, s.snapshot.end)
<1> DEFINE day == s.snapshot.days[d]
           from == firsts[s.epoch]
           x == <<d, StoredDay(day, s.snapshot.end)>>
<1>1. Bucket(d, day, from, s.snapshot.end)
  BY ReadyFacts
<1>2. x \in DaysIn(s.snapshot)
  BY DEF DaysIn
<1>3. AddsUp(x[2])
  BY <1>2 DEF Ready, SumsInv, Seen
<1>4. x[2].totals = day.totals
  BY DEF StoredDay
<1>5. day.totals["tokens"] = SumFunctionOnSet(Details(x[2]), Model)
      /\ DOMAIN day.totals = {"tokens"}
  BY <1>3, <1>4 DEF AddsUp
<1> HIDE DEF x
<1>7. day.totals["tokens"] \in Int
  BY <1>3, <1>4, TotalIsNumber
<1>8. Amount(day.totals, "tokens") = day.totals["tokens"]
  BY <1>5 DEF Amount
<1>9. from \in Nat
  BY ReadyFacts
<1> HIDE DEF day, from
<1>10. /\ d \in Dates /\ from < s.snapshot.end /\ from < (d + 1) * DayLength
       /\ d * DayLength < s.snapshot.end /\ day.start = MaxOf(from, d * DayLength)
  BY <1>1 DEF Bucket, Reach
<1>11. d \in Nat /\ d * DayLength \in Int /\ (d + 1) * DayLength \in Int
  <2>1. d \in Nat /\ d + 1 \in Int
    BY <1>10, DatesAreNumbers
  <2> QED BY <2>1, DayStart
<1>12. day.start >= from
  BY <1>9, <1>10, <1>11 DEF MaxOf
<1> QED BY <1>1, <1>5, <1>7, <1>8, <1>10, <1>11, <1>12 DEF day, from

(* A day of an earlier lifetime ended before this one began: in the date   *)
(* of its first request it shows that upstream was rebuilt.                *)
LEMMA EarlierDay ==
    ASSUME NEW s, NEW births, NEW firsts, Ready(s, births, firsts), RowsInv(firsts),
           NEW i \in DOMAIN segments, NEW d \in DOMAIN segments[i].days,
           d \in DOMAIN s.snapshot.days,
           segments[i].days[d].snap # ledger[s.epoch].end
    PROVE  LET day == segments[i].days[d] IN
           /\ day.end = day.snap /\ day.snap <= s.snapshot.end
           /\ d * DayLength < firsts[s.epoch]
           /\ SnapshotReset(day, s.snapshot.days[d])
<1> DEFINE day == segments[i].days[d]
           from == firsts[s.epoch]
<1>1. /\ d * DayLength \in Int /\ (d + 1) * DayLength \in Int
      /\ day.start \in Int /\ day.end \in Int /\ day.snap \in Int
      /\ d * DayLength <= day.start /\ day.start < day.end
      /\ day.end <= day.snap /\ day.snap > 0
  BY RowFacts DEF Ready
<1>2. PICK f \in Epochs : day.snap = ledger[f].end
  BY OwnerFacts DEF Ready, Lives, RowsInv
<1>3. Bucket(d, day, firsts[f], day.snap)
  BY <1>2, OwnerFacts DEF Ready, Lives, RowsInv
<1>4. /\ s.epoch \in Epochs /\ births[s.epoch] \in Nat /\ from \in Nat
      /\ births[s.epoch] <= from /\ s.snapshot.end \in Int
      /\ \A g \in Epochs : g # s.epoch => ledger[g].end < births[s.epoch]
                                          \/ ledger[g].end = 0
  BY ReadyFacts
<1>5. /\ from < s.snapshot.end /\ from < (d + 1) * DayLength
      /\ s.snapshot.days[d].start >= from
      /\ s.snapshot.days[d].start = MaxOf(from, d * DayLength)
  BY SnapshotDay
<1> HIDE DEF day, from
<1>6. day.snap < births[s.epoch]
  <2>1. f # s.epoch
    BY <1>2 DEF day
  <2> QED BY <1>1, <1>2, <1>4, <2>1
<1>7. day.end = day.snap
  <2>1. day.end = MinOf(day.snap, (d + 1) * DayLength)
    BY <1>3 DEF Bucket
  <2> QED BY <1>1, <1>4, <1>5, <1>6, <2>1 DEF MinOf
<1>8. s.snapshot.days[d].start \in Int
  BY <1>1, <1>4, <1>5 DEF MaxOf
<1>9. SnapshotReset(day, s.snapshot.days[d])
  BY <1>1, <1>4, <1>5, <1>6, <1>7, <1>8 DEF SnapshotReset
<1> QED BY <1>1, <1>4, <1>5, <1>6, <1>7, <1>9 DEF day, from

(* A day of the same lifetime is in the last segment, and reported again.  *)
LEMMA OwnDay ==
    ASSUME NEW s, NEW births, NEW firsts, Ready(s, births, firsts), RowsInv(firsts),
           NEW i \in DOMAIN segments, NEW d \in DOMAIN segments[i].days,
           segments[i].days[d].snap = ledger[s.epoch].end
    PROVE  /\ d \in DOMAIN s.snapshot.days
           /\ i = Len(segments)
           /\ d \in Reach(firsts[s.epoch], ledger[s.epoch].end)
           /\ segments[i].days[d].start = s.snapshot.days[d].start
<1> DEFINE day == segments[i].days[d]
           e == s.epoch
<1>1. e \in Epochs /\ e \in 1 .. epoch /\ Newest(e) /\ firsts[e] \in Nat
      /\ s.snapshot.end \in Int
      /\ DOMAIN s.snapshot.days = Reach(firsts[e], s.snapshot.end)
  BY ReadyFacts
<1>2. Bucket(d, day, firsts[e], day.snap)
  BY <1>1, OwnerFacts DEF Ready, Lives, RowsInv
<1>3. ledger[e].end <= s.snapshot.end /\ ledger[e].end \in Int
  BY <1>1, EpochNumbers DEF Ready
<1>4. d \in Reach(firsts[e], ledger[e].end) /\ day.start = MaxOf(firsts[e], d * DayLength)
  BY <1>2 DEF Bucket
<1>5. d \in DOMAIN s.snapshot.days
  <2> HIDE DEF e
  <2> QED BY <1>1, <1>3, <1>4, ReachGrows
<1>6. /\ segments # <<>> /\ d \in DOMAIN Last(segments).days
      /\ Last(segments).days[d].snap = ledger[e].end
  BY <1>1, <1>4 DEF Ready, RowsInv, LastSegmentInv
<1>7. Len(segments) \in DOMAIN segments /\ Last(segments) = segments[Len(segments)]
  BY <1>6, LastSegment DEF Ready, HistoryIInv, HistoryTyped, StateTyped
<1>8. i = Len(segments)
  BY <1>6, <1>7 DEF Ready, RowsInv, RowsDistinct
<1>9. s.snapshot.days[d].start = MaxOf(firsts[e], d * DayLength)
  BY <1>5, SnapshotDay
<1> QED BY <1>4, <1>5, <1>8, <1>9

(* It does not look like a rebuild, unless upstream corrects dates.        *)
LEMMA OwnDayIsNoReset ==
    ASSUME NEW s, NEW births, NEW firsts, Ready(s, births, firsts),
           RowsInv(firsts), ~correcting,
           NEW i \in DOMAIN segments, NEW d \in DOMAIN segments[i].days,
           segments[i].days[d].snap = ledger[s.epoch].end,
           segments[i].days[d].end = segments[i].days[d].snap
    PROVE  ~SnapshotReset(segments[i].days[d], s.snapshot.days[d])
<1> DEFINE day == segments[i].days[d]
           next == s.snapshot.days[d]
           x == <<d, day>>
           y == <<d, StoredDay(next, s.snapshot.end)>>
<1>1. x \in Seen /\ day.start \in Int /\ day.snap \in Int
  BY RowFacts DEF Ready
<1>2. d \in DOMAIN s.snapshot.days /\ day.start = next.start
  BY OwnDay
<1>3. day.snap <= s.snapshot.end
  BY ReadyFacts DEF Ready
<1>4. Follows(day, next)
  <2>1. x[1] = d /\ x[2] = day
    OBVIOUS
  <2> HIDE DEF x, day, next
  <2>2. next = s.snapshot.days[d]
    BY DEF next
  <2>3. day.end = day.snap
    BY DEF day
  <2> QED BY <1>1, <1>2, <1>3, <2>1, <2>2, <2>3 DEF Ready, HistoryIInv, OrderInv
<1>5. ~DetailsRegressed(day, next)
  BY <1>1, <1>2, <1>4 DEF Follows
<1>6. AddsUp(day)
  BY <1>1 DEF Ready, SumsInv
<1>7. AddsUp(y[2]) /\ y[2].totals = next.totals /\ y[2].details = next.details
  <2>1. y \in Seen
    BY <1>2 DEF Ready, Seen, DaysIn
  <2> QED BY <2>1 DEF Ready, SumsInv, StoredDay
<1> DEFINE later == y[2]
<1> HIDE DEF day, next, y, later
<1>8. ~DetailsRegressed(day, later)
  BY <1>5, <1>7 DEF DetailsRegressed, later
<1>9. day.totals["tokens"] <= later.totals["tokens"]
  BY <1>6, <1>7, <1>8, TotalsFollow DEF later
<1>10. day.totals["tokens"] \in Int /\ later.totals["tokens"] \in Int
  BY <1>6, <1>7, TotalIsNumber DEF later
<1>11. ~TotalsRegressed(day.totals, next.totals)
  BY <1>6, <1>7, <1>9, <1>10 DEF TotalsRegressed, AddsUp, later
<1>12. ~SnapshotReset(day, next)
  BY <1>1, <1>2, <1>11 DEF SnapshotReset
<1> QED BY <1>12 DEF day, next

-----------------------------------------------------------------------------
(* What a save of a snapshot that is not late makes of the segments: the   *)
(* last one has all days of the snapshot, no other segment has days of its *)
(* lifetime, and days of other lifetimes stay.                             *)
Taken(n, s, firsts) ==
    /\ Len(n) \in DOMAIN n /\ n # <<>> /\ Last(n) = n[Len(n)]
    /\ Last(n).start \in Dates /\ Last(n).start * DayLength <= firsts[s.epoch]
    /\ \A d \in DOMAIN s.snapshot.days :
           /\ d \in DOMAIN Last(n).days
           /\ Last(n).days[d] = StoredDay(s.snapshot.days[d], s.snapshot.end)
    /\ \A i \in DOMAIN n : \A d \in DOMAIN n[i].days :
           \/ i = Len(n) /\ d \in DOMAIN s.snapshot.days
           \/ /\ i \in DOMAIN segments /\ d \in DOMAIN segments[i].days
              /\ n[i].days[d] = segments[i].days[d]
              /\ segments[i].days[d].snap # ledger[s.epoch].end
    /\ \A i \in DOMAIN segments : \A d \in DOMAIN segments[i].days :
           segments[i].days[d].snap # ledger[s.epoch].end =>
               /\ i \in DOMAIN n /\ d \in DOMAIN n[i].days
               /\ n[i].days[d] = segments[i].days[d]

(* A segment that began before the lifetime takes all of its days.         *)
LEMMA AllReplaced ==
    ASSUME NEW s, NEW births, NEW firsts, Ready(s, births, firsts),
           NEW g, g.start \in Dates, g.start * DayLength <= firsts[s.epoch],
           \A d \in DOMAIN g.days \cap DOMAIN s.snapshot.days :
               s.snapshot.end >= g.days[d].snap
    PROVE  /\ Replaced(g, s.snapshot) = DOMAIN s.snapshot.days
           /\ \A d \in DOMAIN s.snapshot.days : d >= g.start
<1>1. ASSUME NEW d \in DOMAIN s.snapshot.days PROVE d >= g.start
  <2> DEFINE from == firsts[s.epoch]
             start == g.start
  <2>1. d \in Nat /\ from < (d + 1) * DayLength /\ (d + 1) * DayLength \in Int
    BY SnapshotDay
  <2>2. from \in Nat /\ start \in Nat /\ start * DayLength <= from
    BY ReadyFacts, DatesAreNumbers
  <2> HIDE DEF from, start
  <2>3. d + 1 \in Int /\ start \in Int
    BY <2>1, <2>2
  <2>4. d + 1 <= start => (d + 1) * DayLength <= start * DayLength
    BY <2>3, DayStart
  <2>5. start * DayLength \in Int
    BY <2>3, DayStart
  <2>6. d >= start
    BY <2>1, <2>2, <2>4, <2>5
  <2> QED BY <2>6 DEF start
<1> QED BY <1>1 DEF Replaced

(* The first segment begins with the date of the first request.            *)
LEMMA FirstSegmentStart ==
    ASSUME NEW s, NEW births, NEW firsts, Ready(s, births, firsts),
           DOMAIN s.snapshot.days # {}
    PROVE  LET date == FirstDate(s.snapshot.days) IN
           date \in DOMAIN s.snapshot.days /\ date * DayLength <= firsts[s.epoch]
<1> DEFINE days == s.snapshot.days
           from == firsts[s.epoch]
           first0 == from \div DayLength
<1>1. /\ from \in Nat /\ DayLength \in Nat \ {0}
      /\ DOMAIN days = Reach(from, s.snapshot.end)
      /\ s.snapshot.end \in Int
  BY ReadyFacts, HistoryAssumption
<1>2. \A d \in DOMAIN days : /\ d \in Nat /\ d \in Dates
                             /\ d * DayLength \in Int /\ (d + 1) * DayLength \in Int
                             /\ from < s.snapshot.end /\ from < (d + 1) * DayLength
                             /\ days[d].start = MaxOf(from, d * DayLength)
  BY SnapshotDay
<1> HIDE DEF days, from
<1>3. /\ first0 \in Nat
      /\ first0 * DayLength <= from /\ from < (first0 + 1) * DayLength
  BY <1>1
<1> HIDE DEF first0
<1>4. /\ first0 * DayLength \in Int /\ (first0 + 1) * DayLength \in Int
  <2>1. first0 \in Int /\ first0 + 1 \in Int
    BY <1>3
  <2> QED BY <2>1, DayStart
<1>5. \A d \in DOMAIN days : first0 <= d
  <2> SUFFICES ASSUME NEW d \in DOMAIN days PROVE first0 <= d
    OBVIOUS
  <2>1. d + 1 \in Int /\ first0 \in Int /\ d \in Int
    BY <1>2, <1>3
  <2>2. d + 1 <= first0 => (d + 1) * DayLength <= first0 * DayLength
    BY <2>1, DayStart
  <2> QED BY <1>1, <1>2, <1>3, <1>4, <2>1, <2>2
<1>6. first0 \in DOMAIN days
  <2>1. PICK d \in DOMAIN days : TRUE
    BY DEF days
  <2>2. first0 \in Dates
    BY <1>2, <1>3, <1>5, <2>1, HistoryAssumption DEF Dates, Date
  <2> QED BY <1>1, <1>2, <1>3, <1>4, <2>1, <2>2 DEF Reach
<1>7. days[first0].start = from
  BY <1>1, <1>2, <1>3, <1>4, <1>6 DEF MaxOf
<1> DEFINE IsFirst(d) == \A e \in DOMAIN days :
              \/ days[d].start < days[e].start
              \/ days[d].start = days[e].start /\ d <= e
<1>8. IsFirst(first0)
  <2> SUFFICES ASSUME NEW d \in DOMAIN days
               PROVE  \/ days[first0].start < days[d].start
                      \/ days[first0].start = days[d].start /\ first0 <= d
    OBVIOUS
  <2>1. from \in Int /\ d * DayLength \in Int /\ days[d].start = MaxOf(from, d * DayLength)
    BY <1>1, <1>2
  <2>2. from < days[d].start \/ from = days[d].start
    BY <2>1 DEF MaxOf
  <2> QED BY <1>5, <1>7, <2>2
<1>9. FirstDate(days) = CHOOSE d \in DOMAIN days : IsFirst(d)
  BY DEF FirstDate
<1>10. FirstDate(days) \in DOMAIN days /\ IsFirst(FirstDate(days))
  BY <1>6, <1>8, <1>9
<1>11. FirstDate(days) = first0
  <2> DEFINE date == FirstDate(days)
  <2>1. date \in DOMAIN days /\ date \in Nat /\ first0 <= date
        /\ days[date].start = MaxOf(from, date * DayLength) /\ date * DayLength \in Int
    BY <1>2, <1>5, <1>10
  <2>2. days[date].start < from \/ (days[date].start = from /\ date <= first0)
    BY <1>6, <1>7, <1>10
  <2> HIDE DEF date
  <2>3. ~(days[date].start < from)
    BY <1>1, <2>1 DEF MaxOf
  <2>4. date = first0
    BY <1>3, <2>1, <2>2, <2>3
  <2> QED BY <2>4 DEF date
<1> QED BY <1>3, <1>6, <1>11 DEF days, from

(* The first segment takes the whole snapshot.                             *)
LEMMA FirstSegmentTaken ==
    ASSUME NEW s, NEW births, NEW firsts, Ready(s, births, firsts),
           Accepted(segments, s.snapshot), DOMAIN s.snapshot.days # {},
           segments = <<>>
    PROVE  Taken(SaveSegments(segments, s.snapshot), s, firsts)
<1> DEFINE days == s.snapshot.days
           date == FirstDate(days)
           g == NewSegment(date)
           n == SaveSegments(segments, s.snapshot)
           r == ReplaceDays(g, s.snapshot)
<1>1. date \in DOMAIN days /\ date * DayLength <= firsts[s.epoch]
  BY FirstSegmentStart
<1>2. g.start = date /\ DOMAIN g.days = {} /\ IsSegment(g)
  BY NewSegmentIsSegment
<1>3. date \in Dates
  BY <1>1, SnapshotDay
<1>4. Replaced(g, s.snapshot) = DOMAIN days
  BY <1>1, <1>2, <1>3, AllReplaced
<1>5. /\ r.start = date /\ DOMAIN r.days = DOMAIN days
      /\ \A d \in DOMAIN days : r.days[d] = StoredDay(days[d], s.snapshot.end)
  <2> HIDE DEF g
  <2>1. /\ r.start = g.start
        /\ DOMAIN r.days = Replaced(g, s.snapshot) \cup DOMAIN g.days
        /\ \A d \in Replaced(g, s.snapshot) :
               r.days[d] = StoredDay(s.snapshot.days[d], s.snapshot.end)
    <3>1. IsSegment(g)
      BY <1>2
    <3> QED BY <3>1, DaysAfter
  <2> HIDE DEF r
  <2> QED BY <1>2, <1>4, <2>1 DEF days
<1>6. n = <<r>>
  <2>1. OpenSegments(segments, s.snapshot) = <<g>>
    BY DEF OpenSegments
  <2>2. ResetDates(g, s.snapshot) = {}
    BY <1>2 DEF ResetDates, Comparable, MutableDates
  <2> HIDE DEF g, r, n
  <2>3. Last(<<g>>) = g /\ Len(<<g>>) = 1
    BY DEF Last
  <2>4. ReplaceAt(<<g>>, 1, r) = <<r>>
    BY DEF ReplaceAt
  <2> QED BY <2>1, <2>2, <2>3, <2>4 DEF SaveSegments, n, r
<1>7. Len(n) = 1 /\ DOMAIN n = {1} /\ n # <<>> /\ Last(n) = r /\ n[1] = r
  <2> HIDE DEF n, r
  <2> QED BY <1>6 DEF Last
<1>8. DOMAIN segments = {}
  OBVIOUS
<1> HIDE DEF n, r, date, g
<1>9. Taken(n, s, firsts)
  BY <1>1, <1>3, <1>5, <1>7, <1>8 DEF Taken
<1> QED BY <1>9 DEF n

(* The last segment takes the whole snapshot if no rebuild shows: it begins *)
(* no later than the lifetime does.                                        *)
LEMMA SameSegmentTaken ==
    ASSUME NEW s, NEW births, NEW firsts, Ready(s, births, firsts), RowsInv(firsts),
           Accepted(segments, s.snapshot), DOMAIN s.snapshot.days # {},
           segments # <<>>, ResetDates(Last(segments), s.snapshot) = {}
    PROVE  Taken(SaveSegments(segments, s.snapshot), s, firsts)
<1> DEFINE k == Len(segments)
           g == Last(segments)
           n == SaveSegments(segments, s.snapshot)
           r == ReplaceDays(g, s.snapshot)
           own == ledger[s.epoch].end
<1>1. IsSegments(segments) /\ Timed(s.snapshot)
  BY DEF Ready, HistoryIInv, HistoryTyped, StateTyped, SnapshotsInv
<1>2. k \in Nat /\ k > 0 /\ DOMAIN segments = 1 .. k /\ g = segments[k] /\ IsSegment(g)
  BY <1>1, SegmentsDomain, LastSegment
<1>3. n = ReplaceAt(segments, k, r)
  BY OpenSegmentsAreSegments, <1>1 DEF SaveSegments
<1>4. IsSegment(r)
  BY <1>1, <1>2, ReplacedSegment
<1>5. g.start \in Dates /\ g.start * DayLength <= firsts[s.epoch]
  <2>1. s.epoch \in 1 .. epoch /\ Newest(s.epoch)
    BY ReadyFacts
  <2> QED BY <2>1 DEF Ready, RowsInv, LastSegmentInv
<1>6. ASSUME NEW d \in DOMAIN g.days, d \in DOMAIN s.snapshot.days
      PROVE  g.days[d].snap = own /\ s.snapshot.end >= g.days[d].snap
  <2>1. CASE g.days[d].snap = own
    <3>1. own <= s.snapshot.end /\ own \in Int /\ s.snapshot.end \in Int
      BY ReadyFacts, EpochNumbers DEF Ready
    <3> QED BY <2>1, <3>1
  <2>2. CASE g.days[d].snap # own
    <3>1. /\ g.days[d].end = g.days[d].snap /\ g.days[d].snap <= s.snapshot.end
          /\ SnapshotReset(g.days[d], s.snapshot.days[d])
      BY <1>2, <1>6, <2>2, EarlierDay
    <3>2. g.days[d].snap \in Int /\ s.snapshot.end \in Int
      BY <1>1, <1>2 DEF IsSegment, StoredOk, Timed
    <3> HIDE DEF g
    <3>3. Accepted(segments, s.snapshot) /\ d >= g.start
      <4>1. \A c \in DOMAIN s.snapshot.days : c >= g.start
        <5> DEFINE e == NewSegment(g.start)
        <5>1. e.start = g.start /\ DOMAIN e.days = {}
          BY NewSegmentIsSegment
        <5> HIDE DEF e
        <5> QED BY <1>5, <5>1, AllReplaced
      <4> QED BY <1>6, <4>1
    <3>4. d \in Comparable(g, s.snapshot)
      BY <1>6, <3>1, <3>2, <3>3 DEF Comparable, MutableDates
    <3> QED BY <3>1, <3>4 DEF ResetDates, g
  <2> QED BY <2>1, <2>2
<1>7. Replaced(g, s.snapshot) = DOMAIN s.snapshot.days
  BY <1>5, <1>6, AllReplaced
<1>8. /\ r.start = g.start
      /\ DOMAIN r.days = DOMAIN s.snapshot.days \cup DOMAIN g.days
      /\ \A d \in DOMAIN s.snapshot.days :
             r.days[d] = StoredDay(s.snapshot.days[d], s.snapshot.end)
      /\ \A d \in DOMAIN g.days \ DOMAIN s.snapshot.days : r.days[d] = g.days[d]
  <2> HIDE DEF g
  <2> QED BY <1>2, <1>7, DaysAfter
<1> HIDE DEF g, r, n
<1>9. /\ IsSegments(n) /\ Len(n) = k /\ n[k] = r /\ Last(n) = r /\ n # <<>>
      /\ \A i \in 1 .. k - 1 : n[i] = segments[i]
  BY <1>1, <1>3, <1>4, ReplaceLastSegment
<1>10. DOMAIN n = 1 .. k
  BY <1>9, SegmentsDomain
<1>11. ASSUME NEW i \in DOMAIN segments, NEW d \in DOMAIN segments[i].days,
              segments[i].days[d].snap = own
       PROVE  i = k /\ d \in DOMAIN s.snapshot.days
  BY <1>11, OwnDay
<1> HIDE DEF own
<1>12. ASSUME NEW i \in DOMAIN n, NEW d \in DOMAIN n[i].days
       PROVE  \/ i = k /\ d \in DOMAIN s.snapshot.days
              \/ /\ i \in DOMAIN segments /\ d \in DOMAIN segments[i].days
                 /\ n[i].days[d] = segments[i].days[d]
                 /\ segments[i].days[d].snap # own
  <2>1. CASE i = k
    BY <1>2, <1>8, <1>9, <1>11, <1>12, <2>1
  <2>2. CASE i # k
    <3>1. i \in 1 .. k - 1
      BY <1>2, <1>10, <2>2
    <3> QED BY <1>2, <1>9, <1>10, <1>11, <1>12, <2>2, <3>1
  <2> QED BY <2>1, <2>2
<1>13. ASSUME NEW i \in DOMAIN segments, NEW d \in DOMAIN segments[i].days,
              segments[i].days[d].snap # own
       PROVE  /\ i \in DOMAIN n /\ d \in DOMAIN n[i].days
              /\ n[i].days[d] = segments[i].days[d]
  <2>1. CASE i = k
    <3>1. d \notin DOMAIN s.snapshot.days
      BY <1>2, <1>6, <1>13, <2>1
    <3> QED BY <1>2, <1>8, <1>9, <1>10, <2>1, <3>1
  <2>2. CASE i # k
    <3>1. i \in 1 .. k - 1
      BY <1>2, <2>2
    <3> QED BY <1>2, <1>9, <1>10, <3>1
  <2> QED BY <2>1, <2>2
<1>14. Taken(n, s, firsts)
  BY <1>2, <1>5, <1>8, <1>9, <1>10, <1>12, <1>13 DEF Taken, own
<1> QED BY <1>14 DEF n

(* A new segment takes the whole snapshot too: the first date that shows   *)
(* the rebuild is the first one of the lifetime.                           *)
LEMMA NewSegmentTaken ==
    ASSUME NEW s, NEW births, NEW firsts, Ready(s, births, firsts),
           RowsInv(firsts), ~correcting,
           Accepted(segments, s.snapshot), DOMAIN s.snapshot.days # {},
           segments # <<>>, ResetDates(Last(segments), s.snapshot) # {}
    PROVE  Taken(SaveSegments(segments, s.snapshot), s, firsts)
<1> DEFINE k == Len(segments)
           g == Last(segments)
           resets == ResetDates(g, s.snapshot)
           date == Min(resets)
           e == NewSegment(date)
           n == SaveSegments(segments, s.snapshot)
           r == ReplaceDays(e, s.snapshot)
           own == ledger[s.epoch].end
           from == firsts[s.epoch]
<1>1. IsSegments(segments) /\ Timed(s.snapshot)
  BY DEF Ready, HistoryIInv, HistoryTyped, StateTyped, SnapshotsInv
<1>2. k \in Nat /\ k > 0 /\ DOMAIN segments = 1 .. k /\ g = segments[k] /\ IsSegment(g)
  BY <1>1, SegmentsDomain, LastSegment
<1>3. n = Append(segments, r)
  BY OpenSegmentsAreSegments, <1>1 DEF SaveSegments
<1>4. from \in Nat /\ own \in Int
  BY ReadyFacts, EpochNumbers DEF Ready
(* The dates that show the rebuild are the one of the first request.       *)
<1>5. ASSUME NEW d \in resets
      PROVE  /\ d \in DOMAIN g.days /\ d \in DOMAIN s.snapshot.days
             /\ g.days[d].snap # own
             /\ d \in Dates /\ d \in Nat
             /\ d * DayLength \in Int /\ (d + 1) * DayLength \in Int
             /\ d * DayLength < from /\ from < (d + 1) * DayLength
  <2>1. /\ d \in DOMAIN g.days /\ d \in DOMAIN s.snapshot.days
        /\ g.days[d].end = g.days[d].snap
        /\ SnapshotReset(g.days[d], s.snapshot.days[d])
    BY DEF ResetDates, Comparable, MutableDates
  <2>2. g.days[d].snap # own
    BY <1>2, <2>1, OwnDayIsNoReset
  <2>3. d * DayLength < from
    BY <1>2, <2>1, <2>2, EarlierDay
  <2> QED BY <2>1, <2>2, <2>3, SnapshotDay
<1>6. ASSUME NEW c \in resets, NEW d \in resets PROVE c <= d
  <2>1. c \in Int /\ d \in Int /\ d + 1 \in Int
        /\ c * DayLength \in Int /\ (d + 1) * DayLength \in Int
        /\ c * DayLength < (d + 1) * DayLength
    BY <1>4, <1>5
  <2>2. d + 1 <= c => (d + 1) * DayLength <= c * DayLength
    BY <2>1, DayStart
  <2> QED BY <2>1, <2>2
<1>7. date \in resets
  <2> HIDE DEF resets
  <2>1. PICK c \in resets : TRUE
    BY DEF resets
  <2>2. \A d \in resets : c <= d
    BY <1>6
  <2> QED BY <2>1, <2>2 DEF Min
<1> HIDE DEF date, resets
(* Nothing of this lifetime is stored yet: of that date there would be.    *)
<1>8. ASSUME NEW i \in DOMAIN segments, NEW d \in DOMAIN segments[i].days
      PROVE  segments[i].days[d].snap # own
  <2> SUFFICES ASSUME segments[i].days[d].snap = own PROVE FALSE
    OBVIOUS
  <2>1. d \in Reach(from, own)
    BY OwnDay
  <2>2. from < own
    BY <2>1 DEF Reach
  <2>3. date \in Reach(from, own)
    BY <1>4, <1>5, <1>7, <2>2 DEF Reach
  <2>4. s.epoch \in 1 .. epoch /\ Newest(s.epoch)
    BY ReadyFacts
  <2>5. g.days[date].snap = own
    BY <2>3, <2>4 DEF Ready, RowsInv, LastSegmentInv
  <2> QED BY <1>5, <1>7, <2>5
<1>9. /\ date \in Dates /\ date * DayLength <= from
  BY <1>4, <1>5, <1>7
<1>10. e.start = date /\ DOMAIN e.days = {} /\ IsSegment(e)
  BY NewSegmentIsSegment
<1> HIDE DEF e
<1>11. Replaced(e, s.snapshot) = DOMAIN s.snapshot.days
  BY <1>9, <1>10, AllReplaced
<1>12. /\ r.start = date
       /\ DOMAIN r.days = DOMAIN s.snapshot.days
       /\ \A d \in DOMAIN s.snapshot.days :
              r.days[d] = StoredDay(s.snapshot.days[d], s.snapshot.end)
  <2>1. IsSegment(e)
    BY <1>10
  <2>2. /\ r.start = e.start
        /\ DOMAIN r.days = Replaced(e, s.snapshot) \cup DOMAIN e.days
        /\ \A d \in Replaced(e, s.snapshot) :
               r.days[d] = StoredDay(s.snapshot.days[d], s.snapshot.end)
    BY <2>1, DaysAfter
  <2> HIDE DEF r
  <2> QED BY <1>10, <1>11, <2>2
<1>13. IsSegment(r)
  <2>1. IsSegment(e)
    BY <1>10
  <2> QED BY <1>1, <2>1, ReplacedSegment
<1> HIDE DEF g, r, n
<1>14. /\ IsSegments(n) /\ Len(n) = k + 1 /\ n[k + 1] = r /\ Last(n) = r /\ n # <<>>
       /\ \A i \in 1 .. k : n[i] = segments[i]
  BY <1>1, <1>3, <1>13, AppendSegment
<1>15. DOMAIN n = 1 .. k + 1
  BY <1>14, SegmentsDomain
<1> HIDE DEF own, from
<1>16. ASSUME NEW i \in DOMAIN n, NEW d \in DOMAIN n[i].days
       PROVE  \/ i = k + 1 /\ d \in DOMAIN s.snapshot.days
              \/ /\ i \in DOMAIN segments /\ d \in DOMAIN segments[i].days
                 /\ n[i].days[d] = segments[i].days[d]
                 /\ segments[i].days[d].snap # own
  <2>1. CASE i = k + 1
    BY <1>12, <1>14, <1>16, <2>1
  <2>2. CASE i # k + 1
    <3>1. i \in 1 .. k
      BY <1>2, <1>15, <2>2
    <3> QED BY <1>2, <1>8, <1>14, <1>16, <3>1
  <2> QED BY <2>1, <2>2
<1>17. ASSUME NEW i \in DOMAIN segments, NEW d \in DOMAIN segments[i].days
       PROVE  /\ i \in DOMAIN n /\ d \in DOMAIN n[i].days
              /\ n[i].days[d] = segments[i].days[d]
  BY <1>2, <1>14, <1>15
<1>18. Len(n) \in DOMAIN n /\ Last(n) = n[Len(n)]
  BY <1>2, <1>14, <1>15
<1>19. Last(n).start \in Dates /\ Last(n).start * DayLength <= from
  BY <1>9, <1>12, <1>14
<1>20. \A d \in DOMAIN s.snapshot.days :
           /\ d \in DOMAIN Last(n).days
           /\ Last(n).days[d] = StoredDay(s.snapshot.days[d], s.snapshot.end)
  BY <1>12, <1>14
<1>21. Taken(n, s, firsts)
  BY <1>14, <1>16, <1>17, <1>18, <1>19, <1>20 DEF Taken, own, from
<1> QED BY <1>21 DEF n

(* SaveDaily stores the whole snapshot, and replaces nothing else.         *)
LEMMA SaveTakes ==
    ASSUME NEW s, NEW births, NEW firsts, Ready(s, births, firsts), RowsInv(firsts),
           Accepted(segments, s.snapshot), DOMAIN s.snapshot.days # {},
           correcting => Len(SaveSegments(segments, s.snapshot)) <= 1
    PROVE  Taken(SaveSegments(segments, s.snapshot), s, firsts)
<1> DEFINE n == SaveSegments(segments, s.snapshot)
<1>1. CASE segments = <<>>
  BY <1>1, FirstSegmentTaken
<1>2. CASE segments # <<>> /\ ResetDates(Last(segments), s.snapshot) = {}
  BY <1>2, SameSegmentTaken
<1>3. CASE segments # <<>> /\ ResetDates(Last(segments), s.snapshot) # {}
  <2> DEFINE date == Min(ResetDates(Last(segments), s.snapshot))
             r == ReplaceDays(NewSegment(date), s.snapshot)
  <2>1. IsSegments(segments) /\ Timed(s.snapshot)
    BY DEF Ready, HistoryIInv, HistoryTyped, StateTyped, SnapshotsInv
  <2>2. n = Append(segments, r)
    BY <1>3, <2>1, OpenSegmentsAreSegments DEF SaveSegments
  <2>3. IsSegment(r)
    BY <2>1, NewSegmentIsSegment, ReplacedSegment
  <2> HIDE DEF r
  <2>4. Len(n) = Len(segments) + 1 /\ Len(segments) \in Nat /\ Len(segments) # 0
    <3>1. Len(Append(segments, r)) = Len(segments) + 1
      BY <2>1, <2>3, AppendSegment
    <3> QED BY <1>3, <2>1, <2>2, <3>1, SegmentsDomain
  <2>5. ~correcting
    <3>1. ~(Len(n) <= 1)
      BY <2>4
    <3> QED BY <3>1
  <2> QED BY <1>3, <2>5, NewSegmentTaken
<1> QED BY <1>1, <1>2, <1>3

-----------------------------------------------------------------------------
(* What the store took, by lifetime, after a snapshot that is not late.    *)
LEMMA LedgerAfter ==
    ASSUME NEW s, NEW births, NEW firsts, Ready(s, births, firsts),
           Accepted(segments, s.snapshot), Save(s)
    PROVE  /\ s.snapshot.end > 0
           /\ ledger'[s.epoch].end = s.snapshot.end
           /\ \A d \in Dates : ledger'[s.epoch].tokens[d] =
                  IF d \in DOMAIN s.snapshot.days
                    THEN s.snapshot.days[d].totals["tokens"]
                    ELSE ledger[s.epoch].tokens[d]
           /\ \A f \in Epochs : f # s.epoch => ledger'[f] = ledger[f]
<1> DEFINE e == s.epoch
           noted == Noted(ledger[e], s.snapshot)
<1>1. e \in Epochs /\ ledger[e].end <= s.snapshot.end /\ s.snapshot.end \in Int
      /\ ledger[e].end \in Int
  BY ReadyFacts, EpochNumbers DEF Ready
<1>2. ledger' = [ledger EXCEPT ![e] = noted]
  BY DEF Save
<1>3. DOMAIN ledger = Epochs
  BY DEF Ready, LedgerTyped
<1>4. noted = [end    |-> s.snapshot.end,
               tokens |-> [d \in Dates |->
                   IF d \in DOMAIN s.snapshot.days
                     THEN s.snapshot.days[d].totals["tokens"]
                     ELSE ledger[e].tokens[d]]]
  BY <1>1 DEF Noted
<1>5. s.snapshot.end > 0
  BY DEF Accepted, ValidDaily
<1> HIDE DEF noted, e
<1>6. ledger'[e] = noted /\ \A f \in Epochs : f # e => ledger'[f] = ledger[f]
  BY <1>1, <1>2, <1>3
<1> QED BY <1>4, <1>5, <1>6 DEF e

(* A report counts in numbers.                                             *)
LEMMA LedgerKeepsType ==
    ASSUME NEW s, LedgerTyped, NEW births, SumsInv, HistoryIInv, s \in inflight, Save(s)
    PROVE  LedgerTyped'
<1>1. epoch' = epoch
  BY DEF Save
<1>2. CASE ledger' = ledger
  BY <1>1, <1>2 DEF LedgerTyped
<1>3. CASE ledger' # ledger
  <2> DEFINE noted == Noted(ledger[s.epoch], s.snapshot)
  <2>1. ledger' = [ledger EXCEPT ![s.epoch] = noted]
    BY <1>3 DEF Save
  <2>2. s.epoch \in Epochs
    BY <1>3, <2>1 DEF LedgerTyped
  <2>3. s.snapshot.end \in Int
    BY DEF HistoryIInv, HistoryTyped, SnapshotsInv, Timed
  <2>4. ASSUME NEW d \in DOMAIN s.snapshot.days
        PROVE  s.snapshot.days[d].totals["tokens"] \in Int
    <3> DEFINE x == <<d, StoredDay(s.snapshot.days[d], s.snapshot.end)>>
    <3>1. x \in Seen
      BY DEF Seen, DaysIn
    <3>2. AddsUp(x[2]) /\ x[2].totals = s.snapshot.days[d].totals
      BY <3>1 DEF SumsInv, StoredDay
    <3> HIDE DEF x
    <3> QED BY <3>2, TotalIsNumber
  <2>5. ledger[s.epoch] \in [end : Int, tokens : [Dates -> Int]]
    BY <2>2 DEF LedgerTyped
  <2>6. noted \in [end : Int, tokens : [Dates -> Int]]
    BY <2>3, <2>4, <2>5 DEF Noted
  <2> HIDE DEF noted
  <2> QED BY <1>1, <2>1, <2>2, <2>6 DEF LedgerTyped
<1> QED BY <1>2, <1>3

(* A report of a lifetime without requests changes no day.                 *)
LEMMA EmptySaveKeepsRows ==
    ASSUME NEW s, NEW births, NEW firsts, Ready(s, births, firsts), RowsInv(firsts),
           Accepted(segments, s.snapshot), DOMAIN s.snapshot.days = {}, Save(s)
    PROVE  RowsInv(firsts)'
<1> DEFINE e == s.epoch
           t == s.snapshot.end
<1>1. /\ e \in Epochs /\ e \in 1 .. epoch /\ Newest(e)
      /\ firsts[e] \in Nat /\ t \in Int /\ Reach(firsts[e], t) = {}
  BY ReadyFacts
<1>2. segments' = segments /\ now' = now /\ epoch' = epoch
  BY DEF Save, SaveSegments
<1>3. /\ t > 0 /\ ledger'[e].end = t
      /\ \A d \in Dates : ledger'[e].tokens[d] = ledger[e].tokens[d]
      /\ \A f \in Epochs : f # e => ledger'[f] = ledger[f]
  BY LedgerAfter
<1>4. ASSUME NEW i \in DOMAIN segments, NEW d \in DOMAIN segments[i].days
      PROVE  segments[i].days[d].snap # ledger[e].end
  BY OwnDay
<1>5. /\ MaxRebuilds \in Nat /\ Epochs = 1 .. MaxRebuilds + 1 /\ epoch \in Nat
      /\ 1 .. epoch \subseteq Epochs
  BY EpochNumbers DEF Ready
<1>6. RowsOwned(firsts) /\ RowsDistinct /\ ReportsStored /\ LastSegmentInv(firsts)
  BY DEF Ready, RowsInv
<1> HIDE DEF e, t
<1>7. RowsOwned(firsts)'
  <2> SUFFICES ASSUME NEW i \in DOMAIN segments, NEW d \in DOMAIN segments[i].days
               PROVE  LET day == segments[i].days[d] IN
                      \E f \in Epochs :
                          /\ day.snap = ledger'[f].end
                          /\ Bucket(d, day, firsts[f], day.snap)
                          /\ Amount(day.totals, "tokens") = ledger'[f].tokens[d]
    BY <1>2 DEF RowsOwned, Bucket, Reach
  <2> DEFINE day == segments[i].days[d]
  <2>1. PICK f \in Epochs :
            /\ day.snap = ledger[f].end
            /\ Bucket(d, day, firsts[f], day.snap)
            /\ Amount(day.totals, "tokens") = ledger[f].tokens[d]
    BY <1>6 DEF RowsOwned
  <2>2. f # e
    BY <1>4, <2>1
  <2> HIDE DEF day
  <2>3. ledger'[f] = ledger[f]
    BY <1>3, <2>2
  <2>4. \E g \in Epochs :
            /\ day.snap = ledger'[g].end
            /\ Bucket(d, day, firsts[g], day.snap)
            /\ Amount(day.totals, "tokens") = ledger'[g].tokens[d]
    BY <2>1, <2>3
  <2> QED BY <2>4 DEF day
<1>8. RowsDistinct'
  BY <1>2, <1>6 DEF RowsDistinct
<1>9. ReportsStored'
  <2> SUFFICES ASSUME NEW f \in Epochs, NEW d \in Dates, ledger'[f].tokens[d] # 0
               PROVE  \E i \in DOMAIN segments :
                          d \in DOMAIN segments[i].days
                          /\ segments[i].days[d].snap = ledger'[f].end
    BY <1>2 DEF ReportsStored
  <2>1. ledger[f].tokens[d] # 0
    BY <1>3
  <2>2. PICK i \in DOMAIN segments :
            d \in DOMAIN segments[i].days /\ segments[i].days[d].snap = ledger[f].end
    BY <1>6, <2>1 DEF ReportsStored
  <2>3. f # e
    BY <1>4, <2>2
  <2> QED BY <1>3, <2>2, <2>3
<1>10. LastSegmentInv(firsts)'
  <2>1. ASSUME NEW f \in 1 .. epoch, Newest(f)'
        PROVE  /\ segments # <<>> => Last(segments).start * DayLength <= firsts[f]
               /\ \A d \in Reach(firsts[f], ledger'[f].end) :
                      /\ segments # <<>>
                      /\ d \in DOMAIN Last(segments).days
                      /\ Last(segments).days[d].snap = ledger'[f].end
    <3>1. ~(f < e)
      <4> SUFFICES ASSUME f < e PROVE FALSE
        OBVIOUS
      <4>1. e \in f + 1 .. MaxRebuilds + 1
        BY <1>1, <1>5
      <4> QED BY <1>3, <2>1, <4>1 DEF Newest
    <3>2. CASE f = e
      BY <1>1, <1>3, <1>6, <3>2 DEF LastSegmentInv
    <3>3. CASE f > e
      <4>1. Newest(f) /\ ledger'[f] = ledger[f]
        BY <1>1, <1>3, <1>5, <2>1, <3>3 DEF Newest
      <4> QED BY <1>6, <4>1 DEF LastSegmentInv
    <3> QED BY <1>1, <1>5, <3>1, <3>2, <3>3
  <2> QED BY <1>2, <1>6, <2>1 DEF LastSegmentInv, Reach
<1> QED BY <1>7, <1>8, <1>9, <1>10 DEF RowsInv

(* The rows after a snapshot was stored.                                   *)
LEMMA FullSaveKeepsRows ==
    ASSUME NEW s, NEW births, NEW firsts, Ready(s, births, firsts), RowsInv(firsts),
           Accepted(segments, s.snapshot), DOMAIN s.snapshot.days # {}, Save(s),
           correcting => Len(segments') <= 1
    PROVE  RowsInv(firsts)'
<1> DEFINE e == s.epoch
           t == s.snapshot.end
           days == s.snapshot.days
           k == Len(segments')
<1>1. /\ e \in Epochs /\ e \in 1 .. epoch /\ Newest(e)
      /\ t \in Int /\ now \in Int /\ t <= now
      /\ births[e] \in Nat /\ births[e] <= t /\ firsts[e] \in Nat
      /\ \A f \in e + 1 .. epoch : t < births[f]
      /\ \A f \in Epochs : f # e => ledger[f].end < births[e] \/ ledger[f].end = 0
      /\ DOMAIN days = Reach(firsts[e], t)
      /\ \A d \in DOMAIN days : Bucket(d, days[d], firsts[e], t)
  BY ReadyFacts
<1>2. segments' = SaveSegments(segments, s.snapshot) /\ now' = now /\ epoch' = epoch
  BY DEF Save
<1>3. /\ t > 0 /\ ledger'[e].end = t
      /\ \A d \in Dates : ledger'[e].tokens[d] =
             IF d \in DOMAIN days THEN days[d].totals["tokens"] ELSE ledger[e].tokens[d]
      /\ \A f \in Epochs : f # e => ledger'[f] = ledger[f]
  BY LedgerAfter
<1>4. Taken(segments', s, firsts)
  BY <1>2, SaveTakes
<1>5. /\ MaxRebuilds \in Nat /\ Epochs = 1 .. MaxRebuilds + 1 /\ epoch \in Nat
      /\ 1 .. epoch \subseteq Epochs
      /\ \A f \in Epochs : ledger[f].end \in Int
  BY EpochNumbers DEF Ready
<1>6. RowsOwned(firsts) /\ RowsDistinct /\ ReportsStored /\ LastSegmentInv(firsts)
  BY DEF Ready, RowsInv
<1>7. /\ k \in DOMAIN segments' /\ segments' # <<>> /\ Last(segments') = segments'[k]
      /\ Last(segments').start \in Dates
      /\ Last(segments').start * DayLength <= firsts[e]
      /\ \A d \in DOMAIN days :
             /\ d \in DOMAIN segments'[k].days
             /\ segments'[k].days[d] = StoredDay(days[d], t)
      /\ \A i \in DOMAIN segments' : \A d \in DOMAIN segments'[i].days :
             \/ i = k /\ d \in DOMAIN days
             \/ /\ i \in DOMAIN segments /\ d \in DOMAIN segments[i].days
                /\ segments'[i].days[d] = segments[i].days[d]
                /\ segments[i].days[d].snap # ledger[e].end
      /\ \A i \in DOMAIN segments : \A d \in DOMAIN segments[i].days :
             segments[i].days[d].snap # ledger[e].end =>
                 /\ i \in DOMAIN segments' /\ d \in DOMAIN segments'[i].days
                 /\ segments'[i].days[d] = segments[i].days[d]
  BY <1>4 DEF Taken
(* A new day is of this lifetime.                                          *)
<1>8. ASSUME NEW d \in DOMAIN days
      PROVE  LET day == segments'[k].days[d] IN
             /\ day.snap = t /\ d \in Dates
             /\ Bucket(d, day, firsts[e], t)
             /\ Amount(day.totals, "tokens") = days[d].totals["tokens"]
  <2>1. segments'[k].days[d] = StoredDay(days[d], t)
    BY <1>7
  <2>2. d \in Dates /\ Amount(days[d].totals, "tokens") = days[d].totals["tokens"]
    BY SnapshotDay
  <2>3. Bucket(d, days[d], firsts[e], t)
    BY <1>1
  <2> HIDE DEF days, t, k, e
  <2> QED BY <2>1, <2>2, <2>3 DEF StoredDay, Bucket
(* An old day is of another one.                                           *)
<1>9. ASSUME NEW i \in DOMAIN segments, NEW d \in DOMAIN segments[i].days,
             segments[i].days[d].snap # ledger[e].end
      PROVE  LET day == segments[i].days[d] IN
             \E f \in Epochs :
                 /\ f # e /\ day.snap = ledger'[f].end /\ day.snap # t
                 /\ Bucket(d, day, firsts[f], day.snap)
                 /\ Amount(day.totals, "tokens") = ledger'[f].tokens[d]
  <2> DEFINE day == segments[i].days[d]
  <2>1. PICK f \in Epochs :
            /\ day.snap = ledger[f].end
            /\ Bucket(d, day, firsts[f], day.snap)
            /\ Amount(day.totals, "tokens") = ledger[f].tokens[d]
    BY <1>6 DEF RowsOwned
  <2>2. day.snap > 0 /\ day.snap \in Int
    BY RowFacts DEF Ready
  <2>3. f # e
    BY <1>9, <2>1
  <2> HIDE DEF day, e, t
  <2>4. ledger'[f] = ledger[f]
    BY <1>3, <2>3
  <2>5. day.snap # t
    BY <1>1, <2>1, <2>2, <2>3
  <2>6. \E g \in Epochs :
            /\ g # e /\ day.snap = ledger'[g].end /\ day.snap # t
            /\ Bucket(d, day, firsts[g], day.snap)
            /\ Amount(day.totals, "tokens") = ledger'[g].tokens[d]
    BY <2>1, <2>3, <2>4, <2>5
  <2> QED BY <2>6 DEF day
<1>10. \A i \in DOMAIN segments : \A d \in DOMAIN segments[i].days :
           segments[i].days[d].snap = ledger[e].end => d \in DOMAIN days
  BY OwnDay
<1> HIDE DEF e, t, days, k
<1>11. RowsOwned(firsts)'
  <2> SUFFICES ASSUME NEW i \in DOMAIN segments', NEW d \in DOMAIN segments'[i].days
               PROVE  LET day == segments'[i].days[d] IN
                      \E f \in Epochs :
                          /\ day.snap = ledger'[f].end
                          /\ Bucket(d, day, firsts[f], day.snap)
                          /\ Amount(day.totals, "tokens") = ledger'[f].tokens[d]
    BY DEF RowsOwned, Bucket, Reach
  <2>1. CASE i = k /\ d \in DOMAIN days
    BY <1>1, <1>3, <1>8, <2>1
  <2>2. CASE /\ i \in DOMAIN segments /\ d \in DOMAIN segments[i].days
             /\ segments'[i].days[d] = segments[i].days[d]
             /\ segments[i].days[d].snap # ledger[e].end
    BY <1>9, <2>2
  <2> QED BY <1>7, <2>1, <2>2
<1>12. RowsDistinct'
  <2>1. ASSUME NEW i \in DOMAIN segments', NEW j \in DOMAIN segments', i # j,
               NEW d \in DOMAIN segments'[i].days \cap DOMAIN segments'[j].days
        PROVE  segments'[i].days[d].snap # segments'[j].days[d].snap
    <3> DEFINE New(x) == x = k /\ d \in DOMAIN days
               Old(x) == /\ x \in DOMAIN segments /\ d \in DOMAIN segments[x].days
                         /\ segments'[x].days[d] = segments[x].days[d]
                         /\ segments[x].days[d].snap # ledger[e].end
    <3>1. (New(i) \/ Old(i)) /\ (New(j) \/ Old(j))
      BY <1>7, <2>1
    <3>2. ASSUME NEW x, New(x) PROVE segments'[x].days[d].snap = t
      BY <1>8, <3>2
    <3>3. ASSUME NEW x, Old(x) PROVE segments'[x].days[d].snap # t
      BY <1>9, <3>3
    <3>4. CASE Old(i) /\ Old(j)
      BY <1>6, <2>1, <3>4 DEF RowsDistinct
    <3>5. CASE New(i) /\ New(j)
      BY <2>1, <3>5
    <3>6. CASE New(i) /\ Old(j)
      <4> HIDE DEF New, Old
      <4> QED BY <3>2, <3>3, <3>6
    <3>7. CASE Old(i) /\ New(j)
      <4> HIDE DEF New, Old
      <4> QED BY <3>2, <3>3, <3>7
    <3> QED BY <3>1, <3>4, <3>5, <3>6, <3>7
  <2> QED BY <2>1 DEF RowsDistinct
<1>13. ReportsStored'
  <2> SUFFICES ASSUME NEW f \in Epochs, NEW d \in Dates, ledger'[f].tokens[d] # 0
               PROVE  \E i \in DOMAIN segments' :
                          d \in DOMAIN segments'[i].days
                          /\ segments'[i].days[d].snap = ledger'[f].end
    BY DEF ReportsStored
  <2>1. CASE f = e /\ d \in DOMAIN days
    BY <1>3, <1>7, <1>8, <2>1
  <2>2. CASE f = e /\ d \notin DOMAIN days
    <3>1. ledger[e].tokens[d] # 0
      BY <1>3, <2>2
    <3>2. PICK i \in DOMAIN segments :
              d \in DOMAIN segments[i].days /\ segments[i].days[d].snap = ledger[e].end
      BY <1>1, <1>6, <3>1 DEF ReportsStored
    <3> QED BY <1>10, <2>2, <3>2
  <2>3. CASE f # e
    <3>1. ledger'[f] = ledger[f]
      BY <1>3, <2>3
    <3>2. PICK i \in DOMAIN segments :
              d \in DOMAIN segments[i].days /\ segments[i].days[d].snap = ledger[f].end
      BY <1>6, <3>1 DEF ReportsStored
    <3>3. segments[i].days[d].snap # ledger[e].end
      <4>1. segments[i].days[d].snap > 0 /\ segments[i].days[d].snap \in Int
        BY <3>2, RowFacts DEF Ready
      <4>2. ledger[f].end # 0
        BY <3>2, <4>1
      <4>3. ledger[f].end # ledger[e].end
        BY <1>1, <2>3, <4>2, LedgerDistinct DEF Ready, Lives
      <4> QED BY <3>2, <4>3
    <3> QED BY <1>7, <3>1, <3>2, <3>3
  <2> QED BY <2>1, <2>2, <2>3
<1>14. LastSegmentInv(firsts)'
  <2>1. ASSUME NEW f \in 1 .. epoch, Newest(f)'
        PROVE  /\ Last(segments').start * DayLength <= firsts[f]
               /\ \A d \in Reach(firsts[f], ledger'[f].end) :
                      /\ d \in DOMAIN Last(segments').days
                      /\ Last(segments').days[d].snap = ledger'[f].end
    <3>1. ~(f < e)
      <4> SUFFICES ASSUME f < e PROVE FALSE
        OBVIOUS
      <4>1. e \in f + 1 .. MaxRebuilds + 1
        BY <1>1, <1>5
      <4> QED BY <1>1, <1>3, <2>1, <4>1 DEF Newest
    <3>2. CASE f = e
      BY <1>1, <1>3, <1>7, <1>8, <3>2
    <3>3. CASE f > e
      <4>1. f \in e + 1 .. epoch /\ f \in e + 1 .. MaxRebuilds + 1 /\ f \in Epochs
        BY <1>1, <1>5, <3>3
      <4>2. ledger[f].end = 0 /\ ledger'[f] = ledger[f]
        BY <1>1, <1>3, <3>3, <4>1 DEF Newest
      <4>3. /\ t < births[f] /\ births[f] <= firsts[f]
            /\ births[f] \in Int /\ firsts[f] \in Nat
        BY <1>1, <2>1, <4>1 DEF Ready, Lives, LifetimesInv
      <4>4. firsts[e] < t
        <5>1. PICK d \in DOMAIN days : TRUE
          BY DEF days
        <5> QED BY <1>1, <5>1 DEF Reach
      <4>5. Last(segments').start * DayLength <= firsts[f]
        <5> DEFINE start == Last(segments').start
        <5>1. start * DayLength \in Int
          <6>1. start \in Dates
            BY <1>7
          <6> HIDE DEF start
          <6>2. start \in Int
            BY <6>1, DatesAreNumbers
          <6> QED BY <6>2, DayStart
        <5> QED BY <1>1, <1>7, <4>3, <4>4, <5>1
      <4>6. Reach(firsts[f], ledger'[f].end) = {}
        BY <4>2, <4>3, ReachNothing
      <4> QED BY <4>5, <4>6
    <3> QED BY <1>1, <1>5, <3>1, <3>2, <3>3
  <2>2. Last(segments').start * DayLength <= now
    <3> DEFINE start == Last(segments').start
    <3>1. start * DayLength \in Int
      <4>1. start \in Dates
        BY <1>7
      <4> HIDE DEF start
      <4>2. start \in Int
        BY <4>1, DatesAreNumbers
      <4> QED BY <4>2, DayStart
    <3>2. firsts[e] < t
      <4>1. PICK d \in DOMAIN days : TRUE
        BY DEF days
      <4> QED BY <1>1, <4>1 DEF Reach
    <3> QED BY <1>1, <1>7, <3>1, <3>2
  <2> QED BY <1>2, <1>7, <2>1, <2>2 DEF LastSegmentInv, Reach
<1> QED BY <1>11, <1>12, <1>13, <1>14 DEF RowsInv

-----------------------------------------------------------------------------
(***************************************************************************)
(* Upstream with corrections, and one account task at a time.              *)
(***************************************************************************)
(* A correction adds nothing to a date.                                    *)
LEMMA CorrectedSum ==
    ASSUME NEW S, IsFiniteSet(S), NEW f \in [S -> Int], NEW g \in [S -> Int],
           NEW m \in S,
           \/ g = [f EXCEPT ![m] = @ - 1]
           \/ \E n \in S \ {m} : g = [[f EXCEPT ![m] = @ - 1] EXCEPT ![n] = @ + 1]
    PROVE  SumFunctionOnSet(g, S) <= SumFunctionOnSet(f, S)
<1>1. CASE g = [f EXCEPT ![m] = @ - 1]
  <2>1. \A x \in S : g[x] \in Int /\ f[x] \in Int /\ g[x] <= f[x]
    BY <1>1
  <2> QED BY <2>1, SumIsMonotone
<1>2. ASSUME NEW n \in S \ {m}, g = [[f EXCEPT ![m] = @ - 1] EXCEPT ![n] = @ + 1]
      PROVE  SumFunctionOnSet(g, S) <= SumFunctionOnSet(f, S)
  <2> DEFINE R == S \ {m}
             Q == R \ {n}
  <2>1. g[m] = f[m] - 1 /\ g[n] = f[n] + 1 /\ \A x \in Q : g[x] = f[x]
    BY <1>2
  <2>2. IsFiniteSet(R) /\ IsFiniteSet(Q) /\ n \in R /\ R \subseteq S /\ Q \subseteq S
    BY FS_Subset
  <2>3. (\A x \in S : f[x] \in Int) /\ \A x \in S : g[x] \in Int
    OBVIOUS
  <2> HIDE DEF Q
  <2>4. ASSUME NEW h, \A x \in S : h[x] \in Int
        PROVE  SumFunctionOnSet(h, S) = h[m] + (h[n] + SumFunctionOnSet(h, Q))
    <3>1. SumFunctionOnSet(h, S) = h[m] + SumFunctionOnSet(h, R)
      BY <2>4, SumOfMember
    <3>2. \A x \in R : h[x] \in Int
      BY <2>2, <2>4
    <3> HIDE DEF R
    <3>3. SumFunctionOnSet(h, R) = h[n] + SumFunctionOnSet(h, Q)
      BY <2>2, <3>2, SumOfMember DEF Q
    <3> QED BY <3>1, <3>3
  <2>5. SumFunctionOnSet(g, Q) = SumFunctionOnSet(f, Q) /\ SumFunctionOnSet(f, Q) \in Int
    <3>1. \A x \in Q : g[x] \in Int /\ g[x] = f[x] /\ f[x] \in Int
      BY <2>1, <2>2, <2>3
    <3> QED BY <2>2, <3>1, SumOfSame, SumIsInt
  <2>6. f[m] \in Int /\ f[n] \in Int
    BY <2>3
  <2> HIDE DEF R
  <2>7. /\ SumFunctionOnSet(g, S) = g[m] + (g[n] + SumFunctionOnSet(g, Q))
        /\ SumFunctionOnSet(f, S) = f[m] + (f[n] + SumFunctionOnSet(f, Q))
    BY <2>3, <2>4
  <2> QED BY <2>1, <2>5, <2>6, <2>7
<1> QED BY <1>1, <1>2

(* The days of the report that upstream gives now.                         *)
LEMMA LifetimeSide ==
    ASSUME HistoryIInv, NEW x \in DaysIn(Lifetime)
    PROVE  /\ x[1] \in Dates /\ x[2].start \in Int /\ x[2].end \in Int
           /\ x[2].start < x[2].end /\ x[2].end <= x[2].snap
           /\ x[2].snap = now /\ first # Never /\ first <= x[2].start
           /\ x[2].totals["tokens"] = Requests(usage, x[1])
           /\ x[2].totals["tokens"] \in Int
<1>1. StateTyped /\ now \in 0 .. LastInstant /\ first \in Nat /\ LastInstant \in Nat
  BY HistoryAssumption DEF HistoryIInv, HistoryTyped, StateTyped
<1>2. /\ x[1] \in Dates /\ StoredOk(x[2]) /\ x[2].start < x[2].end
      /\ x[2].end <= x[2].snap /\ x[2].snap = now
  BY <1>1, LifetimeIsKnown
<1>3. /\ x[1] \in DOMAIN Lifetime.days /\ x[2].start = Lifetime.days[x[1]].start
      /\ x[2].totals = Lifetime.days[x[1]].totals
  BY DaysInMember
<1>4. first <= x[2].start
  BY <1>1, <1>3, LifetimeDays
<1>5. x[2].totals["tokens"] = Requests(usage, x[1])
  BY <1>3 DEF Lifetime
<1>6. x[2].totals["tokens"] \in Int
  BY <1>1, LifetimeAddsUp, TotalIsNumber
<1>7. first # Never
  BY <1>1, <1>2, <1>4 DEF StoredOk, Never
<1> QED BY <1>2, <1>4, <1>5, <1>6, <1>7 DEF StoredOk

(* What upstream counts of a date that is over does not grow.              *)
LEMMA RequestsOver ==
    ASSUME HistoryIInv, [Next]_vars, NEW d \in Dates, (d + 1) * DayLength <= now,
           first' # Never \/ UNCHANGED usage
    PROVE  /\ Requests(usage, d) \in Int /\ Requests(usage', d) \in Int
           /\ Requests(usage', d) <= Requests(usage, d)
<1>1. StateTyped /\ now \in 0 .. LastInstant /\ now \in Nat /\ DayLength \in Nat \ {0}
  BY HistoryAssumption DEF HistoryIInv, HistoryTyped, StateTyped
<1>2. /\ usage \in [Dates -> [Model -> Nat]] /\ IsFiniteSet(Model)
      /\ usage[d] \in [Model -> Int]
  BY <1>1, HistoryAssumption DEF StateTyped
<1>3. \A u : DOMAIN u[d] = Model => Requests(u, d) = SumFunctionOnSet(u[d], Model)
  BY DEF Requests, SumFunction
<1>4. Requests(usage, d) = SumFunctionOnSet(usage[d], Model) /\ Requests(usage, d) \in Int
  BY <1>2, <1>3, SumIsInt
<1>5. CASE usage'[d] = usage[d]
  <2>1. Requests(usage', d) = Requests(usage, d)
    BY <1>5 DEF Requests
  <2> QED BY <1>4, <2>1
<1>6. ASSUME NEW m \in Model, Request(m) PROVE usage'[d] = usage[d]
  <2>1. d \in Int /\ (d + 1) * DayLength \in Int
    BY DatesAreNumbers, DayStart
  <2>2. Date(now) # d
    <3>1. now < (Date(now) + 1) * DayLength
      BY <1>1 DEF Date
    <3> QED BY <1>1, <2>1, <3>1
  <2> QED BY <1>2, <1>6, <2>2 DEF Request
<1>7. ASSUME NEW m \in Model, Correct(m)
      PROVE  /\ Requests(usage', d) \in Int
             /\ Requests(usage', d) <= Requests(usage, d)
  <2>1. PICK c \in Dates :
            /\ usage[c][m] > 0
            /\ LET without == [usage[c] EXCEPT ![m] = @ - 1] IN
               \/ usage' = [usage EXCEPT ![c] = without]
               \/ \E n \in Model \ {m} :
                      usage' = [usage EXCEPT ![c] = [without EXCEPT ![n] = @ + 1]]
    BY <1>7 DEF Correct
  <2>2. CASE c # d
    <3>1. usage'[d] = usage[d]
      BY <1>2, <2>1, <2>2
    <3> QED BY <1>4, <1>5, <3>1
  <2>3. CASE c = d
    <3> DEFINE f == usage[d]
               g == usage'[d]
    <3>1. \/ g = [f EXCEPT ![m] = @ - 1]
          \/ \E n \in Model \ {m} : g = [[f EXCEPT ![m] = @ - 1] EXCEPT ![n] = @ + 1]
      BY <1>2, <2>1, <2>3
    <3>2. f \in [Model -> Int]
      BY <1>2
    <3> HIDE DEF f, g
    <3>3. g \in [Model -> Int]
      BY <3>1, <3>2
    <3>4. SumFunctionOnSet(g, Model) <= SumFunctionOnSet(f, Model)
      BY <1>2, <3>1, <3>2, <3>3, CorrectedSum
    <3>5. SumFunctionOnSet(g, Model) \in Int
      BY <1>2, <3>3, SumIsInt
    <3>6. Requests(usage', d) = SumFunctionOnSet(g, Model)
      BY <1>3, <3>3 DEF g
    <3> QED BY <1>4, <3>4, <3>5, <3>6 DEF f
  <2> QED BY <2>2, <2>3
<1>8. CASE UNCHANGED usage
  BY <1>5, <1>8
<1>9. ~Rebuild \/ UNCHANGED usage
  BY DEF Rebuild
<1>10. (\E m \in Model : Request(m) \/ Correct(m)) \/ UNCHANGED usage
  BY <1>9 DEF Next, vars, Tick, Fetch, Save, Lose
<1>11. CASE \E m \in Model : Request(m)
  BY <1>4, <1>5, <1>6, <1>11
<1>12. CASE \E m \in Model : Correct(m)
  BY <1>4, <1>7, <1>12
<1> QED BY <1>4, <1>8, <1>10, <1>11, <1>12

(* Side and count of each day in each state.                               *)
LEMMA SpecOverInv == Spec => [](SideInv /\ OverInv)
<1>1. Init => SideInv /\ OverInv
  <2> SUFFICES ASSUME Init PROVE Seen = {}
    BY DEF SideInv, OverInv
  <2>1. DaysOf(segments) = {}
    BY DaysOfMember DEF Init
  <2> QED BY <2>1 DEF Seen, Init
<1>2. HistoryIInv /\ SumsInv /\ SideInv /\ OverInv /\ [Next]_vars => SideInv' /\ OverInv'
  <2> SUFFICES ASSUME HistoryIInv, SumsInv, SideInv, OverInv, [Next]_vars, NEW x \in Seen'
               PROVE  /\ IF first' = Never THEN x[2].snap < now'
                                           ELSE x[2].snap < first' \/ first' <= x[2].start
                      /\ (x[1] + 1) * DayLength <= x[2].snap /\ first' <= x[2].start =>
                             Requests(usage', x[1]) <= x[2].totals["tokens"]
    BY DEF SideInv, OverInv, Over
  <2> DEFINE d == x[1]
             day == x[2]
  <2>1. now \in 0 .. LastInstant /\ LastInstant \in Nat /\ first \in Nat
    BY HistoryAssumption DEF HistoryIInv, HistoryTyped, StateTyped
  (* The day before the step. *)
  <2>2. /\ d \in Dates /\ day.start \in Int /\ day.end \in Int /\ day.snap \in Int
        /\ day.start < day.end /\ day.end <= day.snap /\ day.snap <= now
        /\ day.totals["tokens"] \in Int
        /\ IF first = Never THEN day.snap < now
                            ELSE day.snap < first \/ first <= day.start
        /\ (d + 1) * DayLength <= day.snap /\ first <= day.start =>
               Requests(usage, d) <= day.totals["tokens"]
    <3>1. CASE x \in Seen
      <4>1. AddsUp(day)
        BY <3>1 DEF SumsInv
      <4>2. day.totals["tokens"] \in Int
        BY <4>1, TotalIsNumber
      <4>3. /\ d \in Dates /\ StoredOk(day)
            /\ day.start < day.end /\ day.end <= day.snap /\ day.snap <= now
        BY <3>1 DEF HistoryIInv, HistoryTyped, DaysInv
      <4> QED BY <3>1, <4>2, <4>3 DEF SideInv, OverInv, Over, StoredOk
    <3>2. CASE x \in DaysIn(Lifetime)
      BY <2>1, <3>2, LifetimeSide
    <3> QED BY <3>1, <3>2, SeenAfter
  <2> HIDE DEF d, day
  <2>3. \/ first' = first /\ now <= now' /\ now' \in Int /\ first' \in Nat
        \/ first = Never /\ first' = now
        \/ first' = Never /\ now' = now + 1
    BY <2>1 DEF Next, vars, Tick, Rebuild, Fetch, Request, Correct, Save, Lose
  <2>4. IF first' = Never THEN day.snap < now'
                          ELSE day.snap < first' \/ first' <= day.start
    BY <2>1, <2>2, <2>3 DEF Never
  <2>5. ASSUME (d + 1) * DayLength <= day.snap, first' <= day.start
        PROVE  Requests(usage', d) <= day.totals["tokens"]
    <3>1. d \in Int /\ (d + 1) * DayLength \in Int
      BY <2>2, DatesAreNumbers, DayStart
    <3>2. (d + 1) * DayLength <= now
      BY <2>1, <2>2, <2>5, <3>1
    <3>3. first' # Never
      BY <2>1, <2>2, <2>5 DEF Never
    <3>4. /\ Requests(usage, d) \in Int /\ Requests(usage', d) \in Int
          /\ Requests(usage', d) <= Requests(usage, d)
      BY <2>2, <3>2, <3>3, RequestsOver
    <3>5. first <= day.start
      BY <2>1, <2>2, <2>3, <2>5, <3>3
    <3> QED BY <2>2, <2>5, <3>4, <3>5
  <2> QED BY <2>4, <2>5 DEF d, day
<1> QED BY <1>1, <1>2, SpecHistoryIInv, SpecSumsInv, PTL DEF Spec

(* A report that is taken now does not exceed days of dates that were over.*)
LEMMA LifetimeIsLower ==
    ASSUME HistoryIInv, SideInv, OverInv, NEW x \in DaysOf(segments),
           Over(x[1], x[2]), x[1] \in DOMAIN Lifetime.days
    PROVE  Lifetime.days[x[1]].totals["tokens"] <= x[2].totals["tokens"]
<1> DEFINE d == x[1]
           day == x[2]
           y == <<d, StoredDay(Lifetime.days[d], Lifetime.end)>>
<1>1. y \in DaysIn(Lifetime)
  BY DEF DaysIn
<1>2. /\ first # Never /\ Lifetime.days[d].totals["tokens"] = Requests(usage, d)
  <2>1. y[1] = d /\ y[2].totals = Lifetime.days[d].totals
    BY DEF StoredDay
  <2> HIDE DEF y
  <2> QED BY <1>1, <2>1, LifetimeSide
<1>3. x \in Seen
  BY DEF Seen
<1>4. /\ d \in Dates /\ StoredOk(day) /\ first \in Nat
      /\ day.snap < first \/ first <= day.start
  BY <1>2, <1>3 DEF HistoryIInv, HistoryTyped, StateTyped, DaysInv, SideInv
<1>5. first < (d + 1) * DayLength
  <2>1. StateTyped
    BY DEF HistoryIInv, HistoryTyped
  <2> QED BY <2>1, LifetimeReach DEF Reach
<1>6. (d + 1) * DayLength \in Int /\ (d + 1) * DayLength <= day.snap
  BY <1>4, DatesAreNumbers, DayStart DEF Over
<1> HIDE DEF d, day
<1>7. first <= day.start
  BY <1>4, <1>5, <1>6 DEF StoredOk
<1> QED BY <1>2, <1>3, <1>7 DEF OverInv, d, day

(* No report that was fetched earlier is under way when one is fetched.    *)
LEMMA StepKeepsAlone ==
    ASSUME Tasks <= 1, HistoryIInv, SideInv, OverInv, LedgerTyped, AloneInv, [Next]_vars
    PROVE  AloneInv'
<1>1. /\ now \in Int /\ IsFiniteSet(inflight) /\ StateTyped
      /\ \A s \in inflight : s.snapshot.end \in Int /\ s.snapshot.end <= now
  BY DEF HistoryIInv, HistoryTyped, StateTyped, SnapshotsInv, Timed
<1>2. \A e \in Epochs : ledger[e].end \in Int
  BY EpochNumbers
<1>3. now' \in Int /\ now <= now'
  BY <1>1 DEF Next, vars, Tick, Rebuild, Fetch, Request, Correct, Save, Lose
<1>4. ASSUME UNCHANGED <<segments, ledger>>, inflight' \subseteq inflight PROVE AloneInv'
  BY <1>1, <1>2, <1>3, <1>4 DEF AloneInv, DaysOf, AllRows
<1>5. ASSUME NEW s \in inflight, Save(s) PROVE AloneInv'
  <2>1. inflight' = {}
    BY <1>5 DEF AloneInv, Save
  <2>2. now' = now
    BY <1>5 DEF Save
  <2>3. ASSUME NEW e \in Epochs PROVE ledger'[e].end <= now
    <3>1. ledger' = ledger \/ ledger' = [ledger EXCEPT ![s.epoch] = Noted(@, s.snapshot)]
      BY <1>5 DEF Save
    <3>2. ledger'[e] = ledger[e] \/ ledger'[e] = Noted(ledger[e], s.snapshot)
      BY <3>1 DEF LedgerTyped
    <3>3. Noted(ledger[e], s.snapshot).end \in {ledger[e].end, s.snapshot.end}
      BY DEF Noted
    <3> QED BY <1>1, <3>2, <3>3 DEF AloneInv
  <2> QED BY <2>1, <2>2, <2>3 DEF AloneInv
<1>6. CASE Fetch
  <2>1. inflight = {}
    <3>1. Cardinality(inflight) < 1 /\ Cardinality(inflight) \in Nat
      BY <1>1, <1>6, FS_CardinalityType, HistoryAssumption DEF Fetch
    <3>2. Cardinality(inflight) = 0
      BY <3>1
    <3> QED BY <1>1, <3>2, FS_EmptySet
  <2>2. /\ inflight' = {[epoch |-> epoch, snapshot |-> Lifetime]}
        /\ UNCHANGED <<now, segments, ledger>>
    BY <1>6, <2>1 DEF Fetch
  <2>3. Lifetime.end = now
    BY <1>1, LifetimeIsTimed
  <2>4. ASSUME NEW s \in inflight'
        PROVE  /\ \A e \in Epochs : ledger[e].end <= s.snapshot.end
               /\ \A x \in DaysOf(segments) :
                      Over(x[1], x[2]) /\ x[1] \in DOMAIN s.snapshot.days =>
                          s.snapshot.days[x[1]].totals["tokens"] <= x[2].totals["tokens"]
    <3>1. s.snapshot = Lifetime
      BY <2>2
    <3> QED BY <2>3, <3>1, LifetimeIsLower DEF AloneInv
  <2>5. DaysOf(segments)' = DaysOf(segments)
    BY <2>2 DEF DaysOf, AllRows
  <2> QED BY <2>2, <2>4, <2>5 DEF AloneInv, Over
<1>7. CASE UNCHANGED vars
  BY <1>4, <1>7 DEF vars
<1>8. ASSUME NEW s \in inflight, Lose(s) PROVE AloneInv'
  BY <1>4, <1>8 DEF Lose
<1>9. ASSUME NEW m \in Model, Request(m) \/ Correct(m) PROVE AloneInv'
  BY <1>4, <1>9 DEF Request, Correct
<1>10. CASE Tick \/ Rebuild
  BY <1>4, <1>10 DEF Tick, Rebuild
<1> QED BY <1>5, <1>6, <1>7, <1>8, <1>9, <1>10 DEF Next

(* A row is of one lifetime.                                               *)
LEMMA OneOwner ==
    ASSUME HistoryIInv, LedgerTyped, NEW births \in [Epochs -> Nat], LedgerInv(births),
           NEW a \in Epochs, NEW b \in Epochs, NEW i, NEW d,
           IsRow(a, i, d, births), IsRow(b, i, d, births)
    PROVE  a = b
<1>1. /\ MaxRebuilds \in Nat /\ Epochs = 1 .. MaxRebuilds + 1 /\ epoch \in Nat
      /\ \A e \in Epochs : ledger[e].end \in Int /\ births[e] \in Nat
  BY EpochNumbers
<1> DEFINE snap == segments[i].days[d].snap
<1>2. snap > 0 /\ snap \in Int
  BY RowFacts DEF IsRow
<1>3. ASSUME NEW x \in Epochs, NEW y \in Epochs, x < y,
             IsRow(x, i, d, births), IsRow(y, i, d, births)
      PROVE  FALSE
  <2>1. births[y] <= snap /\ snap <= ledger[x].end /\ snap <= ledger[y].end
    BY <1>3 DEF IsRow
  <2> HIDE DEF snap
  <2>2. ledger[y].end # 0
    BY <1>1, <1>2, <2>1
  <2>3. y \in 1 .. epoch
    BY <1>1, <2>2 DEF LedgerInv
  <2>4. x \in 1 .. epoch /\ y \in x + 1 .. epoch
    BY <1>1, <1>3, <2>3
  <2>5. ledger[x].end < births[y]
    BY <2>4 DEF LedgerInv
  <2> QED BY <1>1, <1>2, <2>1, <2>5
<1>4. a < b \/ b < a \/ a = b
  BY <1>1
<1> QED BY <1>3, <1>4

(* A row of another lifetime in a date that is reported shows a rebuild:   *)
(* it ended before the present lifetime began.                             *)
LEMMA ForeignDay ==
    ASSUME NEW s, NEW births, NEW firsts, Ready(s, births, firsts),
           RowsBorn(births, firsts),
           NEW i \in DOMAIN segments, NEW d \in DOMAIN segments[i].days,
           ~IsRow(s.epoch, i, d, births)
    PROVE  LET day == segments[i].days[d] IN
           /\ day.snap < firsts[s.epoch]
           /\ d * DayLength < firsts[s.epoch]
           /\ d \in DOMAIN s.snapshot.days =>
                  /\ day.end = day.snap /\ day.snap <= s.snapshot.end
                  /\ SnapshotReset(day, s.snapshot.days[d])
<1> DEFINE day == segments[i].days[d]
           from == firsts[s.epoch]
<1>1. /\ d * DayLength \in Int /\ (d + 1) * DayLength \in Int
      /\ day.start \in Int /\ day.end \in Int /\ day.snap \in Int
      /\ d * DayLength <= day.start /\ day.start < day.end
      /\ day.end <= day.snap /\ day.snap > 0
  BY RowFacts DEF Ready
<1>2. PICK f \in Epochs :
            IsRow(f, i, d, births) /\ Bucket(d, day, firsts[f], day.snap)
  BY DEF RowsBorn
<1>3. /\ s.epoch \in Epochs /\ births[s.epoch] \in Nat /\ from \in Nat
      /\ births[s.epoch] <= from /\ s.snapshot.end \in Int
      /\ \A g \in Epochs : g # s.epoch => ledger[g].end < births[s.epoch]
                                          \/ ledger[g].end = 0
  BY ReadyFacts
<1>4. ledger[f].end \in Int /\ day.snap <= ledger[f].end
  BY <1>2, EpochNumbers DEF Ready, IsRow
<1>5. f # s.epoch
  BY <1>2
<1>6. day.end = MinOf(day.snap, (d + 1) * DayLength)
  BY <1>2 DEF Bucket
<1> HIDE DEF day, from
<1>7. day.snap < births[s.epoch] /\ day.snap < from /\ d * DayLength < from
  BY <1>1, <1>3, <1>4, <1>5
<1>8. ASSUME d \in DOMAIN s.snapshot.days
      PROVE  /\ day.end = day.snap /\ day.snap <= s.snapshot.end
             /\ SnapshotReset(day, s.snapshot.days[d])
  <2>1. /\ from < s.snapshot.end /\ from < (d + 1) * DayLength
        /\ s.snapshot.days[d].start >= from
        /\ s.snapshot.days[d].start = MaxOf(from, d * DayLength)
    BY <1>8, SnapshotDay DEF from
  <2>2. day.end = day.snap
    BY <1>1, <1>3, <1>6, <1>7, <2>1 DEF MinOf
  <2>3. s.snapshot.days[d].start \in Int
    BY <1>1, <1>3, <2>1 DEF MaxOf
  <2> QED BY <1>1, <1>3, <1>7, <2>1, <2>2, <2>3 DEF SnapshotReset
<1> QED BY <1>7, <1>8 DEF day, from

-----------------------------------------------------------------------------
(* What a save of the only report makes of the segments: no row is lost,   *)
(* and only rows of its own lifetime are replaced; the last segment has    *)
(* what it reports, but for dates that have a row from after they were     *)
(* over.                                                                   *)
Kept(n, s, births, firsts) ==
    /\ \A i \in DOMAIN segments : \A d \in DOMAIN segments[i].days :
           /\ i \in DOMAIN n /\ d \in DOMAIN n[i].days
           /\ \/ n[i].days[d] = segments[i].days[d]
              \/ /\ IsRow(s.epoch, i, d, births) /\ d \in DOMAIN s.snapshot.days
                 /\ n[i].days[d] = StoredDay(s.snapshot.days[d], s.snapshot.end)
    /\ \A i \in DOMAIN n : \A d \in DOMAIN n[i].days :
           \/ /\ i \in DOMAIN segments /\ d \in DOMAIN segments[i].days
              /\ n[i].days[d] = segments[i].days[d]
           \/ /\ d \in DOMAIN s.snapshot.days
              /\ n[i].days[d] = StoredDay(s.snapshot.days[d], s.snapshot.end)
    /\ n = <<>> => DOMAIN s.snapshot.days = {}
    /\ n # <<>> =>
           /\ Len(n) \in DOMAIN n /\ Last(n) = n[Len(n)] /\ Last(n).start \in Dates
           /\ \A d \in DOMAIN s.snapshot.days : d >= Last(n).start =>
                  /\ d \in DOMAIN Last(n).days
                  /\ Last(n).days[d] = StoredDay(s.snapshot.days[d], s.snapshot.end)
           /\ \A d \in Dates : d < Last(n).start =>
                  \/ (d + 1) * DayLength <= firsts[s.epoch]
                  \/ \E i \in DOMAIN segments :
                         IsRow(s.epoch, i, d, births) /\ Over(d, segments[i].days[d])
           /\ \/ segments # <<>> /\ Last(n).start = Last(segments).start
              \/ Last(n).start * DayLength < s.snapshot.end

(* What is before the last segment.                                        *)
LEMMA BeforeStart ==
    ASSUME NEW s, NEW births, NEW firsts, Ready(s, births, firsts),
           StartCovered(births, firsts), segments # <<>>
    PROVE  /\ Last(segments).start \in Dates
           /\ \A d \in Dates : d < Last(segments).start =>
                  \/ (d + 1) * DayLength <= firsts[s.epoch]
                  \/ \E i \in DOMAIN segments :
                         IsRow(s.epoch, i, d, births) /\ Over(d, segments[i].days[d])
<1>1. s.epoch \in 1 .. epoch /\ Newest(s.epoch)
  BY ReadyFacts
<1> QED BY <1>1 DEF StartCovered

(* A report without days changes nothing.                                  *)
LEMMA EmptyKept ==
    ASSUME NEW s, NEW births, NEW firsts, Ready(s, births, firsts),
           StartCovered(births, firsts), DOMAIN s.snapshot.days = {}
    PROVE  Kept(SaveSegments(segments, s.snapshot), s, births, firsts)
<1>1. SaveSegments(segments, s.snapshot) = segments
  BY DEF SaveSegments
<1>2. segments # <<>> =>
          Len(segments) \in DOMAIN segments /\ Last(segments) = segments[Len(segments)]
  BY LastSegment DEF Ready, HistoryIInv, HistoryTyped, StateTyped
<1>3. Kept(segments, s, births, firsts)
  BY <1>2, BeforeStart DEF Kept
<1> QED BY <1>1, <1>3

(* The first segment has the whole report.                                 *)
LEMMA FirstKept ==
    ASSUME NEW s, NEW births, NEW firsts, Ready(s, births, firsts),
           Accepted(segments, s.snapshot), DOMAIN s.snapshot.days # {},
           segments = <<>>
    PROVE  Kept(SaveSegments(segments, s.snapshot), s, births, firsts)
<1> DEFINE n == SaveSegments(segments, s.snapshot)
           start == Last(n).start
           from == firsts[s.epoch]
<1>1. Taken(n, s, firsts)
  BY FirstSegmentTaken
<1>2. DOMAIN segments = {}
  OBVIOUS
<1> HIDE DEF n
<1>3. /\ Len(n) \in DOMAIN n /\ n # <<>> /\ Last(n) = n[Len(n)]
      /\ start \in Dates /\ start * DayLength <= from
      /\ \A d \in DOMAIN s.snapshot.days :
             /\ d \in DOMAIN Last(n).days
             /\ Last(n).days[d] = StoredDay(s.snapshot.days[d], s.snapshot.end)
      /\ \A i \in DOMAIN n : \A d \in DOMAIN n[i].days :
             i = Len(n) /\ d \in DOMAIN s.snapshot.days
  BY <1>1, <1>2 DEF Taken
<1>4. from \in Nat /\ s.snapshot.end \in Int /\ from < s.snapshot.end
  <2>1. PICK d \in DOMAIN s.snapshot.days : TRUE
    OBVIOUS
  <2> QED BY <2>1, ReadyFacts, SnapshotDay
<1> HIDE DEF start, from
<1>5. start \in Int /\ start * DayLength \in Int
  BY <1>3, DatesAreNumbers, DayStart
<1>6. ASSUME NEW d \in Dates, d < start PROVE (d + 1) * DayLength <= from
  <2>1. d \in Int /\ d + 1 \in Int /\ d + 1 <= start
    BY <1>5, <1>6, DatesAreNumbers
  <2>2. (d + 1) * DayLength \in Int /\ (d + 1) * DayLength <= start * DayLength
    BY <1>5, <2>1, DayStart
  <2> QED BY <1>3, <1>4, <1>5, <2>2
<1>7. start * DayLength < s.snapshot.end
  BY <1>3, <1>4, <1>5
<1>8. Kept(n, s, births, firsts)
  BY <1>2, <1>3, <1>6, <1>7 DEF Kept, start, from
<1> QED BY <1>8 DEF n

(* A save that sees no rebuild: rows that it replaces are of its lifetime. *)
LEMMA SameKept ==
    ASSUME NEW s, NEW births, NEW firsts, Ready(s, births, firsts),
           RowsBorn(births, firsts), StartCovered(births, firsts),
           Accepted(segments, s.snapshot), DOMAIN s.snapshot.days # {},
           segments # <<>>, ResetDates(Last(segments), s.snapshot) = {}
    PROVE  Kept(SaveSegments(segments, s.snapshot), s, births, firsts)
<1> DEFINE k == Len(segments)
           g == Last(segments)
           n == SaveSegments(segments, s.snapshot)
           r == ReplaceDays(g, s.snapshot)
           e == s.epoch
<1>1. IsSegments(segments) /\ Timed(s.snapshot)
  BY DEF Ready, HistoryIInv, HistoryTyped, StateTyped, SnapshotsInv
<1>2. k \in Nat /\ k > 0 /\ DOMAIN segments = 1 .. k /\ g = segments[k] /\ IsSegment(g)
  BY <1>1, SegmentsDomain, LastSegment
<1>3. n = ReplaceAt(segments, k, r)
  BY OpenSegmentsAreSegments, <1>1 DEF SaveSegments
<1>4. IsSegment(r)
  BY <1>1, <1>2, ReplacedSegment
<1>5. /\ r.start = g.start
      /\ DOMAIN r.days = Replaced(g, s.snapshot) \cup DOMAIN g.days
      /\ \A d \in Replaced(g, s.snapshot) :
             r.days[d] = StoredDay(s.snapshot.days[d], s.snapshot.end)
      /\ \A d \in DOMAIN g.days \ Replaced(g, s.snapshot) : r.days[d] = g.days[d]
  <2> HIDE DEF g
  <2> QED BY <1>2, DaysAfter
(* No row is of a later snapshot than this one. *)
<1>6. ASSUME NEW d \in DOMAIN g.days PROVE s.snapshot.end >= g.days[d].snap
  <2>1. PICK f \in Epochs : IsRow(f, k, d, births)
    BY <1>2, <1>6 DEF RowsBorn
  <2>2. g.days[d].snap <= ledger[f].end
    BY <1>2, <2>1 DEF IsRow
  <2>3. ledger[f].end \in Int /\ ledger[f].end <= s.snapshot.end
    BY EpochNumbers DEF Ready
  <2>4. g.days[d].snap \in Int /\ s.snapshot.end \in Int
    BY <1>1, <1>2 DEF IsSegment, StoredOk, Timed
  <2> HIDE DEF g
  <2> QED BY <2>2, <2>3, <2>4
<1>7. Replaced(g, s.snapshot) = {d \in DOMAIN s.snapshot.days : d >= g.start}
  <2> HIDE DEF g
  <2> QED BY <1>6 DEF Replaced
(* A row of another lifetime would have shown a rebuild. *)
<1>8. ASSUME NEW d \in DOMAIN g.days, d \in Replaced(g, s.snapshot)
      PROVE  IsRow(e, k, d, births)
  <2> SUFFICES ASSUME ~IsRow(e, k, d, births) PROVE FALSE
    OBVIOUS
  <2>1. d \in DOMAIN s.snapshot.days /\ d >= g.start
    BY <1>7, <1>8
  <2>2. /\ g.days[d].end = g.days[d].snap
        /\ SnapshotReset(g.days[d], s.snapshot.days[d])
    BY <1>2, <1>8, <2>1, ForeignDay
  <2>3. d \in ResetDates(g, s.snapshot)
    <3> HIDE DEF g
    <3> QED BY <1>6, <2>1, <2>2 DEF ResetDates, Comparable, MutableDates
  <2> QED BY <2>3
<1>9. ASSUME NEW i \in DOMAIN segments, NEW d \in DOMAIN segments[i].days
      PROVE  /\ i \in DOMAIN n /\ d \in DOMAIN n[i].days
             /\ \/ n[i].days[d] = segments[i].days[d]
                \/ /\ IsRow(e, i, d, births) /\ d \in DOMAIN s.snapshot.days
                   /\ n[i].days[d] = StoredDay(s.snapshot.days[d], s.snapshot.end)
  <2>1. /\ i \in DOMAIN n /\ d \in DOMAIN n[i].days
        /\ \/ n[i].days[d] = segments[i].days[d]
           \/ /\ i = k /\ d \in Replaced(segments[i], s.snapshot)
              /\ n[i].days[d] = StoredDay(s.snapshot.days[d], s.snapshot.end)
    BY <1>1, SavedDay
  <2>2. CASE i = k /\ d \in Replaced(g, s.snapshot)
    <3>1. IsRow(e, i, d, births)
      BY <1>2, <1>8, <1>9, <2>2
    <3>2. d \in DOMAIN s.snapshot.days
      BY <1>7, <2>2
    <3> HIDE DEF g, n
    <3> QED BY <2>1, <3>1, <3>2
  <2> HIDE DEF n, g
  <2> QED BY <1>2, <2>1, <2>2
<1> HIDE DEF g, r, n
<1>10. /\ IsSegments(n) /\ Len(n) = k /\ n[k] = r /\ Last(n) = r /\ n # <<>>
       /\ \A i \in 1 .. k - 1 : n[i] = segments[i]
  BY <1>1, <1>3, <1>4, ReplaceLastSegment
<1>11. DOMAIN n = 1 .. k
  BY <1>10, SegmentsDomain
<1>12. ASSUME NEW i \in DOMAIN n, NEW d \in DOMAIN n[i].days
       PROVE  \/ /\ i \in DOMAIN segments /\ d \in DOMAIN segments[i].days
                 /\ n[i].days[d] = segments[i].days[d]
              \/ /\ d \in DOMAIN s.snapshot.days
                 /\ n[i].days[d] = StoredDay(s.snapshot.days[d], s.snapshot.end)
  <2>1. CASE i = k
    BY <1>2, <1>5, <1>7, <1>10, <1>12, <2>1
  <2>2. CASE i # k
    <3>1. i \in 1 .. k - 1
      BY <1>2, <1>11, <2>2
    <3> QED BY <1>2, <1>10, <1>11, <1>12, <3>1
  <2> QED BY <2>1, <2>2
<1>13. /\ g.start \in Dates
       /\ \A d \in Dates : d < g.start =>
              \/ (d + 1) * DayLength <= firsts[e]
              \/ \E i \in DOMAIN segments :
                     IsRow(e, i, d, births) /\ Over(d, segments[i].days[d])
  BY BeforeStart DEF g
<1>14. \A d \in DOMAIN s.snapshot.days : d >= r.start =>
           /\ d \in DOMAIN r.days
           /\ r.days[d] = StoredDay(s.snapshot.days[d], s.snapshot.end)
  BY <1>5, <1>7
<1>15. Len(n) \in DOMAIN n /\ Last(n).start = Last(segments).start
  BY <1>2, <1>5, <1>10, <1>11 DEF g
<1>16. Kept(n, s, births, firsts)
  BY <1>5, <1>9, <1>10, <1>12, <1>13, <1>14, <1>15 DEF Kept, e
<1> QED BY <1>16 DEF n

(* A new segment: the dates before it that are reported were over when     *)
(* their rows were taken.                                                  *)
LEMMA NewKept ==
    ASSUME NEW s, NEW births, NEW firsts, Ready(s, births, firsts),
           RowsBorn(births, firsts), StartCovered(births, firsts),
           Accepted(segments, s.snapshot), DOMAIN s.snapshot.days # {},
           segments # <<>>, ResetDates(Last(segments), s.snapshot) # {}
    PROVE  Kept(SaveSegments(segments, s.snapshot), s, births, firsts)
<1> DEFINE k == Len(segments)
           g == Last(segments)
           resets == ResetDates(g, s.snapshot)
           date == Min(resets)
           c == NewSegment(date)
           n == SaveSegments(segments, s.snapshot)
           r == ReplaceDays(c, s.snapshot)
           e == s.epoch
           from == firsts[e]
           own == ledger[e].end
<1>1. IsSegments(segments) /\ Timed(s.snapshot)
  BY DEF Ready, HistoryIInv, HistoryTyped, StateTyped, SnapshotsInv
<1>2. k \in Nat /\ k > 0 /\ DOMAIN segments = 1 .. k /\ g = segments[k] /\ IsSegment(g)
  BY <1>1, SegmentsDomain, LastSegment
<1>3. n = Append(segments, r)
  BY OpenSegmentsAreSegments, <1>1 DEF SaveSegments
<1>4. ASSUME NEW d \in resets PROVE d \in DOMAIN g.days /\ d \in DOMAIN s.snapshot.days
  BY DEF ResetDates, Comparable, MutableDates
<1>5. date \in resets /\ \A d \in resets : date <= d
  <2>1. resets \subseteq Dates
    BY <1>4, SnapshotDay
  <2>2. resets \subseteq Int /\ IsFiniteSet(resets)
    <3> HIDE DEF resets
    <3>1. IsFiniteSet(Dates) /\ Dates \subseteq Int
      <4>1. Date(LastInstant) \in Int
        BY HistoryAssumption DEF Date
      <4>2. IsFiniteSet(Dates)
        BY <4>1, FS_Interval DEF Dates
      <4> QED BY <4>2, DatesAreNumbers
    <3>2. IsFiniteSet(resets)
      BY <2>1, <3>1, FS_Subset
    <3> QED BY <2>1, <3>1, <3>2
  <2> HIDE DEF resets
  <2> QED BY <2>2, MinIsLeast DEF resets
<1> HIDE DEF date, resets
<1>6. /\ e \in 1 .. epoch /\ e \in Epochs /\ Newest(e) /\ births[e] \in Nat
      /\ from \in Nat /\ own \in Int /\ own <= s.snapshot.end /\ s.snapshot.end \in Int
      /\ DOMAIN s.snapshot.days = Reach(from, s.snapshot.end)
  BY ReadyFacts, EpochNumbers DEF Ready
<1>7. /\ date \in DOMAIN g.days /\ date \in DOMAIN s.snapshot.days
      /\ date \in Dates /\ date \in Nat
      /\ date * DayLength \in Int /\ date * DayLength < s.snapshot.end
  BY <1>4, <1>5, SnapshotDay
<1>8. \A d \in Dates : d < date =>
          /\ d \in Nat /\ d * DayLength \in Int /\ (d + 1) * DayLength \in Int
          /\ d * DayLength < (d + 1) * DayLength
          /\ (d + 1) * DayLength <= date * DayLength
  <2> SUFFICES ASSUME NEW d \in Dates, d < date
               PROVE  /\ d \in Nat /\ d * DayLength \in Int /\ (d + 1) * DayLength \in Int
                      /\ d * DayLength < (d + 1) * DayLength
                      /\ (d + 1) * DayLength <= date * DayLength
    OBVIOUS
  <2>1. d \in Nat /\ d + 1 \in Int /\ d + 1 <= date /\ d < d + 1
    BY <1>7, DatesAreNumbers
  <2>2. d * DayLength \in Int /\ (d + 1) * DayLength \in Int
        /\ d * DayLength < (d + 1) * DayLength
    BY <2>1, HistoryAssumption
  <2> QED BY <1>7, <2>1, <2>2, DayStart
(* The date of the new segment was reported before by its own lifetime, or *)
(* it is the one in which the lifetime began.                              *)
<1>9. ASSUME NEW d \in Dates, d < date
      PROVE  \/ (d + 1) * DayLength <= from
             \/ \E i \in DOMAIN segments :
                    IsRow(e, i, d, births) /\ Over(d, segments[i].days[d])
  <2>1. CASE ~IsRow(e, k, date, births)
    <3>1. date * DayLength < from
      BY <1>2, <1>7, <2>1, ForeignDay
    <3> QED BY <1>6, <1>7, <1>8, <1>9, <3>1
  <2>2. CASE d < g.start
    BY <1>9, <2>2, BeforeStart
  <2>3. CASE IsRow(e, k, date, births) /\ ~(d < g.start) /\ from < (d + 1) * DayLength
    (* The date had begun when its row was taken, so this one was over.    *)
    <3>1. date * DayLength < own
      <4>1. g.days[date].snap <= own
        BY <1>2, <2>3 DEF IsRow
      <4>2. /\ date * DayLength <= g.days[date].start
            /\ g.days[date].start < g.days[date].end
            /\ g.days[date].end <= g.days[date].snap
            /\ g.days[date].start \in Int /\ g.days[date].end \in Int
            /\ g.days[date].snap \in Int
        <5>1. k \in DOMAIN segments /\ date \in DOMAIN segments[k].days
          BY <1>2, <1>7
        <5>2. LET day == segments[k].days[date] IN
              /\ date * DayLength <= day.start /\ day.start < day.end
              /\ day.end <= day.snap
              /\ day.start \in Int /\ day.end \in Int /\ day.snap \in Int
          <6> HIDE DEF k
          <6> QED BY <5>1, RowFacts DEF Ready
        <5> QED BY <1>2, <5>2
      <4> HIDE DEF g
      <4> QED BY <1>6, <1>7, <4>1, <4>2
    <3>2. (d + 1) * DayLength <= own
      BY <1>6, <1>7, <1>8, <1>9, <3>1
    <3>3. d \in Reach(from, own)
      BY <1>6, <1>8, <1>9, <2>3, <3>2 DEF Reach
    <3>4. g.start \in Dates
      BY BeforeStart
    <3>5. d >= g.start
      <4> DEFINE start == g.start
      <4>1. start \in Dates
        BY <3>4
      <4> HIDE DEF start
      <4>4. start \in Int /\ d \in Int
        BY <4>1, DatesAreNumbers
      <4>2. ~(d < start)
        BY <2>3 DEF start
      <4>3. d >= start
        BY <4>2, <4>4
      <4> QED BY <4>3 DEF start
    <3>6. d \in DOMAIN g.days /\ g.days[d].snap = own
      BY <1>6, <3>3, <3>5 DEF StartCovered
    <3>7. births[e] <= own
      <4>1. LedgerInv(births) /\ own # 0
        <5>1. own > 0
          <6>1. 0 <= date * DayLength
            BY <1>7, DayStart
          <6> QED BY <1>6, <1>7, <3>1, <6>1
        <5> QED BY <1>6, <5>1 DEF Ready, Lives
      <4> QED BY <1>6, <4>1 DEF LedgerInv
    <3>8. IsRow(e, k, d, births) /\ Over(d, segments[k].days[d])
      BY <1>2, <1>6, <3>2, <3>6, <3>7 DEF IsRow, Over
    <3> QED BY <1>2, <3>8
  <2> QED BY <1>6, <1>8, <1>9, <2>1, <2>2, <2>3
<1>10. c.start = date /\ DOMAIN c.days = {} /\ IsSegment(c)
  BY NewSegmentIsSegment
<1> HIDE DEF c
<1>11. Replaced(c, s.snapshot) = {d \in DOMAIN s.snapshot.days : d >= date}
  BY <1>10 DEF Replaced
<1>12. /\ r.start = date
       /\ DOMAIN r.days = {d \in DOMAIN s.snapshot.days : d >= date}
       /\ \A d \in DOMAIN r.days :
              r.days[d] = StoredDay(s.snapshot.days[d], s.snapshot.end)
  <2>1. IsSegment(c)
    BY <1>10
  <2>2. /\ r.start = c.start
        /\ DOMAIN r.days = Replaced(c, s.snapshot) \cup DOMAIN c.days
        /\ \A d \in Replaced(c, s.snapshot) :
               r.days[d] = StoredDay(s.snapshot.days[d], s.snapshot.end)
    BY <2>1, DaysAfter
  <2> HIDE DEF r
  <2> QED BY <1>10, <1>11, <2>2
<1>13. IsSegment(r)
  <2>1. IsSegment(c)
    BY <1>10
  <2> QED BY <1>1, <2>1, ReplacedSegment
<1> HIDE DEF g, r, n
<1>14. /\ IsSegments(n) /\ Len(n) = k + 1 /\ n[k + 1] = r /\ Last(n) = r /\ n # <<>>
       /\ \A i \in 1 .. k : n[i] = segments[i]
  BY <1>1, <1>3, <1>13, AppendSegment
<1>15. DOMAIN n = 1 .. k + 1
  BY <1>14, SegmentsDomain
<1>16. ASSUME NEW i \in DOMAIN n, NEW d \in DOMAIN n[i].days
       PROVE  \/ /\ i \in DOMAIN segments /\ d \in DOMAIN segments[i].days
                 /\ n[i].days[d] = segments[i].days[d]
              \/ /\ d \in DOMAIN s.snapshot.days
                 /\ n[i].days[d] = StoredDay(s.snapshot.days[d], s.snapshot.end)
  <2>1. CASE i = k + 1
    BY <1>12, <1>14, <1>16, <2>1
  <2>2. CASE i # k + 1
    <3>1. i \in 1 .. k
      BY <1>2, <1>15, <2>2
    <3> QED BY <1>2, <1>14, <1>16, <3>1
  <2> QED BY <2>1, <2>2
<1>17. ASSUME NEW i \in DOMAIN segments, NEW d \in DOMAIN segments[i].days
       PROVE  /\ i \in DOMAIN n /\ d \in DOMAIN n[i].days
              /\ n[i].days[d] = segments[i].days[d]
  BY <1>2, <1>14, <1>15
<1>18. Len(n) \in DOMAIN n /\ Last(n) = n[Len(n)]
  BY <1>2, <1>14, <1>15
<1>19. \A d \in DOMAIN s.snapshot.days : d >= r.start =>
           /\ d \in DOMAIN r.days
           /\ r.days[d] = StoredDay(s.snapshot.days[d], s.snapshot.end)
  BY <1>12
<1>20. Kept(n, s, births, firsts)
  <2> HIDE DEF k
  <2> QED BY <1>7, <1>9, <1>12, <1>14, <1>16, <1>17, <1>18, <1>19 DEF Kept, e, from
<1> QED BY <1>20 DEF n

(* Whatever a save does: it opens the first segment, replaces days of the  *)
(* last one, or opens another one.                                         *)
LEMMA SaveKept ==
    ASSUME NEW s, NEW births, NEW firsts, Ready(s, births, firsts),
           RowsBorn(births, firsts), StartCovered(births, firsts),
           Accepted(segments, s.snapshot)
    PROVE  Kept(SaveSegments(segments, s.snapshot), s, births, firsts)
BY EmptyKept, FirstKept, SameKept, NewKept

(* The rows after the only report was saved.                               *)
LEMMA SaveKeepsRowsKept ==
    ASSUME NEW s, NEW births, NEW firsts, Ready(s, births, firsts),
           RowsKept(births, firsts), Accepted(segments, s.snapshot), Save(s),
           \A x \in DaysOf(segments) :
               Over(x[1], x[2]) /\ x[1] \in DOMAIN s.snapshot.days =>
                   s.snapshot.days[x[1]].totals["tokens"] <= x[2].totals["tokens"]
    PROVE  RowsKept(births, firsts)'
<1> DEFINE e == s.epoch
           t == s.snapshot.end
           days == s.snapshot.days
           n == segments'
<1>1. /\ e \in Epochs /\ e \in 1 .. epoch /\ Newest(e)
      /\ t \in Int /\ now \in Int /\ t <= now
      /\ births[e] \in Nat /\ births[e] <= t /\ firsts[e] \in Nat
      /\ \A f \in e + 1 .. epoch : t < births[f]
      /\ DOMAIN days = Reach(firsts[e], t)
  BY ReadyFacts
<1>2. n = SaveSegments(segments, s.snapshot) /\ now' = now /\ epoch' = epoch
  BY DEF Save
<1>3. /\ t > 0 /\ ledger'[e].end = t
      /\ \A d \in Dates : ledger'[e].tokens[d] =
             IF d \in DOMAIN days THEN days[d].totals["tokens"] ELSE ledger[e].tokens[d]
      /\ \A f \in Epochs : f # e => ledger'[f] = ledger[f]
  BY LedgerAfter
<1>4. RowsBorn(births, firsts) /\ ReportsCovered(births, firsts)
      /\ StartCovered(births, firsts)
  BY DEF RowsKept
<1>5. Kept(n, s, births, firsts)
  BY <1>2, <1>4, SaveKept
<1>6. /\ MaxRebuilds \in Nat /\ Epochs = 1 .. MaxRebuilds + 1 /\ epoch \in Nat
      /\ 1 .. epoch \subseteq Epochs
      /\ \A f \in Epochs : ledger[f].end \in Int /\ ledger[f].end <= t
  BY EpochNumbers DEF Ready
<1>7. /\ \A i \in DOMAIN segments : \A d \in DOMAIN segments[i].days :
             /\ i \in DOMAIN n /\ d \in DOMAIN n[i].days
             /\ \/ n[i].days[d] = segments[i].days[d]
                \/ /\ IsRow(e, i, d, births) /\ d \in DOMAIN days
                   /\ n[i].days[d] = StoredDay(days[d], t)
      /\ \A i \in DOMAIN n : \A d \in DOMAIN n[i].days :
             \/ /\ i \in DOMAIN segments /\ d \in DOMAIN segments[i].days
                /\ n[i].days[d] = segments[i].days[d]
             \/ d \in DOMAIN days /\ n[i].days[d] = StoredDay(days[d], t)
      /\ n = <<>> => DOMAIN days = {}
      /\ n # <<>> =>
             /\ Len(n) \in DOMAIN n /\ Last(n) = n[Len(n)] /\ Last(n).start \in Dates
             /\ \A d \in DOMAIN days : d >= Last(n).start =>
                    d \in DOMAIN Last(n).days /\ Last(n).days[d] = StoredDay(days[d], t)
             /\ \A d \in Dates : d < Last(n).start =>
                    \/ (d + 1) * DayLength <= firsts[e]
                    \/ \E i \in DOMAIN segments :
                           IsRow(e, i, d, births) /\ Over(d, segments[i].days[d])
             /\ \/ segments # <<>> /\ Last(n).start = Last(segments).start
                \/ Last(n).start * DayLength < t
  BY <1>5 DEF Kept
(* A day of the report, as it is stored.                                   *)
<1>8. ASSUME NEW d \in DOMAIN days
      PROVE  LET day == StoredDay(days[d], t) IN
             /\ d \in Dates /\ day.snap = t /\ Bucket(d, day, firsts[e], t)
             /\ day.totals["tokens"] = days[d].totals["tokens"]
             /\ days[d].totals["tokens"] \in Int
             /\ (d + 1) * DayLength \in Int /\ firsts[e] < (d + 1) * DayLength
  <2>1. /\ d \in Dates /\ days[d].totals["tokens"] \in Int
        /\ Bucket(d, days[d], firsts[e], t)
        /\ (d + 1) * DayLength \in Int /\ firsts[e] < (d + 1) * DayLength
    BY SnapshotDay
  <2> HIDE DEF days, t, e
  <2> QED BY <2>1 DEF StoredDay, Bucket
(* A row stays one of its lifetime, and no other lifetime's day changes.   *)
<1> DEFINE Row(f, i, d) ==
               /\ i \in DOMAIN n /\ d \in DOMAIN n[i].days
               /\ births[f] <= n[i].days[d].snap /\ n[i].days[d].snap <= ledger'[f].end
<1>9. ASSUME NEW f \in Epochs, NEW i, NEW d, IsRow(f, i, d, births)
      PROVE  /\ Row(f, i, d)
             /\ segments[i].days[d].snap \in Int /\ segments[i].days[d].snap > 0
             /\ segments[i].days[d].snap <= t
             /\ \/ n[i].days[d] = segments[i].days[d]
                \/ f = e /\ d \in DOMAIN days /\ n[i].days[d] = StoredDay(days[d], t)
  <2>1. /\ i \in DOMAIN segments /\ d \in DOMAIN segments[i].days
        /\ births[f] <= segments[i].days[d].snap
        /\ segments[i].days[d].snap <= ledger[f].end
    BY <1>9 DEF IsRow
  <2>2. segments[i].days[d].snap \in Int /\ segments[i].days[d].snap > 0
    BY <2>1, RowFacts DEF Ready
  <2>3. i \in DOMAIN n /\ d \in DOMAIN n[i].days
    BY <1>7, <2>1
  <2>4. ledger[f].end <= ledger'[f].end /\ ledger'[f].end \in Int
    BY <1>1, <1>3, <1>6
  <2> HIDE DEF e, t, days, n
  <2>5. CASE n[i].days[d] = segments[i].days[d]
    BY <1>1, <1>6, <2>1, <2>2, <2>3, <2>4, <2>5
  <2>6. CASE /\ IsRow(e, i, d, births) /\ d \in DOMAIN days
             /\ n[i].days[d] = StoredDay(days[d], t)
    <3>1. f = e
      BY <1>1, <1>9, <2>6, OneOwner DEF Ready, Lives
    <3> QED BY <1>1, <1>3, <1>6, <1>8, <2>1, <2>2, <2>3, <2>6, <3>1
  <2> QED BY <1>7, <2>1, <2>5, <2>6
<1>10. \A x \in DaysOf(segments) : Over(x[1], x[2]) /\ x[1] \in DOMAIN days =>
           days[x[1]].totals["tokens"] <= x[2].totals["tokens"]
  OBVIOUS
<1> HIDE DEF e, t, days, n
<1>11. ASSUME NEW i \in DOMAIN n, NEW d \in DOMAIN n[i].days
       PROVE  \E f \in Epochs :
                  /\ Row(f, i, d)
                  /\ Bucket(d, n[i].days[d], firsts[f], n[i].days[d].snap)
  <2>1. CASE /\ i \in DOMAIN segments /\ d \in DOMAIN segments[i].days
             /\ n[i].days[d] = segments[i].days[d]
    <3>1. PICK f \in Epochs :
              /\ IsRow(f, i, d, births)
              /\ Bucket(d, segments[i].days[d], firsts[f], segments[i].days[d].snap)
      BY <1>4, <2>1 DEF RowsBorn
    <3>2. Row(f, i, d)
      BY <1>9, <3>1
    <3> HIDE DEF Row
    <3> QED BY <2>1, <3>1, <3>2
  <2>2. CASE d \in DOMAIN days /\ n[i].days[d] = StoredDay(days[d], t)
    BY <1>1, <1>3, <1>8, <1>11, <2>2
  <2> QED BY <1>7, <2>1, <2>2
<1>12. ASSUME NEW f \in Epochs, NEW d \in Dates, ledger'[f].tokens[d] # 0
       PROVE  /\ d \in Reach(firsts[f], ledger'[f].end)
              /\ \E i \in DOMAIN n :
                     Row(f, i, d) /\ ledger'[f].tokens[d] <= n[i].days[d].totals["tokens"]
  <2>1. CASE f # e
    <3>1. ledger'[f] = ledger[f]
      BY <1>3, <2>1
    <3>2. /\ d \in Reach(firsts[f], ledger[f].end)
          /\ \E i \in DOMAIN segments :
                 /\ IsRow(f, i, d, births)
                 /\ ledger[f].tokens[d] <= segments[i].days[d].totals["tokens"]
      BY <1>4, <1>12, <3>1 DEF ReportsCovered
    <3>3. PICK i \in DOMAIN segments :
                 /\ IsRow(f, i, d, births)
                 /\ ledger[f].tokens[d] <= segments[i].days[d].totals["tokens"]
      BY <3>2
    <3>4. Row(f, i, d) /\ n[i].days[d] = segments[i].days[d] /\ i \in DOMAIN n
      BY <1>9, <2>1, <3>3
    <3> HIDE DEF Row
    <3> QED BY <3>1, <3>2, <3>3, <3>4
  <2>2. CASE f = e /\ d \notin DOMAIN days
    <3>1. ledger[e].tokens[d] # 0
      BY <1>3, <1>12, <2>2
    <3>2. d \in Reach(firsts[e], ledger[e].end)
      BY <1>1, <1>4, <3>1 DEF ReportsCovered
    <3>3. Reach(firsts[e], ledger[e].end) \subseteq Reach(firsts[e], t)
      <4>1. firsts[e] \in Int /\ ledger[e].end \in Int /\ t \in Int /\ ledger[e].end <= t
        BY <1>1, <1>6
      <4> QED BY <4>1, ReachGrows
    <3> QED BY <1>1, <2>2, <3>2, <3>3
  <2>3. CASE f = e /\ d \in DOMAIN days
    <3>1. /\ ledger'[f].end = t /\ ledger'[f].tokens[d] = days[d].totals["tokens"]
          /\ d \in Reach(firsts[f], ledger'[f].end) /\ n # <<>>
      BY <1>1, <1>3, <1>7, <2>3
    <3>2. d \in Int /\ Last(n).start \in Int
      <4> DEFINE start == Last(n).start
      <4>1. start \in Dates
        BY <1>7, <3>1
      <4> HIDE DEF start
      <4>2. d \in Int /\ start \in Int
        BY <4>1, DatesAreNumbers
      <4> QED BY <4>2 DEF start
    <3>3. CASE d >= Last(n).start
      <4>1. /\ Len(n) \in DOMAIN n /\ d \in DOMAIN n[Len(n)].days
            /\ n[Len(n)].days[d] = StoredDay(days[d], t)
        BY <1>7, <2>3, <3>1, <3>3
      <4>2. Row(f, Len(n), d)
            /\ ledger'[f].tokens[d] <= n[Len(n)].days[d].totals["tokens"]
        BY <1>1, <1>8, <2>3, <3>1, <4>1
      <4> HIDE DEF Row
      <4> QED BY <3>1, <4>1, <4>2
    <3>4. CASE d < Last(n).start
      <4>1. ~((d + 1) * DayLength <= firsts[e])
        BY <1>1, <1>8, <2>3
      <4>2. PICK i \in DOMAIN segments :
                IsRow(e, i, d, births) /\ Over(d, segments[i].days[d])
        BY <1>7, <3>1, <3>4, <4>1
      <4>3. /\ Row(e, i, d) /\ i \in DOMAIN n
            /\ \/ n[i].days[d] = segments[i].days[d]
               \/ n[i].days[d] = StoredDay(days[d], t)
        BY <1>1, <1>9, <4>2
      <4>4. days[d].totals["tokens"] <= segments[i].days[d].totals["tokens"]
        <5> DEFINE x == <<d, segments[i].days[d]>>
        <5>1. d \in DOMAIN segments[i].days
          BY <4>2 DEF IsRow
        <5>2. x \in DaysOf(segments)
          BY <4>2, <5>1, DaysOfMember
        <5>3. x[1] = d /\ x[2] = segments[i].days[d]
          OBVIOUS
        <5> HIDE DEF x
        <5> QED BY <1>10, <2>3, <4>2, <5>2, <5>3
      <4>5. days[d].totals["tokens"] <= n[i].days[d].totals["tokens"]
        BY <1>8, <2>3, <4>3, <4>4
      <4> HIDE DEF Row
      <4> QED BY <2>3, <3>1, <4>3, <4>5
    <3> QED BY <3>2, <3>3, <3>4
  <2> QED BY <2>1, <2>2, <2>3
<1>13. n # <<>> => Last(n).start \in Dates /\ Last(n).start * DayLength <= now
  <2> SUFFICES ASSUME n # <<>>
               PROVE  Last(n).start \in Dates /\ Last(n).start * DayLength <= now
    OBVIOUS
  <2> DEFINE start == Last(n).start
  <2>1. /\ start \in Dates
        /\ start * DayLength <= now \/ start * DayLength < t
    BY <1>4, <1>7 DEF StartCovered
  <2> HIDE DEF start
  <2>2. start \in Int
    BY <2>1, DatesAreNumbers
  <2>3. start * DayLength \in Int
    BY <2>2, DayStart
  <2>4. start * DayLength <= now
    BY <1>1, <2>1, <2>3
  <2> QED BY <2>1, <2>4 DEF start
<1>14. ASSUME NEW f \in 1 .. epoch, Newest(f)'
       PROVE  /\ \A d \in Reach(firsts[f], ledger'[f].end) :
                     /\ n # <<>>
                     /\ d >= Last(n).start =>
                            /\ d \in DOMAIN Last(n).days
                            /\ Last(n).days[d].snap = ledger'[f].end
              /\ \A d \in Dates : n # <<>> /\ d < Last(n).start =>
                     \/ (d + 1) * DayLength <= firsts[f]
                     \/ \E i \in DOMAIN n : Row(f, i, d) /\ Over(d, n[i].days[d])
  <2>1. ~(f < e)
    <3> SUFFICES ASSUME f < e PROVE FALSE
      OBVIOUS
    <3>1. e \in f + 1 .. MaxRebuilds + 1
      BY <1>1, <1>6
    <3> QED BY <1>1, <1>3, <1>14, <3>1 DEF Newest
  <2>2. CASE f = e
    <3>1. \A d \in Reach(firsts[f], ledger'[f].end) :
              /\ n # <<>>
              /\ d >= Last(n).start =>
                     /\ d \in DOMAIN Last(n).days
                     /\ Last(n).days[d].snap = ledger'[f].end
      BY <1>1, <1>3, <1>7, <1>8, <2>2
    <3>2. ASSUME NEW d \in Dates, n # <<>>, d < Last(n).start,
                 ~((d + 1) * DayLength <= firsts[f])
          PROVE  \E i \in DOMAIN n : Row(f, i, d) /\ Over(d, n[i].days[d])
      <4>1. PICK i \in DOMAIN segments :
                IsRow(e, i, d, births) /\ Over(d, segments[i].days[d])
        BY <1>7, <2>2, <3>2
      <4>2. /\ Row(e, i, d) /\ i \in DOMAIN n
            /\ segments[i].days[d].snap \in Int /\ segments[i].days[d].snap <= t
            /\ \/ n[i].days[d] = segments[i].days[d]
               \/ d \in DOMAIN days /\ n[i].days[d] = StoredDay(days[d], t)
        BY <1>1, <1>9, <4>1
      <4>3. (d + 1) * DayLength \in Int
        <5>1. d + 1 \in Int
          BY DatesAreNumbers
        <5> QED BY <5>1, DayStart
      <4>4. Over(d, n[i].days[d])
        BY <1>1, <1>8, <4>1, <4>2, <4>3 DEF Over
      <4> HIDE DEF Row
      <4> QED BY <2>2, <4>2, <4>4
    <3> QED BY <3>1, <3>2
  <2>3. CASE f > e
    <3>1. f \in e + 1 .. epoch /\ f \in e + 1 .. MaxRebuilds + 1 /\ f \in Epochs
      BY <1>1, <1>6, <2>3
    <3>2. ledger[f].end = 0 /\ ledger'[f] = ledger[f] /\ Newest(f)
      BY <1>1, <1>3, <1>6, <1>14, <2>3, <3>1 DEF Newest
    <3>3. t < births[f] /\ births[f] <= firsts[f] /\ births[f] \in Int /\ firsts[f] \in Nat
      BY <1>1, <1>14, <3>1 DEF Ready, Lives, LifetimesInv
    <3>4. Reach(firsts[f], ledger'[f].end) = {}
      BY <3>2, <3>3, ReachNothing
    <3>5. ASSUME NEW d \in Dates, n # <<>>, d < Last(n).start
          PROVE  (d + 1) * DayLength <= firsts[f]
      <4> DEFINE start == Last(n).start
      <4>1. /\ start \in Dates /\ d < start
            /\ \/ segments # <<>> /\ start = Last(segments).start
               \/ start * DayLength < t
        BY <1>7, <3>5
      <4>2. CASE segments # <<>> /\ start = Last(segments).start
        <5>1. \/ (d + 1) * DayLength <= firsts[f]
              \/ \E i \in DOMAIN segments : IsRow(f, i, d, births)
          BY <1>4, <1>14, <3>2, <4>1, <4>2 DEF StartCovered
        <5>2. ASSUME NEW i \in DOMAIN segments, IsRow(f, i, d, births) PROVE FALSE
          <6>1. segments[i].days[d].snap <= 0
            BY <3>2, <5>2 DEF IsRow
          <6>2. segments[i].days[d].snap \in Int /\ segments[i].days[d].snap > 0
            BY <1>9, <3>1, <5>2
          <6> QED BY <6>1, <6>2
        <5> QED BY <5>1, <5>2
      <4>3. CASE start * DayLength < t
        <5> HIDE DEF start
        <5>1. start \in Int /\ d \in Int
          BY <4>1, DatesAreNumbers
        <5>2. d + 1 \in Int
          BY <5>1
        <5>3. /\ (d + 1) * DayLength \in Int /\ start * DayLength \in Int
              /\ (d + 1) * DayLength <= start * DayLength
          BY <4>1, <5>1, <5>2, DayStart
        <5> QED BY <1>1, <3>3, <4>3, <5>3
      <4> QED BY <4>1, <4>2, <4>3
    <3> QED BY <3>4, <3>5
  <2> QED BY <1>1, <1>6, <2>1, <2>2, <2>3
<1>15. RowsBorn(births, firsts)'
  BY <1>11 DEF RowsBorn, IsRow, Bucket, Reach, n
<1>16. ReportsCovered(births, firsts)'
  BY <1>12 DEF ReportsCovered, IsRow, Reach, n
<1>17. StartCovered(births, firsts)'
  BY <1>2, <1>13, <1>14 DEF StartCovered, IsRow, Reach, Over, n
<1> QED BY <1>15, <1>16, <1>17 DEF RowsKept

(* A report that is refused.                                               *)
LEMMA SameRowsKept ==
    ASSUME NEW births, NEW firsts, RowsKept(births, firsts),
           UNCHANGED <<epoch, segments, ledger>>, now \in Int, now' \in Int, now <= now'
    PROVE  RowsKept(births, firsts)'
<1>1. RowsBorn(births, firsts) /\ ReportsCovered(births, firsts)
      /\ StartCovered(births, firsts)
  BY DEF RowsKept
<1>2. RowsBorn(births, firsts)' /\ ReportsCovered(births, firsts)'
  BY <1>1 DEF RowsBorn, ReportsCovered, IsRow, Bucket, Reach
<1>3. ASSUME segments # <<>>
      PROVE  Last(segments).start \in Dates /\ Last(segments).start * DayLength <= now'
  <2> DEFINE start == Last(segments).start
  <2>1. start \in Dates /\ start * DayLength <= now
    BY <1>1, <1>3 DEF StartCovered
  <2> HIDE DEF start
  <2>2. start \in Int
    BY <2>1, DatesAreNumbers
  <2>3. start * DayLength \in Int
    BY <2>2, DayStart
  <2>4. start * DayLength <= now'
    BY <2>1, <2>3
  <2> QED BY <2>1, <2>4 DEF start
<1>4. StartCovered(births, firsts)'
  BY <1>1, <1>3 DEF StartCovered, Newest, IsRow, Over, Reach
<1> QED BY <1>2, <1>4 DEF RowsKept

(* What precedes a segment that has begun ended before.                    *)
LEMMA EndedBefore ==
    ASSUME NEW start \in Dates, NEW d \in Dates, d < start, NEW t \in Int,
           start * DayLength <= t
    PROVE  (d + 1) * DayLength <= t
<1>1. start \in Int /\ d \in Int
  BY DatesAreNumbers
<1>2. d + 1 \in Int
  BY <1>1
<1>3. /\ (d + 1) * DayLength \in Int /\ start * DayLength \in Int
      /\ (d + 1) * DayLength <= start * DayLength
  BY <1>1, <1>2, DayStart
<1> QED BY <1>3

(* The first request of a lifetime, which has no rows.                     *)
LEMMA RequestKeepsRowsKept ==
    ASSUME HistoryIInv, LedgerTyped, NEW births \in [Epochs -> Nat],
           NEW old \in [Epochs -> Nat], NEW firsts \in [Epochs -> Nat],
           Lives(births, old), RowsKept(births, old),
           old[epoch] = Never, firsts[epoch] = now,
           \A f \in Epochs : f # epoch => firsts[f] = old[f],
           UNCHANGED <<now, epoch, segments, ledger>>
    PROVE  RowsKept(births, firsts)'
<1>1. now \in 0 .. LastInstant /\ LastInstant \in Nat
  BY HistoryAssumption DEF HistoryIInv, HistoryTyped, StateTyped
<1>2. now \in Nat /\ Never \in Nat /\ now < Never
  BY <1>1 DEF Never
<1>3. /\ epoch \in Epochs /\ 1 .. epoch \subseteq Epochs
      /\ \A f \in Epochs : ledger[f].end \in Int
      /\ ledger[epoch].end <= now
  <2>1. epoch \in 1 .. epoch
    BY EpochNumbers
  <2> QED BY <2>1, EpochNumbers DEF Lives, LedgerInv
<1>4. \A u \in Int : u <= now => Reach(old[epoch], u) = {} /\ Reach(now, u) = {}
  BY <1>2, ReachNothing
<1>5. RowsBorn(births, old) /\ ReportsCovered(births, old) /\ StartCovered(births, old)
  BY DEF RowsKept
<1>6. RowsBorn(births, firsts)
  <2> SUFFICES ASSUME NEW i \in DOMAIN segments, NEW d \in DOMAIN segments[i].days
               PROVE  LET day == segments[i].days[d] IN
                      \E e \in Epochs :
                          IsRow(e, i, d, births) /\ Bucket(d, day, firsts[e], day.snap)
    BY DEF RowsBorn
  <2> DEFINE day == segments[i].days[d]
  <2>1. PICK e \in Epochs : IsRow(e, i, d, births) /\ Bucket(d, day, old[e], day.snap)
    BY <1>5 DEF RowsBorn
  <2>2. day.snap \in Int /\ day.snap <= now
    BY RowFacts
  <2> HIDE DEF day
  <2>3. e # epoch
    BY <1>4, <2>1, <2>2 DEF Bucket
  <2>4. \E f \in Epochs : IsRow(f, i, d, births) /\ Bucket(d, day, firsts[f], day.snap)
    BY <2>1, <2>3
  <2> QED BY <2>4 DEF day
<1>7. ReportsCovered(births, firsts)
  <2>1. ASSUME NEW e \in Epochs, NEW d \in Dates, ledger[e].tokens[d] # 0
        PROVE  firsts[e] = old[e]
    <3>1. d \in Reach(old[e], ledger[e].end)
      BY <1>5, <2>1 DEF ReportsCovered
    <3>2. e # epoch
      BY <1>3, <1>4, <3>1
    <3> QED BY <3>2
  <2> QED BY <1>5, <2>1 DEF ReportsCovered
<1>8. StartCovered(births, firsts)
  <2>1. ASSUME NEW e \in 1 .. epoch, Newest(e)
        PROVE  /\ \A d \in Reach(firsts[e], ledger[e].end) :
                      /\ segments # <<>>
                      /\ d >= Last(segments).start =>
                             /\ d \in DOMAIN Last(segments).days
                             /\ Last(segments).days[d].snap = ledger[e].end
               /\ \A d \in Dates : segments # <<>> /\ d < Last(segments).start =>
                      \/ (d + 1) * DayLength <= firsts[e]
                      \/ \E i \in DOMAIN segments :
                             IsRow(e, i, d, births) /\ Over(d, segments[i].days[d])
    <3>1. CASE e = epoch
      <4>1. Reach(firsts[e], ledger[e].end) = {}
        BY <1>3, <1>4, <3>1
      <4>2. ASSUME NEW d \in Dates, segments # <<>>, d < Last(segments).start
            PROVE  (d + 1) * DayLength <= now
        BY <1>2, <1>5, <4>2, EndedBefore DEF StartCovered
      <4> QED BY <3>1, <4>1, <4>2
    <3>2. CASE e # epoch
      <4>1. firsts[e] = old[e]
        BY <1>3, <3>2
      <4> QED BY <1>5, <2>1, <4>1 DEF StartCovered
    <3> QED BY <3>1, <3>2
  <2> QED BY <1>5, <2>1 DEF StartCovered
<1> QED BY <1>2, <1>6, <1>7, <1>8, SameRowsKept DEF RowsKept

(* A rebuild: the new lifetime has no rows, and the dates before the last  *)
(* segment are over.                                                       *)
LEMMA RebuildKeepsRowsKept ==
    ASSUME HistoryIInv, LedgerTyped, NEW next, next = epoch + 1, next \in Epochs,
           NEW born \in [Epochs -> Nat], NEW old \in [Epochs -> Nat],
           NEW births \in [Epochs -> Nat], NEW firsts \in [Epochs -> Nat],
           Lives(born, old), RowsKept(born, old), firsts[next] = Never,
           \A f \in Epochs : f # next => firsts[f] = old[f] /\ births[f] = born[f],
           UNCHANGED <<segments, ledger>>, epoch' = next, now' = now + 1
    PROVE  RowsKept(births, firsts)'
<1>1. now \in 0 .. LastInstant /\ LastInstant \in Nat
  BY HistoryAssumption DEF HistoryIInv, HistoryTyped, StateTyped
<1>2. now \in Nat /\ Never \in Nat /\ now <= Never /\ now + 1 \in Nat
  BY <1>1 DEF Never
<1>3. /\ MaxRebuilds \in Nat /\ Epochs = 1 .. MaxRebuilds + 1 /\ epoch \in Nat
      /\ 1 .. epoch \subseteq Epochs /\ next \notin 1 .. epoch
      /\ 1 .. next = (1 .. epoch) \cup {next}
      /\ \A f \in Epochs : ledger[f].end \in Int
  BY EpochNumbers
<1>4. ledger[next].end = 0
  BY <1>3 DEF Lives, LedgerInv
<1>5. RowsBorn(born, old) /\ ReportsCovered(born, old) /\ StartCovered(born, old)
  BY DEF RowsKept
(* No row is of the new lifetime. *)
<1>6. ASSUME NEW e \in Epochs, NEW i, NEW d, IsRow(e, i, d, born)
      PROVE  /\ e # next /\ firsts[e] = old[e] /\ births[e] = born[e]
             /\ IsRow(e, i, d, births)
  <2>1. /\ i \in DOMAIN segments /\ d \in DOMAIN segments[i].days
        /\ segments[i].days[d].snap <= ledger[e].end
    BY <1>6 DEF IsRow
  <2>2. segments[i].days[d].snap \in Int /\ segments[i].days[d].snap > 0
    BY <2>1, RowFacts
  <2>3. e # next
    BY <1>4, <2>1, <2>2
  <2> QED BY <1>6, <2>3 DEF IsRow
<1>7. RowsBorn(births, firsts)'
  <2>1. ASSUME NEW i \in DOMAIN segments, NEW d \in DOMAIN segments[i].days
        PROVE  \E e \in Epochs :
                   /\ IsRow(e, i, d, births)
                   /\ Bucket(d, segments[i].days[d], firsts[e], segments[i].days[d].snap)
    <3>1. PICK e \in Epochs :
              /\ IsRow(e, i, d, born)
              /\ Bucket(d, segments[i].days[d], old[e], segments[i].days[d].snap)
      BY <1>5 DEF RowsBorn
    <3>2. firsts[e] = old[e] /\ IsRow(e, i, d, births)
      BY <1>6, <3>1
    <3> QED BY <3>1, <3>2
  <2>2. RowsBorn(births, firsts)
    BY <2>1 DEF RowsBorn
  <2> QED BY <2>2 DEF RowsBorn, IsRow, Bucket, Reach
<1>8. ReportsCovered(births, firsts)'
  <2>1. ASSUME NEW e \in Epochs, NEW d \in Dates, ledger[e].tokens[d] # 0
        PROVE  /\ d \in Reach(firsts[e], ledger[e].end)
               /\ \E i \in DOMAIN segments :
                      /\ IsRow(e, i, d, births)
                      /\ ledger[e].tokens[d] <= segments[i].days[d].totals["tokens"]
    <3>1. d \in Reach(old[e], ledger[e].end)
      BY <1>5, <2>1 DEF ReportsCovered
    <3>2. PICK i \in DOMAIN segments :
              /\ IsRow(e, i, d, born)
              /\ ledger[e].tokens[d] <= segments[i].days[d].totals["tokens"]
      BY <1>5, <2>1 DEF ReportsCovered
    <3>3. firsts[e] = old[e] /\ IsRow(e, i, d, births)
      BY <1>6, <3>2
    <3> QED BY <3>1, <3>2, <3>3
  <2>2. ReportsCovered(births, firsts)
    BY <2>1 DEF ReportsCovered
  <2> QED BY <2>2 DEF ReportsCovered, IsRow, Reach
<1>9. ASSUME segments # <<>>
      PROVE  /\ Last(segments).start \in Dates
             /\ Last(segments).start * DayLength <= now
             /\ Last(segments).start * DayLength <= now + 1
             /\ Last(segments).start * DayLength <= Never
  <2> DEFINE start == Last(segments).start
  <2>1. start \in Dates /\ start * DayLength <= now
    BY <1>5, <1>9 DEF StartCovered
  <2> HIDE DEF start
  <2>2. start \in Int
    BY <2>1, DatesAreNumbers
  <2>3. start * DayLength \in Int
    BY <2>2, DayStart
  <2>4. start * DayLength <= now + 1 /\ start * DayLength <= Never
    BY <1>2, <2>1, <2>3
  <2> QED BY <2>1, <2>4 DEF start
<1>10. ASSUME NEW e \in 1 .. next, Newest(e)
       PROVE  /\ \A d \in Reach(firsts[e], ledger[e].end) :
                     /\ segments # <<>>
                     /\ d >= Last(segments).start =>
                            /\ d \in DOMAIN Last(segments).days
                            /\ Last(segments).days[d].snap = ledger[e].end
              /\ \A d \in Dates : segments # <<>> /\ d < Last(segments).start =>
                     \/ (d + 1) * DayLength <= firsts[e]
                     \/ \E i \in DOMAIN segments :
                            IsRow(e, i, d, births) /\ Over(d, segments[i].days[d])
  <2>1. CASE e = next
    <3>1. Reach(Never, 0) = {}
      BY <1>2, ReachNothing
    <3>2. ASSUME NEW d \in Dates, segments # <<>>, d < Last(segments).start
          PROVE  (d + 1) * DayLength <= Never
      BY <1>2, <1>9, <3>2, EndedBefore
    <3> QED BY <1>4, <2>1, <3>1, <3>2
  <2>2. CASE e # next
    <3>1. e \in 1 .. epoch /\ e \in Epochs /\ firsts[e] = old[e]
      BY <1>3, <2>2
    <3>2. \A d \in Reach(firsts[e], ledger[e].end) :
              /\ segments # <<>>
              /\ d >= Last(segments).start =>
                     /\ d \in DOMAIN Last(segments).days
                     /\ Last(segments).days[d].snap = ledger[e].end
      BY <1>5, <1>10, <3>1 DEF StartCovered
    <3>3. \A d \in Dates : segments # <<>> /\ d < Last(segments).start =>
              \/ (d + 1) * DayLength <= firsts[e]
              \/ \E i \in DOMAIN segments :
                     IsRow(e, i, d, born) /\ Over(d, segments[i].days[d])
      BY <1>5, <1>10, <3>1 DEF StartCovered
    <3> QED BY <1>6, <3>1, <3>2, <3>3
  <2> QED BY <2>1, <2>2
<1>11. StartCovered(births, firsts)'
  BY <1>9, <1>10 DEF StartCovered, Newest, IsRow, Over, Reach
<1> QED BY <1>7, <1>8, <1>11 DEF RowsKept

-----------------------------------------------------------------------------
(* Each step keeps the lifetimes.                                          *)
LEMMA SaveKeepsLives ==
    ASSUME LedgerIInv, NEW s \in inflight, Save(s) PROVE LedgerTyped' /\ LivesInv'
<1>1. HistoryIInv /\ SumsInv /\ LedgerTyped
  BY DEF LedgerIInv
<1>2. PICK births \in [Epochs -> Nat], firsts \in [Epochs -> Nat] :
            /\ Lives(births, firsts)
            /\ InOrder => RowsInv(firsts)
            /\ Tasks <= 1 => RowsKept(births, firsts)
  BY DEF LedgerIInv, LivesInv
<1> DEFINE e == s.epoch
           t == s.snapshot.end
<1>3. /\ MaxRebuilds \in Nat /\ Epochs = 1 .. MaxRebuilds + 1 /\ epoch \in Nat
      /\ 1 .. epoch \subseteq Epochs
      /\ \A f \in Epochs : ledger[f].end \in Int
  BY <1>1, EpochNumbers
<1>4. /\ UNCHANGED <<correcting, now, epoch, first>>
      /\ inflight' \subseteq inflight
      /\ segments' = SaveSegments(segments, s.snapshot)
  BY DEF Save
<1>5. LifetimesInv(births, firsts) /\ LedgerInv(births)
      /\ \A r \in inflight : SnapshotOf(r, births, firsts)
  BY <1>2 DEF Lives
<1>6. t \in Int /\ now \in Int /\ t <= now
  BY <1>1 DEF HistoryIInv, HistoryTyped, StateTyped, SnapshotsInv, Timed
<1>7. LedgerTyped'
  BY <1>1, LedgerKeepsType
<1>8. e \in 1 .. epoch /\ births[e] <= t /\ \A f \in e + 1 .. epoch : t < births[f]
  BY <1>5 DEF SnapshotOf
<1>9. LedgerInv(births)'
  <2>1. ledger'[e].end = ledger[e].end \/ ledger'[e].end = t
    <3>1. ledger' = ledger \/ ledger' = [ledger EXCEPT ![e] = Noted(ledger[e], s.snapshot)]
      BY DEF Save
    <3>2. e \in DOMAIN ledger
      BY <1>1, <1>3, <1>8 DEF LedgerTyped
    <3>3. Noted(ledger[e], s.snapshot).end \in {ledger[e].end, t}
      BY DEF Noted
    <3> QED BY <3>1, <3>2, <3>3
  <2>2. \A f \in Epochs : f # e => ledger'[f] = ledger[f]
    BY <1>1 DEF Save, LedgerTyped
  <2> HIDE DEF e, t
  <2>3. ASSUME NEW f \in 1 .. epoch
        PROVE  /\ ledger'[f].end <= now
               /\ ledger'[f].end # 0 => births[f] <= ledger'[f].end
               /\ \A g \in f + 1 .. epoch : ledger'[f].end < births[g]
    <3>1. CASE f = e
      BY <1>5, <1>6, <1>8, <2>1, <3>1 DEF LedgerInv
    <3>2. CASE f # e
      BY <1>3, <1>5, <2>2, <3>2 DEF LedgerInv
    <3> QED BY <3>1, <3>2
  <2>4. ASSUME NEW f \in epoch + 1 .. MaxRebuilds + 1 PROVE ledger'[f].end = 0
    <3>1. f # e /\ f \in Epochs
      BY <1>3, <1>8
    <3> QED BY <1>5, <2>2, <2>4, <3>1 DEF LedgerInv
  <2> QED BY <1>4, <2>3, <2>4 DEF LedgerInv
<1>10. Lives(births, firsts)'
  <2>1. LifetimesInv(births, firsts)'
    BY <1>4, <1>5 DEF LifetimesInv
  <2>2. \A r \in inflight' : SnapshotOf(r, births, firsts)'
    BY <1>4, <1>5 DEF SnapshotOf, Bucket, Reach
  <2> QED BY <1>9, <2>1, <2>2 DEF Lives
<1>11. ASSUME InOrder' PROVE RowsInv(firsts)'
  <2>1. /\ ~late /\ \A f \in Epochs : ~(t < ledger[f].end)
        /\ correcting => epoch = 1 /\ Len(segments') <= 1
    <3>1. late' = (late \/ \E f \in Epochs : t < ledger[f].end)
      BY DEF Save
    <3>2. ~late' /\ (correcting' => epoch' = 1 /\ Len(segments') <= 1)
      BY <1>11 DEF InOrder
    <3>3. correcting' = correcting /\ epoch' = epoch
      BY <1>4
    <3> HIDE DEF t
    <3> QED BY <3>1, <3>2, <3>3
  <2>2. Len(segments) <= Len(segments') /\ Len(segments) \in Nat /\ Len(segments') \in Nat
    <3>1. IsSegments(segments) /\ Timed(s.snapshot)
      BY <1>1 DEF HistoryIInv, HistoryTyped, StateTyped, SnapshotsInv
    <3>2. IsSegments(segments')
      BY <1>4, <3>1, SaveKeepsSegments
    <3> QED BY <1>4, <3>1, <3>2, SaveKeepsHistory, SegmentsDomain
  <2>3. InOrder
    BY <2>1, <2>2 DEF InOrder
  <2>4. Ready(s, births, firsts) /\ RowsInv(firsts)
    BY <1>1, <1>2, <1>3, <1>6, <2>1, <2>3 DEF Ready
  <2>5. CASE ~Accepted(segments, s.snapshot)
    <3>1. segments' = segments /\ ledger' = ledger
      BY <2>5 DEF Save, SaveSegments
    <3> QED BY <1>2, <1>4, <2>3, <3>1
        DEF RowsInv, RowsOwned, RowsDistinct, ReportsStored, LastSegmentInv, Newest,
            Bucket, Reach
  <2>6. CASE Accepted(segments, s.snapshot)
    BY <2>1, <2>4, <2>6, EmptySaveKeepsRows, FullSaveKeepsRows
  <2> QED BY <2>5, <2>6
<1>12. ASSUME Tasks <= 1 PROVE RowsKept(births, firsts)'
  <2>1. AloneInv /\ RowsKept(births, firsts)
    BY <1>2, <1>12 DEF LedgerIInv
  <2>2. CASE ~Accepted(segments, s.snapshot)
    <3>1. segments' = segments /\ ledger' = ledger
      BY <2>2 DEF Save, SaveSegments
    <3>2. UNCHANGED <<epoch, segments, ledger>> /\ now' \in Int /\ now <= now'
      BY <1>4, <1>6, <3>1
    <3> QED BY <1>6, <2>1, <3>2, SameRowsKept
  <2>3. CASE Accepted(segments, s.snapshot)
    <3>1. Ready(s, births, firsts)
      BY <1>1, <1>2, <2>1 DEF Ready, AloneInv
    <3>2. \A x \in DaysOf(segments) :
              Over(x[1], x[2]) /\ x[1] \in DOMAIN s.snapshot.days =>
                  s.snapshot.days[x[1]].totals["tokens"] <= x[2].totals["tokens"]
      BY <2>1 DEF AloneInv
    <3> QED BY <2>1, <2>3, <3>1, <3>2, SaveKeepsRowsKept
  <2> QED BY <2>2, <2>3
<1> QED BY <1>2, <1>7, <1>10, <1>11, <1>12 DEF LivesInv

(* Time passes, upstream counts, or a snapshot is taken.                   *)
LEMMA UpstreamKeepsLives ==
    ASSUME LedgerIInv, UNCHANGED <<correcting, epoch, first, segments, ledger, late>>,
           now' \in Int, now <= now',
           \A s \in inflight' : \/ s \in inflight
                                \/ s = [epoch |-> epoch, snapshot |-> Lifetime]
    PROVE  LedgerTyped' /\ LivesInv'
<1>1. HistoryIInv /\ StateTyped /\ LedgerTyped /\ now \in Int
  BY DEF LedgerIInv, HistoryIInv, HistoryTyped, StateTyped
<1>2. PICK births \in [Epochs -> Nat], firsts \in [Epochs -> Nat] :
            /\ Lives(births, firsts)
            /\ InOrder => RowsInv(firsts)
            /\ Tasks <= 1 => RowsKept(births, firsts)
  BY DEF LedgerIInv, LivesInv
<1>3. /\ MaxRebuilds \in Nat /\ Epochs = 1 .. MaxRebuilds + 1 /\ epoch \in Epochs
      /\ epoch \in Nat /\ 1 .. epoch \subseteq Epochs
      /\ \A f \in Epochs : ledger[f].end \in Int /\ births[f] \in Nat
  BY <1>1, EpochNumbers
<1>4. LedgerTyped'
  BY <1>1 DEF LedgerTyped
<1>5. LifetimesInv(births, firsts) /\ LedgerInv(births)
      /\ \A r \in inflight : SnapshotOf(r, births, firsts)
  BY <1>2 DEF Lives
<1>6. LifetimesInv(births, firsts)'
  BY <1>1, <1>3, <1>5 DEF LifetimesInv
<1>7. LedgerInv(births)'
  <2>1. \A e \in 1 .. epoch :
            /\ ledger[e].end <= now'
            /\ ledger[e].end # 0 => births[e] <= ledger[e].end
            /\ \A f \in e + 1 .. epoch : ledger[e].end < births[f]
    <3> SUFFICES ASSUME NEW e \in 1 .. epoch
                 PROVE  /\ ledger[e].end <= now'
                        /\ ledger[e].end # 0 => births[e] <= ledger[e].end
                        /\ \A f \in e + 1 .. epoch : ledger[e].end < births[f]
      OBVIOUS
    <3>1. /\ ledger[e].end <= now
          /\ ledger[e].end # 0 => births[e] <= ledger[e].end
          /\ \A f \in e + 1 .. epoch : ledger[e].end < births[f]
      BY <1>5 DEF LedgerInv
    <3>2. e \in Epochs
      BY <1>3
    <3>3. ledger[e].end \in Int
      BY <1>3, <3>2
    <3>4. ledger[e].end <= now'
      BY <1>1, <3>1, <3>3
    <3> QED BY <3>1, <3>4
  <2>2. \A e \in epoch + 1 .. MaxRebuilds + 1 : ledger[e].end = 0
    BY <1>5 DEF LedgerInv
  <2>3. epoch' = epoch /\ ledger' = ledger
    OBVIOUS
  <2> QED BY <2>1, <2>2, <2>3, Zenon DEF LedgerInv
<1>8. ASSUME NEW s \in inflight' PROVE SnapshotOf(s, births, firsts)'
  <2>1. CASE s \in inflight
    BY <1>5, <2>1 DEF SnapshotOf, Bucket, Reach
  <2>2. CASE s = [epoch |-> epoch, snapshot |-> Lifetime]
    <3>1. s.epoch = epoch /\ s.snapshot = Lifetime
      BY <2>2
    <3>2. Lifetime.end = now /\ births[epoch] <= now /\ firsts[epoch] = first
      BY <1>1, <1>5, LifetimeIsTimed DEF LifetimesInv
    <3>3. /\ DOMAIN Lifetime.days = Reach(first, now)
          /\ \A d \in DOMAIN Lifetime.days : Bucket(d, Lifetime.days[d], first, now)
      BY <1>1, LifetimeReach
    <3>4. epoch \in 1 .. epoch /\ epoch + 1 .. epoch = {}
      BY <1>3
    <3>5. SnapshotOf(s, births, firsts)
      BY <3>1, <3>2, <3>3, <3>4 DEF SnapshotOf
    <3> QED BY <3>5 DEF SnapshotOf, Bucket, Reach
  <2> QED BY <1>8, <2>1, <2>2
<1>9. ASSUME InOrder' PROVE RowsInv(firsts)'
  <2>1. InOrder
    BY <1>9 DEF InOrder
  <2>2. RowsOwned(firsts) /\ RowsDistinct /\ ReportsStored /\ LastSegmentInv(firsts)
    BY <1>2, <2>1 DEF RowsInv
  <2>3. RowsOwned(firsts)' /\ RowsDistinct' /\ ReportsStored'
    BY <2>2 DEF RowsOwned, RowsDistinct, ReportsStored, Bucket, Reach
  <2>4. LastSegmentInv(firsts)'
    <3>1. ASSUME segments # <<>>
          PROVE  /\ Last(segments).start \in Dates
                 /\ Last(segments).start * DayLength <= now'
      <4> DEFINE start == Last(segments).start
      <4>1. start \in Dates /\ start * DayLength <= now
        BY <2>2, <3>1 DEF LastSegmentInv
      <4> HIDE DEF start
      <4>2. start \in Int
        BY <4>1, DatesAreNumbers
      <4>3. start * DayLength \in Int
        BY <4>2, DayStart
      <4>4. start * DayLength <= now'
        BY <1>1, <4>1, <4>3
      <4> QED BY <4>1, <4>4 DEF start
    <3> QED BY <2>2, <3>1 DEF LastSegmentInv, Newest, Reach
  <2> QED BY <2>3, <2>4 DEF RowsInv
<1>10. Lives(births, firsts)'
  BY <1>6, <1>7, <1>8 DEF Lives
<1>11. ASSUME Tasks <= 1 PROVE RowsKept(births, firsts)'
  <2>1. RowsKept(births, firsts) /\ UNCHANGED <<epoch, segments, ledger>>
    BY <1>2, <1>11
  <2> QED BY <1>1, <2>1, SameRowsKept
<1> QED BY <1>2, <1>4, <1>9, <1>10, <1>11 DEF LivesInv

(* The first request of a lifetime: nothing of it was reported before.     *)
LEMMA RequestKeepsLives ==
    ASSUME LedgerIInv, NEW m \in Model, Request(m) PROVE LedgerTyped' /\ LivesInv'
<1>1. /\ UNCHANGED <<correcting, now, epoch, inflight, segments, ledger, late>>
      /\ first' = IF first = Never THEN now ELSE first
  BY DEF Request
<1>2. CASE first # Never
  <2>1. now' \in Int /\ now <= now'
    BY <1>1 DEF LedgerIInv, HistoryIInv, HistoryTyped, StateTyped
  <2> QED BY <1>1, <1>2, <2>1, UpstreamKeepsLives
<1>3. CASE first = Never
  <2>1. HistoryIInv /\ LedgerTyped /\ now \in 0 .. LastInstant /\ LastInstant \in Nat
    BY HistoryAssumption DEF LedgerIInv, HistoryIInv, HistoryTyped, StateTyped
  <2>2. now \in Nat /\ Never \in Nat /\ now < Never
    BY <2>1 DEF Never
  <2>3. PICK births \in [Epochs -> Nat], old \in [Epochs -> Nat] :
            /\ Lives(births, old)
            /\ InOrder => RowsInv(old)
            /\ Tasks <= 1 => RowsKept(births, old)
    BY DEF LedgerIInv, LivesInv
  <2>4. /\ MaxRebuilds \in Nat /\ Epochs = 1 .. MaxRebuilds + 1 /\ epoch \in Epochs
        /\ epoch \in Nat /\ 1 .. epoch \subseteq Epochs
        /\ \A f \in Epochs : ledger[f].end \in Int /\ births[f] \in Nat
    BY <2>1, EpochNumbers
  <2>5. PICK firsts \in [Epochs -> Nat] :
            /\ firsts[epoch] = now
            /\ \A f \in Epochs : f # epoch => firsts[f] = old[f]
    <3>1. [old EXCEPT ![epoch] = now] \in [Epochs -> Nat]
      BY <2>2
    <3> QED BY <2>4, <3>1
  <2>6. LifetimesInv(births, old) /\ LedgerInv(births)
        /\ \A r \in inflight : SnapshotOf(r, births, old)
    BY <2>3 DEF Lives
  <2>7. old[epoch] = Never
    BY <1>3, <2>6 DEF LifetimesInv
  (* Before this request the lifetime had no days, and now it has none yet. *)
  <2>8. \A u \in Int : u <= now => Reach(old[epoch], u) = {} /\ Reach(now, u) = {}
    BY <2>2, <2>7, ReachNothing
  <2>9. LifetimesInv(births, firsts)'
    BY <1>1, <1>3, <2>4, <2>5, <2>6 DEF LifetimesInv
  <2>10. ASSUME NEW s \in inflight' PROVE SnapshotOf(s, births, firsts)'
    <3>1. SnapshotOf(s, births, old) /\ s \in inflight
      BY <1>1, <2>6
    <3>2. s.snapshot.end \in Int /\ s.snapshot.end <= now
      BY <2>1, <3>1 DEF HistoryIInv, HistoryTyped, SnapshotsInv, Timed
    <3>3. s.epoch \in Epochs
      BY <2>4, <3>1 DEF SnapshotOf
    <3>4. CASE s.epoch = epoch
      <4>1. DOMAIN s.snapshot.days = {} /\ Reach(firsts[s.epoch], s.snapshot.end) = {}
        BY <2>5, <2>8, <3>1, <3>2, <3>4 DEF SnapshotOf
      <4>2. SnapshotOf(s, births, firsts)
        BY <3>1, <4>1 DEF SnapshotOf
      <4> QED BY <1>1, <4>2 DEF SnapshotOf, Bucket, Reach
    <3>5. CASE s.epoch # epoch
      <4>1. firsts[s.epoch] = old[s.epoch]
        BY <2>5, <3>3, <3>5
      <4> QED BY <1>1, <3>1, <4>1 DEF SnapshotOf, Bucket, Reach
    <3> QED BY <3>4, <3>5
  <2>11. LedgerInv(births)'
    BY <1>1, <2>6 DEF LedgerInv
  <2>12. ASSUME InOrder' PROVE RowsInv(firsts)'
    <3>1. InOrder
      BY <1>1, <2>12 DEF InOrder
    <3>2. RowsOwned(old) /\ RowsDistinct /\ ReportsStored /\ LastSegmentInv(old)
      BY <2>3, <3>1 DEF RowsInv
    <3>3. ASSUME NEW i \in DOMAIN segments, NEW d \in DOMAIN segments[i].days
          PROVE  LET day == segments[i].days[d] IN
                 \E e \in Epochs :
                     /\ day.snap = ledger[e].end
                     /\ Bucket(d, day, firsts[e], day.snap)
                     /\ Amount(day.totals, "tokens") = ledger[e].tokens[d]
      <4> DEFINE day == segments[i].days[d]
      <4>1. PICK e \in Epochs :
                /\ day.snap = ledger[e].end
                /\ Bucket(d, day, old[e], day.snap)
                /\ Amount(day.totals, "tokens") = ledger[e].tokens[d]
        BY <3>2 DEF RowsOwned
      <4>2. day.snap \in Int /\ day.snap <= now
        BY <2>1, RowFacts
      <4> HIDE DEF day
      <4>3. e # epoch
        BY <2>8, <4>1, <4>2 DEF Bucket
      <4>4. firsts[e] = old[e]
        BY <2>5, <4>3
      <4>5. \E f \in Epochs :
                /\ day.snap = ledger[f].end
                /\ Bucket(d, day, firsts[f], day.snap)
                /\ Amount(day.totals, "tokens") = ledger[f].tokens[d]
        BY <4>1, <4>4
      <4> QED BY <4>5 DEF day
    <3>4. RowsOwned(firsts)
      BY <3>3 DEF RowsOwned
    <3>5. RowsOwned(firsts)' /\ RowsDistinct' /\ ReportsStored'
      BY <1>1, <3>2, <3>4 DEF RowsOwned, RowsDistinct, ReportsStored, Bucket, Reach
    <3>6. LastSegmentInv(firsts)
      <4>1. ASSUME NEW e \in 1 .. epoch, Newest(e)
            PROVE  /\ segments # <<>> => Last(segments).start * DayLength <= firsts[e]
                   /\ \A d \in Reach(firsts[e], ledger[e].end) :
                          /\ segments # <<>>
                          /\ d \in DOMAIN Last(segments).days
                          /\ Last(segments).days[d].snap = ledger[e].end
        <5>1. CASE e = epoch
          <6>1. ledger[e].end <= now /\ ledger[e].end \in Int
            BY <2>4, <2>6, <4>1 DEF LedgerInv
          <6>2. Reach(firsts[e], ledger[e].end) = {}
            BY <2>5, <2>8, <5>1, <6>1
          <6> QED BY <2>5, <3>2, <5>1, <6>2 DEF LastSegmentInv
        <5>2. CASE e # epoch
          <6>1. firsts[e] = old[e]
            BY <2>4, <2>5, <5>2
          <6> QED BY <3>2, <4>1, <6>1 DEF LastSegmentInv
        <5> QED BY <5>1, <5>2
      <4> QED BY <3>2, <4>1 DEF LastSegmentInv
    <3>7. LastSegmentInv(firsts)'
      BY <1>1, <3>6 DEF LastSegmentInv, Newest, Reach
    <3> QED BY <3>5, <3>7 DEF RowsInv
  <2>13. LedgerTyped'
    BY <1>1, <2>1 DEF LedgerTyped
  <2>14. Lives(births, firsts)'
    BY <2>9, <2>10, <2>11 DEF Lives
  <2>15. ASSUME Tasks <= 1 PROVE RowsKept(births, firsts)'
    <3>1. RowsKept(births, old) /\ UNCHANGED <<now, epoch, segments, ledger>>
      BY <1>1, <2>3, <2>15
    <3> QED BY <2>1, <2>3, <2>5, <2>7, <3>1, RequestKeepsRowsKept
  <2> QED BY <2>5, <2>12, <2>13, <2>14, <2>15 DEF LivesInv
<1> QED BY <1>2, <1>3

(* A rebuild begins a lifetime, after all that was reported so far.        *)
LEMMA RebuildKeepsLives ==
    ASSUME LedgerIInv, Rebuild PROVE LedgerTyped' /\ LivesInv'
<1>1. /\ UNCHANGED <<correcting, inflight, segments, ledger, late>>
      /\ first' = Never /\ now' = now + 1 /\ epoch' = epoch + 1
      /\ epoch <= MaxRebuilds /\ now < LastInstant
  BY DEF Rebuild
<1>2. HistoryIInv /\ LedgerTyped /\ now \in 0 .. LastInstant /\ LastInstant \in Nat
  BY HistoryAssumption DEF LedgerIInv, HistoryIInv, HistoryTyped, StateTyped
<1>3. now \in Nat /\ Never \in Nat /\ now + 1 <= Never /\ now + 1 \in Nat
  BY <1>1, <1>2 DEF Never
<1>4. PICK born \in [Epochs -> Nat], old \in [Epochs -> Nat] :
          /\ Lives(born, old)
          /\ InOrder => RowsInv(old)
          /\ Tasks <= 1 => RowsKept(born, old)
  BY DEF LedgerIInv, LivesInv
<1> DEFINE next == epoch + 1
<1>5. /\ MaxRebuilds \in Nat /\ Epochs = 1 .. MaxRebuilds + 1 /\ epoch \in Epochs
      /\ epoch \in Nat /\ 1 .. epoch \subseteq Epochs /\ next \in Epochs
      /\ next \notin 1 .. epoch /\ 1 .. next = (1 .. epoch) \cup {next}
      /\ \A f \in Epochs : ledger[f].end \in Int /\ born[f] \in Nat /\ old[f] \in Nat
  <2>1. /\ MaxRebuilds \in Nat /\ Epochs = 1 .. MaxRebuilds + 1 /\ epoch \in Epochs
        /\ epoch \in Nat /\ 1 .. epoch \subseteq Epochs
        /\ \A f \in Epochs : ledger[f].end \in Int
    BY <1>2, EpochNumbers
  <2> QED BY <1>1, <2>1
<1>6. PICK births \in [Epochs -> Nat], firsts \in [Epochs -> Nat] :
          /\ firsts[next] = Never /\ births[next] = now + 1
          /\ \A f \in Epochs : f # next => firsts[f] = old[f] /\ births[f] = born[f]
  <2>1. /\ [born EXCEPT ![next] = now + 1] \in [Epochs -> Nat]
        /\ [old EXCEPT ![next] = Never] \in [Epochs -> Nat]
    BY <1>3
  <2> HIDE DEF next
  <2> QED BY <1>5, <2>1
<1>7. LifetimesInv(born, old) /\ LedgerInv(born)
      /\ \A r \in inflight : SnapshotOf(r, born, old)
  BY <1>4 DEF Lives
<1>8. epoch' = next
  BY <1>1
<1>9. ledger[next].end = 0
  BY <1>1, <1>5, <1>7 DEF LedgerInv
<1>10. \A f \in 1 .. epoch : f \in Epochs /\ firsts[f] = old[f] /\ births[f] = born[f]
  BY <1>5, <1>6
<1>11. LifetimesInv(births, firsts)'
  <2>1. \A f \in 1 .. next : births[f] <= firsts[f]
    BY <1>3, <1>5, <1>6, <1>7, <1>10 DEF LifetimesInv
  <2> QED BY <1>1, <1>3, <1>6, <1>8, <2>1 DEF LifetimesInv
<1>12. ASSUME NEW s \in inflight' PROVE SnapshotOf(s, births, firsts)'
  <2>1. SnapshotOf(s, born, old) /\ s \in inflight
    BY <1>1, <1>7
  <2>2. s.snapshot.end \in Int /\ s.snapshot.end <= now
    BY <1>2, <2>1 DEF HistoryIInv, HistoryTyped, SnapshotsInv, Timed
  <2>3. s.epoch \in 1 .. epoch
    BY <2>1 DEF SnapshotOf
  <2>4. s.epoch \in 1 .. next
    BY <1>5, <2>3
  <2>5. \A f \in s.epoch + 1 .. next : s.snapshot.end < births[f]
    <3> SUFFICES ASSUME NEW f \in s.epoch + 1 .. next PROVE s.snapshot.end < births[f]
      OBVIOUS
    <3>1. CASE f = next
      BY <1>3, <1>6, <2>2, <3>1
    <3>2. CASE f # next
      <4>1. f \in s.epoch + 1 .. epoch /\ f \in 1 .. epoch
        <5> DEFINE own == s.epoch
        <5>1. epoch \in Nat /\ own \in 1 .. epoch /\ f \in own + 1 .. next
          BY <1>5, <2>3
        <5> HIDE DEF own
        <5>2. f \in own + 1 .. epoch /\ f \in 1 .. epoch
          BY <3>2, <5>1
        <5> QED BY <5>2 DEF own
      <4> QED BY <1>10, <2>1, <4>1 DEF SnapshotOf
    <3> QED BY <3>1, <3>2
  <2> QED BY <1>8, <1>10, <2>1, <2>3, <2>4, <2>5 DEF SnapshotOf, Bucket, Reach
<1>13. LedgerInv(births)'
  <2>1. ASSUME NEW e \in 1 .. next
        PROVE  /\ ledger[e].end <= now + 1
               /\ ledger[e].end # 0 => births[e] <= ledger[e].end
               /\ \A f \in e + 1 .. next : ledger[e].end < births[f]
    <3>1. CASE e = next
      BY <1>3, <1>5, <1>9, <3>1
    <3>2. CASE e # next
      <4>1. e \in 1 .. epoch /\ e \in Epochs
        BY <1>5, <3>2
      <4>2. /\ ledger[e].end <= now /\ ledger[e].end \in Int
            /\ ledger[e].end # 0 => births[e] <= ledger[e].end
            /\ \A f \in e + 1 .. epoch : ledger[e].end < born[f]
        BY <1>5, <1>7, <1>10, <4>1 DEF LedgerInv
      <4>3. ASSUME NEW f \in e + 1 .. next PROVE ledger[e].end < births[f]
        <5>1. CASE f = next
          BY <1>3, <1>6, <4>2, <5>1
        <5>2. CASE f # next
          <6>1. f \in e + 1 .. epoch /\ f \in 1 .. epoch
            BY <1>5, <4>1, <5>2
          <6> QED BY <1>10, <4>2, <6>1
        <5> QED BY <5>1, <5>2
      <4> QED BY <1>3, <4>2, <4>3
    <3> QED BY <3>1, <3>2
  <2>2. \A e \in next + 1 .. MaxRebuilds + 1 : ledger[e].end = 0
    BY <1>5, <1>7 DEF LedgerInv
  <2> QED BY <1>1, <1>8, <2>1, <2>2 DEF LedgerInv
<1>14. ASSUME InOrder' PROVE RowsInv(firsts)'
  <2>1. InOrder
    BY <1>1, <1>5, <1>14 DEF InOrder
  <2>2. RowsOwned(old) /\ RowsDistinct /\ ReportsStored /\ LastSegmentInv(old)
    BY <1>4, <2>1 DEF RowsInv
  <2>3. ASSUME NEW i \in DOMAIN segments, NEW d \in DOMAIN segments[i].days
        PROVE  LET day == segments[i].days[d] IN
               \E e \in Epochs :
                   /\ day.snap = ledger[e].end
                   /\ Bucket(d, day, firsts[e], day.snap)
                   /\ Amount(day.totals, "tokens") = ledger[e].tokens[d]
    <3> DEFINE day == segments[i].days[d]
    <3>1. PICK e \in Epochs :
              /\ day.snap = ledger[e].end
              /\ Bucket(d, day, old[e], day.snap)
              /\ Amount(day.totals, "tokens") = ledger[e].tokens[d]
      BY <2>2 DEF RowsOwned
    <3>2. day.snap > 0
      BY <1>2, RowFacts
    <3> HIDE DEF day
    <3>3. e # next
      BY <1>9, <3>1, <3>2
    <3>4. firsts[e] = old[e]
      BY <1>6, <3>3
    <3>5. \E f \in Epochs :
              /\ day.snap = ledger[f].end
              /\ Bucket(d, day, firsts[f], day.snap)
              /\ Amount(day.totals, "tokens") = ledger[f].tokens[d]
      BY <3>1, <3>4
    <3> QED BY <3>5 DEF day
  <2>4. RowsOwned(firsts)
    BY <2>3 DEF RowsOwned
  <2>5. RowsOwned(firsts)' /\ RowsDistinct' /\ ReportsStored'
    BY <1>1, <2>2, <2>4 DEF RowsOwned, RowsDistinct, ReportsStored, Bucket, Reach
  <2>6. ASSUME segments # <<>>
        PROVE  /\ Last(segments).start \in Dates
               /\ Last(segments).start * DayLength <= now + 1
               /\ Last(segments).start * DayLength <= Never
    <3> DEFINE start == Last(segments).start
    <3>1. start \in Dates /\ start * DayLength <= now
      BY <2>2, <2>6 DEF LastSegmentInv
    <3> HIDE DEF start
    <3>2. start \in Int
      BY <3>1, DatesAreNumbers
    <3>3. start * DayLength \in Int
      BY <3>2, DayStart
    <3>4. start * DayLength <= now + 1 /\ start * DayLength <= Never
      BY <1>3, <3>1, <3>3
    <3> QED BY <3>1, <3>4 DEF start
  <2>7. ASSUME NEW e \in 1 .. next, Newest(e)
        PROVE  /\ segments # <<>> => Last(segments).start * DayLength <= firsts[e]
               /\ \A d \in Reach(firsts[e], ledger[e].end) :
                      /\ segments # <<>>
                      /\ d \in DOMAIN Last(segments).days
                      /\ Last(segments).days[d].snap = ledger[e].end
    <3>1. CASE e = next
      <4>1. Reach(Never, 0) = {}
        BY <1>3, ReachNothing
      <4> QED BY <1>6, <1>9, <2>6, <3>1, <4>1
    <3>2. CASE e # next
      <4>1. e \in 1 .. epoch
        BY <1>5, <3>2
      <4>2. firsts[e] = old[e]
        BY <1>10, <4>1
      <4> QED BY <2>2, <2>7, <4>1, <4>2 DEF LastSegmentInv
    <3> QED BY <3>1, <3>2
  <2>8. LastSegmentInv(firsts)'
    BY <1>1, <1>8, <2>6, <2>7 DEF LastSegmentInv, Newest, Reach
  <2> QED BY <2>5, <2>8 DEF RowsInv
<1>15. LedgerTyped'
  BY <1>1, <1>2, <1>5, <1>8 DEF LedgerTyped
<1>16. Lives(births, firsts)'
  BY <1>11, <1>12, <1>13 DEF Lives
<1>17. ASSUME Tasks <= 1 PROVE RowsKept(births, firsts)'
  <2>1. RowsKept(born, old) /\ UNCHANGED <<segments, ledger>>
    BY <1>1, <1>4, <1>17
  <2>2. next = epoch + 1 /\ next \in Epochs /\ epoch' = next /\ now' = now + 1
    BY <1>1, <1>5
  <2>3. Lives(born, old)
    BY <1>4
  <2>4. HistoryIInv /\ LedgerTyped
    BY <1>2
  <2> HIDE DEF next
  <2> QED BY <1>6, <2>1, <2>2, <2>3, <2>4, RebuildKeepsRowsKept
<1> QED BY <1>6, <1>14, <1>15, <1>16, <1>17 DEF LivesInv

(* The history and the ledger agree in every state.                        *)
LEMMA SpecLedgerIInv ==
    Spec => [](LedgerTyped /\ LivesInv /\ (Tasks <= 1 => AloneInv))
<1> DEFINE Alone == Tasks <= 1 => AloneInv
<1>1. Init => LedgerTyped /\ LivesInv /\ Alone
  BY InitLedgerIInv DEF LedgerIInv
<1>2. ASSUME HistoryIInv, SideInv, OverInv, LedgerTyped, Alone, [Next]_vars
      PROVE  Alone'
  BY <1>2, StepKeepsAlone
<1>3. HistoryIInv /\ SumsInv /\ SideInv /\ OverInv /\ LedgerTyped /\ LivesInv /\ Alone
        /\ [Next]_vars => LedgerTyped' /\ LivesInv'
  <2> SUFFICES ASSUME LedgerIInv, [Next]_vars PROVE LedgerTyped' /\ LivesInv'
    BY DEF LedgerIInv
  <2>1. now \in Int /\ LastInstant \in Int
    BY HistoryAssumption DEF LedgerIInv, HistoryIInv, HistoryTyped, StateTyped
  <2>2. CASE Tick
    BY <2>1, <2>2, UpstreamKeepsLives DEF Tick
  <2>3. CASE Fetch
    BY <2>1, <2>3, UpstreamKeepsLives DEF Fetch
  <2>4. ASSUME NEW m \in Model, Correct(m) PROVE LedgerTyped' /\ LivesInv'
    <3>1. UNCHANGED <<correcting, now, epoch, first, inflight, segments, ledger, late>>
      BY <2>4 DEF Correct
    <3> QED BY <2>1, <3>1, UpstreamKeepsLives
  <2>5. ASSUME NEW s \in inflight, Lose(s) PROVE LedgerTyped' /\ LivesInv'
    BY <2>1, <2>5, UpstreamKeepsLives DEF Lose
  <2>6. CASE UNCHANGED vars
    BY <2>1, <2>6, UpstreamKeepsLives DEF vars
  <2> QED BY <2>2, <2>3, <2>4, <2>5, <2>6, RequestKeepsLives, RebuildKeepsLives,
             SaveKeepsLives DEF Next
<1> HIDE DEF Alone
<1>4. Spec => [](LedgerTyped /\ LivesInv /\ Alone)
  BY <1>1, <1>2, <1>3, SpecHistoryIInv, SpecSumsInv, SpecOverInv, PTL DEF Spec
<1> QED BY <1>4 DEF Alone

(* As long as snapshots are saved in order, each date is loaded as the sum *)
(* of what every lifetime of upstream last reported: each row of the date  *)
(* is the report of one lifetime, and those without a row reported nothing.*)
THEOREM SpecLoadedIsReported == Spec => []LoadedIsReported
<1>1. HistoryIInv /\ LedgerTyped /\ LivesInv => LoadedIsReported
  <2> SUFFICES ASSUME HistoryIInv, LedgerTyped, LivesInv, InOrder, NEW d \in Dates
               PROVE  Loaded(d) = Reported(d)
    BY DEF LoadedIsReported, AsReported, InOrder
  <2>1. PICK births \in [Epochs -> Nat], firsts \in [Epochs -> Nat] :
            Lives(births, firsts) /\ RowsInv(firsts)
    BY DEF LivesInv
  <2> DEFINE R == RowsOf(segments, d)
             day(r) == segments[r[1]].days[r[2]]
             total == RowTokens(segments, d)
             reports == [e \in Epochs |-> ledger[e].tokens[d]]
             IsOwner(r, e) == /\ day(r).snap = ledger[e].end
                              /\ Amount(day(r).totals, "tokens") = ledger[e].tokens[d]
             owner == [r \in R |-> CHOOSE e \in Epochs : IsOwner(r, e)]
  <2>2. IsFiniteSet(R)
    BY AllRowsLoaded, SeenHasBegun
  <2>3. Loaded(d) = SumFunctionOnSet(total, R)
    BY AllRowsLoaded, SeenHasBegun DEF Loaded
  <2>4. Reported(d) = SumFunctionOnSet(reports, Epochs)
    BY DEF Reported, SumFunction
  <2>5. IsFiniteSet(Epochs) /\ \A e \in Epochs : reports[e] \in Int
    BY EpochNumbers, FS_Interval
  <2>6. ASSUME NEW r \in R
        PROVE  /\ owner[r] \in Epochs
               /\ day(r).snap = ledger[owner[r]].end /\ day(r).snap # 0
               /\ total[r] = reports[owner[r]]
    <3>1. r[1] \in DOMAIN segments /\ r[2] = d /\ d \in DOMAIN segments[r[1]].days
      BY RowsOfMember DEF RowsOf
    <3>2. \E e \in Epochs : IsOwner(r, e)
      BY <2>1, <3>1 DEF RowsInv, RowsOwned
    <3>3. day(r).snap > 0
      BY <3>1, RowFacts
    <3> HIDE DEF IsOwner
    <3>4. owner[r] \in Epochs /\ IsOwner(r, owner[r])
      BY <3>2
    <3>5. /\ day(r).snap = ledger[owner[r]].end
          /\ Amount(day(r).totals, "tokens") = ledger[owner[r]].tokens[d]
      BY <3>4 DEF IsOwner
    <3>6. total[r] = Amount(day(r).totals, "tokens")
      BY DEF RowTokens
    <3>7. \A e \in Epochs : reports[e] = ledger[e].tokens[d]
      OBVIOUS
    <3> HIDE DEF owner, day, total, reports
    <3> QED BY <3>3, <3>4, <3>5, <3>6, <3>7
  <2>7. ASSUME NEW a \in R, NEW b \in R, owner[a] = owner[b] PROVE a = b
    <3>1. /\ a = <<a[1], d>> /\ a[1] \in DOMAIN segments
          /\ d \in DOMAIN segments[a[1]].days
          /\ b = <<b[1], d>> /\ b[1] \in DOMAIN segments
          /\ d \in DOMAIN segments[b[1]].days
      BY RowsOfMember
    <3>2. day(a).snap = day(b).snap
      <4> HIDE DEF owner, day
      <4> QED BY <2>6, <2>7
    <3>3. a[2] = d /\ b[2] = d
      BY DEF RowsOf
    <3>4. a[1] = b[1]
      BY <2>1, <3>1, <3>2, <3>3 DEF RowsInv, RowsDistinct
    <3> QED BY <3>1, <3>4
  <2>8. ASSUME NEW e \in Epochs, reports[e] # 0 PROVE \E r \in R : owner[r] = e
    <3>1. PICK i \in DOMAIN segments :
              d \in DOMAIN segments[i].days /\ segments[i].days[d].snap = ledger[e].end
      BY <2>1, <2>8 DEF RowsInv, ReportsStored
    <3> DEFINE r == <<i, d>>
    <3>2. r \in R /\ day(r).snap = ledger[e].end
      BY <3>1, RowsOfMember
    <3> HIDE DEF r
    <3>3. owner[r] = e
      <4>1. owner[r] \in Epochs /\ ledger[owner[r]].end = ledger[e].end
            /\ ledger[owner[r]].end # 0
        BY <2>6, <3>2
      <4> HIDE DEF owner
      <4> QED BY <2>1, <4>1, LedgerDistinct DEF Lives
    <3> QED BY <3>2, <3>3
  <2> HIDE DEF R, day, total, reports, owner
  <2>9. SumFunctionOnSet(total, R) = SumFunctionOnSet(reports, Epochs)
    <3>1. \A y \in Epochs : (\A r \in R : owner[r] # y) => reports[y] = 0
      BY <2>8
    <3>2. \A r \in R : owner[r] \in Epochs /\ total[r] = reports[owner[r]]
      BY <2>6
    <3>3. \A a, b \in R : owner[a] = owner[b] => a = b
      BY <2>7
    <3>4. IsFiniteSet(R)
      BY <2>2
    <3>5. IsFiniteSet(Epochs)
      BY <2>5
    <3>6. \A e \in Epochs : reports[e] \in Int
      BY <2>5
    <3> QED BY <3>1, <3>2, <3>3, <3>4, <3>5, <3>6, SumOfRenamed
  <2> QED BY <2>3, <2>4, <2>9
<1> QED BY <1>1, SpecHistoryIInv, SpecLedgerIInv, PTL

(* Each report has a row of its own that covers it.                        *)
LEMMA RowsCoverReports ==
    ASSUME HistoryIInv, SumsInv, LedgerTyped, NEW births \in [Epochs -> Nat],
           NEW firsts, LedgerInv(births), RowsKept(births, firsts), NEW d \in Dates
    PROVE  Reported(d) <= Loaded(d)
<1> DEFINE R == RowsOf(segments, d)
           day(r) == segments[r[1]].days[r[2]]
           total == RowTokens(segments, d)
           reports == [e \in Epochs |-> ledger[e].tokens[d]]
           S == {e \in Epochs : reports[e] # 0}
           Covers(e, r) == IsRow(e, r[1], d, births) /\ reports[e] <= total[r]
           row == [e \in S |-> CHOOSE r \in R : Covers(e, r)]
           used == {row[e] : e \in S}
           most == [e \in S |-> total[row[e]]]
           taken == [r \in R |-> IF r \in used THEN total[r] ELSE 0]
<1>1. IsFiniteSet(R) /\ Loaded(d) = SumFunctionOnSet(total, R)
  BY AllRowsLoaded, SeenHasBegun DEF Loaded
<1>2. Reported(d) = SumFunctionOnSet(reports, Epochs)
  BY DEF Reported, SumFunction
<1>3. IsFiniteSet(Epochs) /\ IsFiniteSet(S) /\ \A e \in Epochs : reports[e] \in Int
  <2>1. IsFiniteSet(Epochs) /\ \A e \in Epochs : reports[e] \in Int
    BY EpochNumbers, FS_Interval
  <2> QED BY <2>1, FS_Subset
<1>4. ASSUME NEW r \in R
      PROVE  /\ total[r] \in Int /\ 0 <= total[r] /\ r = <<r[1], d>>
             /\ total[r] = segments[r[1]].days[d].totals["tokens"]
  <2>1. /\ r[1] \in DOMAIN segments /\ d \in DOMAIN segments[r[1]].days
        /\ r = <<r[1], d>> /\ r[2] = d
    BY RowsOfMember DEF RowsOf
  <2>2. <<d, segments[r[1]].days[d]>> \in Seen
    BY <2>1, RowFacts
  <2>3. AddsUp(segments[r[1]].days[d])
    BY <2>2 DEF SumsInv
  <2>4. total[r] = Amount(day(r).totals, "tokens")
    BY DEF RowTokens
  <2> HIDE DEF total, R
  <2> QED BY <2>1, <2>3, <2>4, TotalIsNumber
<1>5. ASSUME NEW e \in S PROVE row[e] \in R /\ Covers(e, row[e])
  <2>1. ledger[e].tokens[d] # 0 /\ e \in Epochs
    OBVIOUS
  <2>2. PICK i \in DOMAIN segments :
            /\ IsRow(e, i, d, births)
            /\ ledger[e].tokens[d] <= segments[i].days[d].totals["tokens"]
    BY <2>1 DEF RowsKept, ReportsCovered
  <2> DEFINE r == <<i, d>>
  <2>3. r \in R
    BY <2>2, RowsOfMember DEF IsRow
  <2>4. r[1] = i /\ reports[e] = ledger[e].tokens[d]
    OBVIOUS
  <2> HIDE DEF r, R, total, reports
  <2>5. Covers(e, r)
    BY <1>4, <2>2, <2>3, <2>4
  <2> HIDE DEF Covers, S
  <2> QED BY <2>3, <2>5
<1>6. ASSUME NEW a \in S, NEW b \in S, row[a] = row[b] PROVE a = b
  <2>1. a \in Epochs /\ b \in Epochs
    OBVIOUS
  <2>2. IsRow(a, row[a][1], d, births) /\ IsRow(b, row[a][1], d, births)
    <3> HIDE DEF row, S
    <3> QED BY <1>5, <1>6
  <2> HIDE DEF row, S
  <2> QED BY <2>1, <2>2, OneOwner
<1> HIDE DEF R, total, reports
<1>7. SumFunctionOnSet(reports, Epochs) = SumFunctionOnSet(reports, S)
  BY <1>3, SumOfOthersIsZero
<1>8. ASSUME NEW e \in S
      PROVE  /\ most[e] = total[row[e]] /\ reports[e] \in Int /\ total[row[e]] \in Int
             /\ reports[e] <= most[e] /\ row[e] \in R /\ row[e] \in used
             /\ most[e] = taken[row[e]]
  <2>1. row[e] \in R /\ reports[e] <= total[row[e]] /\ row[e] \in used
    BY <1>5
  <2>2. most[e] = total[row[e]] /\ reports[e] \in Int
    BY <1>3
  <2>3. total[row[e]] \in Int
    BY <1>4, <2>1
  <2> HIDE DEF row, used, most
  <2> QED BY <2>1, <2>2, <2>3
<1>9. ASSUME NEW r \in R
      PROVE  /\ taken[r] \in Int /\ taken[r] <= total[r]
             /\ r \notin used => taken[r] = 0
  <2> HIDE DEF used
  <2> QED BY <1>4
<1> HIDE DEF most, taken
<1>10. SumFunctionOnSet(reports, S) <= SumFunctionOnSet(most, S)
  <2>1. \A e \in S : reports[e] \in Int /\ most[e] \in Int /\ reports[e] <= most[e]
    <3> HIDE DEF row, used, S
    <3> QED BY <1>8
  <2> HIDE DEF S
  <2> QED BY <1>3, <2>1, SumIsMonotone
<1>11. SumFunctionOnSet(most, S) = SumFunctionOnSet(taken, R)
  <2>1. \A y \in R : (\A e \in S : row[e] # y) => taken[y] = 0
    <3> SUFFICES ASSUME NEW y \in R, \A e \in S : row[e] # y PROVE taken[y] = 0
      OBVIOUS
    <3>1. y \notin used
      <4> HIDE DEF row
      <4> QED OBVIOUS
    <3> HIDE DEF used, row, S
    <3> QED BY <1>9, <3>1
  <2> HIDE DEF row, used, S
  <2>2. \A e \in S : row[e] \in R /\ most[e] = taken[row[e]]
    BY <1>8
  <2>3. \A a, b \in S : row[a] = row[b] => a = b
    BY <1>6
  <2>4. \A y \in R : taken[y] \in Int
    BY <1>9
  <2>5. IsFiniteSet(S) /\ IsFiniteSet(R)
    BY <1>1, <1>3
  <2> QED BY <2>1, <2>2, <2>3, <2>4, <2>5, SumOfRenamed
<1>12. SumFunctionOnSet(taken, R) <= SumFunctionOnSet(total, R)
  <2>1. \A r \in R : taken[r] \in Int /\ total[r] \in Int /\ taken[r] <= total[r]
    BY <1>4, <1>9
  <2> QED BY <1>1, <2>1, SumIsMonotone
<1>13. /\ SumFunctionOnSet(reports, S) \in Int /\ SumFunctionOnSet(most, S) \in Int
       /\ SumFunctionOnSet(total, R) \in Int
  <2>1. \A e \in S : reports[e] \in Int /\ most[e] \in Int
    <3> HIDE DEF row, used, S
    <3> QED BY <1>8
  <2>2. \A r \in R : total[r] \in Int
    BY <1>4
  <2> HIDE DEF S
  <2> QED BY <1>1, <1>3, <2>1, <2>2, SumIsInt
<1> HIDE DEF S
<1> QED BY <1>1, <1>2, <1>7, <1>10, <1>11, <1>12, <1>13

(* With one account task at a time, whatever upstream corrects and however *)
(* often it is rebuilt: what each of its lifetimes last reported of a date *)
(* is never missing from the dashboard. Of two tasks under way the later   *)
(* one may be saved first: dates before its segment are then not stored.   *)
THEOREM SpecNothingForgotten == Spec => [](Tasks <= 1 => NothingForgotten)
<1>1. HistoryIInv /\ SumsInv /\ LedgerTyped /\ LivesInv =>
          (Tasks <= 1 => NothingForgotten)
  <2> SUFFICES ASSUME HistoryIInv, SumsInv, LedgerTyped, LivesInv, Tasks <= 1
               PROVE  NothingForgotten
    OBVIOUS
  <2>1. PICK births \in [Epochs -> Nat], firsts \in [Epochs -> Nat] :
            Lives(births, firsts) /\ RowsKept(births, firsts)
    BY DEF LivesInv
  <2> QED BY <2>1, RowsCoverReports DEF NothingForgotten, Lives
<1> QED BY <1>1, SpecHistoryIInv, SpecSumsInv, SpecLedgerIInv, PTL

-----------------------------------------------------------------------------
(* While upstream is rebuilt at most once, and never corrects: the         *)
(* lifetime of the upstream database a day was counted in. A day that      *)
(* begins before the first request it knows is one of the lifetime before. *)
LifetimeOf(day) == IF first <= day.start THEN epoch ELSE 1

(* The days of a snapshot belong to its lifetime, and those of the latest  *)
(* one begin with its first request.                                       *)
OwnersInv ==
    /\ epoch = 1 => \A x \in Seen : first <= x[2].start
    /\ \A s \in inflight :
           LET days == s.snapshot.days IN
           /\ s.epoch \in 1 .. epoch
           /\ \A d \in DOMAIN days : LifetimeOf(days[d]) = s.epoch
           /\ s.epoch = epoch /\ DOMAIN days # {} =>
                  \E d \in DOMAIN days : days[d].start = first

(* A snapshot has all days of its lifetime that were known when it was     *)
(* taken, none of them with less.                                          *)
GrowsInv ==
    \A x \in Seen, s \in inflight :
        LET days == s.snapshot.days IN
        LifetimeOf(x[2]) = s.epoch /\ x[2].snap <= s.snapshot.end =>
            /\ x[1] \in DOMAIN days
            /\ days[x[1]].start <= x[2].start
            /\ x[2].totals["tokens"] <= days[x[1]].totals["tokens"]

(* The ledger knows of each stored day, and of each snapshot that is late. *)
NotedInv ==
    /\ \A e \in Epochs : /\ ledger[e].end <= now
                         /\ \A d \in Dates : ledger[e].tokens[d] >= 0
    /\ \A x \in DaysOf(segments) :
           LET entry == ledger[LifetimeOf(x[2])] IN
           x[2].snap <= entry.end /\ x[2].totals["tokens"] <= entry.tokens[x[1]]
    /\ \A s \in inflight : s.snapshot.end < ledger[s.epoch].end =>
           \A d \in DOMAIN s.snapshot.days :
               s.snapshot.days[d].totals["tokens"] <= ledger[s.epoch].tokens[d]

(* One segment may hold days of both lifetimes, of different dates; if a   *)
(* second one was opened, it holds the days of the second lifetime only.   *)
ShapeInv ==
    /\ segments # <<>> => /\ segments[1].start \in Dates
                          /\ segments[1].start * DayLength <= first
                          /\ segments[1].start * DayLength <= now
    /\ Len(segments) <= 2
    /\ Len(segments) = 1 /\ epoch = 2 =>
           \/ \A d \in DOMAIN segments[1].days : LifetimeOf(segments[1].days[d]) = 1
           \/ \E d \in DOMAIN segments[1].days : segments[1].days[d].start = first
    /\ Len(segments) = 2 =>
           /\ epoch = 2
           /\ \A d \in DOMAIN segments[1].days : LifetimeOf(segments[1].days[d]) = 1
           /\ \A d \in DOMAIN segments[2].days : LifetimeOf(segments[2].days[d]) = 2
           /\ segments[2].start \in DOMAIN segments[2].days

OnceInv == OwnersInv /\ GrowsInv /\ NotedInv /\ ShapeInv

(* What is known before of a state with at most one rebuild.               *)
Once == /\ HistoryIInv /\ SumsInv /\ SideInv /\ LedgerTyped
        /\ ~correcting /\ epoch <= 2

(* What a day that is stored or under way says of its lifetime.            *)
LEMMA SeenFacts ==
    ASSUME Once, NEW x \in Seen
    PROVE  /\ x[1] \in Dates /\ x[1] \in Nat
           /\ x[1] * DayLength \in Int /\ (x[1] + 1) * DayLength \in Int
           /\ x[2].start \in Int /\ x[2].end \in Int /\ x[2].snap \in Int
           /\ x[1] * DayLength <= x[2].start /\ x[2].start < x[2].end
           /\ x[2].end <= (x[1] + 1) * DayLength
           /\ x[2].end <= x[2].snap /\ x[2].snap <= now
           /\ DOMAIN x[2].totals = {"tokens"}
           /\ x[2].totals["tokens"] \in Int /\ 0 <= x[2].totals["tokens"]
           /\ first \in Nat /\ now \in Int /\ epoch \in {1, 2} /\ epoch \in Epochs
           /\ LifetimeOf(x[2]) \in 1 .. epoch
           /\ epoch = 2 => /\ LifetimeOf(x[2]) = 1 => x[2].snap < first
                           /\ LifetimeOf(x[2]) = 2 => first <= x[2].start
<1>1. /\ x[1] \in Dates /\ StoredOk(x[2])
      /\ x[1] * DayLength <= x[2].start /\ x[2].start < x[2].end
      /\ x[2].end <= (x[1] + 1) * DayLength
      /\ x[2].end <= x[2].snap /\ x[2].snap <= now
      /\ now \in 0 .. LastInstant /\ first \in Nat /\ LastInstant \in Nat
  BY HistoryAssumption DEF Once, HistoryIInv, HistoryTyped, StateTyped, DaysInv
<1>2. x[1] \in Nat /\ x[1] * DayLength \in Int /\ (x[1] + 1) * DayLength \in Int
  <2> DEFINE d == x[1]
  <2>1. d \in Dates
    BY <1>1
  <2> HIDE DEF d
  <2>2. d \in Nat /\ d + 1 \in Int
    BY <2>1, DatesAreNumbers
  <2>3. d * DayLength \in Int /\ (d + 1) * DayLength \in Int
    BY <2>2, DayStart
  <2> QED BY <2>2, <2>3 DEF d
<1>3. /\ DOMAIN x[2].totals = {"tokens"}
      /\ x[2].totals["tokens"] \in Int /\ 0 <= x[2].totals["tokens"]
  <2>1. AddsUp(x[2])
    BY DEF Once, SumsInv
  <2> QED BY <2>1, TotalIsNumber DEF AddsUp
<1>4. epoch \in {1, 2} /\ epoch \in Epochs
  BY EpochNumbers DEF Once
<1>5. x[2].snap < first \/ first <= x[2].start
  BY <1>1 DEF Once, SideInv, StoredOk, Never
<1> QED BY <1>1, <1>2, <1>3, <1>4, <1>5 DEF LifetimeOf, StoredOk

(* The same of a day of a snapshot.                                        *)
LEMMA FlightFacts ==
    ASSUME Once, OwnersInv, NEW s \in inflight, NEW d \in DOMAIN s.snapshot.days
    PROVE  LET day == s.snapshot.days[d] IN
           /\ <<d, StoredDay(day, s.snapshot.end)>> \in Seen
           /\ d \in Dates /\ d \in Nat
           /\ d * DayLength \in Int /\ (d + 1) * DayLength \in Int
           /\ day.start \in Int /\ day.end \in Int /\ s.snapshot.end \in Int
           /\ d * DayLength <= day.start /\ day.start < day.end
           /\ day.end <= (d + 1) * DayLength
           /\ day.end <= s.snapshot.end /\ s.snapshot.end <= now
           /\ DOMAIN day.totals = {"tokens"}
           /\ day.totals["tokens"] \in Int /\ 0 <= day.totals["tokens"]
           /\ first \in Nat /\ now \in Int /\ epoch \in {1, 2}
           /\ s.epoch \in 1 .. epoch
           /\ LifetimeOf(StoredDay(day, s.snapshot.end)) = s.epoch
           /\ epoch = 2 => /\ s.epoch = 1 => s.snapshot.end < first
                           /\ s.epoch = 2 => first <= day.start
<1> DEFINE day == s.snapshot.days[d]
           stored == StoredDay(day, s.snapshot.end)
           x == <<d, stored>>
<1>1. x \in Seen
  BY DEF Seen, DaysIn
<1>2. /\ stored.start = day.start /\ stored.end = day.end
      /\ stored.snap = s.snapshot.end /\ stored.totals = day.totals
  BY DEF StoredDay
<1>3. LifetimeOf(day) = s.epoch /\ s.epoch \in 1 .. epoch
  BY DEF OwnersInv
<1> HIDE DEF stored, day
<1>4. LifetimeOf(stored) = s.epoch
  BY <1>2, <1>3 DEF LifetimeOf
<1>5. x[1] = d /\ x[2] = stored
  OBVIOUS
<1> HIDE DEF x
<1> QED BY <1>1, <1>2, <1>3, <1>4, <1>5, SeenFacts DEF stored, day, x

(* The same of a row of the store.                                         *)
LEMMA StoredFacts ==
    ASSUME Once, NEW i \in DOMAIN segments, NEW d \in DOMAIN segments[i].days
    PROVE  LET day == segments[i].days[d] IN
           /\ <<d, day>> \in Seen /\ <<d, day>> \in DaysOf(segments)
           /\ d \in Dates /\ d \in Nat
           /\ d * DayLength \in Int /\ (d + 1) * DayLength \in Int
           /\ day.start \in Int /\ day.end \in Int /\ day.snap \in Int
           /\ d * DayLength <= day.start /\ day.start < day.end
           /\ day.end <= (d + 1) * DayLength
           /\ day.end <= day.snap /\ day.snap <= now
           /\ DOMAIN day.totals = {"tokens"}
           /\ day.totals["tokens"] \in Int /\ 0 <= day.totals["tokens"]
           /\ first \in Nat /\ now \in Int /\ epoch \in {1, 2}
           /\ LifetimeOf(day) \in 1 .. epoch
           /\ epoch = 2 => /\ LifetimeOf(day) = 1 => day.snap < first
                           /\ LifetimeOf(day) = 2 => first <= day.start
<1> DEFINE day == segments[i].days[d]
           x == <<d, day>>
<1>1. x \in DaysOf(segments) /\ x \in Seen
  BY DaysOfMember DEF Seen
<1>2. x[1] = d /\ x[2] = day
  OBVIOUS
<1> HIDE DEF x, day
<1> QED BY <1>1, <1>2, SeenFacts DEF day, x

(* Two dates that hold the same instant are the same.                      *)
LEMMA SameDate ==
    ASSUME NEW d \in Nat, NEW e \in Nat, NEW t \in Int, NEW u \in Int,
           d * DayLength <= t, t <= u, u < (e + 1) * DayLength
    PROVE  d <= e
<1>1. d * DayLength \in Int /\ (e + 1) * DayLength \in Int /\ e + 1 \in Int
  BY DayStart
<1>2. e + 1 <= d => (e + 1) * DayLength <= d * DayLength
  BY <1>1, DayStart
<1> QED BY <1>1, <1>2

(* A snapshot shows a rebuild only in the first segment, with days of the  *)
(* first lifetime alone.                                                   *)
LEMMA ResetIsRebuild ==
    ASSUME Once, OnceInv, segments # <<>>, NEW s \in inflight,
           NEW d \in ResetDates(Last(segments), s.snapshot)
    PROVE  /\ Len(segments) = 1 /\ epoch = 2 /\ s.epoch = 2
           /\ \A e \in DOMAIN segments[1].days : LifetimeOf(segments[1].days[e]) = 1
<1> DEFINE k == Len(segments)
           stored == segments[k].days[d]
           day == s.snapshot.days[d]
<1>1. IsSegments(segments)
  BY DEF Once, HistoryIInv, HistoryTyped, StateTyped
<1>2. k \in DOMAIN segments /\ k \in {1, 2} /\ Last(segments) = segments[k]
  <2>1. k \in DOMAIN segments /\ DOMAIN segments = 1 .. k /\ k \in Nat
        /\ Last(segments) = segments[k]
    BY <1>1, SegmentsDomain, LastSegment
  <2>2. k <= 2
    BY DEF OnceInv, ShapeInv
  <2> HIDE DEF k
  <2> QED BY <2>1, <2>2
<1>3. /\ d \in DOMAIN segments[k].days /\ d \in DOMAIN s.snapshot.days
      /\ stored.end = stored.snap /\ stored.snap <= s.snapshot.end
      /\ SnapshotReset(stored, day)
  BY <1>2 DEF ResetDates, Comparable, MutableDates
<1>4. OwnersInv /\ GrowsInv /\ ShapeInv
  BY DEF OnceInv
<1> HIDE DEF k
<1>5. /\ <<d, stored>> \in Seen /\ d \in Nat
      /\ d * DayLength \in Int /\ (d + 1) * DayLength \in Int
      /\ stored.start \in Int /\ stored.end \in Int /\ stored.snap \in Int
      /\ d * DayLength <= stored.start /\ stored.start < stored.end
      /\ DOMAIN stored.totals = {"tokens"} /\ stored.totals["tokens"] \in Int
      /\ LifetimeOf(stored) \in 1 .. epoch /\ epoch \in {1, 2} /\ first \in Nat
      /\ epoch = 2 => /\ LifetimeOf(stored) = 1 => stored.snap < first
                      /\ LifetimeOf(stored) = 2 => first <= stored.start
  BY <1>2, <1>3, StoredFacts
<1>6. /\ day.start \in Int /\ day.end \in Int /\ s.snapshot.end \in Int
      /\ d * DayLength <= day.start /\ day.start < day.end
      /\ day.end <= (d + 1) * DayLength /\ day.end <= s.snapshot.end
      /\ DOMAIN day.totals = {"tokens"} /\ day.totals["tokens"] \in Int
      /\ s.epoch \in 1 .. epoch
      /\ epoch = 2 => /\ s.epoch = 1 => s.snapshot.end < first
                      /\ s.epoch = 2 => first <= day.start
  BY <1>3, <1>4, FlightFacts
<1>7. LifetimeOf(stored) # s.epoch
  <2> SUFFICES ASSUME LifetimeOf(stored) = s.epoch PROVE FALSE
    OBVIOUS
  <2>1. day.start <= stored.start /\ stored.totals["tokens"] <= day.totals["tokens"]
    <3> DEFINE x == <<d, stored>>
    <3>1. x \in Seen /\ x[1] = d /\ x[2] = stored
      BY <1>5
    <3> HIDE DEF x, stored
    <3> QED BY <1>3, <1>4, <3>1 DEF GrowsInv
  <2> HIDE DEF stored, day
  <2> QED BY <1>3, <1>5, <1>6, <2>1 DEF SnapshotReset, TotalsRegressed
<1> HIDE DEF stored, day
<1>8. epoch = 2 /\ s.epoch = 2 /\ LifetimeOf(stored) = 1
  <2> DEFINE l == LifetimeOf(stored)
             e == s.epoch
  <2>1. epoch \in {1, 2} /\ l \in 1 .. epoch /\ s.epoch \in 1 .. epoch /\ l # s.epoch
    BY <1>5, <1>6, <1>7
  <2> HIDE DEF l
  <2>2. epoch = 2 /\ ((l = 1 /\ e = 2) \/ (l = 2 /\ e = 1))
    <3>1. (\A i \in 1 .. 2 : i = 1 \/ i = 2) /\ (\A i \in 1 .. 1 : i = 1)
      OBVIOUS
    <3>2. epoch = 1 \/ epoch = 2
      BY <2>1
    <3>3. l \in 1 .. epoch /\ e \in 1 .. epoch /\ l # e
      BY <2>1
    <3> HIDE DEF e
    <3>4. CASE epoch = 1
      BY <3>1, <3>3, <3>4
    <3>5. CASE epoch = 2
      BY <3>1, <3>3, <3>5
    <3> QED BY <3>2, <3>4, <3>5
  <2>3. ASSUME l = 2, s.epoch = 1 PROVE FALSE
    <3>1. s.snapshot.end < first /\ first <= stored.start
      BY <1>5, <1>6, <2>2, <2>3 DEF l
    <3> QED BY <1>3, <1>5, <1>6, <3>1
  <2> QED BY <2>2, <2>3 DEF l
<1>9. k = 1
  <2>1. ASSUME k = 2 PROVE FALSE
    BY <1>3, <1>4, <1>8, <2>1 DEF ShapeInv, stored, k
  <2> QED BY <1>2, <2>1
<1>10. ASSUME NEW e \in DOMAIN segments[1].days, segments[1].days[e].start = first
       PROVE  FALSE
  <2>1. /\ e \in Nat /\ e * DayLength <= first /\ first < (e + 1) * DayLength
        /\ e * DayLength \in Int /\ (e + 1) * DayLength \in Int
    <3>1. /\ e \in Nat /\ e * DayLength \in Int /\ (e + 1) * DayLength \in Int
          /\ segments[1].days[e].start \in Int /\ segments[1].days[e].end \in Int
          /\ e * DayLength <= segments[1].days[e].start
          /\ segments[1].days[e].start < segments[1].days[e].end
          /\ segments[1].days[e].end <= (e + 1) * DayLength
      BY <1>2, <1>9, <1>10, StoredFacts
    <3> QED BY <1>10, <3>1
  <2>2. d * DayLength <= first /\ first < (d + 1) * DayLength
    BY <1>3, <1>5, <1>6, <1>8
  <2>3. d = e
    <3>1. d <= e
      BY <1>5, <2>1, <2>2, SameDate
    <3>2. e <= d
      BY <1>5, <2>1, <2>2, SameDate
    <3> QED BY <1>5, <2>1, <3>1, <3>2
  <2>4. stored.start = first
    BY <1>9, <1>10, <2>3 DEF stored
  <2> QED BY <1>3, <1>5, <1>8, <2>4
<1> QED BY <1>4, <1>8, <1>9, <1>10 DEF ShapeInv, k

(* Days that are gone, from the store or on their way, break nothing.      *)
LEMMA FewerIsGrown ==
    ASSUME GrowsInv, Seen' \subseteq Seen, inflight' \subseteq inflight,
           \A x \in Seen : LifetimeOf(x[2])' = LifetimeOf(x[2])
    PROVE  GrowsInv'
BY DEF GrowsInv

(* The ledger knows of the same days as long as nothing is saved.          *)
LEMMA SameIsNoted ==
    ASSUME Once, NotedInv, segments' = segments, ledger' = ledger,
           inflight' \subseteq inflight, now' \in Int, now <= now',
           \A x \in Seen : LifetimeOf(x[2])' = LifetimeOf(x[2])
    PROVE  NotedInv'
<1>1. DaysOf(segments') = DaysOf(segments) /\ DaysOf(segments) \subseteq Seen
  BY DEF Seen
<1>2. \A e \in Epochs : ledger[e].end \in Int
  BY EpochNumbers DEF Once
<1>3. now \in Int
  BY DEF Once, HistoryIInv, HistoryTyped, StateTyped
<1>4. \A e \in Epochs : ledger'[e].end <= now' /\ \A d \in Dates : ledger'[e].tokens[d] >= 0
  BY <1>2, <1>3 DEF NotedInv
<1>5. \A x \in DaysOf(segments') :
          LET entry == ledger'[LifetimeOf(x[2])'] IN
          x[2].snap <= entry.end /\ x[2].totals["tokens"] <= entry.tokens[x[1]]
  BY <1>1 DEF NotedInv
<1>6. \A s \in inflight' : s.snapshot.end < ledger'[s.epoch].end =>
          \A d \in DOMAIN s.snapshot.days :
              s.snapshot.days[d].totals["tokens"] <= ledger'[s.epoch].tokens[d]
  BY DEF NotedInv
<1> QED BY <1>4, <1>5, <1>6 DEF NotedInv, DaysOf, AllRows

(* What is stored and under way after a step that saves nothing.           *)
LEMMA SeenLess ==
    ASSUME DaysOf(segments') \subseteq Seen, inflight' \subseteq inflight
    PROVE  Seen' \subseteq Seen
<1>1. Seen' = DaysOf(segments') \cup UNION {DaysIn(t.snapshot) : t \in inflight'}
  BY DEF Seen, DaysOf, DaysIn, AllRows
<1> QED BY <1>1 DEF Seen

(* The clock goes on; a snapshot is lost.                                  *)
LEMMA CalmKeepsOnce ==
    ASSUME Once, OnceInv, UNCHANGED <<epoch, first, segments, ledger>>,
           inflight' \subseteq inflight, now' \in Int, now <= now'
    PROVE  OnceInv'
<1>1. OwnersInv /\ GrowsInv /\ NotedInv /\ ShapeInv
  BY DEF OnceInv
<1>2. Seen' \subseteq Seen
  <2>1. DaysOf(segments') \subseteq Seen
    BY DEF Seen
  <2> QED BY <2>1, SeenLess
<1>3. \A x \in Seen : LifetimeOf(x[2])' = LifetimeOf(x[2])
  BY DEF LifetimeOf
<1>4. GrowsInv' /\ NotedInv'
  BY <1>1, <1>2, <1>3, FewerIsGrown, SameIsNoted
<1>5. OwnersInv'
  BY <1>1, <1>2 DEF OwnersInv, LifetimeOf
<1>6. ShapeInv'
  <2>1. now \in Int /\ segments' = segments /\ epoch' = epoch /\ first' = first
    BY DEF Once, HistoryIInv, HistoryTyped, StateTyped
  <2>2. segments # <<>> => /\ segments[1].start \in Dates
                           /\ segments[1].start * DayLength <= first
                           /\ segments[1].start * DayLength <= now
    BY <1>1 DEF ShapeInv
  <2>3. segments # <<>> => segments[1].start * DayLength <= now'
    <3> SUFFICES ASSUME segments # <<>> PROVE segments[1].start * DayLength <= now'
      OBVIOUS
    <3> DEFINE start == segments[1].start
    <3>1. start \in Dates /\ start * DayLength <= now
      BY <2>2
    <3> HIDE DEF start
    <3>2. start * DayLength \in Int
      BY <3>1, DatesAreNumbers, DayStart
    <3> QED BY <2>1, <3>1, <3>2 DEF start
  <2> QED BY <1>1, <2>1, <2>2, <2>3 DEF ShapeInv, LifetimeOf
<1> QED BY <1>4, <1>5, <1>6 DEF OnceInv

(* The first request of a lifetime: all days known then, if there are any, *)
(* are of the lifetime before.                                             *)
LEMMA RequestKeepsOnce ==
    ASSUME Once, OnceInv, NEW m \in Model, Request(m) PROVE OnceInv'
<1>1. /\ UNCHANGED <<now, epoch, inflight, segments, ledger>>
      /\ first' = IF first = Never THEN now ELSE first
  BY DEF Request
<1>2. /\ now \in 0 .. LastInstant /\ now \in Int /\ first \in Nat /\ Never \in Int
      /\ now < Never
  BY HistoryAssumption DEF Once, HistoryIInv, HistoryTyped, StateTyped, Never
<1>3. CASE first # Never
  BY <1>1, <1>2, <1>3, CalmKeepsOnce
<1>4. CASE first = Never
  <2>1. first' = now
    BY <1>1, <1>4
  <2>2. OwnersInv /\ GrowsInv /\ NotedInv /\ ShapeInv
    BY DEF OnceInv
  <2>3. ASSUME NEW x \in Seen
        PROVE  /\ x[2].start \in Int /\ x[2].start < now /\ epoch = 2
               /\ LifetimeOf(x[2]) = 1 /\ LifetimeOf(x[2])' = 1
    <3>1. /\ x[2].start \in Int /\ x[2].end \in Int /\ x[2].snap \in Int
          /\ x[2].start < x[2].end /\ x[2].end <= x[2].snap /\ x[2].snap <= now
          /\ epoch \in {1, 2}
      BY SeenFacts
    <3>2. x[2].start < now
      BY <1>2, <3>1
    <3>3. epoch # 1
      BY <1>2, <1>4, <2>2, <3>1, <3>2 DEF OwnersInv
    <3> QED BY <1>1, <1>2, <1>4, <2>1, <3>1, <3>2, <3>3 DEF LifetimeOf
  <2>4. Seen' \subseteq Seen
    <3>1. DaysOf(segments') \subseteq Seen
      BY <1>1 DEF Seen
    <3> QED BY <1>1, <3>1, SeenLess
  <2>5. GrowsInv' /\ NotedInv'
    BY <1>1, <1>2, <2>2, <2>3, <2>4, FewerIsGrown, SameIsNoted
  <2>6. OwnersInv'
    <3>1. epoch' = 1 => \A x \in Seen' : first' <= x[2].start
      BY <1>1, <2>3, <2>4
    <3>2. ASSUME NEW s \in inflight', NEW d \in DOMAIN s.snapshot.days
          PROVE  /\ s.epoch = 1 /\ epoch = 2
                 /\ LifetimeOf(s.snapshot.days[d])' = 1
      <4> DEFINE stored == StoredDay(s.snapshot.days[d], s.snapshot.end)
                 x == <<d, stored>>
      <4>1. x \in Seen /\ LifetimeOf(stored) = s.epoch
        BY <1>1, <2>2, FlightFacts
      <4>2. x[2] = stored /\ stored.start = s.snapshot.days[d].start
        BY DEF StoredDay
      <4> HIDE DEF x, stored
      <4>3. epoch = 2 /\ LifetimeOf(stored) = 1 /\ LifetimeOf(stored)' = 1
        BY <2>3, <4>1, <4>2
      <4> QED BY <4>1, <4>2, <4>3 DEF LifetimeOf
    <3>3. \A s \in inflight' : s.epoch \in 1 .. epoch'
      BY <1>1, <2>2 DEF OwnersInv
    <3> QED BY <1>1, <3>1, <3>2, <3>3 DEF OwnersInv
  <2>7. ShapeInv'
    <3>1. ASSUME NEW i \in DOMAIN segments, NEW d \in DOMAIN segments[i].days
          PROVE  /\ LifetimeOf(segments[i].days[d]) = 1
                 /\ LifetimeOf(segments[i].days[d])' = 1
      <4> PICK day : day = segments[i].days[d]
        OBVIOUS
      <4> DEFINE x == <<d, day>>
      <4>1. x \in Seen
        BY StoredFacts
      <4>2. x[2] = day
        OBVIOUS
      <4> HIDE DEF x
      <4>3. LifetimeOf(day) = 1 /\ LifetimeOf(day)' = 1
        BY <2>3, <4>1, <4>2
      <4>4. segments'[i].days[d] = day
        BY <1>1
      <4> QED BY <4>3, <4>4 DEF LifetimeOf
    <3>2. Len(segments) \in Nat /\ DOMAIN segments = 1 .. Len(segments)
      BY SegmentsDomain DEF Once, HistoryIInv, HistoryTyped, StateTyped
    <3>3. 1 <= Len(segments) => 1 \in DOMAIN segments
      BY <3>2
    <3>4. Len(segments) = 2 =>
              \A d \in DOMAIN segments[2].days : LifetimeOf(segments[2].days[d])' = 2
      <4> SUFFICES ASSUME Len(segments) = 2, NEW d \in DOMAIN segments[2].days
                   PROVE  LifetimeOf(segments[2].days[d])' = 2
        OBVIOUS
      <4>1. 2 \in DOMAIN segments
        BY <3>2
      <4>2. LifetimeOf(segments[2].days[d]) = 1
        BY <3>1, <4>1
      <4>3. LifetimeOf(segments[2].days[d]) = 2
        BY <2>2 DEF ShapeInv
      <4> QED BY <4>2, <4>3
    <3>5. 1 <= Len(segments) =>
              \A d \in DOMAIN segments[1].days : LifetimeOf(segments[1].days[d])' = 1
      BY <3>1, <3>3
    <3>6. segments' = segments /\ epoch' = epoch /\ now' = now /\ first' = now
      BY <1>1, <2>1
    <3>7. ShapeInv
      BY <2>2
    <3> QED BY <3>2, <3>4, <3>5, <3>6, <3>7 DEF ShapeInv
  <2> QED BY <2>5, <2>6, <2>7 DEF OnceInv
<1> QED BY <1>3, <1>4

(* The rebuild: all days known are of the lifetime that is over.           *)
LEMMA RebuildKeepsOnce ==
    ASSUME Once, OnceInv, Rebuild, epoch' <= 2 PROVE OnceInv'
<1>1. /\ UNCHANGED <<inflight, segments, ledger>>
      /\ epoch' = epoch + 1 /\ now' = now + 1 /\ first' = Never
  BY DEF Rebuild
<1>2. /\ now \in 0 .. LastInstant /\ now \in Int /\ first \in Nat /\ Never \in Int
      /\ now < Never
  BY HistoryAssumption DEF Once, HistoryIInv, HistoryTyped, StateTyped, Never
<1>3. epoch = 1 /\ epoch' = 2
  <2>1. epoch \in Nat /\ epoch >= 1
    BY EpochNumbers DEF Once
  <2> QED BY <1>1, <2>1
<1>4. OwnersInv /\ GrowsInv /\ NotedInv /\ ShapeInv
  BY DEF OnceInv
<1>5. ASSUME NEW x \in Seen
      PROVE  LifetimeOf(x[2]) = 1 /\ LifetimeOf(x[2])' = 1
  <2>1. /\ x[2].start \in Int /\ x[2].end \in Int /\ x[2].snap \in Int
        /\ x[2].start < x[2].end /\ x[2].end <= x[2].snap /\ x[2].snap <= now
    BY SeenFacts
  <2>2. ~(Never <= x[2].start)
    BY <1>2, <2>1
  <2> QED BY <1>1, <1>3, <2>2 DEF LifetimeOf
<1>6. Seen' \subseteq Seen
  <2>1. DaysOf(segments') \subseteq Seen
    BY <1>1 DEF Seen
  <2> QED BY <1>1, <2>1, SeenLess
<1>7. now' \in Int /\ now <= now'
  BY <1>1, <1>2
<1>8. GrowsInv' /\ NotedInv'
  BY <1>1, <1>4, <1>5, <1>6, <1>7, FewerIsGrown, SameIsNoted
<1>9. OwnersInv'
  <2>1. ASSUME NEW s \in inflight
        PROVE  /\ s.epoch = 1 /\ s.epoch \in 1 .. epoch'
               /\ \A d \in DOMAIN s.snapshot.days :
                      LifetimeOf(s.snapshot.days[d])' = 1
    <3>1. s.epoch = 1
      BY <1>3, <1>4 DEF OwnersInv
    <3>2. ASSUME NEW d \in DOMAIN s.snapshot.days
          PROVE  LifetimeOf(s.snapshot.days[d])' = 1
      <4> DEFINE stored == StoredDay(s.snapshot.days[d], s.snapshot.end)
                 x == <<d, stored>>
      <4>1. x \in Seen
        BY <1>4, FlightFacts
      <4>2. x[2] = stored /\ stored.start = s.snapshot.days[d].start
        BY DEF StoredDay
      <4> HIDE DEF x, stored
      <4>3. LifetimeOf(stored)' = 1
        BY <1>5, <4>1, <4>2
      <4> QED BY <4>2, <4>3 DEF LifetimeOf
    <3> QED BY <1>3, <3>1, <3>2
  <2>2. epoch' # 1 /\ \A s \in inflight' : s.epoch # epoch'
    BY <1>1, <1>3, <2>1
  <2> QED BY <1>1, <2>1, <2>2 DEF OwnersInv
<1>10. ShapeInv'
  <2>1. ASSUME NEW i \in DOMAIN segments, NEW d \in DOMAIN segments[i].days
        PROVE  LifetimeOf(segments[i].days[d])' = 1
    <3> PICK day : day = segments[i].days[d]
      OBVIOUS
    <3> DEFINE x == <<d, day>>
    <3>1. x \in Seen
      BY StoredFacts
    <3>2. x[2] = day
      OBVIOUS
    <3> HIDE DEF x
    <3>3. LifetimeOf(day)' = 1
      BY <1>5, <3>1, <3>2
    <3>4. segments'[i].days[d] = day
      BY <1>1
    <3> QED BY <3>3, <3>4 DEF LifetimeOf
  <2>2. Len(segments) \in Nat /\ DOMAIN segments = 1 .. Len(segments)
    BY SegmentsDomain DEF Once, HistoryIInv, HistoryTyped, StateTyped
  <2>3. 1 <= Len(segments) =>
            \A d \in DOMAIN segments[1].days : LifetimeOf(segments[1].days[d])' = 1
    <3>1. 1 <= Len(segments) => 1 \in DOMAIN segments
      BY <2>2
    <3> QED BY <2>1, <3>1
  <2>4. segments # <<>> => /\ segments[1].start \in Dates
                           /\ segments[1].start * DayLength <= now'
                           /\ segments[1].start * DayLength <= Never
    <3> SUFFICES ASSUME segments # <<>>
                 PROVE  /\ segments[1].start \in Dates
                        /\ segments[1].start * DayLength <= now'
                        /\ segments[1].start * DayLength <= Never
      OBVIOUS
    <3> DEFINE start == segments[1].start
    <3>1. start \in Dates /\ start * DayLength <= now
      BY <1>4 DEF ShapeInv
    <3> HIDE DEF start
    <3>2. start * DayLength \in Int
      BY <3>1, DatesAreNumbers, DayStart
    <3>3. start * DayLength <= now' /\ start * DayLength <= Never
      BY <1>2, <1>7, <3>1, <3>2
    <3> QED BY <3>1, <3>3 DEF start
  <2>5. Len(segments) <= 2 /\ Len(segments) # 2
    BY <1>3, <1>4 DEF ShapeInv
  <2>6. segments' = segments /\ first' = Never
    BY <1>1
  <2> QED BY <2>2, <2>3, <2>4, <2>5, <2>6 DEF ShapeInv
<1> QED BY <1>8, <1>9, <1>10 DEF OnceInv

(* The report of upstream begins with the first request it knows.          *)
LEMMA LifetimeBegins ==
    ASSUME StateTyped
    PROVE  /\ \A d \in DOMAIN Lifetime.days : LifetimeOf(Lifetime.days[d]) = epoch
           /\ DOMAIN Lifetime.days # {} =>
                  \E d \in DOMAIN Lifetime.days : Lifetime.days[d].start = first
<1>1. \A d \in DOMAIN Lifetime.days : LifetimeOf(Lifetime.days[d]) = epoch
  BY LifetimeDays DEF LifetimeOf
<1>2. ASSUME DOMAIN Lifetime.days # {}
      PROVE  \E d \in DOMAIN Lifetime.days : Lifetime.days[d].start = first
  <2> DEFINE d == Date(first)
  <2>1. first \in Nat /\ now \in 0 .. LastInstant /\ DayLength \in Nat \ {0}
        /\ LastInstant \in Nat
    BY HistoryAssumption DEF StateTyped
  <2>2. DOMAIN Lifetime.days = Reach(first, now)
    BY LifetimeReach
  <2>3. first < now
    BY <1>2, <2>2 DEF Reach
  <2>4. d \in Dates /\ d \in Nat
    <3>1. first \in 0 .. LastInstant
      BY <2>1, <2>3
    <3>2. d \in Dates
      BY <3>1, DatesAreNumbers
    <3> HIDE DEF d
    <3> QED BY <3>2, DatesAreNumbers
  <2>5. d * DayLength <= first /\ first < (d + 1) * DayLength
    BY <2>1 DEF Date
  <2> HIDE DEF d
  <2>6. d * DayLength \in Int /\ d * DayLength < now
    BY <2>1, <2>3, <2>4, <2>5, DayStart
  <2>7. d \in DOMAIN Lifetime.days
    BY <2>2, <2>3, <2>4, <2>5, <2>6 DEF Reach
  <2>8. Lifetime.days[d].start = MaxOf(first, d * DayLength)
    BY <2>7, LifetimeReach DEF Bucket
  <2>9. Lifetime.days[d].start = first
    BY <2>1, <2>5, <2>6, <2>8 DEF MaxOf
  <2> QED BY <2>7, <2>9
<1> QED BY <1>1, <1>2

(* The report of upstream has all days of its lifetime.                    *)
LEMMA LifetimeCovers ==
    ASSUME Once, NEW x \in Seen, first <= x[2].start
    PROVE  /\ x[1] \in DOMAIN Lifetime.days
           /\ Lifetime.days[x[1]].start <= x[2].start
           /\ x[2].totals["tokens"] <= Lifetime.days[x[1]].totals["tokens"]
<1> DEFINE d == x[1]
           stored == x[2]
           later == StoredDay(Lifetime.days[d], Lifetime.end)
           y == <<d, later>>
<1>1. StateTyped /\ HistoryIInv /\ SumsInv /\ KnownInv
  BY DEF Once, HistoryIInv, HistoryTyped
<1>2. /\ d \in Dates /\ d \in Nat
      /\ d * DayLength \in Int /\ (d + 1) * DayLength \in Int
      /\ stored.start \in Int /\ stored.end \in Int /\ stored.snap \in Int
      /\ d * DayLength <= stored.start /\ stored.start < stored.end
      /\ stored.end <= (d + 1) * DayLength /\ stored.end <= stored.snap
      /\ stored.snap <= now /\ now \in Int /\ first \in Nat
  BY SeenFacts
<1>3. AddsUp(stored) /\ (Gone(stored) \/ Known(d, stored))
  BY <1>1 DEF SumsInv, KnownInv
<1> HIDE DEF d, stored
<1>4. first <= stored.start
  BY DEF stored
<1>5. d \in DOMAIN Lifetime.days
  <2>1. d \in Reach(first, now)
    BY <1>2, <1>4 DEF Reach
  <2> QED BY <1>1, <2>1, LifetimeReach
<1>6. Lifetime.days[d].start = MaxOf(first, d * DayLength)
  BY <1>1, <1>5, LifetimeReach DEF Bucket
<1>7. Lifetime.days[d].start <= stored.start
  BY <1>2, <1>4, <1>6 DEF MaxOf
<1>8. Lifetime.days[d].start \in Int
  BY <1>1, <1>5, LifetimeDays
<1>9. Follows(stored, Lifetime.days[d])
  BY <1>1, <1>2, <1>3, <1>5, LifetimeFollows DEF StoredOk
<1>10. ~DetailsRegressed(stored, Lifetime.days[d])
  BY <1>2, <1>7, <1>8, <1>9 DEF Follows
<1>11. y \in DaysIn(Lifetime) /\ y[2] = later
  BY <1>5 DEF DaysIn
<1>12. later.totals = Lifetime.days[d].totals /\ later.details = Lifetime.days[d].details
  BY DEF StoredDay
<1> HIDE DEF later, y
<1>13. AddsUp(later)
  BY <1>1, <1>11, LifetimeAddsUp
<1>14. ~DetailsRegressed(stored, later)
  BY <1>10, <1>12 DEF DetailsRegressed
<1>15. stored.totals["tokens"] <= later.totals["tokens"]
  BY <1>3, <1>13, <1>14, TotalsFollow
<1> QED BY <1>5, <1>7, <1>12, <1>15 DEF d, stored

(* A new snapshot has all days of its lifetime.                            *)
LEMMA FetchKeepsOnce ==
    ASSUME Once, OnceInv, Fetch PROVE OnceInv'
<1> DEFINE s == [epoch |-> epoch, snapshot |-> Lifetime]
<1>1. /\ inflight' = inflight \cup {s}
      /\ UNCHANGED <<now, epoch, first, usage, segments, ledger>>
      /\ Cardinality(inflight) < Tasks
  BY DEF Fetch
<1>2. s.snapshot = Lifetime /\ s.epoch = epoch
  OBVIOUS
<1> PICK fetched : fetched = s
  OBVIOUS
<1>3. fetched.snapshot = Lifetime /\ fetched.epoch = epoch
      /\ inflight' = inflight \cup {fetched}
  BY <1>1, <1>2
<1> HIDE DEF s
<1>4. /\ StateTyped /\ HistoryIInv /\ SnapshotsInv /\ SameInv
      /\ now \in Int /\ epoch \in {1, 2} /\ epoch \in Epochs
  BY EpochNumbers DEF Once, HistoryIInv, HistoryTyped, StateTyped
<1>5. OwnersInv /\ GrowsInv /\ NotedInv /\ ShapeInv
  BY DEF OnceInv
<1>6. Seen' = Seen \cup DaysIn(Lifetime)
  <2>1. Seen' = DaysOf(segments') \cup UNION {DaysIn(t.snapshot) : t \in inflight'}
    BY DEF Seen, DaysOf, DaysIn, AllRows
  <2> QED BY <1>1, <1>3, <2>1 DEF Seen
<1>7. \A day : LifetimeOf(day)' = LifetimeOf(day)
  BY <1>1 DEF LifetimeOf
<1>8. /\ \A d \in DOMAIN Lifetime.days : LifetimeOf(Lifetime.days[d]) = epoch
      /\ DOMAIN Lifetime.days # {} =>
             \E d \in DOMAIN Lifetime.days : Lifetime.days[d].start = first
  BY <1>4, LifetimeBegins
<1>9. \A x \in DaysIn(Lifetime) : first <= x[2].start
  BY <1>4, LifetimeSide
<1>10. OwnersInv'
  <2>1. epoch' = 1 => \A x \in Seen' : first' <= x[2].start
    BY <1>1, <1>5, <1>6, <1>9 DEF OwnersInv
  <2>2. ASSUME NEW t \in inflight'
        PROVE  LET days == t.snapshot.days IN
               /\ t.epoch \in 1 .. epoch
               /\ \A d \in DOMAIN days : LifetimeOf(days[d]) = t.epoch
               /\ t.epoch = epoch /\ DOMAIN days # {} =>
                      \E d \in DOMAIN days : days[d].start = first
    <3>1. CASE t \in inflight
      BY <1>5, <3>1 DEF OwnersInv
    <3>2. CASE t = fetched
      BY <1>3, <1>4, <1>8, <3>2
    <3> QED BY <1>3, <3>1, <3>2
  <2> QED BY <1>1, <2>1, <2>2 DEF OwnersInv, LifetimeOf
(* Of the same instant there is a snapshot under way only if it is the same. *)
<1>11. ASSUME NEW t \in inflight, t.snapshot.end = now
       PROVE  t.snapshot = Lifetime
  <2>1. CASE Tasks <= 1
    <3>1. Cardinality(inflight) \in Nat /\ (Cardinality(inflight) = 0 <=> inflight = {})
      BY <1>4, FS_CardinalityType, FS_EmptySet DEF StateTyped
    <3> QED BY <1>1, <2>1, <3>1, HistoryAssumption
  <2>2. CASE ~(Tasks <= 1)
    BY <1>4, <1>11, <2>2 DEF SameInv
  <2> QED BY <2>1, <2>2
<1>12. ASSUME NEW x \in DaysIn(Lifetime)
       PROVE  /\ x[1] \in DOMAIN Lifetime.days
              /\ Lifetime.days[x[1]].start <= x[2].start
              /\ x[2].totals["tokens"] <= Lifetime.days[x[1]].totals["tokens"]
  <2>1. /\ x[1] \in DOMAIN Lifetime.days
        /\ x[2].start = Lifetime.days[x[1]].start
        /\ x[2].totals = Lifetime.days[x[1]].totals
    BY DaysInMember
  <2>2. x[2].start \in Int /\ x[2].totals["tokens"] \in Int
    BY <1>4, LifetimeSide
  <2> QED BY <2>1, <2>2
<1>13. ASSUME NEW x \in Seen', NEW t \in inflight',
              LifetimeOf(x[2]) = t.epoch, x[2].snap <= t.snapshot.end
       PROVE  /\ x[1] \in DOMAIN t.snapshot.days
              /\ t.snapshot.days[x[1]].start <= x[2].start
              /\ x[2].totals["tokens"] <= t.snapshot.days[x[1]].totals["tokens"]
  <2>1. CASE x \in Seen /\ t \in inflight
    BY <1>5, <1>13, <2>1 DEF GrowsInv
  <2>2. CASE x \in Seen /\ t = fetched
    <3>1. LifetimeOf(x[2]) = epoch
      BY <1>3, <1>13, <2>2
    <3>2. first <= x[2].start
      BY <1>4, <1>5, <2>2, <3>1 DEF OwnersInv, LifetimeOf
    <3> QED BY <1>3, <2>2, <3>2, LifetimeCovers
  <2>3. CASE x \in DaysIn(Lifetime) /\ t = fetched
    BY <1>3, <1>12, <2>3
  <2>4. CASE x \in DaysIn(Lifetime) /\ t \in inflight
    <3>1. x[2].snap = now /\ t.snapshot.end <= now /\ t.snapshot.end \in Int
      BY <1>4, <2>4, LifetimeSide DEF SnapshotsInv, Timed
    <3>2. t.snapshot.end = now
      BY <1>4, <1>13, <3>1
    <3>3. t.snapshot = Lifetime
      BY <1>11, <2>4, <3>2
    <3> QED BY <1>12, <2>4, <3>3
  <2> QED BY <1>3, <1>6, <2>1, <2>2, <2>3, <2>4
<1>14. GrowsInv'
  BY <1>7, <1>13 DEF GrowsInv, LifetimeOf
<1>15. NotedInv'
  <2>1. /\ \A e \in Epochs : /\ ledger'[e].end <= now'
                             /\ \A d \in Dates : ledger'[e].tokens[d] >= 0
        /\ \A x \in DaysOf(segments) :
               LET entry == ledger[LifetimeOf(x[2])] IN
               x[2].snap <= entry.end /\ x[2].totals["tokens"] <= entry.tokens[x[1]]
    BY <1>1, <1>5 DEF NotedInv
  <2>2. DaysOf(segments') = DaysOf(segments)
    BY <1>1
  <2>3. ASSUME NEW t \in inflight', t.snapshot.end < ledger'[t.epoch].end
        PROVE  \A d \in DOMAIN t.snapshot.days :
                   t.snapshot.days[d].totals["tokens"] <= ledger'[t.epoch].tokens[d]
    <3>1. CASE t \in inflight
      BY <1>1, <1>5, <2>3, <3>1 DEF NotedInv
    <3>2. CASE t = fetched
      <4>1. ledger[epoch].end <= now /\ ledger[epoch].end \in Int
        BY <1>4, <1>5, EpochNumbers DEF NotedInv, Once
      <4>2. t.snapshot.end = now
        BY <1>3, <1>4, <3>2, LifetimeIsTimed
      <4> QED BY <1>1, <1>3, <1>4, <2>3, <3>2, <4>1, <4>2
    <3> QED BY <1>3, <3>1, <3>2
  <2> QED BY <1>1, <1>7, <2>1, <2>2, <2>3 DEF NotedInv, DaysOf, AllRows, LifetimeOf
<1>16. ShapeInv'
  BY <1>1, <1>5 DEF ShapeInv, LifetimeOf
<1> QED BY <1>10, <1>14, <1>15, <1>16 DEF OnceInv

(* The ledger after a save: what was stored before is covered by what the  *)
(* snapshot says of it, and a late snapshot was covered before.            *)
LEMMA SaveKeepsNoted ==
    ASSUME Once, OnceInv, NEW s \in inflight, Save(s)
    PROVE  NotedInv'
<1> DEFINE e == s.epoch
           t == s.snapshot.end
           days == s.snapshot.days
<1>1. /\ UNCHANGED <<now, epoch, first>> /\ inflight' \subseteq inflight
      /\ segments' = SaveSegments(segments, s.snapshot)
      /\ ledger' = IF Accepted(segments, s.snapshot)
                     THEN [ledger EXCEPT ![e] = Noted(ledger[e], s.snapshot)]
                     ELSE ledger
  BY DEF Save
<1>2. OwnersInv /\ GrowsInv /\ NotedInv
  BY DEF OnceInv
<1>3. /\ IsSegments(segments) /\ Timed(s.snapshot) /\ now \in Int
      /\ t <= now /\ t \in Int /\ DayLength \in Nat
  BY HistoryAssumption
     DEF Once, HistoryIInv, HistoryTyped, StateTyped, SnapshotsInv, Timed
<1>4. epoch \in {1, 2} /\ e \in 1 .. epoch /\ e \in Epochs /\ e \in {1, 2}
  BY <1>2, EpochNumbers DEF OwnersInv, Once
<1>5. /\ ledger \in [Epochs -> [end : Int, tokens : [Dates -> Int]]]
      /\ \A f \in Epochs : /\ ledger[f].end <= now
                           /\ \A d \in Dates : ledger[f].tokens[d] >= 0
  BY <1>2 DEF Once, LedgerTyped, NotedInv
<1>6. ASSUME NEW d \in DOMAIN days
      PROVE  /\ d \in Dates /\ days[d].totals["tokens"] \in Int
             /\ 0 <= days[d].totals["tokens"]
             /\ LifetimeOf(StoredDay(days[d], t)) = e
             /\ StoredDay(days[d], t).snap = t
             /\ StoredDay(days[d], t).totals = days[d].totals
  BY <1>2, FlightFacts DEF StoredDay
<1>7. ASSUME NEW x \in DaysOf(segments)
      PROVE  /\ x \in Seen /\ x[1] \in Dates /\ x[2].snap \in Int
             /\ x[2].totals["tokens"] \in Int
             /\ LifetimeOf(x[2]) \in 1 .. epoch /\ LifetimeOf(x[2]) \in Epochs
             /\ x[2].snap <= ledger[LifetimeOf(x[2])].end
             /\ x[2].totals["tokens"] <= ledger[LifetimeOf(x[2])].tokens[x[1]]
  <2>1. x \in Seen
    BY DEF Seen
  <2>2. LifetimeOf(x[2]) \in 1 .. epoch /\ 1 .. epoch \subseteq Epochs
    BY <2>1, SeenFacts, EpochNumbers DEF Once
  <2> QED BY <1>2, <2>1, <2>2, SeenFacts DEF NotedInv
<1>8. CASE ~Accepted(segments, s.snapshot)
  <2>1. segments' = segments /\ ledger' = ledger
    BY <1>1, <1>8 DEF SaveSegments
  <2>2. \A x \in Seen : LifetimeOf(x[2])' = LifetimeOf(x[2])
    BY <1>1 DEF LifetimeOf
  <2> QED BY <1>1, <1>2, <1>3, <2>1, <2>2, SameIsNoted
<1>9. CASE Accepted(segments, s.snapshot)
  <2> DEFINE old == ledger[e]
             noted == Noted(old, s.snapshot)
  <2>1. old \in [end : Int, tokens : [Dates -> Int]]
    BY <1>4, <1>5
  <2>2. ledger' = [ledger EXCEPT ![e] = noted]
    BY <1>1, <1>9
  <2>3. ledger'[e] = noted /\ \A f \in Epochs : f # e => ledger'[f] = ledger[f]
    <3> HIDE DEF noted, e
    <3> QED BY <1>4, <1>5, <2>2
(* What the entry of the lifetime says after the save.                     *)
  <2>4. /\ old.end <= noted.end /\ t <= noted.end /\ noted.end <= now
        /\ noted.end \in Int
        /\ \A d \in Dates : noted.tokens[d] >= 0 /\ noted.tokens[d] \in Int
    <3>1. CASE t < old.end
      <4>1. noted = old
        BY <3>1 DEF Noted
      <4>2. old.end <= now /\ \A d \in Dates : old.tokens[d] >= 0
        BY <1>4, <1>5
      <4> HIDE DEF noted, old, t
      <4> QED BY <1>3, <2>1, <3>1, <4>1, <4>2
    <3>2. CASE ~(t < old.end)
      <4>1. noted.end = t
        BY <3>2 DEF Noted
      <4>2. \A d \in Dates : noted.tokens[d] =
                IF d \in DOMAIN days THEN days[d].totals["tokens"] ELSE old.tokens[d]
        BY <3>2 DEF Noted
      <4>3. \A d \in Dates : old.tokens[d] >= 0 /\ old.tokens[d] \in Int
        BY <1>4, <1>5, <2>1
      <4>4. \A d \in Dates : noted.tokens[d] >= 0 /\ noted.tokens[d] \in Int
        <5> HIDE DEF noted, old, days, t, e
        <5> QED BY <1>6, <4>2, <4>3
      <4> HIDE DEF noted, old, t
      <4> QED BY <1>3, <2>1, <3>2, <4>1, <4>4
    <3> QED BY <3>1, <3>2
  <2>5. ASSUME NEW d \in DOMAIN days
        PROVE  days[d].totals["tokens"] <= noted.tokens[d]
    <3>1. CASE t < old.end
      <4>1. noted = old
        BY <3>1 DEF Noted
      <4>2. days[d].totals["tokens"] <= old.tokens[d]
        BY <1>2, <3>1 DEF NotedInv
      <4> QED BY <4>1, <4>2
    <3>2. CASE ~(t < old.end)
      <4>1. noted.tokens[d] = days[d].totals["tokens"]
        BY <1>6, <3>2 DEF Noted
      <4> HIDE DEF noted, days, t, old, e
      <4> QED BY <1>6, <4>1
    <3> QED BY <3>1, <3>2
  <2>6. ASSUME NEW x \in DaysOf(segments), LifetimeOf(x[2]) = e
        PROVE  x[2].snap <= noted.end /\ x[2].totals["tokens"] <= noted.tokens[x[1]]
    <3>1. x[2].snap <= old.end /\ x[2].totals["tokens"] <= old.tokens[x[1]]
      BY <1>7, <2>6
    <3>2. CASE t < old.end
      <4>1. noted = old
        BY <3>2 DEF Noted
      <4> QED BY <3>1, <4>1
    <3>3. CASE ~(t < old.end)
      <4>1. x[2].snap <= t
        <5> HIDE DEF old, t
        <5> QED BY <1>3, <1>7, <2>1, <3>1, <3>3
      <4>2. x[1] \in DOMAIN days /\ x[2].totals["tokens"] <= days[x[1]].totals["tokens"]
        BY <1>2, <1>7, <2>6, <4>1 DEF GrowsInv
      <4>3. days[x[1]].totals["tokens"] <= noted.tokens[x[1]]
        BY <2>5, <4>2
      <4>4. /\ x[2].totals["tokens"] \in Int /\ days[x[1]].totals["tokens"] \in Int
            /\ noted.tokens[x[1]] \in Int /\ x[2].snap \in Int
        <5> HIDE DEF noted, days, t, e
        <5> QED BY <1>6, <1>7, <2>4, <4>2
      <4> HIDE DEF noted, days, t
      <4> QED BY <1>3, <2>4, <4>1, <4>2, <4>3, <4>4
    <3> QED BY <3>2, <3>3
  <2> HIDE DEF noted
  <2>7. \A f \in Epochs : /\ ledger'[f].end <= now
                          /\ \A d \in Dates : ledger'[f].tokens[d] >= 0
    BY <1>5, <2>3, <2>4
  <2>8. ASSUME NEW x \in DaysOf(segments')
        PROVE  /\ x[2].snap <= ledger'[LifetimeOf(x[2])].end
               /\ x[2].totals["tokens"] <= ledger'[LifetimeOf(x[2])].tokens[x[1]]
    <3>1. x \in DaysOf(segments) \/ x \in DaysIn(s.snapshot)
      BY <1>1, <1>3, SaveDays
    <3>2. CASE x \in DaysOf(segments) /\ LifetimeOf(x[2]) = e
      BY <2>3, <2>6, <3>2
    <3>3. CASE x \in DaysOf(segments) /\ LifetimeOf(x[2]) # e
      BY <1>7, <2>3, <3>3
    <3>4. CASE x \in DaysIn(s.snapshot)
      <4>1. PICK d \in DOMAIN days : x = <<d, StoredDay(days[d], t)>>
        BY <3>4 DEF DaysIn
      <4>2. /\ x[1] = d /\ x[2].snap = t /\ x[2].totals = days[d].totals
            /\ LifetimeOf(x[2]) = e
        BY <1>6, <4>1
      <4> QED BY <2>3, <2>4, <2>5, <4>2
    <3> QED BY <3>1, <3>2, <3>3, <3>4
  <2>9. ASSUME NEW r \in inflight', r.snapshot.end < ledger'[r.epoch].end,
               NEW d \in DOMAIN r.snapshot.days
        PROVE  r.snapshot.days[d].totals["tokens"] <= ledger'[r.epoch].tokens[d]
    <3> DEFINE stored == StoredDay(r.snapshot.days[d], r.snapshot.end)
               x == <<d, stored>>
    <3>1. /\ r \in inflight /\ r.epoch \in Epochs /\ x \in Seen
          /\ LifetimeOf(stored) = r.epoch /\ d \in Dates
          /\ r.snapshot.end \in Int /\ r.snapshot.days[d].totals["tokens"] \in Int
      <4>1. r \in inflight
        BY <1>1
      <4>2. 1 .. epoch \subseteq Epochs
        BY EpochNumbers DEF Once
      <4> QED BY <1>2, <4>1, <4>2, FlightFacts
    <3>2. /\ x[1] = d /\ x[2] = stored /\ stored.snap = r.snapshot.end
          /\ stored.totals = r.snapshot.days[d].totals
      BY DEF StoredDay
    <3> HIDE DEF x, stored
    <3>3. r.snapshot.end < ledger[r.epoch].end =>
              r.snapshot.days[d].totals["tokens"] <= ledger[r.epoch].tokens[d]
      BY <1>2, <3>1 DEF NotedInv
    <3>4. CASE r.epoch # e
      BY <2>3, <2>9, <3>1, <3>3, <3>4
    <3>5. CASE r.epoch = e /\ t < old.end
      <4>1. noted = old
        BY <3>5 DEF Noted, noted
      <4> QED BY <2>3, <2>9, <3>3, <3>5, <4>1
    <3>6. CASE r.epoch = e /\ ~(t < old.end)
      <4>1. noted.end = t
        BY <3>6 DEF Noted, noted
      <4>2. stored.snap <= t
        BY <1>3, <2>3, <2>9, <3>1, <3>2, <3>6, <4>1
      <4>3. d \in DOMAIN days /\ stored.totals["tokens"] <= days[d].totals["tokens"]
        BY <1>2, <3>1, <3>2, <3>6, <4>2 DEF GrowsInv
      <4>4. days[d].totals["tokens"] <= noted.tokens[d]
        BY <2>5, <4>3
      <4>5. days[d].totals["tokens"] \in Int /\ noted.tokens[d] \in Int
        BY <1>6, <2>4, <3>1, <4>3
      <4> HIDE DEF days
      <4>6. r.snapshot.days[d].totals["tokens"] <= noted.tokens[d]
        BY <3>1, <3>2, <4>3, <4>4, <4>5
      <4> QED BY <2>3, <3>6, <4>6
    <3> QED BY <3>4, <3>5, <3>6
  <2> QED BY <1>1, <2>7, <2>8, <2>9 DEF NotedInv, DaysOf, AllRows, LifetimeOf
<1> QED BY <1>8, <1>9

(* The date a first segment begins with is that of the first day.          *)
LEMMA FirstDateIsFirst ==
    ASSUME NEW days, IsFiniteSet(DOMAIN days), DOMAIN days \subseteq Int,
           DOMAIN days # {}, \A d \in DOMAIN days : days[d].start \in Int
    PROVE  /\ FirstDate(days) \in DOMAIN days
           /\ \A d \in DOMAIN days : days[FirstDate(days)].start <= days[d].start
<1> DEFINE S == DOMAIN days
           starts == {days[d].start : d \in S}
           same == {d \in S : days[d].start = Min(starts)}
           IsFirst(d) == \A e \in DOMAIN days :
              \/ days[d].start < days[e].start
              \/ days[d].start = days[e].start /\ d <= e
<1>1. IsFiniteSet(starts) /\ starts \subseteq Int /\ starts # {}
  <2> DEFINE f == [d \in S |-> days[d].start]
  <2>1. f \in Surjection(S, starts)
    BY DEF Surjection
  <2> HIDE DEF f
  <2>2. IsFiniteSet(starts)
    BY <2>1, FS_Surjection
  <2> QED BY <2>2
<1>2. Min(starts) \in starts /\ \A t \in starts : Min(starts) <= t
  <2> HIDE DEF starts
  <2> QED BY <1>1, MinIsLeast
<1>3. IsFiniteSet(same) /\ same \subseteq Int /\ same # {}
  <2>1. IsFiniteSet(same)
    BY FS_Subset
  <2>2. same # {}
    BY <1>2
  <2> QED BY <2>1, <2>2
<1>4. Min(same) \in same /\ \A d \in same : Min(same) <= d
  <2> HIDE DEF same
  <2> QED BY <1>3, MinIsLeast
<1>5. Min(same) \in S /\ IsFirst(Min(same))
  <2> DEFINE least == Min(same)
  <2>1. least \in S /\ days[least].start = Min(starts)
    BY <1>4
  <2>2. ASSUME NEW e \in S
        PROVE  \/ days[least].start < days[e].start
               \/ days[least].start = days[e].start /\ least <= e
    <3>1. days[e].start \in Int /\ days[least].start \in Int /\ days[e].start \in starts
      BY <2>1
    <3>2. days[least].start <= days[e].start
      BY <1>2, <2>1, <3>1
    <3>3. days[least].start = days[e].start => least <= e
      BY <1>4, <2>1
    <3> HIDE DEF least, starts, same
    <3> QED BY <3>1, <3>2, <3>3
  <2> QED BY <2>1, <2>2
<1>6. FirstDate(days) = CHOOSE d \in DOMAIN days : IsFirst(d)
  BY DEF FirstDate
<1> HIDE DEF IsFirst, same, starts
<1>7. FirstDate(days) \in DOMAIN days /\ IsFirst(FirstDate(days))
  BY <1>5, <1>6
<1> QED BY <1>7 DEF IsFirst

(* A snapshot's first segment: it has the day of the first request.        *)
LEMMA FirstSaveKeepsShape ==
    ASSUME Once, OnceInv, NEW s \in inflight, Save(s),
           Accepted(segments, s.snapshot), DOMAIN s.snapshot.days # {},
           segments = <<>>
    PROVE  ShapeInv'
<1> DEFINE days == s.snapshot.days
           date == FirstDate(days)
           g == NewSegment(date)
           r == ReplaceDays(g, s.snapshot)
<1>1. /\ UNCHANGED <<now, epoch, first>>
      /\ segments' = SaveSegments(segments, s.snapshot)
  BY DEF Save
<1>2. OwnersInv
  BY DEF OnceInv
<1>3. /\ epoch \in {1, 2} /\ s.epoch \in 1 .. epoch /\ first \in Nat /\ now \in Int
      /\ s.snapshot.end \in Int
  BY <1>2, EpochNumbers DEF OwnersInv, Once, HistoryIInv, HistoryTyped, StateTyped,
                            SnapshotsInv, Timed
<1>4. ASSUME NEW d \in DOMAIN days
      PROVE  /\ d \in Dates /\ d \in Nat
             /\ d * DayLength \in Int /\ (d + 1) * DayLength \in Int
             /\ days[d].start \in Int /\ days[d].end \in Int
             /\ d * DayLength <= days[d].start /\ days[d].start < days[d].end
             /\ days[d].end <= (d + 1) * DayLength
             /\ days[d].end <= s.snapshot.end /\ s.snapshot.end <= now
             /\ epoch = 2 => /\ s.epoch = 1 => s.snapshot.end < first
                             /\ s.epoch = 2 => first <= days[d].start
             /\ LifetimeOf(StoredDay(days[d], s.snapshot.end)) = s.epoch
  BY <1>2, FlightFacts
<1>5. date \in DOMAIN days /\ \A d \in DOMAIN days : days[date].start <= days[d].start
  <2>1. IsFiniteSet(DOMAIN days)
    <3>1. IsFiniteSet(Dates)
      <4>1. Date(LastInstant) \in Int
        BY HistoryAssumption DEF Date
      <4> QED BY <4>1, FS_Interval DEF Dates
    <3>2. DOMAIN days \subseteq Dates
      BY <1>4
    <3> HIDE DEF days
    <3> QED BY <3>1, <3>2, FS_Subset
  <2>2. DOMAIN days \subseteq Int /\ \A d \in DOMAIN days : days[d].start \in Int
    BY <1>4
  <2> HIDE DEF days
  <2> QED BY <2>1, <2>2, FirstDateIsFirst DEF days
<1>6. g.start = date /\ DOMAIN g.days = {} /\ IsSegment(g)
  BY NewSegmentIsSegment
<1> HIDE DEF g, date
<1>7. Replaced(g, s.snapshot) = {d \in DOMAIN days : d >= date}
  BY <1>6 DEF Replaced
<1>8. /\ r.start = date /\ DOMAIN r.days = {d \in DOMAIN days : d >= date}
      /\ \A d \in DOMAIN r.days : r.days[d] = StoredDay(days[d], s.snapshot.end)
  BY <1>6, <1>7, DaysAfter
<1>9. segments' = <<r>>
  <2>1. OpenSegments(segments, s.snapshot) = <<g>>
    BY DEF OpenSegments, g, date
  <2>2. ResetDates(g, s.snapshot) = {}
    BY <1>6 DEF ResetDates, Comparable, MutableDates
  <2> HIDE DEF r
  <2>3. Last(<<g>>) = g /\ Len(<<g>>) = 1
    BY DEF Last
  <2>4. ReplaceAt(<<g>>, 1, r) = <<r>>
    BY DEF ReplaceAt
  <2> QED BY <1>1, <2>1, <2>2, <2>3, <2>4 DEF SaveSegments, r
<1> HIDE DEF r
<1>10. Len(segments') = 1 /\ segments'[1] = r
  BY <1>9
<1>11. date \in Dates /\ date * DayLength \in Int /\ date * DayLength <= days[date].start
       /\ days[date].start \in Int /\ days[date].start < s.snapshot.end
       /\ s.snapshot.end <= now /\ date \in Nat
  <2>1. /\ date \in Dates /\ date \in Nat /\ date * DayLength \in Int
        /\ days[date].start \in Int /\ days[date].end \in Int
        /\ date * DayLength <= days[date].start /\ days[date].start < days[date].end
        /\ days[date].end <= s.snapshot.end /\ s.snapshot.end <= now
    BY <1>4, <1>5
  <2> HIDE DEF days
  <2> QED BY <1>3, <2>1
<1>12. date * DayLength <= now
  BY <1>3, <1>11
<1>13. ASSUME s.epoch = epoch
       PROVE  \E d \in DOMAIN days : days[d].start = first /\ d >= date
  <2>1. PICK d \in DOMAIN days : days[d].start = first
    BY <1>2, <1>13 DEF OwnersInv
  <2>2. /\ d \in Nat /\ d * DayLength <= first /\ first < (d + 1) * DayLength
        /\ (d + 1) * DayLength \in Int
    BY <1>4, <2>1
  <2>3. days[date].start <= first
    BY <1>5, <2>1
  <2> HIDE DEF days
  <2>4. date * DayLength <= first
    BY <1>3, <1>11, <2>3
  <2>5. date <= d
    BY <1>3, <1>11, <2>2, <2>4, SameDate
  <2> QED BY <1>11, <2>1, <2>2, <2>5
<1>14. date * DayLength <= first
  <2>1. CASE s.epoch = epoch
    <3>1. \E d \in DOMAIN days : days[d].start = first
      BY <1>13, <2>1
    <3>2. days[date].start <= first
      BY <1>5, <3>1
    <3> HIDE DEF days
    <3> QED BY <1>3, <1>11, <3>2
  <2>2. CASE s.epoch # epoch
    <3>1. epoch = 2 /\ s.epoch = 1
      BY <1>3, <2>2
    <3>2. s.snapshot.end < first
      BY <1>4, <1>5, <3>1
    <3> HIDE DEF days
    <3> QED BY <1>3, <1>11, <3>2
  <2> QED BY <2>1, <2>2
<1>15. epoch = 2 => \/ \A d \in DOMAIN r.days : LifetimeOf(r.days[d]) = 1
                    \/ \E d \in DOMAIN r.days : r.days[d].start = first
  <2> SUFFICES ASSUME epoch = 2
               PROVE  \/ \A d \in DOMAIN r.days : LifetimeOf(r.days[d]) = 1
                      \/ \E d \in DOMAIN r.days : r.days[d].start = first
    OBVIOUS
  <2>1. CASE s.epoch = 1
    BY <1>4, <1>8, <2>1
  <2>2. CASE s.epoch = 2
    <3>1. PICK d \in DOMAIN days : days[d].start = first /\ d >= date
      BY <1>13, <2>2
    <3>2. d \in DOMAIN r.days /\ r.days[d] = StoredDay(days[d], s.snapshot.end)
      BY <1>8, <3>1
    <3>3. r.days[d].start = days[d].start
      BY <3>2 DEF StoredDay
    <3> QED BY <3>1, <3>2, <3>3
  <2> QED BY <1>3, <2>1, <2>2
<1>16. /\ epoch' = epoch /\ first' = first /\ now' = now
       /\ Len(segments') = 1 /\ segments'[1] = r /\ r.start = date
  BY <1>1, <1>8, <1>10
<1> HIDE DEF days
<1> QED BY <1>11, <1>12, <1>14, <1>15, <1>16 DEF ShapeInv, LifetimeOf

(* Without a reset: only the last segment changes. If upstream was rebuilt *)
(* before a second segment was opened, the day of its first request is in  *)
(* the first one; once there are two, nothing older gets into the second.  *)
LEMMA SameSaveKeepsShape ==
    ASSUME Once, OnceInv, NEW s \in inflight, Save(s),
           Accepted(segments, s.snapshot), DOMAIN s.snapshot.days # {},
           segments # <<>>, ResetDates(Last(segments), s.snapshot) = {}
    PROVE  ShapeInv'
<1> DEFINE days == s.snapshot.days
           t == s.snapshot.end
           k == Len(segments)
           g == segments[k]
           r == ReplaceDays(g, s.snapshot)
           written == Replaced(g, s.snapshot)
<1>1. /\ UNCHANGED <<now, epoch, first>>
      /\ segments' = SaveSegments(segments, s.snapshot)
  BY DEF Save
<1>2. OwnersInv /\ ShapeInv
  BY DEF OnceInv
<1>3. /\ epoch \in {1, 2} /\ s.epoch \in 1 .. epoch /\ first \in Nat /\ now \in Int
      /\ t \in Int /\ Timed(s.snapshot) /\ IsSegments(segments)
  BY <1>2, EpochNumbers DEF OwnersInv, Once, HistoryIInv, HistoryTyped, StateTyped,
                            SnapshotsInv, Timed
<1>4. ASSUME NEW d \in DOMAIN days
      PROVE  /\ d \in Nat
             /\ d * DayLength \in Int /\ (d + 1) * DayLength \in Int
             /\ days[d].start \in Int /\ days[d].end \in Int
             /\ d * DayLength <= days[d].start /\ days[d].start < days[d].end
             /\ days[d].end <= (d + 1) * DayLength /\ days[d].end <= t
             /\ epoch = 2 => /\ s.epoch = 1 => t < first
                             /\ s.epoch = 2 => first <= days[d].start
             /\ LifetimeOf(StoredDay(days[d], t)) = s.epoch
  BY <1>2, FlightFacts
<1>5. k \in Nat /\ k > 0 /\ DOMAIN segments = 1 .. k /\ k \in DOMAIN segments
      /\ g = Last(segments) /\ IsSegment(g) /\ k \in {1, 2}
  <2>1. k \in Nat /\ DOMAIN segments = 1 .. k /\ k > 0 /\ k \in DOMAIN segments
        /\ g = Last(segments) /\ IsSegment(g)
    BY <1>3, SegmentsDomain, LastSegment
  <2>2. k <= 2
    BY <1>2 DEF ShapeInv
  <2> HIDE DEF k
  <2> QED BY <2>1, <2>2
<1>6. segments' = ReplaceAt(segments, k, r)
  <2>1. OpenSegments(segments, s.snapshot) = segments
    BY <1>3, OpenSegmentsAreSegments
  <2> HIDE DEF r
  <2> QED BY <1>1, <1>5, <2>1 DEF SaveSegments, r
<1>7. IsSegment(r)
  BY <1>3, <1>5, ReplacedSegment
<1>8. /\ r.start = g.start /\ DOMAIN r.days = written \cup DOMAIN g.days
      /\ written \subseteq DOMAIN days
      /\ \A d \in written : r.days[d] = StoredDay(days[d], t)
      /\ \A d \in DOMAIN g.days \ written : r.days[d] = g.days[d]
  <2>1. written \subseteq DOMAIN days
    BY DEF Replaced
  <2> HIDE DEF g
  <2> QED BY <1>5, <2>1, DaysAfter
<1> HIDE DEF r
<1>9. /\ Len(segments') = k /\ segments'[k] = r
      /\ k = 2 => segments'[1] = segments[1]
  <2>1. /\ Len(segments') = k /\ segments'[k] = r
        /\ \A i \in 1 .. k - 1 : segments'[i] = segments[i]
    BY <1>3, <1>6, <1>7, ReplaceLastSegment
  <2> HIDE DEF k
  <2> QED BY <2>1
<1>10. \A d \in written : /\ d >= g.start
                          /\ d \in DOMAIN g.days => t >= g.days[d].snap
  BY DEF Replaced
<1>11. \A d \in DOMAIN days : /\ d >= g.start
                              /\ d \in DOMAIN g.days => t >= g.days[d].snap
                              => d \in written
  BY DEF Replaced
<1>12. ASSUME NEW d \in DOMAIN g.days
       PROVE  /\ d \in Nat
              /\ d * DayLength \in Int /\ (d + 1) * DayLength \in Int
              /\ g.days[d].start \in Int /\ g.days[d].end \in Int /\ g.days[d].snap \in Int
              /\ d * DayLength <= g.days[d].start /\ g.days[d].start < g.days[d].end
              /\ g.days[d].end <= (d + 1) * DayLength
              /\ g.days[d].end <= g.days[d].snap
              /\ LifetimeOf(g.days[d]) \in 1 .. epoch
              /\ epoch = 2 => /\ LifetimeOf(g.days[d]) = 1 => g.days[d].snap < first
                              /\ LifetimeOf(g.days[d]) = 2 => first <= g.days[d].start
  BY <1>5, StoredFacts
<1>13. /\ segments[1].start \in Dates
       /\ segments[1].start * DayLength <= first
       /\ segments[1].start * DayLength <= now
  BY <1>2 DEF ShapeInv
<1> HIDE DEF written
<1>14. /\ segments'[1].start = segments[1].start
       /\ segments' # <<>>
  <2>1. segments' # <<>>
    BY <1>5, <1>9
  <2>2. CASE k = 1
    BY <1>8, <1>9, <2>2
  <2>3. CASE k = 2
    BY <1>9, <2>3
  <2> QED BY <1>5, <2>1, <2>2, <2>3
(* One segment: the day of the first request.                              *)
<1>15. ASSUME k = 1, epoch = 2
       PROVE  \/ \A d \in DOMAIN r.days : LifetimeOf(r.days[d]) = 1
              \/ \E d \in DOMAIN r.days : r.days[d].start = first
  <2> HIDE DEF g, k, days, t
  <2>1. \/ \A d \in DOMAIN g.days : LifetimeOf(g.days[d]) = 1
        \/ \E d \in DOMAIN g.days : g.days[d].start = first
    BY <1>2, <1>15 DEF ShapeInv, g, k
  <2>2. CASE s.epoch = 1
    <3>1. CASE \A d \in DOMAIN g.days : LifetimeOf(g.days[d]) = 1
      BY <1>4, <1>8, <2>2, <3>1
    <3>2. CASE \E d \in DOMAIN g.days : g.days[d].start = first
      <4>1. PICK d \in DOMAIN g.days : g.days[d].start = first
        BY <3>2
      <4>2. first < g.days[d].snap /\ g.days[d].snap \in Int
        BY <1>12, <4>1
      <4>3. d \notin written
        <5>1. d \in written => t < first /\ t >= g.days[d].snap
          BY <1>4, <1>8, <1>10, <1>15, <2>2
        <5> QED BY <1>3, <4>2, <5>1
      <4>4. d \in DOMAIN r.days /\ r.days[d] = g.days[d]
        BY <1>8, <4>3
      <4> QED BY <4>1, <4>4
    <3> QED BY <2>1, <3>1, <3>2
  <2>3. CASE s.epoch = 2
    <3>1. PICK d \in DOMAIN days : days[d].start = first
      BY <1>2, <1>15, <2>3 DEF OwnersInv, days
    <3>2. /\ d \in Nat /\ d * DayLength <= first /\ first < (d + 1) * DayLength
          /\ d * DayLength \in Int /\ (d + 1) * DayLength \in Int /\ first < t
      BY <1>3, <1>4, <3>1
    <3>3. d >= g.start
      <4>1. g.start \in Dates /\ g.start * DayLength <= first
        BY <1>13, <1>15 DEF g
      <4>2. g.start \in Nat /\ g.start * DayLength \in Int
        <5> DEFINE start == g.start
        <5>1. start \in Dates
          BY <4>1
        <5> HIDE DEF start
        <5>2. start \in Nat /\ start * DayLength \in Int
          BY <5>1, DatesAreNumbers, DayStart
        <5> QED BY <5>2 DEF start
      <4>3. g.start <= d
        <5> DEFINE start == g.start
        <5>1. start \in Nat /\ start * DayLength <= first
          BY <4>1, <4>2
        <5> HIDE DEF start
        <5>2. start <= d
          BY <1>3, <3>2, <5>1, SameDate
        <5> QED BY <5>2 DEF start
      <4> QED BY <3>2, <4>2, <4>3
    <3>4. CASE d \in written
      <4>1. d \in DOMAIN r.days /\ r.days[d] = StoredDay(days[d], t)
        BY <1>8, <3>4
      <4>2. r.days[d].start = days[d].start
        BY <4>1 DEF StoredDay
      <4> QED BY <3>1, <4>1, <4>2
    <3>5. CASE d \notin written
      <4>1. d \in DOMAIN g.days /\ ~(t >= g.days[d].snap)
        BY <1>11, <3>3, <3>5
      <4>2. LifetimeOf(g.days[d]) = 2
        <5>1. ~(g.days[d].snap < first)
          BY <1>3, <1>12, <3>2, <4>1
        <5> QED BY <1>12, <1>15, <4>1, <5>1
      <4>3. PICK e \in DOMAIN g.days : g.days[e].start = first
        BY <2>1, <4>1, <4>2
      <4>4. /\ e \in Nat /\ e * DayLength <= first /\ first < (e + 1) * DayLength
            /\ e * DayLength \in Int /\ (e + 1) * DayLength \in Int
        BY <1>3, <1>12, <4>3
      <4>5. d = e
        <5>1. d <= e
          BY <1>3, <3>2, <4>4, SameDate
        <5>2. e <= d
          BY <1>3, <3>2, <4>4, SameDate
        <5> QED BY <3>2, <4>4, <5>1, <5>2
      <4>6. d \in DOMAIN r.days /\ r.days[d] = g.days[d]
        BY <1>8, <3>5, <4>1
      <4> QED BY <4>3, <4>5, <4>6
    <3> QED BY <3>4, <3>5
  <2> QED BY <1>3, <1>15, <2>2, <2>3
(* Two segments.                                                           *)
<1>16. ASSUME k = 2
       PROVE  /\ epoch = 2 /\ r.start \in DOMAIN r.days
              /\ \A d \in DOMAIN r.days : LifetimeOf(r.days[d]) = 2
  <2>1. /\ epoch = 2 /\ g.start \in DOMAIN g.days
        /\ \A d \in DOMAIN g.days : LifetimeOf(g.days[d]) = 2
    BY <1>2, <1>16 DEF ShapeInv
  <2> HIDE DEF g, k, days, t
  <2>2. CASE s.epoch = 2
    BY <1>4, <1>8, <2>1, <2>2
  <2>3. CASE s.epoch = 1
    <3>1. ASSUME NEW d \in written PROVE FALSE
      <4> DEFINE start == g.start
      <4>1. /\ d \in Nat /\ d * DayLength \in Int /\ d * DayLength < t /\ t < first
            /\ d >= start
        BY <1>3, <1>4, <1>8, <1>10, <2>1, <2>3, <3>1
      <4>2. /\ start \in Nat /\ first <= g.days[start].start
            /\ g.days[start].start \in Int /\ g.days[start].end \in Int
            /\ g.days[start].snap \in Int /\ (start + 1) * DayLength \in Int
            /\ g.days[start].start < g.days[start].end
            /\ g.days[start].end <= (start + 1) * DayLength
            /\ g.days[start].end <= g.days[start].snap
            /\ start \in DOMAIN g.days
        BY <1>12, <2>1
      <4> HIDE DEF start
      <4>3. d <= start
        <5>1. t < (start + 1) * DayLength
          BY <1>3, <4>1, <4>2
        <5>2. d * DayLength <= t
          BY <1>3, <4>1
        <5> QED BY <1>3, <4>1, <4>2, <5>1, <5>2, SameDate
      <4>4. d = start
        BY <4>1, <4>2, <4>3
      <4>5. t >= g.days[start].snap
        BY <1>10, <3>1, <4>2, <4>4
      <4> QED BY <1>3, <4>1, <4>2, <4>5
    <3> QED BY <1>8, <2>1, <3>1
  <2> QED BY <1>3, <2>1, <2>2, <2>3
<1>17. k = 2 => \A d \in DOMAIN segments[1].days : LifetimeOf(segments[1].days[d]) = 1
  BY <1>2 DEF ShapeInv
<1> HIDE DEF k
<1> QED BY <1>1, <1>5, <1>9, <1>13, <1>14, <1>15, <1>16, <1>17 DEF ShapeInv, LifetimeOf

(* With a reset: the second segment has days of the second lifetime only.  *)
LEMMA ResetSaveKeepsShape ==
    ASSUME Once, OnceInv, NEW s \in inflight, Save(s),
           Accepted(segments, s.snapshot), DOMAIN s.snapshot.days # {},
           segments # <<>>, ResetDates(Last(segments), s.snapshot) # {}
    PROVE  ShapeInv'
<1> DEFINE days == s.snapshot.days
           t == s.snapshot.end
           resets == ResetDates(Last(segments), s.snapshot)
           date == Min(resets)
           c == NewSegment(date)
           r == ReplaceDays(c, s.snapshot)
<1>1. /\ UNCHANGED <<now, epoch, first>>
      /\ segments' = SaveSegments(segments, s.snapshot)
  BY DEF Save
<1>2. OwnersInv /\ ShapeInv
  BY DEF OnceInv
<1>3. /\ Len(segments) = 1 /\ epoch = 2 /\ s.epoch = 2
      /\ \A e \in DOMAIN segments[1].days : LifetimeOf(segments[1].days[e]) = 1
  BY ResetIsRebuild
<1>4. IsSegments(segments) /\ Timed(s.snapshot)
  BY DEF Once, HistoryIInv, HistoryTyped, StateTyped, SnapshotsInv
<1>5. \A d \in resets : d \in DOMAIN days
  BY DEF ResetDates, Comparable
<1>6. \A d \in DOMAIN days : d \in Dates /\ d \in Nat
                             /\ LifetimeOf(StoredDay(days[d], t)) = 2
  BY <1>2, <1>3, FlightFacts
<1>7. date \in resets
  <2>1. resets \subseteq Dates
    BY <1>5, <1>6
  <2> HIDE DEF resets
  <2>2. IsFiniteSet(Dates) /\ Dates \subseteq Int
    <3>1. Date(LastInstant) \in Int
      BY HistoryAssumption DEF Date
    <3>2. IsFiniteSet(Dates)
      BY <3>1, FS_Interval DEF Dates
    <3> QED BY <3>2, DatesAreNumbers
  <2>3. IsFiniteSet(resets) /\ resets \subseteq Int
    BY <2>1, <2>2, FS_Subset
  <2>4. resets # {}
    BY DEF resets
  <2> QED BY <2>3, <2>4, MinIsLeast
<1>8. segments' = Append(segments, r)
  BY OpenSegmentsAreSegments, <1>1, <1>4 DEF SaveSegments
<1> HIDE DEF date, resets
<1>9. date \in DOMAIN days /\ date \in Nat
  BY <1>5, <1>6, <1>7
<1>10. c.start = date /\ DOMAIN c.days = {} /\ IsSegment(c)
  BY NewSegmentIsSegment
<1> HIDE DEF c
<1>11. IsSegment(r)
  BY <1>4, <1>10, ReplacedSegment
<1>12. /\ r.start = date /\ DOMAIN r.days \subseteq DOMAIN days /\ date \in DOMAIN r.days
       /\ \A d \in DOMAIN r.days : r.days[d] = StoredDay(days[d], t)
  <2>1. Replaced(c, s.snapshot) = {d \in DOMAIN days : d >= date}
    BY <1>10 DEF Replaced
  <2>2. /\ r.start = c.start /\ DOMAIN r.days = Replaced(c, s.snapshot) \cup DOMAIN c.days
        /\ \A d \in Replaced(c, s.snapshot) :
               r.days[d] = StoredDay(s.snapshot.days[d], s.snapshot.end)
    <3>1. IsSegment(c)
      BY <1>10
    <3> QED BY <3>1, DaysAfter
  <2> HIDE DEF r
  <2> QED BY <1>9, <1>10, <2>1, <2>2
<1> HIDE DEF r
<1>13. Len(segments') = 2 /\ segments'[1] = segments[1] /\ segments'[2] = r
  <2>1. /\ Len(segments') = Len(segments) + 1
        /\ \A i \in 1 .. Len(segments) : segments'[i] = segments[i]
        /\ segments'[Len(segments) + 1] = r
    BY <1>4, <1>8, <1>11, AppendSegment
  <2> QED BY <1>3, <2>1
<1> QED BY <1>1, <1>2, <1>3, <1>6, <1>12, <1>13 DEF ShapeInv, LifetimeOf

(* A save, whatever the order of the snapshots.                            *)
LEMMA SaveKeepsOnce ==
    ASSUME Once, OnceInv, NEW s \in inflight, Save(s) PROVE OnceInv'
<1>1. /\ UNCHANGED <<now, epoch, first>> /\ inflight' \subseteq inflight
      /\ segments' = SaveSegments(segments, s.snapshot)
  BY DEF Save
<1>2. IsSegments(segments) /\ Timed(s.snapshot)
  BY DEF Once, HistoryIInv, HistoryTyped, StateTyped, SnapshotsInv
<1>3. Seen' \subseteq Seen
  <2>1. DaysOf(segments') \subseteq DaysOf(segments) \cup DaysIn(s.snapshot)
    BY <1>1, <1>2, SaveDays
  <2>2. DaysOf(segments') \subseteq Seen
    BY <2>1 DEF Seen
  <2> QED BY <1>1, <2>2, SeenLess
<1>4. \A day : LifetimeOf(day)' = LifetimeOf(day)
  BY <1>1 DEF LifetimeOf
<1>5. OwnersInv'
  BY <1>1, <1>3 DEF OnceInv, OwnersInv, LifetimeOf
<1>6. GrowsInv'
  BY <1>1, <1>3, <1>4, FewerIsGrown DEF OnceInv
<1>7. NotedInv'
  BY SaveKeepsNoted
<1>8. ShapeInv'
  <2>1. CASE ~Accepted(segments, s.snapshot) \/ DOMAIN s.snapshot.days = {}
    <3>1. segments' = segments
      BY <1>1, <2>1 DEF SaveSegments
    <3> QED BY <1>1, <3>1 DEF OnceInv, ShapeInv, LifetimeOf
  <2> QED BY <2>1, FirstSaveKeepsShape, SameSaveKeepsShape, ResetSaveKeepsShape
<1> QED BY <1>5, <1>6, <1>7, <1>8 DEF OnceInv

(* Nothing is stored, under way or noted at first.                         *)
LEMMA InitOnceInv == Init => OnceInv
<1> SUFFICES ASSUME Init PROVE OnceInv
  OBVIOUS
<1>1. /\ segments = <<>> /\ inflight = {} /\ epoch = 1 /\ now = 0
      /\ ledger = [e \in Epochs |-> [end |-> 0, tokens |-> [d \in Dates |-> 0]]]
  BY DEF Init
<1>2. DaysOf(segments) = {}
  <2>1. DOMAIN segments = {}
    BY <1>1
  <2> QED BY <2>1, DaysOfMember
<1>3. Seen = {}
  BY <1>1, <1>2 DEF Seen
<1>4. OwnersInv /\ GrowsInv
  BY <1>1, <1>3 DEF OwnersInv, GrowsInv
<1>5. \A e \in Epochs : ledger[e].end = 0 /\ \A d \in Dates : ledger[e].tokens[d] = 0
  BY <1>1
<1>6. NotedInv
  BY <1>1, <1>2, <1>5 DEF NotedInv
<1>7. ShapeInv
  BY <1>1 DEF ShapeInv
<1> QED BY <1>4, <1>6, <1>7 DEF OnceInv

(* Until upstream is rebuilt a second time, in whatever order snapshots    *)
(* are saved.                                                              *)
LEMMA SpecOnceInv == Spec => [](~correcting /\ epoch <= 2 => OnceInv)
<1> DEFINE Inv == ~correcting /\ epoch <= 2 => OnceInv
           Known0 == HistoryIInv /\ SumsInv /\ SideInv /\ LedgerTyped
<1>1. Init => Inv
  BY InitOnceInv
<1>2. Known0 /\ Inv /\ [Next]_vars => Inv'
  <2> SUFFICES ASSUME Known0, Inv, [Next]_vars, ~correcting', epoch' <= 2
               PROVE  OnceInv'
    OBVIOUS
  <2>1. correcting' = correcting /\ epoch \in Nat /\ now \in Int
        /\ (epoch' = epoch \/ epoch' = epoch + 1)
    <3>1. epoch \in Nat /\ now \in Int
      BY EpochNumbers DEF HistoryIInv, HistoryTyped, StateTyped
    <3>2. correcting' = correcting /\ (epoch' = epoch \/ epoch' = epoch + 1)
      BY DEF Next, Tick, Rebuild, Fetch, Request, Correct, Save, Lose, vars
    <3> QED BY <3>1, <3>2
  <2>2. Once /\ OnceInv
    BY <2>1 DEF Once
  <2>3. CASE Tick
    BY <2>1, <2>2, <2>3, CalmKeepsOnce DEF Tick
  <2>4. ASSUME NEW s \in inflight, Lose(s) PROVE OnceInv'
    BY <2>1, <2>2, <2>4, CalmKeepsOnce DEF Lose
  <2>5. CASE UNCHANGED vars
    BY <2>1, <2>2, <2>5, CalmKeepsOnce DEF vars
  <2>6. ASSUME NEW m \in Model, Correct(m) PROVE OnceInv'
    BY <2>2, <2>6 DEF Correct, Once
  <2> QED BY <2>2, <2>3, <2>4, <2>5, <2>6, RebuildKeepsOnce, FetchKeepsOnce,
             RequestKeepsOnce, SaveKeepsOnce DEF Next
<1> HIDE DEF Inv
<1>3. Spec => []Inv
  BY <1>1, <1>2, SpecHistoryIInv, SpecSumsInv, SpecOverInv, SpecLedgerIInv, PTL DEF Spec
<1> QED BY <1>3 DEF Inv

(* Of each date a lifetime of upstream has at most one row, and the ledger *)
(* has at least as much of it.                                             *)
LEMMA RowsAreReported ==
    ASSUME Once, OnceInv, NEW d \in Dates
    PROVE  Loaded(d) <= Reported(d)
<1> DEFINE R == RowsOf(segments, d)
           day(r) == segments[r[1]].days[d]
           total == RowTokens(segments, d)
           reports == [e \in Epochs |-> ledger[e].tokens[d]]
           owner == [r \in R |-> LifetimeOf(day(r))]
           used == {owner[r] : r \in R}
           taken == [e \in Epochs |-> IF e \in used THEN reports[e] ELSE 0]
           most == [r \in R |-> reports[owner[r]]]
<1>1. IsFiniteSet(R) /\ Loaded(d) = SumFunctionOnSet(total, R)
  BY AllRowsLoaded, SeenHasBegun DEF Loaded, Once
<1>2. Reported(d) = SumFunctionOnSet(reports, Epochs)
  BY DEF Reported, SumFunction
<1>3. /\ IsFiniteSet(Epochs)
      /\ \A e \in Epochs : reports[e] \in Int /\ 0 <= reports[e]
  <2>1. \A e \in Epochs : ledger[e].tokens[d] \in Int
    BY EpochNumbers DEF Once
  <2>0. IsFiniteSet(Epochs)
    BY EpochNumbers, FS_Interval DEF Once
  <2>2. \A e \in Epochs : ledger[e].tokens[d] >= 0
    BY DEF OnceInv, NotedInv
  <2> QED BY <2>0, <2>1, <2>2
<1>4. ASSUME NEW r \in R
      PROVE  /\ r[1] \in DOMAIN segments /\ d \in DOMAIN segments[r[1]].days
             /\ r = <<r[1], d>> /\ owner[r] \in Epochs
             /\ owner[r] = LifetimeOf(day(r))
             /\ total[r] \in Int /\ total[r] <= reports[owner[r]]
  <2>1. /\ r[1] \in DOMAIN segments /\ d \in DOMAIN segments[r[1]].days
        /\ r = <<r[1], d>> /\ r[2] = d
    BY RowsOfMember DEF RowsOf
  <2>2. owner[r] = LifetimeOf(day(r))
    OBVIOUS
  <2>3. total[r] = Amount(day(r).totals, "tokens")
    BY <2>1 DEF RowTokens
  <2> DEFINE x == <<d, day(r)>>
  <2>4. x \in Seen /\ x \in DaysOf(segments) /\ x[1] = d /\ x[2] = day(r)
    BY <2>1, StoredFacts
  <2> HIDE DEF x, day, total, owner, R
  <2>5. AddsUp(day(r))
    BY <2>4 DEF Once, SumsInv
  <2>6. total[r] = day(r).totals["tokens"] /\ total[r] \in Int
    BY <2>3, <2>5, TotalIsNumber
  <2>7. LifetimeOf(day(r)) \in Epochs
    <3>1. LifetimeOf(x[2]) \in 1 .. epoch /\ 1 .. epoch \subseteq Epochs
      BY <2>4, SeenFacts, EpochNumbers DEF Once
    <3> QED BY <2>4, <3>1
  <2>8. day(r).totals["tokens"] <= ledger[LifetimeOf(day(r))].tokens[d]
    BY <2>4 DEF OnceInv, NotedInv
  <2>9. reports[owner[r]] = ledger[LifetimeOf(day(r))].tokens[d]
    BY <2>2, <2>7
  <2> HIDE DEF reports
  <2> QED BY <2>1, <2>2, <2>6, <2>7, <2>8, <2>9 DEF day
<1>5. ASSUME NEW a \in R, NEW b \in R, owner[a] = owner[b] PROVE a = b
  <2>1. /\ a = <<a[1], d>> /\ a[1] \in DOMAIN segments
        /\ d \in DOMAIN segments[a[1]].days /\ owner[a] = LifetimeOf(day(a))
        /\ b = <<b[1], d>> /\ b[1] \in DOMAIN segments
        /\ d \in DOMAIN segments[b[1]].days /\ owner[b] = LifetimeOf(day(b))
    BY <1>4
  <2> HIDE DEF owner, R
  <2>2. /\ Len(segments) \in Nat /\ Len(segments) <= 2
        /\ DOMAIN segments = 1 .. Len(segments)
    BY SegmentsDomain DEF Once, HistoryIInv, HistoryTyped, StateTyped, OnceInv, ShapeInv
  <2>3. CASE Len(segments) <= 1
    <3>1. a[1] = b[1]
      BY <2>1, <2>2, <2>3
    <3> QED BY <2>1, <3>1
  <2>4. CASE Len(segments) = 2
    <3>1. /\ \A e \in DOMAIN segments[1].days : LifetimeOf(segments[1].days[e]) = 1
          /\ \A e \in DOMAIN segments[2].days : LifetimeOf(segments[2].days[e]) = 2
      BY <2>4 DEF OnceInv, ShapeInv
    <3>2. a[1] \in {1, 2} /\ b[1] \in {1, 2}
      BY <2>1, <2>2, <2>4
    <3>3. owner[a] = a[1] /\ owner[b] = b[1]
      BY <2>1, <3>1, <3>2
    <3> QED BY <1>5, <2>1, <3>3
  <2> QED BY <2>2, <2>3, <2>4
<1> HIDE DEF R, total, reports, day
<1>6. \A r \in R : /\ most[r] = reports[owner[r]] /\ most[r] = taken[owner[r]]
                   /\ most[r] \in Int /\ total[r] \in Int /\ total[r] <= most[r]
                   /\ owner[r] \in Epochs
  <2> SUFFICES ASSUME NEW r \in R
               PROVE  /\ most[r] = reports[owner[r]] /\ most[r] = taken[owner[r]]
                      /\ most[r] \in Int /\ total[r] \in Int /\ total[r] <= most[r]
                      /\ owner[r] \in Epochs
    OBVIOUS
  <2>1. /\ owner[r] \in Epochs /\ total[r] \in Int /\ total[r] <= reports[owner[r]]
        /\ owner[r] \in used
    BY <1>4
  <2> HIDE DEF owner, used
  <2>2. most[r] = reports[owner[r]] /\ taken[owner[r]] = reports[owner[r]]
    BY <2>1
  <2> HIDE DEF most, taken
  <2> QED BY <1>3, <2>1, <2>2
<1>7. \A e \in Epochs : /\ taken[e] \in Int /\ taken[e] <= reports[e]
                        /\ reports[e] \in Int
                        /\ (\A r \in R : owner[r] # e) => taken[e] = 0
  <2> SUFFICES ASSUME NEW e \in Epochs
               PROVE  /\ taken[e] \in Int /\ taken[e] <= reports[e]
                      /\ reports[e] \in Int
                      /\ (\A r \in R : owner[r] # e) => taken[e] = 0
    OBVIOUS
  <2>1. taken[e] = IF e \in used THEN reports[e] ELSE 0
    OBVIOUS
  <2>2. (\A r \in R : owner[r] # e) => e \notin used
    <3> HIDE DEF owner
    <3> QED OBVIOUS
  <2> HIDE DEF taken, used, owner
  <2> QED BY <1>3, <2>1, <2>2
<1> HIDE DEF most, taken, used
<1>8. SumFunctionOnSet(total, R) <= SumFunctionOnSet(most, R)
  BY <1>1, <1>6, SumIsMonotone
<1>9. SumFunctionOnSet(most, R) = SumFunctionOnSet(taken, Epochs)
  <2>1. \A a, b \in R : owner[a] = owner[b] => a = b
    BY <1>5
  <2> HIDE DEF owner
  <2>2. \A r \in R : owner[r] \in Epochs /\ most[r] = taken[owner[r]]
    BY <1>6
  <2>3. \A e \in Epochs : taken[e] \in Int
    BY <1>7
  <2>4. \A e \in Epochs : (\A r \in R : owner[r] # e) => taken[e] = 0
    BY <1>7
  <2>5. IsFiniteSet(R) /\ IsFiniteSet(Epochs)
    BY <1>1, <1>3
  <2> QED BY <2>1, <2>2, <2>3, <2>4, <2>5, SumOfRenamed
<1>10. SumFunctionOnSet(taken, Epochs) <= SumFunctionOnSet(reports, Epochs)
  BY <1>3, <1>7, SumIsMonotone
<1>11. /\ SumFunctionOnSet(total, R) \in Int /\ SumFunctionOnSet(most, R) \in Int
       /\ SumFunctionOnSet(reports, Epochs) \in Int
  BY <1>1, <1>3, <1>6, SumIsInt
<1> QED BY <1>1, <1>2, <1>8, <1>9, <1>10, <1>11

(* Whatever the order in which snapshots are saved, and whatever is lost:  *)
(* as long as upstream only counts upwards and is rebuilt at most once, no *)
(* date of the dashboard has more than its lifetimes reported.             *)
THEOREM SpecNoDoubleCount == Spec => [](~correcting => NoDoubleCount)
<1>1. HistoryIInv /\ SumsInv /\ SideInv /\ LedgerTyped
        /\ (~correcting /\ epoch <= 2 => OnceInv)
        => (~correcting => NoDoubleCount)
  BY RowsAreReported DEF NoDoubleCount, Once
<1> QED BY <1>1, SpecOnceInv, SpecHistoryIInv, SpecSumsInv, SpecOverInv,
           SpecLedgerIInv, PTL
=============================================================================
