----------------------------- MODULE HistorySync -----------------------------
(***************************************************************************)
(* One account's history, from the usage the upstream Copilot API counts,  *)
(* over the snapshots that synchronization fetches, to the days that the   *)
(* store adds up for the dashboard. The upstream database may be rebuilt   *)
(* and then starts counting from nothing; a snapshot may be lost on its    *)
(* way (a failed transaction, a crash), and may arrive late, since calls   *)
(* with a changed credential do not share a task.                          *)
(***************************************************************************)
EXTENDS DailySegments

CONSTANTS
    Model,        \* models the account uses
    DayLength,    \* instants in a day
    LastInstant,  \* bound: the clock stops there
    MaxUse,       \* bound: requests an upstream database counts
    MaxRebuilds,  \* bound: rebuilds of the upstream database
    Tasks,        \* bound: account tasks with different keys at a time
    Corrections   \* whether upstream may take back usage of past dates: the
                  \* possibilities considered

ASSUME HistoryAssumption ==
    /\ DayLength \in Nat \ {0}
    /\ {LastInstant, MaxUse, MaxRebuilds, Tasks} \subseteq Nat
    /\ Corrections \in SUBSET BOOLEAN
    /\ IsFiniteSet(Model)

VARIABLES
    correcting,  \* whether this upstream corrects past dates
    now,         \* the clock, shared with the upstream host
    epoch,       \* rebuilds of the upstream database so far, plus one
    first,       \* time of the first request it knows; Never if none
    usage,       \* its requests, by date and model
    inflight,    \* snapshots fetched and not saved yet, and their epochs
    segments,    \* the account's segments in the store
    ledger,      \* history: per epoch, the latest snapshot the store took
    late         \* history: a snapshot was saved after one taken later

vars == <<correcting, now, epoch, first, usage, inflight, segments, ledger, late>>

Date(t) == t \div DayLength
Dates   == 0 .. Date(LastInstant)
Epochs  == 1 .. MaxRebuilds + 1
Never   == LastInstant + 1

(* All the requests of a date. *)
Requests(use, d) == SumFunction(use[d])

Nothing == [d \in Dates |-> [m \in Model |-> 0]]

Used == SumFunction([d \in Dates |-> Requests(usage, d)])

Init ==
    /\ correcting \in Corrections
    /\ now = 0
    /\ epoch = 1
    /\ first = Never
    /\ usage = Nothing
    /\ inflight = {}
    /\ segments = <<>>
    /\ ledger = [e \in Epochs |-> [end |-> 0, tokens |-> [d \in Dates |-> 0]]]
    /\ late = FALSE

Tick ==
    /\ now < LastInstant
    /\ now' = now + 1
    /\ UNCHANGED <<correcting, epoch, first, usage, inflight, segments, ledger, late>>

(* A request to Copilot. An instant is too short for a report, a request   *)
(* and another report: two of one instant that are under way are the same. *)
Request(m) ==
    /\ Used < MaxUse
    /\ Tasks = 1 \/ \A s \in inflight : s.snapshot.end < now
    /\ usage' = [usage EXCEPT ![Date(now)][m] = @ + 1]
    /\ first' = IF first = Never THEN now ELSE first
    /\ UNCHANGED <<correcting, now, epoch, inflight, segments, ledger, late>>

(* The upstream database is lost; setting up a new one takes an instant. *)
Rebuild ==
    /\ epoch <= MaxRebuilds
    /\ now < LastInstant
    /\ epoch' = epoch + 1
    /\ now' = now + 1
    /\ usage' = Nothing
    /\ first' = Never
    /\ UNCHANGED <<correcting, inflight, segments, ledger, late>>

(* Upstream corrects a past date: a request turns out not to count, or to  *)
(* have used another model.                                                *)
Correct(m) ==
    /\ correcting
    /\ \E d \in Dates :
           /\ d < Date(now)
           /\ usage[d][m] > 0
           /\ LET without == [usage[d] EXCEPT ![m] = @ - 1] IN
              \/ usage' = [usage EXCEPT ![d] = without]
              \/ \E n \in Model \ {m} :
                     usage' = [usage EXCEPT ![d] = [without EXCEPT ![n] = @ + 1]]
    /\ UNCHANGED <<correcting, now, epoch, first, inflight, segments, ledger, late>>

MinOf(a, b) == IF a < b THEN a ELSE b
MaxOf(a, b) == IF a > b THEN a ELSE b

(* The lifetime report: a bucket per date since the first request, the     *)
(* first and the last one cut off; models appear once they are used.       *)
Lifetime ==
    LET start(d) == MaxOf(first, d * DayLength)
        end(d)   == MinOf(now, (d + 1) * DayLength)
        models(d) == {m \in Model : usage[d][m] > 0}
    IN  [end  |-> now,
         days |-> [d \in {x \in Dates : start(x) < end(x)} |->
             [start |-> start(d), end |-> end(d),
              totals |-> [k \in {"tokens"} |-> Requests(usage, d)],
              details |-> [m \in models(d) |-> usage[d][m]]]]]

(* Upstream.Daily of a new account task. *)
Fetch ==
    /\ Cardinality(inflight) < Tasks
    /\ inflight' = inflight \cup {[epoch |-> epoch, snapshot |-> Lifetime]}
    /\ UNCHANGED <<correcting, now, epoch, first, usage, segments, ledger, late>>

(* The counts of the latest snapshot of an epoch that the store took. *)
Noted(entry, snapshot) ==
    IF snapshot.end < entry.end THEN entry
    ELSE [end    |-> snapshot.end,
          tokens |-> [d \in Dates |->
              IF d \in DOMAIN snapshot.days THEN snapshot.days[d].totals["tokens"]
                                           ELSE entry.tokens[d]]]

(* History.SaveDaily, in any order the tasks finish. *)
Save(s) ==
    /\ segments' = SaveSegments(segments, s.snapshot)
    /\ inflight' = inflight \ {s}
    /\ ledger' = IF Accepted(segments, s.snapshot)
                   THEN [ledger EXCEPT ![s.epoch] = Noted(@, s.snapshot)]
                   ELSE ledger
    /\ late' = (late \/ \E e \in Epochs : s.snapshot.end < ledger[e].end)
    /\ UNCHANGED <<correcting, now, epoch, first, usage>>

(* The transaction fails, or the process ends before it commits. *)
Lose(s) ==
    /\ inflight' = inflight \ {s}
    /\ UNCHANGED <<correcting, now, epoch, first, usage, segments, ledger, late>>

Next ==
    \/ Tick \/ Rebuild \/ Fetch
    \/ \E m \in Model : Request(m) \/ Correct(m)
    \/ \E s \in inflight : Save(s) \/ Lose(s)

Spec == Init /\ [][Next]_vars

(* Synchronization goes on, and from some point on its saves succeed. *)
Fairness ==
    /\ WF_vars(Tick)
    /\ WF_vars(Fetch)
    /\ SF_vars(\E s \in inflight : Save(s))

FairSpec == Spec /\ Fairness

-----------------------------------------------------------------------------
(***************************************************************************)
(* Properties.                                                             *)
(***************************************************************************)
Loaded(d) == LoadedTotal(segments, 0, now, d, "tokens")

(* What the account used according to the latest snapshots of all epochs. *)
Reported(d) == SumFunction([e \in Epochs |-> ledger[e].tokens[d]])

AsReported == \A d \in Dates : Loaded(d) = Reported(d)

(* As long as snapshots are saved in the order they were taken: whatever   *)
(* rebuilds, lost snapshots and requests come between two of them, each    *)
(* date of the dashboard is the sum of what every lifetime of the upstream *)
(* database last reported for it: nothing is counted twice or forgotten.   *)
(* With corrections this holds as long as there is but one segment, that   *)
(* is as long as no correction was mistaken for a rebuild.                 *)
LoadedIsReported ==
    /\ ~late
    /\ correcting => epoch = 1 /\ Len(segments) <= 1
    => AsReported

(* Even when snapshots are saved in another order than they were taken,    *)
(* no usage is counted twice, as long as upstream is rebuilt once. After a *)
(* second rebuild a late snapshot of the second lifetime may open a        *)
(* segment that the third one is then stored in again.                     *)
NoDoubleCount == epoch <= 2 => \A d \in Dates : Loaded(d) <= Reported(d)

(* An upstream that never takes anything back is never told that its       *)
(* snapshot is incomplete or invalid, rebuilt or not.                      *)
NeverRefused ==
    \A s \in inflight : s.snapshot.end > 0 => Accepted(segments, s.snapshot)

(* The models of a date add up to its total, over all segments.            *)
ModelsAddUp ==
    \A d \in Dates :
        Loaded(d) = SumFunction([m \in Model |-> LoadedDetail(segments, 0, now, d, m)])

(* A period that starts with date d shows what lifetime shows from d on,   *)
(* even of dates whose first or last bucket was cut off.                   *)
PeriodsAgree ==
    \A d \in Dates :
        /\ LoadedDates(segments, d * DayLength, now)
             = {x \in LoadedDates(segments, 0, now) : x >= d}
        /\ \A x \in Dates : x >= d =>
              LoadedTotal(segments, d * DayLength, now, x, "tokens") = Loaded(x)

(* Usage that the dashboard has shown never disappears from it, although   *)
(* upstream no longer returns the dates before a rebuild.                  *)
LoadedNeverShrinks == [][\A d \in Dates : Loaded(d) <= Loaded(d)']_vars

(* Upstream may correct past dates: what it last reported is never        *)
(* missing from the dashboard, over any number of rebuilds.                *)
NothingForgotten == \A d \in Dates : Reported(d) <= Loaded(d)

Past(d, snapshot) == (d + 1) * DayLength < snapshot.end

(* While upstream was never rebuilt, past dates of the dashboard are those *)
(* of the newest snapshot, corrections included: "newer snapshots may      *)
(* correct past dates".                                                    *)
PastDatesAreCorrected ==
    epoch = 1 =>
        \A d \in Dates : Past(d, ledger[1]) => Loaded(d) = ledger[1].tokens[d]

(* A correction of past dates is never refused as incomplete: only the     *)
(* details of the current date may be.                                     *)
CorrectionsAreTaken ==
    \A s \in inflight :
        s.snapshot.end > 0 /\ ~Accepted(segments, s.snapshot) =>
            \E d \in DOMAIN s.snapshot.days :
                /\ ~Past(d, s.snapshot)
                /\ d \in DOMAIN Last(segments).days
                /\ DetailsRegressed(Last(segments).days[d], s.snapshot.days[d])

(* When requests cease the dashboard catches up with all of them, but for  *)
(* those of an upstream database that was lost before it was read: none of *)
(* an upstream that only counts upwards is refused for ever.               *)
CaughtUp == LET visible == {d \in Dates : MaxOf(first, d * DayLength) < now}
            IN  \A d \in visible : ledger[epoch].tokens[d] = Requests(usage, d)

CatchesUp == ~correcting => <>[](CaughtUp /\ AsReported)
=============================================================================
