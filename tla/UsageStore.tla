----------------------------- MODULE UsageStore -----------------------------
(***************************************************************************)
(* The SQLite store: sources, their accounts and the accounts' segments.   *)
(* SaveDaily is one transaction on the only connection, so it happens at   *)
(* once or, when a statement, the commit or the context fails, not at all. *)
(* A restart finds the committed state.                                    *)
(***************************************************************************)
EXTENDS DailySegments, SourceIdentity

CONSTANTS
    Login,        \* lower-case logins
    Snapshot,     \* daily reports the upstream may send
    MaxSegments   \* bound: segments per account

ASSUME SnapshotAssumption == \A s \in Snapshot : Decoded(s)

VARIABLE
    history       \* segments by account, an account being <<source id, login>>

vars == <<sources, history>>

Init == InitSources /\ history = <<>>

(* The id of the row that stands for the endpoint in some table of rows. *)
SourceID(rows, name, url) ==
    CHOOSE id \in DOMAIN rows : rows[id].name = name \/ rows[id].url = url

Segments(account) ==
    IF account \in DOMAIN history THEN history[account] ELSE <<>>

(* persistAccount, then the days. A refused snapshot rolls everything back. *)
SaveDaily(name, url, login, snapshot) ==
    /\ ValidDaily(snapshot)
    /\ PersistSource(name, url)
    /\ LET account == <<SourceID(sources', name, url), login>> IN
       /\ Accepted(Segments(account), snapshot)
       /\ history' = [a \in DOMAIN history \cup {account} |->
              IF a = account THEN SaveSegments(Segments(account), snapshot)
                             ELSE history[a]]
       /\ Len(history'[account]) <= MaxSegments

Next == \E name \in Name, url \in URL, login \in Login, s \in Snapshot :
            SaveDaily(name, url, login, s)

Spec == Init /\ [][Next]_vars

(* LoadDaily finds the account by the same rule, without writing. *)
Found(name, url, login) ==
    /\ Matching(name, url) # {}
    /\ ~Ambiguous(name, url)
    /\ <<SourceID(sources, name, url), login>> \in DOMAIN history

-----------------------------------------------------------------------------
(***************************************************************************)
(* Properties.                                                             *)
(***************************************************************************)
(* Every account belongs to a source, is found by its name and URL, and    *)
(* has well formed segments: only dates from the start of the segment,     *)
(* never taken from a snapshot that ended before the day did.              *)
TypeOK ==
    /\ SourcesTyped
    /\ \A a \in DOMAIN history :
           /\ a \in (DOMAIN sources) \X Login
           /\ Found(sources[a[1]].name, sources[a[1]].url, a[2])
           /\ \A i \in DOMAIN history[a] :
                  \A d \in DOMAIN history[a][i].days :
                      LET day == history[a][i].days[d] IN
                      /\ d >= history[a][i].start
                      /\ day.start < day.end
                      /\ day.end <= day.snap

(* What is stored remains, whatever dates a report leaves out, whatever    *)
(* segment it opens and in whatever order reports arrive: closed segments  *)
(* stay as they are, and a day of the last one is only replaced by a day   *)
(* of a snapshot that was not taken earlier.                               *)
StoredDaysAreKept ==
    [][\A a \in DOMAIN history :
          /\ a \in DOMAIN history'
          /\ Len(history[a]) <= Len(history'[a])
          /\ \A i \in DOMAIN history[a] :
                 /\ i < Len(history'[a]) => history'[a][i] = history[a][i]
                 /\ \A d \in DOMAIN history[a][i].days :
                        /\ d \in DOMAIN history'[a][i].days
                        /\ history'[a][i].days[d].snap >= history[a][i].days[d].snap]_vars

(* Saving a snapshot again, as a retry or two tasks of one account do,     *)
(* changes nothing: no day is counted twice.                               *)
SaveIsIdempotent ==
    \A a \in DOMAIN history, s \in Snapshot :
        LET once == SaveSegments(history[a], s) IN SaveSegments(once, s) = once
=============================================================================
