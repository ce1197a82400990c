--------------------------- MODULE UsageStoreProofs ---------------------------
(***************************************************************************)
(* Proofs about the SQLite store, for any endpoints, logins and snapshots  *)
(* and any number of segments.                                             *)
(***************************************************************************)
EXTENDS UsageStore, DailySegmentsProofs

-----------------------------------------------------------------------------
(***************************************************************************)
(* How the store recognizes endpoints, for any number of discoveries.      *)
(***************************************************************************)
(* When no other row matches the endpoint, writing the endpoint to the row *)
(* that does keeps all rows apart from each other.                         *)
LEMMA UpdateKeepsDistinct ==
    ASSUME SourcesDistinct, SourcesTyped,
           NEW name \in Name, NEW url \in URL,
           ~Ambiguous(name, url),
           sources' = [id \in DOMAIN sources |->
               IF id \in Matching(name, url) THEN Row(name, url) ELSE sources[id]]
    PROVE  SourcesDistinct'
<1>1. ASSUME NEW i \in DOMAIN sources, NEW j \in DOMAIN sources, i # j
      PROVE  /\ sources'[i].name # sources'[j].name
             /\ sources'[i].url # sources'[j].url
  <2>1. i \notin Matching(name, url) \/ j \notin Matching(name, url)
    BY <1>1 DEF Ambiguous
  <2>2. CASE i \in Matching(name, url)
    <3>1. sources'[i] = Row(name, url) /\ sources'[j] = sources[j]
      BY <2>1, <2>2
    <3>2. sources[j].name # name /\ sources[j].url # url
      BY <2>1, <2>2 DEF Matching
    <3>. QED BY <3>1, <3>2 DEF Row
  <2>3. CASE j \in Matching(name, url)
    <3>1. sources'[j] = Row(name, url) /\ sources'[i] = sources[i]
      BY <2>1, <2>3
    <3>2. sources[i].name # name /\ sources[i].url # url
      BY <2>1, <2>3 DEF Matching
    <3>. QED BY <3>1, <3>2 DEF Row
  <2>4. CASE i \notin Matching(name, url) /\ j \notin Matching(name, url)
    BY <1>1, <2>4 DEF SourcesDistinct
  <2>. QED BY <2>2, <2>3, <2>4
<1>2. DOMAIN sources' = DOMAIN sources
  OBVIOUS
<1>. QED BY <1>1, <1>2 DEF SourcesDistinct

(* A row of a name and a URL that no row has keeps all rows apart.         *)
LEMMA InsertKeepsDistinct ==
    ASSUME SourcesDistinct, SourcesTyped,
           NEW name \in Name, NEW url \in URL,
           Matching(name, url) = {},
           sources' = Append(sources, Row(name, url))
    PROVE  SourcesDistinct'
<1>1. \A i \in DOMAIN sources :
          sources[i].name # name /\ sources[i].url # url
  BY DEF Matching
<1>2. /\ DOMAIN sources' = DOMAIN sources \cup {Len(sources) + 1}
      /\ Len(sources) + 1 \notin DOMAIN sources
      /\ sources'[Len(sources) + 1] = Row(name, url)
      /\ \A i \in DOMAIN sources : sources'[i] = sources[i]
  BY DEF SourcesTyped, Row, SourceRows
<1>3. Row(name, url).name = name /\ Row(name, url).url = url
  BY DEF Row
<1>4. ASSUME NEW i \in DOMAIN sources', NEW j \in DOMAIN sources', i # j
      PROVE  /\ sources'[i].name # sources'[j].name
             /\ sources'[i].url # sources'[j].url
  <2>1. CASE i \in DOMAIN sources /\ j \in DOMAIN sources
    BY <1>2, <1>4, <2>1 DEF SourcesDistinct
  <2>2. CASE i = Len(sources) + 1
    BY <1>1, <1>2, <1>3, <1>4, <2>2
  <2>3. CASE j = Len(sources) + 1
    BY <1>1, <1>2, <1>3, <1>4, <2>3
  <2>. QED BY <1>2, <1>4, <2>1, <2>2, <2>3
<1>. QED BY <1>4 DEF SourcesDistinct

(* The table stays a sequence of rows.                                     *)
LEMMA PersistKeepsType ==
    ASSUME SourcesTyped, NEW name \in Name, NEW url \in URL, PersistSource(name, url)
    PROVE  SourcesTyped'
<1>1. Row(name, url) \in SourceRows
  BY DEF Row, SourceRows
<1>2. CASE sources' = Append(sources, Row(name, url))
  BY <1>1, <1>2 DEF SourcesTyped
<1>3. CASE sources' = [id \in DOMAIN sources |->
               IF id \in Matching(name, url) THEN Row(name, url) ELSE sources[id]]
  <2>1. \A id \in 1 .. Len(sources) : sources'[id] \in SourceRows
    BY <1>1, <1>3 DEF SourcesTyped
  <2>2. sources' \in [1 .. Len(sources) -> SourceRows]
    BY <1>3, <2>1 DEF SourcesTyped
  <2>. QED BY <2>2 DEF SourcesTyped
<1>. QED BY <1>2, <1>3 DEF PersistSource

(* Two endpoints never share a row's name or URL, by which persistAccount  *)
(* looks sources up: no row can become unreachable for its endpoint.       *)
THEOREM SpecSourcesDistinct == SourcesSpec => [](SourcesTyped /\ SourcesDistinct)
<1>1. InitSources => SourcesTyped /\ SourcesDistinct
  BY DEF InitSources, SourcesTyped, SourcesDistinct
<1>2. SourcesTyped /\ SourcesDistinct /\ [NextSources]_sources => (SourcesTyped /\ SourcesDistinct)'
  <2>. SUFFICES ASSUME SourcesTyped, SourcesDistinct, [NextSources]_sources
                PROVE  SourcesTyped' /\ SourcesDistinct'
    OBVIOUS
  <2>1. CASE UNCHANGED sources
    BY <2>1 DEF SourcesTyped, SourcesDistinct
  <2>2. CASE NextSources
    <3>1. PICK name \in Name, url \in URL : PersistSource(name, url)
      BY <2>2 DEF NextSources
    <3>2. CASE Matching(name, url) = {}
      BY <3>1, <3>2, InsertKeepsDistinct, PersistKeepsType DEF PersistSource
    <3>3. CASE Matching(name, url) # {}
      BY <3>1, <3>3, UpdateKeepsDistinct, PersistKeepsType DEF PersistSource
    <3>. QED BY <3>2, <3>3
  <2>. QED BY <2>1, <2>2
<1>. QED BY <1>1, <1>2, PTL DEF SourcesSpec

(* A source is never deleted, and never loses its name and its URL at      *)
(* once: the history stored for it is found by one of the two.             *)
THEOREM SpecIdentityIsKept == SourcesSpec => IdentityIsKept
<1>1. SourcesTyped /\ [NextSources]_sources =>
          [\A id \in DOMAIN sources :
              /\ id \in DOMAIN sources'
              /\ \/ sources'[id].name = sources[id].name
                 \/ sources'[id].url = sources[id].url]_sources
  <2>. SUFFICES ASSUME SourcesTyped, NEW name \in Name, NEW url \in URL,
                       PersistSource(name, url), NEW id \in DOMAIN sources
                PROVE  /\ id \in DOMAIN sources'
                       /\ \/ sources'[id].name = sources[id].name
                          \/ sources'[id].url = sources[id].url
    BY DEF NextSources
  <2>1. CASE sources' = Append(sources, Row(name, url))
    BY <2>1 DEF SourcesTyped, Row, SourceRows
  <2>2. CASE sources' = [i \in DOMAIN sources |->
                IF i \in Matching(name, url) THEN Row(name, url) ELSE sources[i]]
    BY <2>2 DEF Matching, Row
  <2>. QED BY <2>1, <2>2 DEF PersistSource
<1>2. SourcesSpec => []SourcesTyped
  BY SpecSourcesDistinct, PTL
<1>. QED BY <1>1, <1>2, PTL DEF SourcesSpec, IdentityIsKept

-----------------------------------------------------------------------------
(***************************************************************************)
(* The accounts.                                                           *)
(***************************************************************************)
(* Every account belongs to a row and has segments like those a snapshot   *)
(* leaves behind.                                                          *)
HistoryInv ==
    \A a \in DOMAIN history :
        /\ a \in (DOMAIN sources) \X Login
        /\ IsSegments(history[a])
        /\ \A i \in DOMAIN history[a] : WellFormed(history[a][i])

-----------------------------------------------------------------------------
(* The sources. *)
(* SaveDaily does to the sources what persistAccount does.                 *)
LEMMA StoreImplementsSources == Spec => SourcesSpec
<1>1. Init => InitSources
  BY DEF Init
<1>2. [Next]_vars => [NextSources]_sources
  BY DEF Next, SaveDaily, NextSources, vars
<1>3. QED
  BY <1>1, <1>2, PTL DEF Spec, SourcesSpec

(* No row loses its place, and the endpoint has one afterwards.            *)
LEMMA PersistKeepsRows ==
    ASSUME SourcesTyped, NEW name \in Name, NEW url \in URL, PersistSource(name, url)
    PROVE  /\ DOMAIN sources \subseteq DOMAIN sources'
           /\ SourceID(sources', name, url) \in DOMAIN sources'
<1>1. Row(name, url) \in SourceRows /\ Row(name, url).name = name
  BY DEF Row, SourceRows
<1>2. CASE Matching(name, url) = {}
  <2>1. sources' = Append(sources, Row(name, url)) /\ sources \in Seq(SourceRows)
    BY <1>2 DEF PersistSource, SourcesTyped
  <2>2. /\ DOMAIN sources' = DOMAIN sources \cup {Len(sources) + 1}
        /\ sources'[Len(sources) + 1] = Row(name, url)
    BY <1>1, <2>1
  <2>3. QED
    BY <1>1, <2>2 DEF SourceID
<1>3. CASE Matching(name, url) # {}
  <2>1. sources' = [id \in DOMAIN sources |->
               IF id \in Matching(name, url) THEN Row(name, url) ELSE sources[id]]
    BY <1>3 DEF PersistSource
  <2>2. PICK id \in DOMAIN sources : id \in Matching(name, url)
    BY <1>3 DEF Matching
  <2>3. id \in DOMAIN sources' /\ sources'[id].name = name
    BY <1>1, <2>1, <2>2
  <2>4. QED
    BY <2>1, <2>3 DEF SourceID
<1>4. QED
  BY <1>2, <1>3

-----------------------------------------------------------------------------
(* The accounts. *)
(* An account that was never saved has no segments.                        *)
LEMMA AccountSegments ==
    ASSUME HistoryInv, NEW account
    PROVE  /\ IsSegments(Segments(account))
           /\ \A i \in DOMAIN Segments(account) : WellFormed(Segments(account)[i])
<1>1. IsSegments(<<>>)
  <2>1. <<>> \in Seq({<<>>[i] : i \in DOMAIN <<>>})
    OBVIOUS
  <2>2. QED
    BY <2>1 DEF IsSegments
<1>2. QED
  BY <1>1 DEF HistoryInv, Segments

(* The account that SaveDaily writes, and all others.                      *)
LEMMA SavedHistory ==
    ASSUME SourcesTyped, HistoryInv,
           NEW name \in Name, NEW url \in URL, NEW login \in Login, NEW s \in Snapshot,
           SaveDaily(name, url, login, s)
    PROVE  \E account \in (DOMAIN sources') \X Login :
               history' = [a \in DOMAIN history \cup {account} |->
                   IF a = account THEN SaveSegments(Segments(account), s) ELSE history[a]]
BY PersistKeepsRows DEF SaveDaily

(* SaveDaily keeps all accounts well formed.                               *)
LEMMA SaveKeepsHistoryInv ==
    ASSUME SourcesTyped, HistoryInv,
           NEW name \in Name, NEW url \in URL, NEW login \in Login, NEW s \in Snapshot,
           SaveDaily(name, url, login, s)
    PROVE  HistoryInv'
<1>1. PICK account \in (DOMAIN sources') \X Login :
          history' = [a \in DOMAIN history \cup {account} |->
              IF a = account THEN SaveSegments(Segments(account), s) ELSE history[a]]
  BY SavedHistory
<1> DEFINE saved == SaveSegments(Segments(account), s)
<1>2. IsSegments(saved) /\ \A i \in DOMAIN saved : WellFormed(saved[i])
  BY AccountSegments, SnapshotAssumption, DecodedIsTimed, SaveKeepsSegments,
     SaveKeepsWellFormed
<1> HIDE DEF saved
<1>3. DOMAIN sources \subseteq DOMAIN sources'
  BY PersistKeepsRows DEF SaveDaily
<1>4. ASSUME NEW a \in DOMAIN history'
      PROVE  /\ a \in (DOMAIN sources') \X Login
             /\ IsSegments(history'[a])
             /\ \A i \in DOMAIN history'[a] : WellFormed(history'[a][i])
  <2>1. CASE a = account
    <3>1. history'[a] = saved
      BY <1>1, <2>1 DEF saved
    <3>2. QED
      BY <1>2, <2>1, <3>1
  <2>2. CASE a # account
    <3>1. a \in DOMAIN history /\ history'[a] = history[a]
      BY <1>1, <2>2
    <3>2. QED
      BY <1>3, <3>1 DEF HistoryInv
  <2>3. QED
    BY <2>1, <2>2
<1>5. QED
  BY <1>4 DEF HistoryInv

(* Whatever endpoints are discovered and whatever they report: rows stay   *)
(* apart, and accounts keep to rows and to well formed segments.           *)
THEOREM SpecHistoryInv == Spec => [](SourcesTyped /\ SourcesDistinct /\ HistoryInv)
<1>1. Init => HistoryInv
  BY DEF Init, HistoryInv
<1>2. SourcesTyped /\ HistoryInv /\ [Next]_vars => HistoryInv'
  <2> SUFFICES ASSUME SourcesTyped, HistoryInv, [Next]_vars PROVE HistoryInv'
    OBVIOUS
  <2>1. CASE Next
    BY <2>1, SaveKeepsHistoryInv DEF Next
  <2>2. CASE UNCHANGED vars
    BY <2>2 DEF vars, HistoryInv
  <2>3. QED
    BY <2>1, <2>2
<1>3. Spec => [](SourcesTyped /\ SourcesDistinct)
  BY StoreImplementsSources, SpecSourcesDistinct, PTL
<1>4. QED
  BY <1>1, <1>2, <1>3, PTL DEF Spec

(* No SaveDaily leaves two rows with one name or one URL behind, so that   *)
(* none can make an endpoint ambiguous for ever.                           *)
THEOREM StoreSourcesDistinct == Spec => []SourcesDistinct
BY SpecHistoryInv, PTL

(* persistAccount never renames and moves a source at once, and never      *)
(* removes one: what is stored for it stays within reach.                  *)
THEOREM StoreIdentityIsKept == Spec => IdentityIsKept
BY StoreImplementsSources, SpecIdentityIsKept, PTL

(* Each account is found by LoadDaily under the name and the URL of its    *)
(* row, and each stored day lies in its segment and before its snapshot.   *)
THEOREM StoreTypeOK == Spec => []TypeOK
<1>1. SourcesTyped /\ SourcesDistinct /\ HistoryInv => TypeOK
  <2> SUFFICES ASSUME SourcesTyped, SourcesDistinct, HistoryInv PROVE TypeOK
    OBVIOUS
  <2>1. ASSUME NEW a \in DOMAIN history
        PROVE  Found(sources[a[1]].name, sources[a[1]].url, a[2])
    <3> DEFINE name == sources[a[1]].name
               url == sources[a[1]].url
    <3>1. a[1] \in DOMAIN sources /\ a = <<a[1], a[2]>>
      BY DEF HistoryInv
    <3>2. Matching(name, url) = {a[1]}
      BY <3>1 DEF Matching, SourcesDistinct
    <3>3. SourceID(sources, name, url) = a[1]
      BY <3>2 DEF SourceID, Matching
    <3>4. ~Ambiguous(name, url)
      BY <3>2 DEF Ambiguous
    <3>5. QED
      BY <3>1, <3>2, <3>3, <3>4 DEF Found
  <2>2. QED
    BY <2>1 DEF TypeOK, HistoryInv, WellFormed
<1>2. QED
  BY <1>1, SpecHistoryInv, PTL

(* What one SaveDaily keeps of every account.                              *)
LEMMA StepKeepsStored ==
    ASSUME SourcesTyped, HistoryInv, Next, NEW a \in DOMAIN history
    PROVE  /\ a \in DOMAIN history'
           /\ Len(history[a]) <= Len(history'[a])
           /\ \A i \in 1 .. Len(history'[a]) - 1 :
                  i <= Len(history[a]) => history'[a][i] = history[a][i]
           /\ \A i \in DOMAIN history[a] :
                  /\ i \in DOMAIN history'[a]
                  /\ DOMAIN history[a][i].days \subseteq DOMAIN history'[a][i].days
                  /\ \A d \in DOMAIN history[a][i].days :
                         history'[a][i].days[d].snap >= history[a][i].days[d].snap
<1>1. PICK name \in Name, url \in URL, login \in Login, s \in Snapshot :
          SaveDaily(name, url, login, s)
  BY DEF Next
<1>2. PICK account \in (DOMAIN sources') \X Login :
          history' = [b \in DOMAIN history \cup {account} |->
              IF b = account THEN SaveSegments(Segments(account), s) ELSE history[b]]
  BY <1>1, SavedHistory
<1>3. IsSegments(history[a]) /\ Decoded(s)
  BY SnapshotAssumption DEF HistoryInv
<1>4. CASE a = account
  <2>1. history'[a] = SaveSegments(history[a], s) /\ a \in DOMAIN history'
    BY <1>2, <1>4 DEF Segments
  <2>2. QED
    BY <1>3, <2>1, SaveKeepsHistory, DecodedIsTimed
<1>5. CASE a # account
  <2>1. history'[a] = history[a] /\ a \in DOMAIN history'
    BY <1>2, <1>5
  <2>2. Len(history[a]) \in Nat /\ \A i \in DOMAIN history[a] : IsSegment(history[a][i])
    BY <1>3, SegmentsDomain DEF IsSegments
  <2>3. QED
    BY <2>1, <2>2 DEF IsSegment, StoredOk
<1>6. QED
  BY <1>4, <1>5

(* Whatever reports come later, late ones included, after a rebuild of     *)
(* upstream or not: no date that was stored is lost, closed segments are   *)
(* not touched, and no day gives way to one of an earlier snapshot.        *)
THEOREM StoreKeepsStoredDays == Spec => StoredDaysAreKept
<1> DEFINE Kept ==
        \A a \in DOMAIN history :
          /\ a \in DOMAIN history'
          /\ Len(history[a]) <= Len(history'[a])
          /\ \A i \in DOMAIN history[a] :
                 /\ i < Len(history'[a]) => history'[a][i] = history[a][i]
                 /\ \A d \in DOMAIN history[a][i].days :
                        /\ d \in DOMAIN history'[a][i].days
                        /\ history'[a][i].days[d].snap >= history[a][i].days[d].snap
<1>1. SourcesTyped /\ HistoryInv /\ [Next]_vars => [Kept]_vars
  <2> SUFFICES ASSUME SourcesTyped, HistoryInv, Next PROVE Kept
    OBVIOUS
  <2>1. ASSUME NEW a \in DOMAIN history, NEW i \in DOMAIN history[a],
               i < Len(history'[a])
        PROVE  history'[a][i] = history[a][i]
    <3>1. IsSegments(history[a])
      BY DEF HistoryInv
    <3>2. i \in Nat \ {0} /\ i <= Len(history[a])
      BY <3>1, SegmentsDomain
    <3>3. i \in DOMAIN history'[a] /\ Len(history[a]) <= Len(history'[a])
      BY StepKeepsStored
    <3>4. i \in 1 .. Len(history'[a]) - 1
      BY <2>1, <3>2, <3>3
    <3> QED BY <3>2, <3>4, StepKeepsStored
  <2> QED BY <2>1, StepKeepsStored
<1> QED BY <1>1, SpecHistoryInv, PTL DEF Spec, StoredDaysAreKept

(* A retry, or a second task for the same account, adds nothing to what is *)
(* stored, for every snapshot and every history the store can reach.       *)
THEOREM StoreSaveIsIdempotent == Spec => []SaveIsIdempotent
<1>1. HistoryInv => SaveIsIdempotent
  BY SnapshotAssumption, SaveAgain DEF HistoryInv, SaveIsIdempotent
<1>2. QED
  BY <1>1, SpecHistoryInv, PTL
=============================================================================
