-------------------------- MODULE AccountResolution --------------------------
(***************************************************************************)
(* From endpoints to accounts. An endpoint is [source, url, name]; URLs    *)
(* and names are numbers that sort as the texts do, logins are lower-case. *)
(***************************************************************************)
EXTENDS Integers, Sequences, FiniteSets, SequencesExt

CONSTANT Failed   \* the outcome of a request or of a source that failed

(* The elements of S as sort.Slice leaves them; Before tells all apart.    *)
Arranged(S, Before(_, _)) ==
    CHOOSE order \in SetToSeqs(S) :
        \A i, j \in DOMAIN order : i < j => Before(order[i], order[j])

SourceRank(e) == IF e.source = "yaml" THEN 0 ELSE 1

Less(a, b) ==
    \/ SourceRank(a) < SourceRank(b)
    \/ SourceRank(a) = SourceRank(b) /\ a.url < b.url
    \/ SourceRank(a) = SourceRank(b) /\ a.url = b.url /\ a.name < b.name

(* Endpoints in order, equal ones as they came.                            *)
Ordered(items) ==
    LET First(i, j) == Less(items[i], items[j]) \/ (~Less(items[j], items[i]) /\ i < j)
        order == Arranged(DOMAIN items, First)
    IN  [n \in DOMAIN items |-> items[order[n]]]

(* Of endpoints that share a URL or a name with one kept before, none.     *)
Kept(items) ==
    LET Clash(i, j) == items[i].url = items[j].url \/ items[i].name = items[j].name
        kept == CHOOSE K \in SUBSET DOMAIN items : \A i \in DOMAIN items :
                    i \in K <=> \A j \in K : j < i => ~Clash(i, j)
        order == Arranged(kept, <)
    IN  [n \in DOMAIN order |-> items[order[n]]]

(* Mutant: the endpoints stay in the order in which they were found.       *)
MutDeduplicate(items) == Kept(items)

Deduplicate(items) == Kept(Ordered(items))

(* What is discovered: the endpoints file's, then the containers'.         *)
Items(result) == IF result = Failed THEN <<>> ELSE result

Discover(found) == Deduplicate(Items(found.yaml) \o Items(found.docker))

DiscoveryFailures(found) ==
    {<<"discovery", s>> : s \in {x \in DOMAIN found : found[x] = Failed}}

(* One endpoint per login, the first that answered, sorted by login. The   *)
(* usage of an endpoint, by name, is a login or Failed.                    *)
Accounts(endpoints, usage) ==
    LET login(i) == usage[endpoints[i].name]
        first == {i \in DOMAIN endpoints :
                     login(i) # Failed /\ \A j \in 1 .. i - 1 : login(j) # login(i)}
        ByLogin(i, j) == login(i) < login(j)
        order == Arranged(first, ByLogin)
    IN  [n \in DOMAIN order |->
            [login |-> login(order[n]), name |-> endpoints[order[n]].name]]
=============================================================================
