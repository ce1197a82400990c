--------------------------- MODULE SourceIdentity ---------------------------
(***************************************************************************)
(* How the store recognizes an endpoint it has seen before: by its name or *)
(* by its URL, either of which may change between two discoveries. The     *)
(* schema makes neither unique; resolveSourceID and persistAccount do.     *)
(***************************************************************************)
EXTENDS Naturals, Sequences

CONSTANTS Name, URL

VARIABLE sources  \* the rows of the table, in the order of their ids

Row(name, url) == [name |-> name, url |-> url]

SourceRows == [name : Name, url : URL]

(* The ids of the rows that have the name or the URL. *)
Matching(name, url) ==
    {id \in DOMAIN sources : sources[id].name = name \/ sources[id].url = url}

(* Mutant: only two rows of the same name make an endpoint ambiguous. *)
MutAmbiguous(name, url) ==
    \E i, j \in Matching(name, url) :
        i # j /\ sources[i].name = name /\ sources[j].name = name

(* Two rows of one name or one URL, or one row each. *)
Ambiguous(name, url) == \E i, j \in Matching(name, url) : i # j

InitSources == sources = <<>>

(* Mutant: the update names no row. *)
MutPersistSource(name, url) ==
    LET ids == Matching(name, url) IN
    /\ ~Ambiguous(name, url)
    /\ \/ /\ ids = {}
          /\ sources' = Append(sources, Row(name, url))
       \/ /\ ids # {}
          /\ sources' = [id \in DOMAIN sources |-> Row(name, url)]

(* The first half of persistAccount: update the row found, or insert one. *)
PersistSource(name, url) ==
    LET ids == Matching(name, url) IN
    /\ ~Ambiguous(name, url)
    /\ \/ /\ ids = {}
          /\ sources' = Append(sources, Row(name, url))
       \/ /\ ids # {}
          /\ sources' = [id \in DOMAIN sources |->
                 IF id \in ids THEN Row(name, url) ELSE sources[id]]

NextSources == \E name \in Name, url \in URL : PersistSource(name, url)

SourcesSpec == InitSources /\ [][NextSources]_sources

-----------------------------------------------------------------------------
SourcesTyped == sources \in Seq(SourceRows)

(* No two rows share a name or a URL, although the schema would let them:  *)
(* otherwise an endpoint, once ambiguous, could never be stored again.     *)
SourcesDistinct ==
    \A i, j \in DOMAIN sources :
        i # j => /\ sources[i].name # sources[j].name
                 /\ sources[i].url # sources[j].url

(* A source keeps its row for ever, and never changes its name and its URL *)
(* at once: its history stays reachable by one of the two.                 *)
IdentityIsKept ==
    [][\A id \in DOMAIN sources :
          /\ id \in DOMAIN sources'
          /\ \/ sources'[id].name = sources[id].name
             \/ sources'[id].url = sources[id].url]_sources
=============================================================================
