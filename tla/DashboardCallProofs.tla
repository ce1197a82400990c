------------------------- MODULE DashboardCallProofs -------------------------
(***************************************************************************)
(* Proofs about DashboardCall, for any callers, discoveries, usage and     *)
(* number of slots.                                                        *)
(***************************************************************************)
EXTENDS DashboardCall, DailySegmentsProofs

Stages == {"idle", "resolving", "loading", "answered"}

(* The goroutines of a call have all returned before its answer is made,   *)
(* and an idle caller has none.                                            *)
RequestsInv ==
    /\ requests = [c \in Caller |-> requests[c]]
    /\ stage \in [Caller -> Stages]
    /\ \A c \in Caller : stage[c] \in {"idle", "answered"} => Ended(c)

SlotsIInv == RequestsInv /\ IsFiniteSet(OpenRequests) /\ SlotsInv

-----------------------------------------------------------------------------
(* Whether r, the requests of all callers, has c's request k under way.    *)
IsOpen(r, c, k) == k \in DOMAIN r[c] /\ r[c][k] = Open

OpenOf(r) == UNION {{<<c, k>> : k \in {x \in DOMAIN r[c] : r[c][x] = Open}} : c \in Caller}

(* The requests under way are pairs of a caller and a key.                 *)
LEMMA OpenMember ==
    ASSUME NEW r, NEW x
    PROVE  x \in OpenOf(r) <=> \E c \in Caller : \E k \in DOMAIN r[c] : x = <<c, k>> /\ r[c][k] = Open
<1> DEFINE of(c) == {<<c, k>> : k \in {y \in DOMAIN r[c] : r[c][y] = Open}}
<1>1. x \in OpenOf(r) <=> \E c \in Caller : x \in of(c)
  BY DEF OpenOf
<1>2. ASSUME NEW c \in Caller
      PROVE  x \in of(c) <=> \E k \in DOMAIN r[c] : x = <<c, k>> /\ r[c][k] = Open
  OBVIOUS
<1> QED BY <1>1, <1>2

(* A request under way, as a pair.                                         *)
LEMMA OpenPair ==
    ASSUME NEW r, NEW c \in Caller, NEW k
    PROVE  <<c, k>> \in OpenOf(r) <=> IsOpen(r, c, k)
BY OpenMember DEF IsOpen

(* Requests that have the same ones under way.                             *)
LEMMA SameOpen ==
    ASSUME NEW r, NEW q,
           \A c \in Caller : \A k : IsOpen(r, c, k) <=> IsOpen(q, c, k)
    PROVE  OpenOf(r) = OpenOf(q)
<1> SUFFICES ASSUME NEW x PROVE x \in OpenOf(r) <=> x \in OpenOf(q)
  OBVIOUS
<1> QED BY OpenMember DEF IsOpen

(* Requests that have one more under way.                                  *)
LEMMA OneMoreOpen ==
    ASSUME NEW r, NEW q, NEW c \in Caller, NEW k, IsOpen(q, c, k),
           \A d \in Caller : \A x : <<d, x>> # <<c, k>> => (IsOpen(r, d, x) <=> IsOpen(q, d, x))
    PROVE  OpenOf(q) = OpenOf(r) \cup {<<c, k>>}
<1> SUFFICES ASSUME NEW x PROVE x \in OpenOf(q) <=> x \in OpenOf(r) \cup {<<c, k>>}
  OBVIOUS
<1>1. CASE x = <<c, k>>
  BY <1>1, OpenPair
<1>2. CASE x # <<c, k>>
  BY <1>2, OpenMember DEF IsOpen
<1> QED BY <1>1, <1>2

-----------------------------------------------------------------------------
(* There is no request at first.                                           *)
LEMMA InitSlotsIInv == Init => SlotsIInv
<1> SUFFICES ASSUME Init PROVE SlotsIInv
  OBVIOUS
<1> USE DEF Init
<1>1. \A c \in Caller : DOMAIN requests[c] = {}
  OBVIOUS
<1>2. RequestsInv
  BY <1>1 DEF RequestsInv, Stages, Ended
<1>3. OpenRequests = {}
  BY <1>1, OpenMember DEF OpenRequests, OpenOf
<1> QED BY <1>2, <1>3, FS_EmptySet, CallAssumption DEF SlotsIInv, SlotsInv

(* A step that neither starts nor ends a request keeps the slots.          *)
LEMMA SlotsStay ==
    ASSUME SlotsIInv, RequestsInv', slots' = slots,
           \A c \in Caller : \A k : IsOpen(requests, c, k) <=> IsOpen(requests', c, k)
    PROVE  SlotsIInv'
<1>1. OpenRequests' = OpenRequests
  BY SameOpen DEF OpenRequests, OpenOf
<1> QED BY <1>1 DEF SlotsIInv, SlotsInv

(* So does one that gives a caller whose requests have all ended others,   *)
(* none of which is under way.                                             *)
LEMMA NewRequestsStay ==
    ASSUME SlotsIInv, NEW c \in Caller, Ended(c), slots' = slots, NEW r,
           requests' = [requests EXCEPT ![c] = r],
           \A k \in DOMAIN r : r[k] # Open,
           stage' \in [Caller -> Stages],
           \A d \in Caller \ {c} : stage'[d] = stage[d],
           stage'[c] \in {"idle", "answered"} => \A k \in DOMAIN r : r[k] \notin Pending
    PROVE  SlotsIInv'
<1> USE DEF SlotsIInv, RequestsInv
<1>1. /\ requests'[c] = r
      /\ \A d \in Caller \ {c} : requests'[d] = requests[d]
      /\ requests' = [d \in Caller |-> requests'[d]]
  OBVIOUS
<1>2. RequestsInv'
  <2>1. ASSUME NEW d \in Caller, stage'[d] \in {"idle", "answered"} PROVE Ended(d)'
    BY <1>1, <2>1 DEF Ended, Pending
  <2> QED BY <1>1, <2>1
<1>3. \A d \in Caller : \A k : IsOpen(requests, d, k) <=> IsOpen(requests', d, k)
  BY <1>1 DEF IsOpen, Ended, Pending
<1> QED BY <1>2, <1>3, SlotsStay

(* A step of one request of a caller, which is waiting or under way.       *)
LEMMA OneRequest ==
    ASSUME RequestsInv, NEW c \in Caller, NEW k \in DOMAIN requests[c], NEW v,
           requests[c][k] \in Pending, requests' = [requests EXCEPT ![c][k] = v], stage' = stage
    PROVE  /\ RequestsInv'
           /\ requests'[c][k] = v /\ k \in DOMAIN requests'[c]
           /\ \A d \in Caller : \A x : <<d, x>> # <<c, k>> =>
                  (IsOpen(requests, d, x) <=> IsOpen(requests', d, x))
<1> USE DEF RequestsInv
<1>1. /\ requests'[c] = [requests[c] EXCEPT ![k] = v]
      /\ \A d \in Caller \ {c} : requests'[d] = requests[d]
      /\ requests' = [d \in Caller |-> requests'[d]]
  OBVIOUS
<1>2. /\ DOMAIN requests'[c] = DOMAIN requests[c]
      /\ requests'[c][k] = v
      /\ \A x \in DOMAIN requests[c] : x # k => requests'[c][x] = requests[c][x]
  BY <1>1
<1>3. stage[c] \notin {"idle", "answered"}
  BY DEF Ended
<1>4. RequestsInv'
  <2>1. ASSUME NEW d \in Caller, stage'[d] \in {"idle", "answered"} PROVE Ended(d)'
    BY <1>1, <1>3, <2>1 DEF Ended, Pending
  <2> QED BY <1>1, <2>1
<1>5. ASSUME NEW d \in Caller, NEW x, <<d, x>> # <<c, k>>
      PROVE  IsOpen(requests, d, x) <=> IsOpen(requests', d, x)
  <2>1. CASE d = c
    BY <1>2, <1>5, <2>1 DEF IsOpen
  <2>2. CASE d # c
    BY <1>1, <2>2 DEF IsOpen
  <2> QED BY <2>1, <2>2
<1> QED BY <1>2, <1>4, <1>5

-----------------------------------------------------------------------------
(* A request gets a slot if one is free.                                   *)
LEMMA AcquireKeepsSlotsIInv ==
    ASSUME SlotsIInv, NEW c \in Caller, NEW k \in DOMAIN requests[c], Acquire(c, k)
    PROVE  SlotsIInv'
<1> USE DEF SlotsIInv
<1>1. /\ RequestsInv'
      /\ IsOpen(requests', c, k)
      /\ \A d \in Caller : \A x : <<d, x>> # <<c, k>> =>
             (IsOpen(requests, d, x) <=> IsOpen(requests', d, x))
  BY OneRequest DEF Acquire, Pending, IsOpen
<1>2. OpenRequests' = OpenRequests \cup {<<c, k>>}
  BY <1>1, OneMoreOpen DEF OpenRequests, OpenOf
<1>3. <<c, k>> \notin OpenRequests
  BY OpenPair, CallAssumption DEF OpenRequests, OpenOf, IsOpen, Acquire
<1>4. /\ IsFiniteSet(OpenRequests')
      /\ Cardinality(OpenRequests') = Cardinality(OpenRequests) + 1
  BY <1>2, <1>3, FS_AddElement
<1>5. slots \in Nat
  BY FS_CardinalityType DEF SlotsInv
<1> QED BY <1>1, <1>4, <1>5, CallAssumption DEF SlotsInv, Acquire

(* No response is the state of a request under way.                        *)
LEMMA ResponsesAreNotPending ==
    ASSUME NEW k, NEW response \in Responses(k)
    PROVE  response \notin Pending
BY CallAssumption DEF Responses, Pending

(* A request under way that ends gives its slot back.                      *)
LEMMA EndKeepsSlotsIInv ==
    ASSUME SlotsIInv, NEW c \in Caller, NEW k \in DOMAIN requests[c], End(c, k)
    PROVE  SlotsIInv'
<1> USE DEF SlotsIInv
<1>1. PICK response \in Responses(k) : requests' = [requests EXCEPT ![c][k] = response]
  BY DEF End
<1>2. /\ RequestsInv'
      /\ requests'[c][k] = response
      /\ \A d \in Caller : \A x : <<d, x>> # <<c, k>> =>
             (IsOpen(requests, d, x) <=> IsOpen(requests', d, x))
  <2>1. requests[c][k] \in Pending /\ stage' = stage
    BY DEF End, Pending
  <2> QED BY <1>1, <2>1, OneRequest
<1>3. IsOpen(requests, c, k) /\ ~IsOpen(requests', c, k)
  BY <1>2, ResponsesAreNotPending DEF IsOpen, End, Pending
<1>4. OpenRequests = OpenRequests' \cup {<<c, k>>} /\ <<c, k>> \notin OpenRequests'
  BY <1>2, <1>3, OneMoreOpen, OpenPair DEF OpenRequests, OpenOf
<1>5. OpenRequests' = OpenRequests \ {<<c, k>>} /\ <<c, k>> \in OpenRequests
  BY <1>4
<1>6. /\ IsFiniteSet(OpenRequests')
      /\ Cardinality(OpenRequests') = Cardinality(OpenRequests) - 1
  BY <1>5, FS_RemoveElement
<1>7. slots \in Nat
  BY FS_CardinalityType DEF SlotsInv
<1> QED BY <1>2, <1>6, <1>7, CallAssumption DEF SlotsInv, End

(* So does one whose caller is gone.                                       *)
LEMMA AbandonKeepsSlotsIInv ==
    ASSUME SlotsIInv, NEW c \in Caller, NEW k \in DOMAIN requests[c], Abandon(c, k)
    PROVE  SlotsIInv'
<1> USE DEF SlotsIInv
<1>1. /\ RequestsInv'
      /\ requests'[c][k] = Failed
      /\ \A d \in Caller : \A x : <<d, x>> # <<c, k>> =>
             (IsOpen(requests, d, x) <=> IsOpen(requests', d, x))
  <2>1. /\ requests[c][k] \in Pending /\ stage' = stage
        /\ requests' = [requests EXCEPT ![c][k] = Failed]
    BY DEF Abandon, Pending
  <2> QED BY <2>1, OneRequest
<1>2. ~IsOpen(requests, c, k) /\ ~IsOpen(requests', c, k)
  BY <1>1, CallAssumption DEF IsOpen, Abandon
<1>3. \A d \in Caller : \A x : IsOpen(requests, d, x) <=> IsOpen(requests', d, x)
  BY <1>1, <1>2
<1> QED BY <1>1, <1>3, SlotsStay DEF Abandon

-----------------------------------------------------------------------------
(* A call begins with requests that hold no slot.                          *)
LEMMA BeginKeepsSlotsIInv ==
    ASSUME SlotsIInv, NEW c \in Caller, Begin(c)
    PROVE  SlotsIInv'
<1> DEFINE r == NewRequests({<<"usage", e.name>> : e \in ToSet(endpoints'[c])})
<1>1. /\ Ended(c) /\ slots' = slots
      /\ requests' = [requests EXCEPT ![c] = r]
      /\ stage \in [Caller -> Stages] /\ stage' = [stage EXCEPT ![c] = "resolving"]
  BY DEF SlotsIInv, RequestsInv, Begin
<1>2. \A k \in DOMAIN r : r[k] # Open
  BY CallAssumption DEF NewRequests
<1> HIDE DEF r
<1>3. stage' \in [Caller -> Stages] /\ stage'[c] = "resolving"
      /\ \A d \in Caller \ {c} : stage'[d] = stage[d]
  BY <1>1 DEF Stages
<1> QED BY <1>1, <1>2, <1>3, NewRequestsStay

(* So do the requests of the second stage.                                 *)
LEMMA LoadKeepsSlotsIInv ==
    ASSUME SlotsIInv, NEW c \in Caller, Load(c)
    PROVE  SlotsIInv'
<1> DEFINE new == NewRequests(Operations(c) \X {a.name : a \in Selected(c, accounts'[c])})
           r == With(requests[c], new)
<1>1. /\ Ended(c) /\ slots' = slots
      /\ requests' = [requests EXCEPT ![c] = r]
      /\ stage \in [Caller -> Stages] /\ stage' = [stage EXCEPT ![c] = "loading"]
  BY DEF SlotsIInv, RequestsInv, Load
<1>2. \A k \in DOMAIN new : new[k] # Open
  BY CallAssumption DEF NewRequests
<1> HIDE DEF new
<1>3. \A k \in DOMAIN r : r[k] # Open
  <2>1. \A k \in DOMAIN requests[c] : requests[c][k] # Open
    BY <1>1 DEF Ended, Pending
  <2> QED BY <1>2, <2>1 DEF With
<1> HIDE DEF r
<1>4. stage' \in [Caller -> Stages] /\ stage'[c] = "loading"
      /\ \A d \in Caller \ {c} : stage'[d] = stage[d]
  BY <1>1 DEF Stages
<1> QED BY <1>1, <1>3, <1>4, NewRequestsStay

(* Answers from the store take no slot.                                    *)
LEMMA AnswerStoredKeepsSlotsIInv ==
    ASSUME SlotsIInv, NEW c \in Caller, AnswerStored(c)
    PROVE  SlotsIInv'
<1>1. PICK loaded \in [{a.name : a \in Selected(c, accounts[c])} -> {Ok, Failed}] :
          requests' = [requests EXCEPT ![c] = With(@,
                         [k \in {"persistence"} \X DOMAIN loaded |-> loaded[k[2]]])]
  BY DEF AnswerStored
<1> DEFINE new == [k \in {"persistence"} \X DOMAIN loaded |-> loaded[k[2]]]
           r == With(requests[c], new)
<1>2. /\ Ended(c) /\ slots' = slots
      /\ requests' = [requests EXCEPT ![c] = r]
      /\ stage \in [Caller -> Stages] /\ stage' = [stage EXCEPT ![c] = "answered"]
  BY <1>1 DEF SlotsIInv, RequestsInv, AnswerStored
<1>3. ASSUME NEW k \in DOMAIN new PROVE new[k] \notin Pending
  <2>1. k[2] \in DOMAIN loaded /\ new[k] = loaded[k[2]]
    OBVIOUS
  <2>2. new[k] \in {Ok, Failed}
    BY <2>1
  <2> QED BY <2>2, CallAssumption DEF Pending
<1> HIDE DEF new
<1>4. \A k \in DOMAIN r : r[k] \notin Pending
  <2>1. \A k \in DOMAIN requests[c] : requests[c][k] \notin Pending
    BY <1>2 DEF Ended
  <2> QED BY <1>3, <2>1 DEF With
<1> HIDE DEF r
<1>5. stage' \in [Caller -> Stages]
      /\ \A d \in Caller \ {c} : stage'[d] = stage[d]
  BY <1>2 DEF Stages
<1> QED BY <1>2, <1>4, <1>5, NewRequestsStay DEF Pending

(* A call that returns has no request under way.                           *)
LEMMA ReturnKeepsSlotsIInv ==
    ASSUME SlotsIInv, NEW c \in Caller, Return(c)
    PROVE  SlotsIInv'
<1>1. /\ Ended(c) /\ slots' = slots
      /\ requests' = [requests EXCEPT ![c] = <<>>]
      /\ stage \in [Caller -> Stages] /\ stage' = [stage EXCEPT ![c] = "idle"]
  BY DEF SlotsIInv, RequestsInv, Return
<1>2. stage' \in [Caller -> Stages]
      /\ \A d \in Caller \ {c} : stage'[d] = stage[d]
  BY <1>1 DEF Stages
<1>3. DOMAIN <<>> = {}
  OBVIOUS
<1> QED BY <1>1, <1>2, <1>3, NewRequestsStay

(* Requests that stay as they are, of callers that change their stage only *)
(* once theirs have ended.                                                 *)
LEMMA StageKeepsSlotsIInv ==
    ASSUME SlotsIInv, slots' = slots, requests' = requests, stage' \in [Caller -> Stages],
           \A c \in Caller : stage'[c] = stage[c] \/ Ended(c)
    PROVE  SlotsIInv'
<1>1. RequestsInv'
  BY DEF SlotsIInv, RequestsInv, Ended, Pending
<1> QED BY <1>1, SlotsStay

(* Every step keeps the slots.                                             *)
LEMMA NextKeepsSlotsIInv == SlotsIInv /\ [Next]_vars => SlotsIInv'
<1> SUFFICES ASSUME SlotsIInv, [Next]_vars PROVE SlotsIInv'
  OBVIOUS
<1>s. stage \in [Caller -> Stages]
  BY DEF SlotsIInv, RequestsInv
<1>1. ASSUME NEW c \in Caller, Begin(c) PROVE SlotsIInv'
  BY <1>1, BeginKeepsSlotsIInv
<1>2. ASSUME NEW c \in Caller, Disconnect(c) PROVE SlotsIInv'
  BY <1>2, <1>s, StageKeepsSlotsIInv DEF Disconnect
<1>3. ASSUME NEW c \in Caller, Progress(c) PROVE SlotsIInv'
  <2>1. CASE Load(c)
    BY <2>1, LoadKeepsSlotsIInv
  <2>2. CASE AnswerLive(c) \/ AnswerEvents(c)
    <3>1. /\ Ended(c) /\ slots' = slots /\ requests' = requests
          /\ stage' = [stage EXCEPT ![c] = "answered"]
      BY <2>2 DEF AnswerLive, AnswerEvents
    <3>2. stage' \in [Caller -> Stages] /\ \A d \in Caller : stage'[d] = stage[d] \/ Ended(d)
      BY <3>1, <1>s DEF Stages
    <3> QED BY <3>1, <3>2, StageKeepsSlotsIInv
  <2>3. CASE AnswerStored(c)
    BY <2>3, AnswerStoredKeepsSlotsIInv
  <2>4. CASE Return(c)
    BY <2>4, ReturnKeepsSlotsIInv
  <2> QED BY <1>3, <2>1, <2>2, <2>3, <2>4 DEF Progress
<1>4. ASSUME NEW c \in Caller, NEW k \in DOMAIN requests[c],
             Acquire(c, k) \/ Abandon(c, k) \/ End(c, k)
      PROVE  SlotsIInv'
  BY <1>4, AcquireKeepsSlotsIInv, AbandonKeepsSlotsIInv, EndKeepsSlotsIInv
<1>5. CASE UNCHANGED vars
  BY <1>5, <1>s, StageKeepsSlotsIInv DEF vars
<1> QED BY <1>1, <1>2, <1>3, <1>4, <1>5 DEF Next

-----------------------------------------------------------------------------
(* Whatever fails, times out or loses its client, in any number of calls:  *)
(* the channel Client.limit holds one element for each request under way,  *)
(* so that no slot is lost, and never more than MaxConcurrency.            *)
THEOREM SpecSlotsInv == Spec => []SlotsInv
<1>1. SlotsIInv => SlotsInv
  BY DEF SlotsIInv
<1> QED BY <1>1, InitSlotsIInv, NextKeepsSlotsIInv, PTL DEF Spec

-----------------------------------------------------------------------------
(***************************************************************************)
(* What is kept when one element after another is taken unless it clashes  *)
(* with one taken before. Relations are given as sets of pairs.            *)
(***************************************************************************)
Greedy(S, K, before, clash) ==
    /\ K \subseteq S
    /\ \A x \in S :
           x \in K <=> \A y \in K : <<y, x>> \in before => <<y, x>> \notin clash

(* The least element.                                                      *)
LEMMA LeastExists ==
    ASSUME NEW S, IsFiniteSet(S), S # {}, NEW before, StrictOrder(S, before)
    PROVE  \E x \in S : \A y \in S \ {x} : <<x, y>> \in before
<1> DEFINE after == {p \in S \X S : <<p[2], p[1]>> \in before}
<1>1. \A x, y \in S : <<x, y>> \in after <=> <<y, x>> \in before
  OBVIOUS
<1> HIDE DEF after
<1>2. StrictOrder(S, after)
  BY <1>1 DEF StrictOrder
<1>3. PICK x \in S : \A y \in S \ {x} : <<y, x>> \in after
  BY <1>2, GreatestExists
<1> QED BY <1>1, <1>3

(* There is always such a set.                                             *)
LEMMA GreedyExists ==
    ASSUME NEW S, IsFiniteSet(S), NEW before, StrictOrder(S, before), NEW clash
    PROVE  \E K : Greedy(S, K, before, clash)
<1> DEFINE T == {s \in SUBSET S : \E K : Greedy(s, K, before, clash)}
<1>1. ASSUME NEW s \in SUBSET S, \A t \in SUBSET s : t # s => t \in T
      PROVE  s \in T
  <2>1. CASE s = {}
    <3>1. Greedy(s, {}, before, clash)
      BY <2>1 DEF Greedy
    <3> QED BY <3>1
  <2>2. CASE s # {}
    <3>1. IsFiniteSet(s) /\ StrictOrder(s, before)
      BY FS_Subset DEF StrictOrder
    <3>2. PICK z \in s : \A y \in s \ {z} : <<y, z>> \in before
      BY <2>2, <3>1, GreatestExists
    <3>3. PICK L : Greedy(s \ {z}, L, before, clash)
      BY <1>1, <3>2
    <3>4. \A y \in s : <<z, y>> \notin before
      BY <3>1, <3>2 DEF StrictOrder
    <3>5. CASE \A y \in L : <<y, z>> \in before => <<y, z>> \notin clash
      <4>1. Greedy(s, L \cup {z}, before, clash)
        BY <3>1, <3>3, <3>4, <3>5 DEF Greedy
      <4> QED BY <4>1
    <3>6. CASE ~\A y \in L : <<y, z>> \in before => <<y, z>> \notin clash
      <4>1. Greedy(s, L, before, clash)
        BY <3>3, <3>6 DEF Greedy
      <4> QED BY <4>1
    <3> QED BY <3>5, <3>6
  <2> QED BY <2>1, <2>2
<1>2. S \in T
  <2> HIDE DEF T
  <2> QED BY <1>1, SubsetInduction
<1> QED BY <1>2

(* There is one only.                                                      *)
LEMMA GreedyIsUnique ==
    ASSUME NEW S, IsFiniteSet(S), NEW before, StrictOrder(S, before), NEW clash,
           NEW K, Greedy(S, K, before, clash), NEW L, Greedy(S, L, before, clash)
    PROVE  K = L
<1> DEFINE differ == (K \ L) \cup (L \ K)
<1>1. ASSUME differ # {} PROVE FALSE
  <2>1. differ \in SUBSET S
    BY DEF Greedy
  <2> HIDE DEF differ
  <2>2. IsFiniteSet(differ) /\ StrictOrder(differ, before)
    BY <2>1, FS_Subset DEF StrictOrder
  <2>3. PICK x \in differ : \A y \in differ \ {x} : <<x, y>> \in before
    BY <1>1, <2>2, LeastExists
  <2>4. \A y \in S : <<y, x>> \in before => y \notin differ
    BY <2>1, <2>3 DEF StrictOrder
  <2>5. \A y \in S : <<y, x>> \in before => (y \in K <=> y \in L)
    BY <2>4 DEF differ
  <2>6. x \in K <=> x \in L
    BY <2>1, <2>3, <2>5 DEF Greedy
  <2> QED BY <2>3, <2>6 DEF differ
<1> QED BY <1>1

(* A sequence without repetition arranges what is in it.                   *)
LEMMA IsArrangement ==
    ASSUME NEW S, NEW n \in Nat, NEW f \in [1 .. n -> S],
           \A i, j \in 1 .. n : f[i] = f[j] => i = j,
           \A x \in S : \E i \in 1 .. n : f[i] = x
    PROVE  f \in SetToSeqs(S) /\ IsFiniteSet(S) /\ Cardinality(S) = n
<1> DEFINE D == 1 .. n
<1>1. IsFiniteSet(D) /\ Cardinality(D) = n
  BY FS_Interval
<1>2. f \in [D -> S] /\ (\A i, j \in D : f[i] = f[j] => i = j) /\ \A x \in S : \E i \in D : f[i] = x
  OBVIOUS
<1> HIDE DEF D
<1>3. f \in Bijection(D, S)
  BY <1>2, Fun_IsBij
<1>4. ExistsBijection(D, S)
  BY <1>3, Fun_ExistsBij
<1>5. IsFiniteSet(S) /\ Cardinality(S) = n
  BY <1>1, <1>4, FS_Bijection
<1> QED BY <1>5 DEF SetToSeqs

-----------------------------------------------------------------------------
(***************************************************************************)
(* Endpoints.                                                              *)
(***************************************************************************)
Endpoint == [source : {"yaml", "docker"}, url : Nat, name : DOMAIN Usage]

LessPairs  == {p \in Endpoint \X Endpoint : Less(p[1], p[2])}
ClashPairs == {p \in Endpoint \X Endpoint : p[1].url = p[2].url \/ p[1].name = p[2].name}
Places     == {p \in Int \X Int : p[1] < p[2]}

(* Places in a sequence are in order.                                      *)
LEMMA PlacesAreOrdered ==
    ASSUME NEW S, S \subseteq Int
    PROVE  StrictOrder(S, Places) /\ \A i, j \in S : <<i, j>> \in Places <=> i < j
BY DEF StrictOrder, Places

(* Less is an order of all endpoints.                                      *)
LEMMA LessIsOrder ==
    /\ \A a, b \in Endpoint : <<a, b>> \in LessPairs <=> Less(a, b)
    /\ \A a, b \in Endpoint : <<a, b>> \in ClashPairs <=> a.url = b.url \/ a.name = b.name
    /\ StrictOrder(Endpoint, LessPairs)
<1>1. /\ \A a, b \in Endpoint : <<a, b>> \in LessPairs <=> Less(a, b)
      /\ \A a, b \in Endpoint : <<a, b>> \in ClashPairs <=> a.url = b.url \/ a.name = b.name
  BY DEF LessPairs, ClashPairs
<1>2. \A a \in Endpoint : SourceRank(a) \in {0, 1} /\ a.url \in Int /\ a.name \in Int
  BY UsageAssumption DEF SourceRank, Endpoint
<1>3. \A a, b \in Endpoint :
          SourceRank(a) = SourceRank(b) /\ a.url = b.url /\ a.name = b.name => a = b
  BY DEF SourceRank, Endpoint
<1>4. \A a \in Endpoint : ~Less(a, a)
  BY <1>2 DEF Less
<1>5. \A a, b, c \in Endpoint : Less(a, b) /\ Less(b, c) => Less(a, c)
  BY <1>2 DEF Less
<1>6. \A a, b \in Endpoint : a # b => Less(a, b) \/ Less(b, a)
  BY <1>2, <1>3 DEF Less
<1> QED BY <1>1, <1>4, <1>5, <1>6 DEF StrictOrder

(* Endpoints in order: those that there were, none after one that is less. *)
LEMMA OrderedIs ==
    ASSUME NEW items \in Seq(Endpoint)
    PROVE  LET n == Len(items)
               o == Ordered(items)
           IN  /\ n \in Nat /\ o \in [1 .. n -> Endpoint]
               /\ \A i, j \in 1 .. n : i < j => ~Less(o[j], o[i])
               /\ \A i \in 1 .. n : \E j \in 1 .. n : o[i] = items[j]
               /\ \A j \in 1 .. n : \E i \in 1 .. n : o[i] = items[j]
<1> DEFINE n == Len(items)
           D == 1 .. n
           First(i, j) == Less(items[i], items[j]) \/ (~Less(items[j], items[i]) /\ i < j)
           InOrder_(o) == \A i, j \in DOMAIN o : i < j => First(o[i], o[j])
           before == {p \in D \X D : First(p[1], p[2])}
           order == CHOOSE o \in SetToSeqs(DOMAIN items) : InOrder_(o)
<1>1. n \in Nat /\ DOMAIN items = D /\ \A i \in D : items[i] \in Endpoint
  OBVIOUS
<1> HIDE DEF n
<1>2. IsFiniteSet(D) /\ D \subseteq Int /\ D = 1 .. Cardinality(D)
  <2>1. IsFiniteSet(D) /\ Cardinality(D) = n /\ D \subseteq Int
    BY <1>1, FS_Interval
  <2>2. \A c : c = n => D = 1 .. c
    OBVIOUS
  <2> QED BY <2>1, <2>2
<1>3. \A i, j \in D : <<i, j>> \in before <=> First(i, j)
  OBVIOUS
<1>4. Ordered(items) = [k \in D |-> items[order[k]]]
  BY <1>1 DEF Ordered, Arranged
<1> HIDE DEF D, before
<1>5. StrictOrder(D, before)
  <2>1. \A a, b, c \in Endpoint : /\ ~Less(a, a)
                                  /\ Less(a, b) /\ Less(b, c) => Less(a, c)
                                  /\ Less(a, b) => ~Less(b, a)
                                  /\ a = b \/ Less(a, b) \/ Less(b, a)
    BY LessIsOrder DEF StrictOrder
  <2>2. \A i \in D : <<i, i>> \notin before
    BY <1>1, <1>2, <1>3, <2>1
  <2>3. \A i, j, k \in D : <<i, j>> \in before /\ <<j, k>> \in before => <<i, k>> \in before
    BY <1>1, <1>2, <1>3, <2>1
  <2>4. \A i, j \in D : i # j => <<i, j>> \in before \/ <<j, i>> \in before
    BY <1>1, <1>2, <1>3, <2>1
  <2> QED BY <2>2, <2>3, <2>4 DEF StrictOrder
<1>6. PICK o \in SetToSeqs(D) : Increasing(o, before)
  BY <1>2, <1>5, ArrangementExists
<1>7. \A s \in SetToSeqs(D) : DOMAIN s = D /\ s \in [D -> D] /\ \A k \in D : \E i \in D : s[i] = k
  <2> SUFFICES ASSUME NEW s \in SetToSeqs(D)
               PROVE  DOMAIN s = D /\ s \in [D -> D] /\ \A k \in D : \E i \in D : s[i] = k
    OBVIOUS
  <2>1. /\ DOMAIN s = 1 .. Cardinality(D) /\ s \in [1 .. Cardinality(D) -> D]
        /\ \A k \in D : \E i \in DOMAIN s : s[i] = k
    BY <1>2, ArrangementShape
  <2> QED BY <1>2, <2>1
<1> HIDE DEF First
<1>8. InOrder_(o)
  BY <1>3, <1>6, <1>7 DEF Increasing
<1> HIDE DEF InOrder_
<1>9. order \in SetToSeqs(D) /\ InOrder_(order)
  BY <1>1, <1>6, <1>8
<1> HIDE DEF order
<1>10. ASSUME NEW i \in D, NEW j \in D, i < j
       PROVE  ~Less(Ordered(items)[j], Ordered(items)[i])
  <2>1. order[i] \in D /\ order[j] \in D /\ First(order[i], order[j])
    BY <1>7, <1>9, <1>10 DEF InOrder_
  <2>2. /\ Ordered(items)[i] = items[order[i]] /\ Ordered(items)[j] = items[order[j]]
        /\ items[order[i]] \in Endpoint /\ items[order[j]] \in Endpoint
    BY <1>1, <1>4, <2>1
  <2>3. Less(items[order[i]], items[order[j]]) => ~Less(items[order[j]], items[order[i]])
    BY <2>2, LessIsOrder DEF StrictOrder
  <2> QED BY <2>1, <2>2, <2>3 DEF First
<1>11. Ordered(items) \in [D -> Endpoint]
  BY <1>1, <1>4, <1>7, <1>9
<1>12. /\ \A i \in D : \E j \in D : Ordered(items)[i] = items[j]
       /\ \A j \in D : \E i \in D : Ordered(items)[i] = items[j]
  <2>1. order \in [D -> D] /\ \A k \in D : \E i \in D : order[i] = k
    BY <1>7, <1>9
  <2>2. \A i \in D : Ordered(items)[i] = items[order[i]]
    BY <1>4
  <2> QED BY <2>1, <2>2
<1> QED BY <1>1, <1>10, <1>11, <1>12 DEF D, n

(* The places K, in the order a, are what is kept of a list o.             *)
KeptAs(n, o, clash, K, a) ==
    /\ K \in SUBSET (1 .. n) /\ IsFiniteSet(K) /\ Greedy(1 .. n, K, Places, clash)
    /\ a \in SetToSeqs(K) /\ Increasing(a, Places)
    /\ Kept(o) = [m \in DOMAIN a |-> o[a[m]]]

(* What is kept of a list, in its order.                                   *)
LEMMA KeptIs ==
    ASSUME NEW n \in Nat, NEW o \in [1 .. n -> Endpoint], NEW clash,
           \A i, j \in 1 .. n :
               <<i, j>> \in clash <=> o[i].url = o[j].url \/ o[i].name = o[j].name
    PROVE  \E K, a : KeptAs(n, o, clash, K, a)
<1> DEFINE D == 1 .. n
           Clash(i, j) == o[i].url = o[j].url \/ o[i].name = o[j].name
           Fits(K) == \A i \in DOMAIN o : i \in K <=> \A j \in K : j < i => ~Clash(i, j)
           kept == CHOOSE K \in SUBSET DOMAIN o : Fits(K)
           Up(a) == \A i, j \in DOMAIN a : i < j => a[i] < a[j]
           order == CHOOSE a \in SetToSeqs(kept) : Up(a)
<1>1. DOMAIN o = D /\ IsFiniteSet(D) /\ D \subseteq Int
  BY FS_Interval
<1>2. Kept(o) = [m \in DOMAIN order |-> o[order[m]]]
  BY DEF Kept, Arranged
<1>3. StrictOrder(D, Places) /\ \A i, j \in D : <<i, j>> \in Places <=> i < j
  BY <1>1, PlacesAreOrdered
<1>4. \A i, j \in D : <<i, j>> \in clash <=> Clash(j, i)
  OBVIOUS
<1> HIDE DEF D, Clash
<1>5. \A K \in SUBSET D : Fits(K) <=> Greedy(D, K, Places, clash)
  BY <1>1, <1>3, <1>4 DEF Greedy
<1>6. PICK K : Greedy(D, K, Places, clash)
  BY <1>1, <1>3, GreedyExists
<1>7. K \in SUBSET DOMAIN o /\ Fits(K)
  BY <1>1, <1>5, <1>6 DEF Greedy
<1> HIDE DEF Fits
<1>8. kept \in SUBSET D /\ Fits(kept)
  BY <1>1, <1>7
<1> HIDE DEF kept
<1>9. IsFiniteSet(kept) /\ Greedy(D, kept, Places, clash) /\ kept \subseteq Int
  BY <1>1, <1>5, <1>8, FS_Subset
<1>10. PICK a \in SetToSeqs(kept) : Increasing(a, Places)
  BY <1>9, PlacesAreOrdered, ArrangementExists
<1>11. \A s \in SetToSeqs(kept) : Up(s) <=> Increasing(s, Places)
  <2> SUFFICES ASSUME NEW s \in SetToSeqs(kept) PROVE Up(s) <=> Increasing(s, Places)
    OBVIOUS
  <2>1. \A i \in DOMAIN s : s[i] \in D
    <3>1. DOMAIN s = 1 .. Cardinality(kept) /\ s \in [1 .. Cardinality(kept) -> kept]
      BY <1>9, ArrangementShape
    <3> QED BY <1>8, <3>1
  <2> QED BY <1>3, <2>1 DEF Increasing
<1>12. Up(a)
  BY <1>10, <1>11
<1> HIDE DEF Up
<1>13. order \in SetToSeqs(kept) /\ Up(order)
  BY <1>10, <1>12
<1> HIDE DEF order
<1>14. KeptAs(n, o, clash, kept, order)
  BY <1>2, <1>8, <1>9, <1>11, <1>13 DEF D, KeptAs
<1> QED BY <1>14

(* Deduplicate keeps the same of the same endpoints, in whatever order and *)
(* however often they are listed: what is kept, one after another by Less, *)
(* as long as it shares no URL and no name with what was kept before.      *)
LEMMA DeduplicateIs ==
    ASSUME NEW items \in Seq(Endpoint)
    PROVE  LET E == ToSet(items)
               result == Deduplicate(items)
               G == ToSet(result)
           IN  /\ IsFiniteSet(E) /\ E \subseteq Endpoint
               /\ Greedy(E, G, LessPairs, ClashPairs)
               /\ result \in SetToSeqs(G) /\ IsFiniteSet(G)
               /\ Increasing(result, LessPairs)
<1> DEFINE n == Len(items)
           D == 1 .. n
           o == Ordered(items)
           E == ToSet(items)
           clash == {p \in D \X D : o[p[1]].url = o[p[2]].url \/ o[p[1]].name = o[p[2]].name}
<1>1. n \in Nat /\ DOMAIN items = D /\ items \in [D -> Endpoint]
  OBVIOUS
<1>2. /\ o \in [D -> Endpoint]
      /\ \A i, j \in D : i < j => ~Less(o[j], o[i])
      /\ \A i \in D : \E j \in D : o[i] = items[j]
      /\ \A j \in D : \E i \in D : o[i] = items[j]
  BY OrderedIs
<1>3. Deduplicate(items) = Kept(o)
  BY DEF Deduplicate
<1>4. E = {items[j] : j \in D}
  BY <1>1 DEF ToSet
<1>5. \A i, j \in D : <<i, j>> \in clash <=> o[i].url = o[j].url \/ o[i].name = o[j].name
  OBVIOUS
<1> HIDE DEF n, o, E, clash
<1>6. PICK K, a : KeptAs(n, o, clash, K, a)
  <2>1. n \in Nat /\ o \in [1 .. n -> Endpoint]
    BY <1>1, <1>2
  <2>2. \A i, j \in 1 .. n :
            <<i, j>> \in clash <=> o[i].url = o[j].url \/ o[i].name = o[j].name
    BY <1>5
  <2> QED BY <2>1, <2>2, KeptIs
<1>7. /\ K \in SUBSET D /\ IsFiniteSet(K) /\ Greedy(D, K, Places, clash)
      /\ a \in SetToSeqs(K) /\ Increasing(a, Places)
      /\ Kept(o) = [m \in DOMAIN a |-> o[a[m]]]
  BY <1>6 DEF KeptAs
<1> DEFINE k == Cardinality(K)
           result == Kept(o)
           G == ToSet(result)
<1>8. /\ k \in Nat /\ DOMAIN a = 1 .. k /\ a \in [1 .. k -> K]
      /\ \A i, j \in 1 .. k : a[i] = a[j] => i = j
      /\ \A x \in K : \E i \in 1 .. k : a[i] = x
  <2>1. IsFiniteSet(K) /\ a \in SetToSeqs(K)
    BY <1>7
  <2>2. /\ Cardinality(K) \in Nat /\ DOMAIN a = 1 .. Cardinality(K)
        /\ a \in [1 .. Cardinality(K) -> K]
        /\ \A i, j \in DOMAIN a : a[i] = a[j] => i = j
        /\ \A x \in K : \E i \in DOMAIN a : a[i] = x
    BY <2>1, ArrangementShape
  <2> QED BY <2>2
<1>9. /\ DOMAIN result = 1 .. k /\ \A m \in 1 .. k : result[m] = o[a[m]]
      /\ result = [m \in 1 .. k |-> result[m]]
  BY <1>7, <1>8
<1>10. G = {o[i] : i \in K}
  BY <1>8, <1>9 DEF ToSet
<1>11. E = {o[i] : i \in D} /\ E \subseteq Endpoint
  BY <1>1, <1>2, <1>4
<1>12. IsFiniteSet(E)
  <2> DEFINE f == [i \in D |-> o[i]]
  <2>1. f \in Surjection(D, E)
    <3>1. f \in [D -> E] /\ \A x \in E : \E i \in D : f[i] = x
      BY <1>11
    <3> HIDE DEF f
    <3> QED BY <3>1, Fun_IsSurj
  <2>2. IsFiniteSet(D)
    BY <1>1, FS_Interval
  <2> HIDE DEF f, D
  <2> QED BY <2>1, <2>2, FS_Surjection
<1>13. /\ \A i, j \in D : <<i, j>> \in Places <=> i < j
       /\ D \subseteq Int /\ K \subseteq D
  <2>1. D \subseteq Int
    BY <1>1
  <2> QED BY <1>7, <2>1, PlacesAreOrdered
<1>14. \A x, y \in Endpoint :
           /\ <<x, y>> \in LessPairs <=> Less(x, y)
           /\ <<x, y>> \in ClashPairs <=> x.url = y.url \/ x.name = y.name
           /\ x = y \/ Less(x, y) \/ Less(y, x)
  BY LessIsOrder DEF StrictOrder
<1> HIDE DEF D, k, result, G
<1>15. \A i, j \in K : i < j => Less(o[i], o[j])
  <2> SUFFICES ASSUME NEW i \in K, NEW j \in K, i < j PROVE Less(o[i], o[j])
    OBVIOUS
  <2>1. i \in D /\ j \in D /\ o[i] \in Endpoint /\ o[j] \in Endpoint /\ ~Less(o[j], o[i])
    BY <1>2, <1>13
  <2>2. <<i, j>> \notin clash
    BY <1>7, <1>13, <2>1 DEF Greedy
  <2>3. o[i] # o[j]
    BY <1>5, <2>1, <2>2
  <2> QED BY <1>14, <2>1, <2>3
<1>16. \A i, j \in D : Less(o[i], o[j]) => i < j
  <2> SUFFICES ASSUME NEW i \in D, NEW j \in D, Less(o[i], o[j]) PROVE i < j
    OBVIOUS
  <2>1. ~(j < i)
    BY <1>2
  <2>2. i # j
    BY <1>2, <1>14, LessIsOrder DEF StrictOrder
  <2> QED BY <1>13, <2>1, <2>2
<1>17. Greedy(E, G, LessPairs, ClashPairs)
  <2>1. G \subseteq E
    BY <1>10, <1>11, <1>13
  <2>2. ASSUME NEW x \in G, NEW y \in G, <<y, x>> \in LessPairs
        PROVE  <<y, x>> \notin ClashPairs
    <3>1. PICK i \in K, j \in K : x = o[i] /\ y = o[j]
      BY <1>10
    <3>2. i \in D /\ j \in D /\ x \in Endpoint /\ y \in Endpoint /\ Less(y, x)
      BY <1>2, <1>13, <1>14, <2>2, <3>1
    <3>3. <<j, i>> \in Places
      BY <1>13, <1>16, <3>1, <3>2
    <3>4. <<j, i>> \notin clash
      BY <1>7, <3>2, <3>3 DEF Greedy
    <3> QED BY <1>5, <1>14, <3>1, <3>2, <3>4
  <2>3. ASSUME NEW x \in E, \A y \in G : <<y, x>> \in LessPairs => <<y, x>> \notin ClashPairs
        PROVE  x \in G
    <3>1. PICK i \in D : x = o[i]
      BY <1>11
    <3>2. ASSUME NEW j \in K, j < i, <<j, i>> \in clash PROVE x \in G
      <4>1. j \in D /\ o[j] \in Endpoint /\ x \in Endpoint /\ o[j] \in G
        BY <1>2, <1>10, <1>13, <3>1
      <4>2. ~Less(x, o[j])
        BY <1>2, <3>1, <3>2, <4>1
      <4>3. <<o[j], x>> \in ClashPairs
        BY <1>5, <1>14, <3>1, <3>2, <4>1
      <4>4. o[j] = x
        BY <1>14, <2>3, <4>1, <4>2, <4>3
      <4> QED BY <4>1, <4>4
    <3>3. CASE i \in K
      BY <1>10, <3>1, <3>3
    <3>4. CASE i \notin K
      <4>1. PICK j \in K : <<j, i>> \in Places /\ <<j, i>> \in clash
        BY <1>7, <3>1, <3>4 DEF Greedy
      <4>2. j < i
        BY <1>13, <3>1, <4>1
      <4> QED BY <3>2, <4>1, <4>2
    <3> QED BY <3>3, <3>4
  <2> QED BY <2>1, <2>2, <2>3 DEF Greedy
<1>18. \A i, j \in 1 .. k : i < j => Less(result[i], result[j])
  <2> SUFFICES ASSUME NEW i \in 1 .. k, NEW j \in 1 .. k, i < j
               PROVE  Less(result[i], result[j])
    OBVIOUS
  <2>1. a[i] \in K /\ a[j] \in K /\ <<a[i], a[j]>> \in Places
    BY <1>7, <1>8 DEF Increasing
  <2>2. a[i] < a[j]
    BY <1>13, <2>1
  <2> QED BY <1>9, <1>15, <2>1, <2>2
<1>19. \A i \in 1 .. k : result[i] \in G /\ result[i] \in Endpoint
  BY <1>2, <1>8, <1>9, <1>10, <1>13
<1>20. result \in SetToSeqs(G) /\ IsFiniteSet(G)
  <2>1. result \in [1 .. k -> G]
    BY <1>9, <1>19
  <2>2. \A i, j \in 1 .. k : result[i] = result[j] => i = j
    <3> SUFFICES ASSUME NEW i \in 1 .. k, NEW j \in 1 .. k, result[i] = result[j], i < j
                 PROVE  FALSE
      BY <1>8
    <3>1. Less(result[i], result[i]) /\ result[i] \in Endpoint
      BY <1>18, <1>19
    <3> QED BY <3>1, <1>14, LessIsOrder DEF StrictOrder
  <2>3. \A x \in G : \E i \in 1 .. k : result[i] = x
    BY <1>9 DEF G, ToSet
  <2> QED BY <1>8, <2>1, <2>2, <2>3, IsArrangement
<1>21. Increasing(result, LessPairs)
  BY <1>9, <1>14, <1>18, <1>19 DEF Increasing
<1> QED BY <1>3, <1>11, <1>12, <1>17, <1>20, <1>21 DEF result, G, E

(* So the result depends on the set of endpoints only.                     *)
LEMMA DeduplicateOfSame ==
    ASSUME NEW a \in Seq(Endpoint), NEW b \in Seq(Endpoint), ToSet(a) = ToSet(b)
    PROVE  Deduplicate(a) = Deduplicate(b)
<1> DEFINE E == ToSet(a)
           x == Deduplicate(a)
           y == Deduplicate(b)
           G == ToSet(x)
           H == ToSet(y)
<1>1. /\ IsFiniteSet(E) /\ E \subseteq Endpoint
      /\ Greedy(E, G, LessPairs, ClashPairs) /\ Greedy(E, H, LessPairs, ClashPairs)
      /\ x \in SetToSeqs(G) /\ IsFiniteSet(G) /\ y \in SetToSeqs(H)
      /\ Increasing(x, LessPairs) /\ Increasing(y, LessPairs)
  BY DeduplicateIs
<1> HIDE DEF E, x, y, G, H
<1>2. StrictOrder(E, LessPairs)
  BY <1>1, LessIsOrder DEF StrictOrder
<1>3. G = H
  BY <1>1, <1>2, GreedyIsUnique
<1>4. StrictOrder(G, LessPairs)
  BY <1>1, <1>2 DEF StrictOrder, Greedy
<1>5. x = y
  BY <1>1, <1>3, <1>4, ArrangementIsUnique
<1> QED BY <1>5 DEF x, y

(* A function on 1 .. n is a sequence.                                     *)
LEMMA IsSequence ==
    ASSUME NEW S, NEW n \in Nat, NEW f \in [1 .. n -> S]
    PROVE  f \in Seq(S) /\ Len(f) = n
<1>1. f \in Seq(S)
  OBVIOUS
<1>2. Len(f) \in Nat /\ DOMAIN f = 1 .. Len(f) /\ DOMAIN f = 1 .. n
  BY <1>1
<1> QED BY <1>1, <1>2

(* The endpoints of two lists.                                             *)
LEMMA ToSetOfBoth ==
    ASSUME NEW S, NEW a \in Seq(S), NEW b \in Seq(S)
    PROVE  a \o b \in Seq(S) /\ ToSet(a \o b) = ToSet(a) \cup ToSet(b)
<1>1. /\ a \o b \in Seq(S) /\ Len(a) \in Nat /\ Len(b) \in Nat
      /\ DOMAIN a = 1 .. Len(a) /\ DOMAIN b = 1 .. Len(b)
      /\ DOMAIN (a \o b) = 1 .. Len(a) + Len(b)
  OBVIOUS
<1>2. \A i \in DOMAIN (a \o b) :
          (a \o b)[i] = IF i <= Len(a) THEN a[i] ELSE b[i - Len(a)]
  OBVIOUS
<1>3. ASSUME NEW x \in ToSet(a \o b) PROVE x \in ToSet(a) \cup ToSet(b)
  <2>1. PICK i \in DOMAIN (a \o b) : x = (a \o b)[i]
    BY DEF ToSet
  <2>2. CASE i <= Len(a)
    <3>1. i \in DOMAIN a /\ x = a[i]
      BY <1>1, <1>2, <2>1, <2>2
    <3> QED BY <3>1 DEF ToSet
  <2>3. CASE ~(i <= Len(a))
    <3>1. i - Len(a) \in DOMAIN b /\ x = b[i - Len(a)]
      BY <1>1, <1>2, <2>1, <2>3
    <3> QED BY <3>1 DEF ToSet
  <2> QED BY <2>2, <2>3
<1>4. ASSUME NEW x \in ToSet(a) PROVE x \in ToSet(a \o b)
  <2>1. PICK i \in DOMAIN a : x = a[i]
    BY DEF ToSet
  <2>2. i \in DOMAIN (a \o b) /\ x = (a \o b)[i]
    BY <1>1, <1>2, <2>1
  <2> QED BY <2>2 DEF ToSet
<1>5. ASSUME NEW x \in ToSet(b) PROVE x \in ToSet(a \o b)
  <2>1. PICK i \in DOMAIN b : x = b[i]
    BY DEF ToSet
  <2>2. i + Len(a) \in DOMAIN (a \o b) /\ x = (a \o b)[i + Len(a)]
    BY <1>1, <1>2, <2>1
  <2> QED BY <2>2 DEF ToSet
<1> QED BY <1>1, <1>3, <1>4, <1>5

(* What Deduplicate returns is a list, in which no two share a name.       *)
LEMMA DeduplicateIsList ==
    ASSUME NEW items \in Seq(Endpoint)
    PROVE  LET result == Deduplicate(items)
           IN  /\ result \in Seq(Endpoint)
               /\ \A i, j \in DOMAIN result : result[i].name = result[j].name => i = j
<1> DEFINE result == Deduplicate(items)
           E == ToSet(items)
           G == ToSet(result)
           n == Cardinality(G)
<1>1. /\ IsFiniteSet(E) /\ E \subseteq Endpoint
      /\ Greedy(E, G, LessPairs, ClashPairs)
      /\ result \in SetToSeqs(G) /\ IsFiniteSet(G)
  BY DeduplicateIs
<1> HIDE DEF result, E, G
<1>2. G \subseteq Endpoint
  BY <1>1 DEF Greedy
<1>3. /\ n \in Nat /\ DOMAIN result = 1 .. n /\ result \in [1 .. n -> G]
      /\ \A i, j \in DOMAIN result : result[i] = result[j] => i = j
  BY <1>1, ArrangementShape
<1> HIDE DEF n
<1>4. result \in Seq(Endpoint)
  <2>1. result \in [1 .. n -> Endpoint]
    BY <1>2, <1>3
  <2> QED BY <1>3, <2>1, IsSequence
<1>5. ASSUME NEW x \in G, NEW y \in G, x.name = y.name PROVE x = y
  <2>1. x \in Endpoint /\ y \in Endpoint
    BY <1>2
  <2>2. <<x, y>> \in ClashPairs /\ <<y, x>> \in ClashPairs
    BY <1>5, <2>1, LessIsOrder
  <2>3. <<x, y>> \notin LessPairs /\ <<y, x>> \notin LessPairs
    BY <1>1, <2>2 DEF Greedy
  <2> QED BY <2>1, <2>3, LessIsOrder DEF StrictOrder
<1>6. ASSUME NEW i \in DOMAIN result, NEW j \in DOMAIN result, result[i].name = result[j].name
      PROVE  i = j
  <2>1. result[i] \in G /\ result[j] \in G
    BY <1>3
  <2>2. result[i] = result[j]
    BY <1>5, <1>6, <2>1
  <2> QED BY <1>3, <2>2
<1> QED BY <1>4, <1>6 DEF result

(* The endpoints of a call: a list, and the same for lists of the same.    *)
Found == [yaml : Lists, docker : Lists]

(* What a source gave is a list, which is empty if it failed.              *)
LEMMA ItemsAreLists ==
    ASSUME NEW f \in Found
    PROVE  Items(f.yaml) \in Seq(Endpoint) /\ Items(f.docker) \in Seq(Endpoint)
<1>1. <<>> \in Seq(Endpoint)
  OBVIOUS
<1>2. f.yaml \in Lists /\ f.docker \in Lists
  BY DEF Found
<1> QED BY <1>1, <1>2 DEF Items, Lists, Endpoint

(* The endpoints of a call are a list without duplicate names.             *)
LEMMA EndpointsAre ==
    ASSUME NEW f \in Found
    PROVE  LET e == Deduplicate(Discover(f))
           IN  /\ e \in Seq(Endpoint)
               /\ \A i, j \in DOMAIN e : e[i].name = e[j].name => i = j
<1>1. Items(f.yaml) \o Items(f.docker) \in Seq(Endpoint)
  BY ItemsAreLists, ToSetOfBoth
<1>2. Discover(f) \in Seq(Endpoint)
  BY <1>1, DeduplicateIsList DEF Discover
<1> QED BY <1>2, DeduplicateIsList

(* Calls that find the same endpoints, in any order, have the same list.   *)
LEMMA EndpointsOfSame ==
    ASSUME NEW f \in Found, NEW g \in Found,
           ToSet(Items(f.yaml)) = ToSet(Items(g.yaml)),
           ToSet(Items(f.docker)) = ToSet(Items(g.docker))
    PROVE  Deduplicate(Discover(f)) = Deduplicate(Discover(g))
<1> DEFINE a == Items(f.yaml) \o Items(f.docker)
           b == Items(g.yaml) \o Items(g.docker)
<1>1. a \in Seq(Endpoint) /\ b \in Seq(Endpoint) /\ ToSet(a) = ToSet(b)
  <2>1. /\ Items(f.yaml) \in Seq(Endpoint) /\ Items(f.docker) \in Seq(Endpoint)
        /\ Items(g.yaml) \in Seq(Endpoint) /\ Items(g.docker) \in Seq(Endpoint)
    BY ItemsAreLists
  <2>2. /\ a \in Seq(Endpoint) /\ ToSet(a) = ToSet(Items(f.yaml)) \cup ToSet(Items(f.docker))
        /\ b \in Seq(Endpoint) /\ ToSet(b) = ToSet(Items(g.yaml)) \cup ToSet(Items(g.docker))
    BY <2>1, ToSetOfBoth
  <2> QED BY <2>2
<1> HIDE DEF a, b
<1>2. Deduplicate(a) = Deduplicate(b)
  BY <1>1, DeduplicateOfSame
<1> QED BY <1>2 DEF Discover, a, b

-----------------------------------------------------------------------------
(***************************************************************************)
(* Accounts.                                                               *)
(***************************************************************************)
(* One account per login that was answered, each by an endpoint of its own *)
(* that answered with it.                                                  *)
LoginsOf(e, usage) == {usage[e[i].name] : i \in DOMAIN e} \ {Failed}

AccountsOk(list, e, usage) ==
    /\ Len(list) \in Nat /\ DOMAIN list = 1 .. Len(list)
    /\ \A n \in DOMAIN list :
           /\ list[n].login \in Nat /\ list[n].login = usage[list[n].name]
           /\ \E i \in DOMAIN e : list[n].name = e[i].name
    /\ \A m, n \in DOMAIN list : list[m].name = list[n].name => m = n
    /\ {a.login : a \in ToSet(list)} = LoginsOf(e, usage)
    /\ Len(list) = Cardinality(LoginsOf(e, usage))

(* Accounts makes such a list.                                             *)
LEMMA AccountsAre ==
    ASSUME NEW e \in Seq(Endpoint),
           NEW usage, \A i \in DOMAIN e : usage[e[i].name] \in Nat \cup {Failed}
    PROVE  AccountsOk(Accounts(e, usage), e, usage)
<1> DEFINE login(i) == usage[e[i].name]
           first == {i \in DOMAIN e :
                        login(i) # Failed /\ \A j \in 1 .. i - 1 : login(j) # login(i)}
           ByLogin(i, j) == login(i) < login(j)
           Up(a) == \A i, j \in DOMAIN a : i < j => ByLogin(a[i], a[j])
           order == CHOOSE a \in SetToSeqs(first) : Up(a)
           before == {p \in first \X first : login(p[1]) < login(p[2])}
           list == Accounts(e, usage)
           k == Cardinality(first)
           n == Len(e)
<1>1. n \in Nat /\ DOMAIN e = 1 .. n
  OBVIOUS
<1>2. list = [m \in DOMAIN order |-> [login |-> login(order[m]), name |-> e[order[m]].name]]
  BY DEF Accounts, Arranged
<1>3. \A i \in DOMAIN e : login(i) \in Nat \cup {Failed} /\ Failed \notin Nat
  BY CallAssumption
<1>4. \A i, j \in first : <<i, j>> \in before <=> login(i) < login(j)
  OBVIOUS
<1>5. \A i \in first : i \in 1 .. n /\ login(i) \in Nat
  BY <1>1, <1>3
<1>6. \A i, j \in first : login(i) = login(j) => i = j
  <2> SUFFICES ASSUME NEW i \in first, NEW j \in first, login(i) = login(j), i < j PROVE FALSE
    BY <1>5
  <2>1. i \in 1 .. j - 1
    BY <1>5
  <2> QED BY <2>1
<1>7. \A i \in DOMAIN e : login(i) # Failed => \E j \in first : login(j) = login(i)
  <2> SUFFICES ASSUME NEW i \in DOMAIN e, login(i) # Failed
               PROVE  \E j \in first : login(j) = login(i)
    OBVIOUS
  <2> DEFINE same == {j \in 1 .. n : login(j) = login(i)}
  <2>1. same \subseteq Int /\ same # {} /\ IsFiniteSet(same)
    <3>1. IsFiniteSet(1 .. n) /\ i \in same
      BY <1>1, FS_Interval
    <3>2. same \in SUBSET (1 .. n)
      OBVIOUS
    <3> HIDE DEF same
    <3> QED BY <1>1, <3>1, <3>2, FS_Subset
  <2>2. PICK j \in same : \A m \in same : j <= m
    <3> HIDE DEF same
    <3> QED BY <2>1, MinIsLeast
  <2>3. j \in 1 .. n /\ login(j) = login(i)
    BY <2>2
  <2>4. \A m \in 1 .. j - 1 : m \in 1 .. n /\ m \notin same
    BY <1>1, <2>1, <2>2, <2>3
  <2>5. \A m \in 1 .. j - 1 : login(m) # login(j)
    BY <2>3, <2>4
  <2> HIDE DEF same, login
  <2> QED BY <1>1, <2>3, <2>5
<1>8. IsFiniteSet(first)
  <2>1. first \in SUBSET (1 .. n) /\ IsFiniteSet(1 .. n)
    BY <1>1, FS_Interval
  <2> HIDE DEF first
  <2> QED BY <2>1, FS_Subset
<1> HIDE DEF login, first, before, n
<1>9. StrictOrder(first, before)
  BY <1>4, <1>5, <1>6 DEF StrictOrder
<1>10. PICK a \in SetToSeqs(first) : Increasing(a, before)
  BY <1>8, <1>9, ArrangementExists
<1>11. \A s \in SetToSeqs(first) :
           /\ k \in Nat /\ DOMAIN s = 1 .. k /\ s \in [1 .. k -> first]
           /\ \A i, j \in 1 .. k : s[i] = s[j] => i = j
           /\ \A x \in first : \E i \in 1 .. k : s[i] = x
  <2> SUFFICES ASSUME NEW s \in SetToSeqs(first)
               PROVE  /\ k \in Nat /\ DOMAIN s = 1 .. k /\ s \in [1 .. k -> first]
                      /\ \A i, j \in DOMAIN s : s[i] = s[j] => i = j
                      /\ \A x \in first : \E i \in DOMAIN s : s[i] = x
    OBVIOUS
  <2> QED BY <1>8, ArrangementShape
<1> HIDE DEF k
<1>12. Up(a)
  BY <1>4, <1>10, <1>11 DEF Increasing
<1> HIDE DEF Up
<1>13. order \in SetToSeqs(first)
  BY <1>10, <1>12
<1> HIDE DEF order
<1>14. /\ k \in Nat /\ order \in [1 .. k -> first]
       /\ \A i, j \in 1 .. k : order[i] = order[j] => i = j
       /\ \A x \in first : \E i \in 1 .. k : order[i] = x
       /\ DOMAIN order = 1 .. k
  BY <1>11, <1>13
<1> HIDE DEF list
<1>15. DOMAIN list = 1 .. k /\ list \in Seq([login : Nat, name : DOMAIN Usage]) /\ Len(list) = k
  <2>1. ASSUME NEW m \in 1 .. k PROVE list[m] \in [login : Nat, name : DOMAIN Usage]
    <3>1. order[m] \in first /\ list[m] = [login |-> login(order[m]), name |-> e[order[m]].name]
      BY <1>2, <1>14
    <3>2. login(order[m]) \in Nat /\ e[order[m]] \in Endpoint
      BY <1>1, <1>5, <3>1
    <3> QED BY <3>1, <3>2 DEF Endpoint
  <2>2. list \in [1 .. k -> [login : Nat, name : DOMAIN Usage]]
    BY <1>2, <1>14, <2>1
  <2> QED BY <1>14, <2>2, IsSequence
<1>16. \A m \in 1 .. k : /\ order[m] \in first /\ list[m].login = login(order[m])
                         /\ list[m].name = e[order[m]].name /\ login(order[m]) \in Nat
                         /\ order[m] \in DOMAIN e
  BY <1>1, <1>2, <1>5, <1>14
<1>17. \A m \in 1 .. k : login(order[m]) = usage[e[order[m]].name]
  BY DEF login
<1>18. \A i, m \in 1 .. k : list[i].login = list[m].login => i = m
  BY <1>6, <1>14, <1>16
<1>19. \A i, m \in 1 .. k : list[i].name = list[m].name => i = m
  <2> SUFFICES ASSUME NEW i \in 1 .. k, NEW m \in 1 .. k, list[i].name = list[m].name
               PROVE  i = m
    OBVIOUS
  <2>1. list[i].login = list[m].login
    BY <1>16, <1>17
  <2> QED BY <1>18, <2>1
<1> DEFINE logins == LoginsOf(e, usage)
<1>20. logins = {list[m].login : m \in 1 .. k}
  <2>1. ASSUME NEW m \in 1 .. k PROVE list[m].login \in logins
    <3>1. order[m] \in DOMAIN e /\ list[m].login = usage[e[order[m]].name] /\ list[m].login \in Nat
      BY <1>16, <1>17
    <3> QED BY <1>3, <3>1 DEF LoginsOf
  <2>2. ASSUME NEW l \in logins PROVE \E m \in 1 .. k : list[m].login = l
    <3>1. PICK i \in DOMAIN e : l = login(i) /\ l # Failed
      BY DEF LoginsOf, login
    <3>2. PICK j \in first : login(j) = login(i)
      BY <1>7, <3>1
    <3>3. PICK m \in 1 .. k : order[m] = j
      BY <1>14
    <3> QED BY <1>16, <3>1, <3>2, <3>3
  <2> QED BY <2>1, <2>2
<1>21. {x.login : x \in ToSet(list)} = logins
  BY <1>15, <1>20 DEF ToSet
<1>22. k = Cardinality(logins)
  <2> DEFINE f == [m \in 1 .. k |-> list[m].login]
  <2>1. f \in [1 .. k -> logins]
    BY <1>20
  <2>2. \A i, j \in 1 .. k : f[i] = f[j] => i = j
    BY <1>18
  <2>3. \A x \in logins : \E i \in 1 .. k : f[i] = x
    BY <1>20
  <2>4. k \in Nat
    BY <1>14
  <2> HIDE DEF f, logins
  <2>5. f \in SetToSeqs(logins) /\ IsFiniteSet(logins) /\ Cardinality(logins) = k
    BY <2>1, <2>2, <2>3, <2>4, IsArrangement, Z3
  <2> QED BY <2>5
<1> QED BY <1>14, <1>15, <1>16, <1>17, <1>19, <1>21, <1>22 DEF AccountsOk, list

-----------------------------------------------------------------------------
(***************************************************************************)
(* A call: its endpoints are those found, its requests one for the usage   *)
(* of each and, once that is known, those for the accounts asked for. The  *)
(* usage that was answered, and the accounts made of it, remain.           *)
(***************************************************************************)
UsageKeys(c) == {<<"usage", e.name>> : e \in ToSet(endpoints[c])}
DataKeys(c)  == Operations(c) \X {a.name : a \in Selected(c, accounts[c])}

CallOk(c) ==
    /\ call[c] \in Call[c] /\ found[c] \in Discovery[c]
    /\ endpoints[c] = Deduplicate(Discover(found[c]))
    /\ UsageKeys(c) \subseteq DOMAIN requests[c]
    /\ \A k \in UsageKeys(c) : requests[c][k] \in Nat \cup {Failed} \cup Pending
    /\ stage[c] = "resolving" => DOMAIN requests[c] = UsageKeys(c)
    /\ stage[c] \in {"loading", "answered"} =>
           /\ \A k \in UsageKeys(c) : requests[c][k] \in Nat \cup {Failed}
           /\ accounts[c] = Accounts(endpoints[c], UsageOf(c))
    /\ stage[c] = "loading" =>
           /\ DOMAIN requests[c] = UsageKeys(c) \cup DataKeys(c)
           /\ \A k \in DataKeys(c) : requests[c][k] \in {Failed, Ok} \cup Pending

CallsInv ==
    /\ call = [c \in Caller |-> call[c]] /\ found = [c \in Caller |-> found[c]]
    /\ endpoints = [c \in Caller |-> endpoints[c]]
    /\ accounts = [c \in Caller |-> accounts[c]] /\ answer = [c \in Caller |-> answer[c]]
    /\ \A c \in Caller : stage[c] # "idle" => CallOk(c)

CallIInv == RequestsInv /\ CallsInv

(* The keys of a caller's requests.                                        *)
LEMMA KeysAre ==
    ASSUME NEW c \in Caller
    PROVE  /\ \A k \in UsageKeys(c) : k[1] = "usage" /\ k[2] \in {e.name : e \in ToSet(endpoints[c])}
           /\ \A k \in DataKeys(c) : k[1] \in Operations(c) /\ k[1] # "usage"
           /\ Operations(c) \subseteq {"token-usage/events", "token-usage", "token-usage/daily"}
BY DEF UsageKeys, DataKeys, Operations

(* At first there are no calls.                                            *)
LEMMA InitCallsInv == Init => CallsInv
BY DEF Init, CallsInv

(* A call that a step leaves alone.                                        *)
LEMMA CallStays ==
    ASSUME NEW c \in Caller, CallOk(c), persistent' = persistent, stage'[c] = stage[c],
           call'[c] = call[c], found'[c] = found[c], endpoints'[c] = endpoints[c],
           accounts'[c] = accounts[c], requests'[c] = requests[c]
    PROVE  CallOk(c)'
BY DEF CallOk, UsageKeys, DataKeys, UsageOf, Operations, Selected

(* The usage of the endpoints, as long as these requests stay.             *)
LEMMA UsageStays ==
    ASSUME NEW c \in Caller, endpoints'[c] = endpoints[c],
           \A k \in UsageKeys(c) : requests'[c][k] = requests[c][k]
    PROVE  UsageOf(c)' = UsageOf(c) /\ UsageKeys(c)' = UsageKeys(c)
<1> DEFINE names == {e.name : e \in ToSet(endpoints[c])}
<1>1. \A n \in names : <<"usage", n>> \in UsageKeys(c)
  BY DEF UsageKeys
<1>2. UsageOf(c) = [n \in names |-> requests[c][<<"usage", n>>]]
  BY DEF UsageOf
<1>3. UsageOf(c)' = [n \in names |-> requests'[c][<<"usage", n>>]]
  BY DEF UsageOf
<1> HIDE DEF names
<1> QED BY <1>1, <1>2, <1>3 DEF UsageKeys

(* A call begins.                                                          *)
LEMMA BeginIsOk ==
    ASSUME CallIInv, NEW c \in Caller, Begin(c)
    PROVE  CallOk(c)'
<1>1. PICK f \in Discovery[c], k \in Call[c] :
          /\ call' = [call EXCEPT ![c] = k] /\ found' = [found EXCEPT ![c] = f]
          /\ endpoints' = [endpoints EXCEPT ![c] = Deduplicate(Discover(f))]
  BY DEF Begin
<1>2. /\ call'[c] = k /\ found'[c] = f /\ endpoints'[c] = Deduplicate(Discover(f))
      /\ stage'[c] = "resolving"
      /\ requests'[c] = NewRequests({<<"usage", e.name>> : e \in ToSet(endpoints'[c])})
  BY <1>1 DEF Begin, CallIInv, CallsInv, RequestsInv
<1>3. requests'[c] = [x \in UsageKeys(c)' |-> Waiting]
  BY <1>2 DEF NewRequests, UsageKeys
<1>4. DOMAIN requests'[c] = UsageKeys(c)' /\ \A x \in UsageKeys(c)' : requests'[c][x] = Waiting
  BY <1>3
<1> QED BY <1>2, <1>4 DEF CallOk, Pending

(* A request of a call goes on.                                            *)
LEMMA RequestIsOk ==
    ASSUME CallIInv, NEW c \in Caller, stage[c] # "idle", NEW k \in DOMAIN requests[c],
           Acquire(c, k) \/ Abandon(c, k) \/ End(c, k)
    PROVE  CallOk(c)'
<1>1. PICK v : /\ requests' = [requests EXCEPT ![c][k] = v]
               /\ k[1] = "usage" => v \in Nat \cup {Failed} \cup Pending
               /\ k[1] # "usage" => v \in {Failed, Ok} \cup Pending
  BY DEF Acquire, Abandon, End, Responses, Pending
<1>2. /\ requests[c][k] \in Pending /\ persistent' = persistent /\ stage' = stage
      /\ call' = call /\ found' = found /\ endpoints' = endpoints /\ accounts' = accounts
  BY DEF Acquire, Abandon, End, Pending
<1>3. /\ DOMAIN requests'[c] = DOMAIN requests[c] /\ requests'[c][k] = v
      /\ \A x \in DOMAIN requests[c] : x # k => requests'[c][x] = requests[c][x]
  BY <1>1 DEF CallIInv, RequestsInv
<1>4. CallOk(c) /\ stage[c] \in {"resolving", "loading"}
  BY <1>2 DEF CallIInv, CallsInv, RequestsInv, Stages, Ended
<1>5. UsageKeys(c)' = UsageKeys(c) /\ DataKeys(c)' = DataKeys(c)
  BY <1>2 DEF UsageKeys, DataKeys, Operations, Selected
<1>6. \A x \in UsageKeys(c) : requests'[c][x] \in Nat \cup {Failed} \cup Pending
  BY <1>1, <1>3, <1>4, KeysAre DEF CallOk
<1>7. CASE stage[c] = "resolving"
  BY <1>2, <1>3, <1>4, <1>5, <1>6, <1>7 DEF CallOk
<1>8. CASE stage[c] = "loading"
  <2>1. k \notin UsageKeys(c)
    BY <1>2, <1>4, <1>8, CallAssumption DEF CallOk, Pending
  <2>2. \A x \in UsageKeys(c) : requests'[c][x] = requests[c][x]
    BY <1>3, <1>4, <2>1 DEF CallOk
  <2>3. UsageOf(c)' = UsageOf(c)
    BY <1>2, <2>2, UsageStays
  <2>4. \A x \in DataKeys(c) : requests'[c][x] \in {Failed, Ok} \cup Pending
    BY <1>1, <1>3, <1>4, <1>8, KeysAre DEF CallOk
  <2> QED BY <1>2, <1>3, <1>4, <1>5, <1>6, <1>8, <2>2, <2>3, <2>4 DEF CallOk
<1> QED BY <1>4, <1>7, <1>8

(* All usage is known, so that the accounts can be made of it.             *)
LEMMA LoadIsOk ==
    ASSUME CallIInv, NEW c \in Caller, Load(c)
    PROVE  CallOk(c)'
<1> DEFINE new == NewRequests(Operations(c) \X {a.name : a \in Selected(c, accounts'[c])})
<1>1. /\ stage[c] = "resolving" /\ Ended(c) /\ stage'[c] = "loading"
      /\ accounts'[c] = Accounts(endpoints[c], UsageOf(c))
      /\ requests'[c] = With(requests[c], new)
      /\ persistent' = persistent /\ call' = call /\ found' = found /\ endpoints' = endpoints
  BY DEF Load, CallIInv, CallsInv, RequestsInv
<1>2. CallOk(c)
  BY <1>1 DEF CallIInv, CallsInv
<1>3. UsageKeys(c)' = UsageKeys(c) /\ DOMAIN requests[c] = UsageKeys(c)
  BY <1>1, <1>2 DEF UsageKeys, CallOk
<1>4. DataKeys(c)' = DOMAIN new /\ \A k \in DOMAIN new : new[k] = Waiting
  BY <1>1 DEF DataKeys, NewRequests, Operations, Selected
<1> HIDE DEF new
<1>5. /\ DOMAIN requests'[c] = UsageKeys(c) \cup DOMAIN new
      /\ \A k \in UsageKeys(c) : requests'[c][k] = requests[c][k]
      /\ \A k \in DOMAIN new : k \notin UsageKeys(c) => requests'[c][k] = new[k]
  BY <1>1, <1>3 DEF With
<1>6. \A k \in UsageKeys(c) : requests[c][k] \in Nat \cup {Failed}
  BY <1>1, <1>2, <1>3 DEF CallOk, Ended
<1>7. UsageOf(c)' = UsageOf(c)
  BY <1>1, <1>5, UsageStays
<1>8. \A k \in DataKeys(c)' : k \notin UsageKeys(c)
  <2>1. \A k \in DataKeys(c)' : k[1] \in Operations(c)'
    BY DEF DataKeys
  <2>2. "usage" \notin Operations(c)'
    BY DEF Operations
  <2> QED BY <2>1, <2>2, KeysAre
<1>9. \A k \in DataKeys(c)' : requests'[c][k] \in {Failed, Ok} \cup Pending
  BY <1>4, <1>5, <1>8 DEF Pending
<1> QED BY <1>1, <1>2, <1>3, <1>4, <1>5, <1>6, <1>7, <1>9 DEF CallOk, Pending

(* An answer leaves the call as it is, whatever is read from the history.  *)
LEMMA AnswerIsOk ==
    ASSUME CallIInv, NEW c \in Caller, AnswerLive(c) \/ AnswerStored(c) \/ AnswerEvents(c)
    PROVE  CallOk(c)'
<1>1. /\ stage[c] = "loading" /\ stage'[c] = "answered"
      /\ persistent' = persistent /\ call' = call /\ found' = found
      /\ endpoints' = endpoints /\ accounts' = accounts
  BY DEF AnswerLive, AnswerStored, AnswerEvents, CallIInv, RequestsInv
<1>2. CallOk(c)
  BY <1>1 DEF CallIInv, CallsInv
<1>3. /\ DOMAIN requests[c] \subseteq DOMAIN requests'[c]
      /\ \A k \in DOMAIN requests[c] : requests'[c][k] = requests[c][k]
  <2>1. CASE AnswerLive(c) \/ AnswerEvents(c)
    BY <2>1 DEF AnswerLive, AnswerEvents
  <2>2. CASE AnswerStored(c)
    <3>1. PICK r : requests' = [requests EXCEPT ![c] = With(@, r)]
      BY <2>2 DEF AnswerStored
    <3>2. requests'[c] = With(requests[c], r)
      BY <3>1 DEF CallIInv, RequestsInv
    <3> QED BY <3>2 DEF With
  <2> QED BY <2>1, <2>2
<1>4. \A k \in UsageKeys(c) : requests'[c][k] = requests[c][k]
  BY <1>2, <1>3 DEF CallOk
<1>5. UsageOf(c)' = UsageOf(c) /\ UsageKeys(c)' = UsageKeys(c)
  BY <1>1, <1>4, UsageStays
<1> QED BY <1>1, <1>2, <1>3, <1>4, <1>5 DEF CallOk

(* Every step keeps the calls as they should be.                           *)
LEMMA NextKeepsCallsInv == CallIInv /\ [Next]_vars => CallsInv'
<1> SUFFICES ASSUME CallIInv, [Next]_vars PROVE CallsInv'
  OBVIOUS
<1> DEFINE Functions_ == /\ call = [c \in Caller |-> call[c]] /\ found = [c \in Caller |-> found[c]]
                         /\ endpoints = [c \in Caller |-> endpoints[c]]
                         /\ accounts = [c \in Caller |-> accounts[c]]
                         /\ answer = [c \in Caller |-> answer[c]]
           Only(c) == \A d \in Caller \ {c} :
               /\ stage'[d] = stage[d] /\ call'[d] = call[d] /\ found'[d] = found[d]
               /\ endpoints'[d] = endpoints[d] /\ accounts'[d] = accounts[d]
               /\ requests'[d] = requests[d]
<1>0. Functions_ /\ requests = [c \in Caller |-> requests[c]] /\ stage \in [Caller -> Stages]
  BY DEF CallIInv, CallsInv, RequestsInv
<1>1. ASSUME NEW c \in Caller, Only(c), persistent' = persistent, Functions_',
             stage'[c] # "idle" => CallOk(c)'
      PROVE  CallsInv'
  <2>1. ASSUME NEW d \in Caller, stage'[d] # "idle" PROVE CallOk(d)'
    <3>1. CASE d = c
      BY <1>1, <2>1, <3>1
    <3>2. CASE d # c
      <4>1. CallOk(d)
        BY <1>1, <2>1, <3>2 DEF CallIInv, CallsInv
      <4> QED BY <1>1, <3>2, <4>1, CallStays
    <3> QED BY <3>1, <3>2
  <2> QED BY <1>1, <2>1 DEF CallsInv
<1>2. ASSUME NEW c \in Caller, Begin(c) PROVE CallsInv'
  <2>1. Only(c) /\ Functions_' /\ persistent' = persistent
    BY <1>0, <1>2 DEF Begin
  <2> QED BY <1>1, <1>2, <2>1, BeginIsOk
<1>3. ASSUME NEW c \in Caller, Load(c) PROVE CallsInv'
  <2>1. Only(c) /\ Functions_' /\ persistent' = persistent
    BY <1>0, <1>3 DEF Load
  <2> QED BY <1>1, <1>3, <2>1, LoadIsOk
<1>4. ASSUME NEW c \in Caller, AnswerLive(c) \/ AnswerStored(c) \/ AnswerEvents(c) PROVE CallsInv'
  <2>1. Only(c) /\ Functions_' /\ persistent' = persistent
    <3>1. CASE AnswerLive(c)
      BY <1>0, <3>1 DEF AnswerLive
    <3>2. CASE AnswerStored(c)
      BY <1>0, <3>2 DEF AnswerStored
    <3>3. CASE AnswerEvents(c)
      BY <1>0, <3>3 DEF AnswerEvents
    <3> QED BY <1>4, <3>1, <3>2, <3>3
  <2> QED BY <1>1, <1>4, <2>1, AnswerIsOk
<1>5. ASSUME NEW c \in Caller, Return(c) PROVE CallsInv'
  <2>1. Only(c) /\ Functions_' /\ persistent' = persistent /\ stage'[c] = "idle"
    BY <1>0, <1>5 DEF Return
  <2> QED BY <1>1, <2>1
<1>6. ASSUME NEW c \in Caller, Disconnect(c) PROVE CallsInv'
  <2>1. Only(c) /\ Functions_' /\ persistent' = persistent
    BY <1>0, <1>6 DEF Disconnect
  <2>2. CallOk(c)'
    BY <1>6, CallStays DEF Disconnect, CallIInv, CallsInv
  <2> QED BY <1>1, <2>1, <2>2
<1>7. ASSUME NEW c \in Caller, NEW k \in DOMAIN requests[c],
             Acquire(c, k) \/ Abandon(c, k) \/ End(c, k)
      PROVE  CallsInv'
  <2>1. Only(c) /\ Functions_' /\ persistent' = persistent /\ stage' = stage
        /\ requests[c][k] \in Pending
    <3>1. CASE Acquire(c, k)
      BY <1>0, <3>1 DEF Acquire, Pending
    <3>2. CASE Abandon(c, k)
      BY <1>0, <3>2 DEF Abandon, Pending
    <3>3. CASE End(c, k)
      BY <1>0, <3>3 DEF End, Pending
    <3> QED BY <1>7, <3>1, <3>2, <3>3
  <2>2. stage[c] # "idle"
    BY <2>1 DEF CallIInv, RequestsInv, Ended
  <2> QED BY <1>1, <1>7, <2>1, <2>2, RequestIsOk
<1>8. CASE UNCHANGED vars
  <2>1. \A c \in Caller : stage[c] # "idle" => CallOk(c)'
    BY <1>8, CallStays DEF vars, CallIInv, CallsInv
  <2> QED BY <1>0, <1>8, <2>1 DEF vars, CallsInv
<1> QED BY <1>2, <1>3, <1>4, <1>5, <1>6, <1>7, <1>8 DEF Next, Progress

(* The calls of every behaviour.                                           *)
LEMMA SpecCallIInv == Spec => []CallIInv
<1>1. Init => CallIInv
  BY InitSlotsIInv, InitCallsInv DEF SlotsIInv, CallIInv
<1> QED BY <1>1, NextKeepsCallsInv, InitSlotsIInv, NextKeepsSlotsIInv, PTL DEF Spec, CallIInv, SlotsIInv

(* Whatever order Docker lists the containers in, and however often: calls *)
(* that find the same endpoints, and get the same logins from them, have   *)
(* the same accounts with the same endpoints, so that Sync and the         *)
(* dashboard store and load an account under one source.                   *)
THEOREM SpecChoiceIsStable == Spec => []ChoiceIsStable
<1>1. CallIInv => ChoiceIsStable
  <2> SUFFICES ASSUME CallIInv, NEW c \in Caller, NEW e \in Caller,
                      stage[c] \in {"loading", "answered"}, stage[e] \in {"loading", "answered"},
                      ToSet(Items(found[c].yaml)) = ToSet(Items(found[e].yaml)),
                      ToSet(Items(found[c].docker)) = ToSet(Items(found[e].docker)),
                      \A n \in DOMAIN UsageOf(c) \cap DOMAIN UsageOf(e) :
                          UsageOf(c)[n] = UsageOf(e)[n]
               PROVE  accounts[c] = accounts[e]
    BY DEF ChoiceIsStable
  <2>1. CallOk(c) /\ CallOk(e)
    BY DEF CallIInv, CallsInv
  <2>2. found[c] \in Found /\ found[e] \in Found
    BY <2>1, CallAssumption DEF CallOk, Found
  <2>3. endpoints[c] = endpoints[e]
    BY <2>1, <2>2, EndpointsOfSame DEF CallOk
  <2>4. UsageOf(c) = UsageOf(e)
    BY <2>3 DEF UsageOf
  <2> QED BY <2>1, <2>3, <2>4 DEF CallOk
<1> QED BY <1>1, SpecCallIInv, PTL

-----------------------------------------------------------------------------
(***************************************************************************)
(* The days of a period, where every date has its midnight.                *)
(***************************************************************************)
(* Midnights and dates.                                                    *)
LEMMA MidnightIs ==
    ASSUME Gap = None, NEW d \in Int
    PROVE  /\ Time(d, 0) = 24 * d /\ DateOf(24 * d) = d
           /\ \A n \in Int : AddDate(24 * d, n) = 24 * (d + n)
           /\ \A n \in Int : Nth(24 * d, n) = 24 * (d + n)
<1>1. \A i \in Int : Time(i, 0) = 24 * i
  BY FilledDaysAssumption DEF Time
<1>2. (24 * d) \div 24 = d
  OBVIOUS
<1>3. (24 * d) % 24 = 0
  OBVIOUS
<1>4. \A n \in Int : d + n \in Int /\ 24 * d + 24 * n = 24 * (d + n)
  OBVIOUS
<1>5. \A n \in Int : AddDate(24 * d, n) = 24 * (d + n)
  BY <1>1, <1>2, <1>3, <1>4 DEF AddDate, DateOf
<1>6. \A n \in Int : Nth(24 * d, n) = 24 * (d + n)
  BY <1>4 DEF Nth
<1> QED BY <1>1, <1>2, <1>5, <1>6 DEF DateOf

(* The instants that the loop visits are the midnights up to today's.      *)
LEMMA VisitedIs ==
    ASSUME Gap = None, NEW s \in Int, NEW now \in Int
    PROVE  Visited(24 * s, 24 * now) = {24 * d : d \in s .. now}
<1>1. DateOf(24 * now) = now /\ DateOf(24 * s) = s
  BY MidnightIs
<1>2. Instants(24 * s, 24 * now) = {24 * (s + n) : n \in 0 .. now - s + 1}
  <2>1. \A n \in Int : Nth(24 * s, n) = 24 * (s + n)
    BY MidnightIs
  <2>2. \A n \in 0 .. now - s + 1 : Nth(24 * s, n) = 24 * (s + n)
    BY <2>1
  <2>3. Instants(24 * s, 24 * now) = {Nth(24 * s, n) : n \in 0 .. now - s + 1}
    BY <1>1 DEF Instants
  <2> QED BY <2>2, <2>3
<1>3. ASSUME NEW t \in Visited(24 * s, 24 * now) PROVE \E d \in s .. now : t = 24 * d
  <2>1. PICK n \in 0 .. now - s + 1 : t = 24 * (s + n)
    BY <1>2 DEF Visited
  <2>2. 24 * (s + n) <= 24 * now
    BY <2>1 DEF Visited
  <2>3. s + n \in s .. now
    BY <2>2
  <2> QED BY <2>1, <2>3
<1>4. ASSUME NEW d \in s .. now PROVE 24 * d \in Visited(24 * s, 24 * now)
  <2>1. d - s \in 0 .. now - s + 1 /\ s + (d - s) = d /\ 24 * d <= 24 * now
    OBVIOUS
  <2>2. 24 * d \in Instants(24 * s, 24 * now)
    BY <1>2, <2>1
  <2> QED BY <2>1, <2>2 DEF Visited
<1> QED BY <1>3, <1>4

(* The first date of a period.                                             *)
FirstOf(dates, period, now) ==
    CASE period = "this_week"    -> now - (now % 7)
      [] period = "last_7_days"  -> now - 6
      [] period = "this_month"   -> Max(MonthStarts \cap 0 .. now)
      [] period = "last_30_days" -> now - 29
      [] period = "lifetime"     -> Min({now - 6} \cup dates)

(* The midnight of a lifetime's first date.                                *)
LEMMA FirstMidnight ==
    ASSUME Gap = None, NEW now \in Nat, NEW days, IsFiniteSet(DOMAIN days), DOMAIN days \subseteq Int
    PROVE  LET m == Min({now - 6} \cup DOMAIN days)
           IN  /\ m \in Int /\ m <= now
               /\ Min({AddDate(24 * now, -6)} \cup {Time(d, 0) : d \in DOMAIN days}) = 24 * m
<1> DEFINE T == {now - 6} \cup DOMAIN days
           U == {AddDate(24 * now, -6)} \cup {Time(d, 0) : d \in DOMAIN days}
           m == Min(T)
           Least(x) == x \in U /\ \A y \in U : x <= y
<1>1. T \subseteq Int /\ IsFiniteSet(T) /\ now - 6 \in T
  <2>1. IsFiniteSet({now - 6})
    BY FS_Singleton
  <2>2. IsFiniteSet(T)
    BY <2>1, FS_Union
  <2> QED BY <2>2
<1>2. U = {24 * t : t \in T}
  <2>1. AddDate(24 * now, -6) = 24 * (now - 6)
    <3>1. now \in Int /\ -6 \in Int /\ now + (-6) = now - 6
      OBVIOUS
    <3>2. AddDate(24 * now, -6) = 24 * (now + (-6))
      BY <3>1, MidnightIs
    <3> QED BY <3>1, <3>2
  <2>2. \A d \in DOMAIN days : Time(d, 0) = 24 * d
    BY MidnightIs
  <2> QED BY <2>1, <2>2
<1> HIDE DEF T, U
<1>3. m \in T /\ \A t \in T : m <= t
  BY <1>1, MinIsLeast
<1> HIDE DEF m
<1>4. Least(24 * m)
  <2>1. \A t \in T : 24 * m <= 24 * t
    BY <1>1, <1>3
  <2> QED BY <1>2, <1>3, <2>1
<1>5. Min(U) \in U /\ \A y \in U : Min(U) <= y
  BY <1>4 DEF Min
<1>6. PICK t \in T : Min(U) = 24 * t
  BY <1>2, <1>5
<1>7. 24 * t <= 24 * m /\ m <= t /\ t \in Int /\ m \in Int
  BY <1>1, <1>3, <1>4, <1>5, <1>6
<1>8. t = m
  BY <1>7
<1> QED BY <1>1, <1>3, <1>6, <1>7, <1>8 DEF T, U, m

(* A period starts at the midnight of its first date.                      *)
LEMMA StartIs ==
    ASSUME Gap = None, NEW now \in Nat, NEW days, IsFiniteSet(DOMAIN days), DOMAIN days \subseteq Int,
           NEW period \in Periods, period # "today"
    PROVE  LET s == FirstOf(DOMAIN days, period, now)
           IN  s \in Int /\ s <= now /\ Start(days, period, 24 * now) = 24 * s
<1> DEFINE s == FirstOf(DOMAIN days, period, now)
           start == Start(days, period, 24 * now)
<1>1. DateOf(24 * now) = now /\ now \in Int
  BY MidnightIs
<1>2. ASSUME NEW n \in Int, start = AddDate(24 * now, n), s = now + n, n <= 0
      PROVE  s \in Int /\ s <= now /\ start = 24 * s
  <2> HIDE DEF s, start
  <2> QED BY <1>1, <1>2, MidnightIs
<1>3. ASSUME period = "this_week" PROVE s \in Int /\ s <= now /\ start = 24 * s
  <2> DEFINE n == -(now % 7)
  <2>1. n \in Int /\ n <= 0 /\ now - (now % 7) = now + n
    OBVIOUS
  <2>2. s = now - (now % 7) /\ start = AddDate(24 * now, n)
    BY <1>1, <1>3 DEF FirstOf, Start
  <2> HIDE DEF s, start, n
  <2> QED BY <1>2, <2>1, <2>2
<1>4. ASSUME period = "last_7_days" PROVE s \in Int /\ s <= now /\ start = 24 * s
  <2>1. s = now - 6 /\ start = AddDate(24 * now, -6)
    BY <1>4 DEF FirstOf, Start
  <2>2. now - 6 = now + (-6) /\ -6 \in Int /\ -6 <= 0
    OBVIOUS
  <2> HIDE DEF s, start
  <2> QED BY <1>2, <2>1, <2>2
<1>5. ASSUME period = "this_month" PROVE s \in Int /\ s <= now /\ start = 24 * s
  <2> DEFINE M == MonthStarts \cap 0 .. now
  <2>1. {m \in MonthStarts : m <= DateOf(24 * now)} = M
    BY <1>1, FilledDaysAssumption
  <2>2. s = Max(M) /\ start = Time(Max(M), 0)
    BY <1>5, <2>1 DEF FirstOf, Start
  <2>3. IsFiniteSet(M) /\ M \subseteq 0 .. now /\ 0 \in M
    <3>1. M \in SUBSET (0 .. now) /\ IsFiniteSet(0 .. now)
      BY FS_Interval
    <3>2. 0 \in M
      BY FilledDaysAssumption
    <3> HIDE DEF M
    <3> QED BY <3>1, <3>2, FS_Subset
  <2> HIDE DEF M
  <2>4. M \subseteq Int
    BY <2>3
  <2>5. Max(M) \in M
    BY <2>3, <2>4, MaxIsGreatest
  <2>6. Max(M) \in Int /\ Max(M) <= now
    <3>1. Max(M) \in 0 .. now
      BY <2>3, <2>5
    <3>2. \A x \in 0 .. now : x \in Int /\ x <= now
      OBVIOUS
    <3> QED BY <3>1, <3>2
  <2>7. Time(Max(M), 0) = 24 * Max(M)
    BY <2>6, MidnightIs
  <2>8. s \in Int /\ s <= now /\ start = 24 * Max(M)
    <3> HIDE DEF s, start
    <3> QED BY <2>2, <2>6, <2>7
  <2> HIDE DEF s, start
  <2> QED BY <2>2, <2>8
<1>6. ASSUME period = "last_30_days" PROVE s \in Int /\ s <= now /\ start = 24 * s
  <2>1. s = now - 29 /\ start = AddDate(24 * now, -29)
    BY <1>6 DEF FirstOf, Start
  <2>2. now - 29 = now + (-29) /\ -29 \in Int /\ -29 <= 0
    OBVIOUS
  <2> HIDE DEF s, start
  <2> QED BY <1>2, <2>1, <2>2
<1>7. ASSUME period = "lifetime" PROVE s \in Int /\ s <= now /\ start = 24 * s
  <2>1. s = Min({now - 6} \cup DOMAIN days)
    BY <1>7 DEF FirstOf
  <2>2. start = Min({AddDate(24 * now, -6)} \cup {Time(d, 0) : d \in DOMAIN days})
    BY <1>7 DEF Start
  <2> HIDE DEF s, start
  <2> QED BY <2>1, <2>2, FirstMidnight
<1> QED
  <2>1. s \in Int /\ s <= now /\ start = 24 * s
    <3> HIDE DEF s, start
    <3> QED BY <1>3, <1>4, <1>5, <1>6, <1>7 DEF Periods
  <2> QED BY <2>1

(* What fillDays makes of the days of any period.                          *)
LEMMA FilledIsComplete ==
    ASSUME Gap = None, NEW now \in Nat, NEW days, IsFiniteSet(DOMAIN days), DOMAIN days \subseteq Int,
           NEW period \in Periods
    PROVE  Complete(FillDays(days, period, now), DOMAIN days, period, now)
<1> DEFINE dates == DOMAIN days
           today == Time(now, 0)
           start == Start(days, period, today)
           s == FirstOf(dates, period, now)
           entries == FillDays(days, period, now)
           long == period = "lifetime" /\ AddDate(start, MaxFilledLifetimeDays - 1) < today
           asIs == period = "today" \/ (period = "lifetime" /\ dates = {}) \/ long
<1>1. now \in Int /\ today = 24 * now /\ MaxFilledLifetimeDays \in Nat
  BY MidnightIs, FilledDaysAssumption
<1>2. period # "today" => s \in Int /\ s <= now /\ start = 24 * s
  BY <1>1, StartIs
<1>3. period # "today" => AddDate(start, MaxFilledLifetimeDays - 1)
                            = 24 * (s + (MaxFilledLifetimeDays - 1))
  <2> HIDE DEF s, start
  <2>1. MaxFilledLifetimeDays - 1 \in Int
    BY <1>1
  <2> QED BY <1>2, <2>1, MidnightIs
<1>4. entries = IF asIs THEN Once(days)
                ELSE LET added == {t \in Visited(start, today) : DateOf(t) \notin dates}
                     IN  [d \in dates \cup {DateOf(t) : t \in added} |->
                             IF d \in dates THEN 1
                             ELSE Cardinality({t \in added : DateOf(t) = d})]
  BY DEF FillDays
<1>5. period = "lifetime" => (long <=> now - s >= MaxFilledLifetimeDays)
  <2> HIDE DEF s, start, today
  <2> QED BY <1>1, <1>2, <1>3
<1>6. FirstListed(dates, period, now) = IF asIs THEN now + 1 ELSE s
  <2>1. CASE period = "today"
    BY <2>1 DEF FirstListed
  <2>2. CASE period = "lifetime"
    <3>1. s = Min({now - 6} \cup dates)
      BY <2>2 DEF FirstOf
    <3>2. FirstListed(dates, period, now)
            = IF dates = {} \/ now - s >= MaxFilledLifetimeDays THEN now + 1 ELSE s
      BY <2>2, <3>1 DEF FirstListed
    <3> HIDE DEF s, long
    <3> QED BY <1>5, <2>2, <3>2
  <2>3. CASE period \notin {"today", "lifetime"}
    BY <2>3 DEF FirstListed, FirstOf, Periods
  <2> QED BY <2>1, <2>2, <2>3
<1>7. CASE asIs
  <2>1. entries = [d \in dates |-> 1] /\ FirstListed(dates, period, now) .. now = {}
    <3>1. \A n \in Int : n + 1 .. n = {}
      OBVIOUS
    <3> HIDE DEF asIs
    <3> QED BY <1>1, <1>4, <1>6, <1>7, <3>1 DEF Once
  <2> HIDE DEF entries, dates
  <2> QED BY <2>1 DEF Complete, entries, dates
<1>8. CASE ~asIs
  <2> DEFINE added == {t \in Visited(start, today) : DateOf(t) \notin dates}
  <2>1. s \in Int /\ s <= now /\ Visited(start, today) = {24 * d : d \in s .. now}
    <3>1. period # "today" /\ s \in Int /\ s <= now /\ start = 24 * s
      BY <1>2, <1>8
    <3> HIDE DEF s, start, today
    <3> QED BY <1>1, <3>1, VisitedIs
  <2> HIDE DEF s, start, today
  <2>2. \A d \in s .. now : d \in Int /\ DateOf(24 * d) = d
    BY <1>1, <2>1, MidnightIs
  <2>3. added = {24 * d : d \in (s .. now) \ dates}
    BY <2>1, <2>2
  <2>4. {DateOf(t) : t \in added} = (s .. now) \ dates
    BY <2>2, <2>3
  <2>5. \A d \in (s .. now) \ dates : {t \in added : DateOf(t) = d} = {24 * d}
    BY <2>2, <2>3
  <2>6. \A d \in (s .. now) \ dates : Cardinality({t \in added : DateOf(t) = d}) = 1
    BY <2>5, FS_Singleton
  <2> HIDE DEF added, asIs
  <2>7. entries = [d \in dates \cup {DateOf(t) : t \in added} |->
                      IF d \in dates THEN 1 ELSE Cardinality({t \in added : DateOf(t) = d})]
    BY <1>4, <1>8 DEF added
  <2> HIDE DEF entries
  <2>8. DOMAIN entries = dates \cup s .. now /\ \A d \in DOMAIN entries : entries[d] = 1
    BY <2>4, <2>6, <2>7
  <2> QED BY <1>6, <1>8, <2>8 DEF Complete, entries
<1> QED BY <1>7, <1>8

-----------------------------------------------------------------------------
(***************************************************************************)
(* What the accounts read so far add up to: the totals and the days of     *)
(* some endpoints, by name, or None if there are no such endpoints.        *)
(***************************************************************************)
DatesOf(names) == UNION {DOMAIN Usage[n] : n \in names}

Totals(names) == IF names = {} THEN None ELSE TotalOf(names)
Days(names) ==
    IF names = {} THEN None ELSE [d \in DatesOf(names) |-> DayOf(names, d)]

Collected(names, daily, errors) ==
    [totals |-> Totals(names), days |-> Days(daily), errors |-> errors]

(* The sum of a function, and of one with another element.                 *)
LEMMA SumWithOne ==
    ASSUME NEW N, IsFiniteSet(N), NEW m, m \notin N,
           NEW f, DOMAIN f = N, NEW g, DOMAIN g = N \cup {m},
           \A n \in N : f[n] \in Int /\ g[n] = f[n], g[m] \in Int
    PROVE  SumFunction(f) \in Int /\ SumFunction(g) = SumFunction(f) + g[m]
<1>1. SumFunctionOnSet(f, N) \in Int
  BY SumIsInt
<1>2. SumFunctionOnSet(g, N) = SumFunctionOnSet(f, N)
  BY SumOfSame
<1>3. SumFunctionOnSet(g, N \cup {m}) = g[m] + SumFunctionOnSet(g, N)
  BY SumWithMember
<1>4. g[m] + SumFunctionOnSet(f, N) = SumFunctionOnSet(f, N) + g[m]
  BY <1>1
<1> QED BY <1>1, <1>2, <1>3, <1>4 DEF SumFunction

(* The sum of a function of nothing.                                       *)
LEMMA SumOfEmpty == ASSUME NEW f, DOMAIN f = {} PROVE SumFunction(f) = 0
BY SumOfNone DEF SumFunction

(* What an endpoint has of a date.                                         *)
Recorded(n, d) == IF d \in DOMAIN Usage[n] THEN Usage[n][d] ELSE 0

(* An endpoint has finitely many dates, and a number for each.             *)
LEMMA UsageIs ==
    ASSUME NEW n \in DOMAIN Usage
    PROVE  /\ Tokens(Usage[n]) \in Int /\ IsFiniteSet(DOMAIN Usage[n])
           /\ DOMAIN Usage[n] \subseteq Dates /\ DOMAIN Usage[n] \subseteq Int
           /\ \A d : Recorded(n, d) \in Int
           /\ Usage[n] = [d \in DOMAIN Usage[n] |-> Recorded(n, d)]
<1>1. Usage[n] \in [DOMAIN Usage[n] -> Nat] /\ IsFiniteSet(DOMAIN Usage[n])
  BY UsageAssumption
<1>2. DOMAIN Usage[n] \subseteq Dates /\ Dates \subseteq Int
  BY UsageAssumption DEF Dates
<1>3. \A d \in DOMAIN Usage[n] : Usage[n][d] \in Int
  BY <1>1
<1>4. SumFunctionOnSet(Usage[n], DOMAIN Usage[n]) \in Int
  BY <1>1, <1>3, SumIsInt
<1>5. Usage[n] = [d \in DOMAIN Usage[n] |-> Recorded(n, d)]
  BY <1>1 DEF Recorded
<1>6. \A d : Recorded(n, d) \in Int
  BY <1>3 DEF Recorded
<1> QED BY <1>1, <1>2, <1>4, <1>5, <1>6 DEF Tokens, SumFunction

(* The totals with those of another endpoint.                              *)
LEMMA TotalsWith ==
    ASSUME NEW N \in SUBSET DOMAIN Usage, IsFiniteSet(N), NEW m \in DOMAIN Usage, m \notin N
    PROVE  Plus(Totals(N), Tokens(Usage[m])) = Totals(N \cup {m})
<1> DEFINE f == [n \in N |-> Tokens(Usage[n])]
           g == [n \in N \cup {m} |-> Tokens(Usage[n])]
<1>1. \A n \in N \cup {m} : Tokens(Usage[n]) \in Int
  BY UsageIs
<1>2. \A n \in N : f[n] \in Int /\ g[n] = f[n]
  BY <1>1
<1>3. DOMAIN f = N /\ DOMAIN g = N \cup {m} /\ g[m] = Tokens(Usage[m]) /\ g[m] \in Int
  BY <1>1
<1>4. TotalOf(N) = SumFunction(f) /\ TotalOf(N \cup {m}) = SumFunction(g)
  BY DEF TotalOf
<1> HIDE DEF f, g
<1>5. SumFunction(f) \in Int /\ SumFunction(g) = SumFunction(f) + g[m]
  BY <1>2, <1>3, SumWithOne
<1>6. CASE N = {}
  <2>1. SumFunction(f) = 0
    BY <1>3, <1>6, SumOfEmpty
  <2>2. SumFunction(g) = g[m]
    <3>1. 0 + g[m] = g[m]
      BY <1>3
    <3> QED BY <1>5, <2>1, <3>1
  <2> QED BY <1>3, <1>4, <1>6, <2>2 DEF Plus, Totals
<1>7. CASE N # {}
  <2>1. Totals(N) # None
    BY <1>4, <1>5, <1>7, FilledDaysAssumption DEF Totals
  <2>2. Totals(N) = TotalOf(N) /\ Totals(N \cup {m}) = TotalOf(N \cup {m})
    BY <1>7 DEF Totals
  <2> QED BY <1>3, <1>4, <1>5, <2>1, <2>2 DEF Plus
<1> QED BY <1>6, <1>7

(* A date's sum.                                                           *)
LEMMA DayOfWith ==
    ASSUME NEW N \in SUBSET DOMAIN Usage, IsFiniteSet(N), NEW m \in DOMAIN Usage, m \notin N, NEW d
    PROVE  /\ DayOf(N, d) \in Int
           /\ DayOf(N \cup {m}, d) = DayOf(N, d) + Recorded(m, d)
           /\ d \notin DatesOf(N) => DayOf(N, d) = 0
<1> DEFINE f == [n \in N |-> Recorded(n, d)]
           g == [n \in N \cup {m} |-> Recorded(n, d)]
<1>1. \A n \in N \cup {m} : Recorded(n, d) \in Int
  BY UsageIs
<1>2. \A n \in N : f[n] \in Int /\ g[n] = f[n]
  BY <1>1
<1>3. DOMAIN f = N /\ DOMAIN g = N \cup {m} /\ g[m] = Recorded(m, d) /\ g[m] \in Int
  BY <1>1
<1>4. DayOf(N, d) = SumFunction(f) /\ DayOf(N \cup {m}, d) = SumFunction(g)
  BY DEF DayOf, Recorded
<1>5. d \notin DatesOf(N) => \A n \in N : f[n] = 0
  BY DEF DatesOf, Recorded
<1> HIDE DEF f, g
<1>6. SumFunction(f) \in Int /\ SumFunction(g) = SumFunction(f) + g[m]
  BY <1>2, <1>3, SumWithOne
<1>7. d \notin DatesOf(N) => SumFunctionOnSet(f, N) = 0
  BY <1>5, SumOfZeros
<1> QED BY <1>3, <1>4, <1>6, <1>7 DEF SumFunction

(* What the days of some endpoints are.                                    *)
LEMMA DaysAre ==
    ASSUME NEW N \in SUBSET DOMAIN Usage, IsFiniteSet(N), N # {}
    PROVE  /\ Days(N) = [d \in DatesOf(N) |-> DayOf(N, d)]
           /\ Days(N) # None
           /\ IsFiniteSet(DatesOf(N)) /\ DatesOf(N) \subseteq Int
<1> DEFINE days == [d \in DatesOf(N) |-> DayOf(N, d)]
<1>1. DatesOf(N) \in SUBSET Dates /\ Dates \subseteq Int
  BY UsageAssumption DEF DatesOf, Dates
<1>2. IsFiniteSet(DatesOf(N))
  <2>1. \A x \in {DOMAIN Usage[n] : n \in N} : IsFiniteSet(x)
    BY UsageIs
  <2> DEFINE sets == {DOMAIN Usage[n] : n \in N}
             f == [n \in N |-> DOMAIN Usage[n]]
  <2>2. IsFiniteSet(sets)
    <3>1. f \in [N -> sets] /\ \A x \in sets : \E n \in N : f[n] = x
      OBVIOUS
    <3> HIDE DEF f, sets
    <3> QED BY <3>1, FS_Surjection, Fun_IsSurj
  <2> QED BY <2>1, <2>2, FS_UNION DEF DatesOf
<1>3. \A d : DayOf(N, d) \in Int
  <2> TAKE d
  <2> DEFINE f == [n \in N |-> Recorded(n, d)]
  <2>1. \A n \in N : f[n] \in Int
    BY UsageIs
  <2>2. DayOf(N, d) = SumFunctionOnSet(f, N)
    BY DEF DayOf, Recorded, SumFunction
  <2> HIDE DEF f
  <2> QED BY <2>1, <2>2, SumIsInt
<1>4. days \in [DatesOf(N) -> Int]
  BY <1>3
<1>5. days # None
  <2> HIDE DEF days
  <2> QED BY <1>1, <1>4, UsageAssumption
<1> QED BY <1>1, <1>2, <1>5 DEF Days

(* The days with those of another endpoint.                                *)
LEMMA DaysWith ==
    ASSUME NEW N \in SUBSET DOMAIN Usage, IsFiniteSet(N), NEW m \in DOMAIN Usage, m \notin N
    PROVE  Merged(Days(N), Usage[m]) = Days(N \cup {m})
<1> DEFINE M == N \cup {m}
           days == [d \in DatesOf(M) |-> DayOf(M, d)]
<1>1. Days(M) = days /\ DatesOf(M) = DatesOf(N) \cup DOMAIN Usage[m]
  BY DEF Days, DatesOf
<1>2. \A d : /\ DayOf(N, d) \in Int /\ Recorded(m, d) \in Int
             /\ DayOf(M, d) = DayOf(N, d) + Recorded(m, d)
             /\ d \notin DatesOf(N) => DayOf(N, d) = 0
  BY DayOfWith, UsageIs
<1> HIDE DEF M
<1>3. CASE N = {}
  <2>1. DatesOf(N) = {}
    BY <1>3 DEF DatesOf
  <2>2. \A d : DayOf(M, d) = Recorded(m, d)
    BY <1>2, <2>1
  <2>3. days = [d \in DOMAIN Usage[m] |-> Recorded(m, d)]
    BY <1>1, <2>1, <2>2
  <2> HIDE DEF days
  <2>4. days = Usage[m]
    BY <2>3, UsageIs
  <2> QED BY <1>1, <1>3, <2>4 DEF Merged, Days, M
<1>4. CASE N # {}
  <2> DEFINE old == [d \in DatesOf(N) |-> DayOf(N, d)]
             of(function, d) == IF d \in DOMAIN function THEN function[d] ELSE 0
  <2>1. Days(N) = old /\ Days(N) # None
    BY <1>4, DaysAre
  <2>2. Merged(Days(N), Usage[m])
          = [d \in DatesOf(N) \cup DOMAIN Usage[m] |-> of(old, d) + of(Usage[m], d)]
    BY <2>1 DEF Merged, MergeDays
  <2>3. \A d : of(old, d) = DayOf(N, d) /\ of(Usage[m], d) = Recorded(m, d)
    BY <1>2 DEF Recorded
  <2>4. \A d : DayOf(M, d) = of(old, d) + of(Usage[m], d)
    BY <1>2, <2>3
  <2> HIDE DEF of, old
  <2>5. days = [d \in DatesOf(N) \cup DOMAIN Usage[m] |-> of(old, d) + of(Usage[m], d)]
    BY <1>1, <2>4
  <2> HIDE DEF days
  <2> QED BY <1>1, <2>2, <2>5 DEF M
<1> QED BY <1>3, <1>4

-----------------------------------------------------------------------------
(***************************************************************************)
(* The loop over the accounts adds them to the answer one after another,   *)
(* as a recursion over the sets of their places.                           *)
(***************************************************************************)
StepLive(c, out, a) ==
    IF a \in Selected(c, accounts[c]) THEN AddLive(c, out, a) ELSE out

StepStored(c, loaded, out, a) ==
    IF a \in Selected(c, accounts[c]) THEN AddStored(out, a, loaded[a.name]) ELSE out

LiveRecursion(c, base, g) ==
    g = [s \in SUBSET DOMAIN accounts[c] |->
            IF s = {} THEN base
            ELSE StepLive(c, g[s \ {Max(s)}], accounts[c][Max(s)])]

StoredRecursion(c, loaded, base, g) ==
    g = [s \in SUBSET DOMAIN accounts[c] |->
            IF s = {} THEN base
            ELSE StepStored(c, loaded, g[s \ {Max(s)}], accounts[c][Max(s)])]

Live(c, base) ==
    FoldLeft(LAMBDA out, a : IF a \in Selected(c, accounts[c]) THEN AddLive(c, out, a) ELSE out,
             base, accounts[c])

Stored(c, loaded, base) ==
    FoldLeft(LAMBDA out, a : IF a \in Selected(c, accounts[c])
                               THEN AddStored(out, a, loaded[a.name]) ELSE out,
             base, accounts[c])

(* The loop over live data is such a recursion.                            *)
LEMMA LiveIsRecursion ==
    ASSUME NEW c, NEW base
    PROVE  Live(c, base) = (CHOOSE g : LiveRecursion(c, base, g))[DOMAIN accounts[c]]
BY DEF Live, LiveRecursion, StepLive, FoldLeft, MapThenFoldSet

(* So is the loop over stored data.                                        *)
LEMMA StoredIsRecursion ==
    ASSUME NEW c, NEW loaded, NEW base
    PROVE  Stored(c, loaded, base)
             = (CHOOSE g : StoredRecursion(c, loaded, base, g))[DOMAIN accounts[c]]
BY DEF Stored, StoredRecursion, StepStored, FoldLeft, MapThenFoldSet

(* Two functions that make the same of a set once they agree on the set    *)
(* without its greatest element.                                           *)
LEMMA LoopIsUnique ==
    ASSUME NEW S, IsFiniteSet(S), S \subseteq Int, NEW g, NEW h, g[{}] = h[{}],
           \A s \in SUBSET S :
               s # {} /\ g[s \ {Max(s)}] = h[s \ {Max(s)}] => g[s] = h[s]
    PROVE  g[S] = h[S]
<1> DEFINE T == {s \in SUBSET S : g[s] = h[s]}
<1>1. ASSUME NEW s \in SUBSET S, \A t \in SUBSET s : t # s => t \in T
      PROVE  s \in T
  <2>1. CASE s # {}
    <3>1. IsFiniteSet(s) /\ s \subseteq Int
      BY FS_Subset
    <3>2. Max(s) \in s
      BY <2>1, <3>1, MaxIsGreatest
    <3>3. s \ {Max(s)} \in T
      BY <1>1, <3>2
    <3> QED BY <2>1, <3>3
  <2> QED BY <2>1
<1> HIDE DEF T
<1>2. S \in T
  BY <1>1, SubsetInduction
<1> QED BY <1>2 DEF T

(* A function that does what the loop over live data does gives its value. *)
LEMMA LiveIs ==
    ASSUME NEW c, NEW base, IsFiniteSet(DOMAIN accounts[c]), DOMAIN accounts[c] \subseteq Int,
           NEW g, g[{}] = base,
           \A s \in SUBSET DOMAIN accounts[c] :
               s # {} => g[s] = StepLive(c, g[s \ {Max(s)}], accounts[c][Max(s)])
    PROVE  Live(c, base) = g[DOMAIN accounts[c]]
<1> DEFINE S == DOMAIN accounts[c]
           value(h, s) == IF s = {} THEN base
                          ELSE StepLive(c, h[s \ {Max(s)}], accounts[c][Max(s)])
           h == [s \in SUBSET S |-> g[s]]
           k == CHOOSE f : LiveRecursion(c, base, f)
<1>1. LiveRecursion(c, base, h)
  <2>1. ASSUME NEW s \in SUBSET S PROVE h[s] = value(h, s)
    <3>1. h[s] = g[s] /\ h[s \ {Max(s)}] = g[s \ {Max(s)}]
      OBVIOUS
    <3>2. g[s] = value(g, s)
      OBVIOUS
    <3> HIDE DEF h
    <3> QED BY <3>1, <3>2
  <2>2. h = [s \in SUBSET S |-> value(h, s)]
    <3> HIDE DEF value
    <3> QED BY <2>1
  <2> QED BY <2>2 DEF LiveRecursion
<1>2. LiveRecursion(c, base, k)
  BY <1>1
<1>3. \A s \in SUBSET S : k[s] = value(k, s)
  <2>1. k = [s \in SUBSET S |-> value(k, s)]
    BY <1>2 DEF LiveRecursion
  <2> HIDE DEF k, value
  <2> QED BY <2>1
<1>4. Live(c, base) = k[S]
  BY LiveIsRecursion
<1>5. k[{}] = g[{}]
  BY <1>3
<1>6. ASSUME NEW s \in SUBSET S, s # {}, k[s \ {Max(s)}] = g[s \ {Max(s)}]
      PROVE  k[s] = g[s]
  <2> HIDE DEF k
  <2> QED BY <1>3, <1>6
<1> HIDE DEF k, value
<1>7. k[S] = g[S]
  <2> HIDE DEF S
  <2> QED BY <1>5, <1>6, LoopIsUnique DEF S
<1> QED BY <1>4, <1>7

(* So does one for the loop over stored data.                              *)
LEMMA StoredIs ==
    ASSUME NEW c, NEW loaded, NEW base, IsFiniteSet(DOMAIN accounts[c]), DOMAIN accounts[c] \subseteq Int,
           NEW g, g[{}] = base,
           \A s \in SUBSET DOMAIN accounts[c] :
               s # {} => g[s] = StepStored(c, loaded, g[s \ {Max(s)}], accounts[c][Max(s)])
    PROVE  Stored(c, loaded, base) = g[DOMAIN accounts[c]]
<1> DEFINE S == DOMAIN accounts[c]
           value(h, s) == IF s = {} THEN base
                          ELSE StepStored(c, loaded, h[s \ {Max(s)}], accounts[c][Max(s)])
           h == [s \in SUBSET S |-> g[s]]
           k == CHOOSE f : StoredRecursion(c, loaded, base, f)
<1>1. StoredRecursion(c, loaded, base, h)
  <2>1. ASSUME NEW s \in SUBSET S PROVE h[s] = value(h, s)
    <3>1. h[s] = g[s] /\ h[s \ {Max(s)}] = g[s \ {Max(s)}]
      OBVIOUS
    <3>2. g[s] = value(g, s)
      OBVIOUS
    <3> HIDE DEF h
    <3> QED BY <3>1, <3>2
  <2>2. h = [s \in SUBSET S |-> value(h, s)]
    <3> HIDE DEF value
    <3> QED BY <2>1
  <2> QED BY <2>2 DEF StoredRecursion
<1>2. StoredRecursion(c, loaded, base, k)
  BY <1>1
<1>3. \A s \in SUBSET S : k[s] = value(k, s)
  <2>1. k = [s \in SUBSET S |-> value(k, s)]
    BY <1>2 DEF StoredRecursion
  <2> HIDE DEF k, value
  <2> QED BY <2>1
<1>4. Stored(c, loaded, base) = k[S]
  BY StoredIsRecursion
<1>5. k[{}] = g[{}]
  BY <1>3
<1>6. ASSUME NEW s \in SUBSET S, s # {}, k[s \ {Max(s)}] = g[s \ {Max(s)}]
      PROVE  k[s] = g[s]
  <2> HIDE DEF k
  <2> QED BY <1>3, <1>6
<1> HIDE DEF k, value
<1>7. k[S] = g[S]
  <2> HIDE DEF S
  <2> QED BY <1>5, <1>6, LoopIsUnique DEF S
<1> QED BY <1>4, <1>7

-----------------------------------------------------------------------------
(***************************************************************************)
(* What the loops make of the accounts, which have names of their own.     *)
(***************************************************************************)
Names(list, I) == {list[i].name : i \in I}

ListOk(list) ==
    /\ IsFiniteSet(DOMAIN list) /\ DOMAIN list \subseteq Int
    /\ \A i \in DOMAIN list : list[i].name \in DOMAIN Usage
    /\ \A i, j \in DOMAIN list : list[i].name = list[j].name => i = j

(* The names of some places are finitely many.                             *)
LEMMA NamesAre ==
    ASSUME NEW list, ListOk(list), NEW I \in SUBSET DOMAIN list
    PROVE  Names(list, I) \in SUBSET DOMAIN Usage /\ IsFiniteSet(Names(list, I))
<1> DEFINE f == [i \in I |-> list[i].name]
           N == Names(list, I)
<1>1. IsFiniteSet(I)
  BY FS_Subset DEF ListOk
<1>2. f \in [I -> N] /\ \A n \in N : \E i \in I : f[i] = n
  BY DEF Names
<1>3. IsFiniteSet(N)
  <2> HIDE DEF f, N
  <2> QED BY <1>1, <1>2, FS_Surjection, Fun_IsSurj
<1> QED BY <1>3 DEF Names, ListOk

(* What one more account adds to the names, the totals and the days.       *)
Adds(list, I, s, x) ==
    LET N == Names(list, I \cap (s \ {x}))
        usage == Usage[list[x].name]
    IN  /\ Names(list, I \cap s) = IF x \in I THEN N \cup {list[x].name} ELSE N
        /\ Totals(Names(list, I \cap s))
             = IF x \in I THEN Plus(Totals(N), Tokens(usage)) ELSE Totals(N)
        /\ Days(Names(list, I \cap s))
             = IF x \in I THEN Merged(Days(N), usage) ELSE Days(N)

(* It is so for any places and any one of them.                            *)
LEMMA CollectedWith ==
    ASSUME NEW list, ListOk(list), NEW I \in SUBSET DOMAIN list,
           NEW s \in SUBSET DOMAIN list, NEW x \in s
    PROVE  Adds(list, I, s, x)
<1> DEFINE t == I \cap (s \ {x})
           N == Names(list, t)
           m == list[x].name
<1>1. x \in I => I \cap s = t \cup {x}
  OBVIOUS
<1>2. x \notin I => I \cap s = t
  OBVIOUS
<1>3. x \in DOMAIN list /\ t \in SUBSET DOMAIN list /\ x \notin t
  OBVIOUS
<1> HIDE DEF t
<1>4. m \notin N /\ m \in DOMAIN Usage
  BY <1>3 DEF Names, ListOk
<1>5. Names(list, t \cup {x}) = N \cup {m}
  BY DEF Names
<1>6. N \in SUBSET DOMAIN Usage /\ IsFiniteSet(N)
  BY <1>3, NamesAre
<1> HIDE DEF N, m
<1>7. Plus(Totals(N), Tokens(Usage[m])) = Totals(N \cup {m})
  BY <1>4, <1>6, TotalsWith
<1>8. Merged(Days(N), Usage[m]) = Days(N \cup {m})
  BY <1>4, <1>6, DaysWith
<1>9. /\ Names(list, I \cap s) = IF x \in I THEN N \cup {m} ELSE N
      /\ Totals(Names(list, I \cap s))
           = IF x \in I THEN Plus(Totals(N), Tokens(Usage[m])) ELSE Totals(N)
      /\ Days(Names(list, I \cap s)) = IF x \in I THEN Merged(Days(N), Usage[m]) ELSE Days(N)
  BY <1>1, <1>2, <1>5, <1>7, <1>8 DEF N
<1> QED BY <1>9 DEF N, m, t, Adds

(* The list of accounts that a call which has ended its requests reads.    *)
LEMMA ListIsOk ==
    ASSUME CallIInv, NEW c \in Caller, stage[c] \in {"loading", "answered"}
    PROVE  /\ AccountsOk(accounts[c], endpoints[c], UsageOf(c))
           /\ ListOk(accounts[c])
<1>1. CallOk(c)
  BY DEF CallIInv, CallsInv
<1>2. found[c] \in Found
  BY <1>1, CallAssumption DEF CallOk, Found
<1>3. endpoints[c] \in Seq(Endpoint)
  BY <1>1, <1>2, EndpointsAre DEF CallOk
<1>4. \A i \in DOMAIN endpoints[c] : /\ UsageOf(c)[endpoints[c][i].name] \in Nat \cup {Failed}
                                     /\ endpoints[c][i].name \in DOMAIN Usage
  <2> TAKE i \in DOMAIN endpoints[c]
  <2> DEFINE e == endpoints[c][i]
  <2>1. e \in ToSet(endpoints[c]) /\ e \in Endpoint
    BY <1>3 DEF ToSet
  <2>2. <<"usage", e.name>> \in UsageKeys(c)
    BY <2>1 DEF UsageKeys
  <2>3. UsageOf(c)[e.name] = requests[c][<<"usage", e.name>>]
    BY <2>1 DEF UsageOf
  <2>4. e.name \in DOMAIN Usage
    BY <2>1 DEF Endpoint
  <2> QED BY <1>1, <2>2, <2>3, <2>4 DEF CallOk
<1>5. AccountsOk(accounts[c], endpoints[c], UsageOf(c))
  BY <1>1, <1>3, <1>4, AccountsAre DEF CallOk
<1>6. ListOk(accounts[c])
  <2> DEFINE list == accounts[c]
             n == Len(list)
  <2>1. n \in Nat /\ DOMAIN list = 1 .. n
    BY <1>5 DEF AccountsOk
  <2> HIDE DEF n
  <2>2. IsFiniteSet(DOMAIN list) /\ DOMAIN list \subseteq Int
    BY <2>1, FS_Interval
  <2> QED BY <1>4, <1>5, <2>2 DEF ListOk, AccountsOk
<1> QED BY <1>5, <1>6

-----------------------------------------------------------------------------
(***************************************************************************)
(* The answers.                                                            *)
(***************************************************************************)
(* A call that is about to be answered.                                    *)
SelectedPlaces(c) == {i \in DOMAIN accounts[c] : accounts[c][i] \in Selected(c, accounts[c])}

(* Its requests have ended; each account asked for has a place.            *)
LEMMA BeforeAnswer ==
    ASSUME CallIInv, NEW c \in Caller, stage[c] = "loading", Ended(c)
    PROVE  /\ CallOk(c) /\ ListOk(accounts[c])
           /\ DOMAIN requests[c] = UsageKeys(c) \cup DataKeys(c)
           /\ \A k \in DataKeys(c) : requests[c][k] \in {Failed, Ok}
           /\ Names(accounts[c], SelectedPlaces(c)) = {a.name : a \in Selected(c, accounts[c])}
<1>1. CallOk(c) /\ ListOk(accounts[c])
  BY ListIsOk DEF CallIInv, CallsInv
<1>2. DOMAIN requests[c] = UsageKeys(c) \cup DataKeys(c)
  BY <1>1 DEF CallOk
<1>3. \A k \in DataKeys(c) : requests[c][k] \in {Failed, Ok}
  BY <1>1, <1>2 DEF CallOk, Ended
<1>4. Names(accounts[c], SelectedPlaces(c)) = {a.name : a \in Selected(c, accounts[c])}
  BY DEF Names, SelectedPlaces, Selected, ToSet
<1> QED BY <1>1, <1>2, <1>3, <1>4

(* The live data of the accounts that were asked for.                      *)
LEMMA LiveAnswer ==
    ASSUME CallIInv, NEW c \in Caller, AnswerLive(c)
    PROVE  LET names == Succeeded(c, "token-usage")
               daily == Succeeded(c, "token-usage/daily")
               errors == Empty(c).errors \cup FailedRequests(c)
           IN  /\ names \in SUBSET DOMAIN Usage /\ IsFiniteSet(names)
               /\ daily \in SUBSET DOMAIN Usage /\ IsFiniteSet(daily)
               /\ answer'[c] = Finish(c, Collected(names, daily, errors))
<1> DEFINE list == accounts[c]
           S == DOMAIN list
           sel == SelectedPlaces(c)
           Key(op, i) == <<op, list[i].name>>
           done(op) == {i \in sel : requests[c][Key(op, i)] # Failed}
           I == done("token-usage")
           J == done("token-usage/daily")
           Errors(s) == ({"token-usage", "token-usage/daily"} \X Names(list, sel \cap s))
                            \cap FailedRequests(c)
           base == Empty(c)
           value(s) == Collected(Names(list, I \cap s), Names(list, J \cap s),
                                 base.errors \cup Errors(s))
           g == [s \in SUBSET S |-> value(s)]
<1>1. /\ stage[c] = "loading" /\ Ended(c) /\ call[c].operation = "dashboard" /\ ~persistent
      /\ answer'[c] = Finish(c, Live(c, base))
  BY DEF AnswerLive, Live, CallIInv, CallsInv
<1>2. /\ CallOk(c) /\ ListOk(list)
      /\ DOMAIN requests[c] = UsageKeys(c) \cup DataKeys(c)
      /\ \A k \in DataKeys(c) : requests[c][k] \in {Failed, Ok}
      /\ Names(list, sel) = {a.name : a \in Selected(c, list)}
  BY <1>1, BeforeAnswer
<1>3. IsFiniteSet(S) /\ S \subseteq Int /\ sel \in SUBSET S /\ I \in SUBSET S /\ J \in SUBSET S
  BY <1>2 DEF ListOk, SelectedPlaces
<1>4. DataKeys(c) = {"token-usage", "token-usage/daily"} \X Names(list, sel)
  BY <1>1, <1>2 DEF DataKeys, Operations
<1>5. g[{}] = base
  <2>1. Names(list, I \cap {}) = {} /\ Names(list, J \cap {}) = {} /\ Names(list, sel \cap {}) = {}
    BY DEF Names
  <2>2. Errors({}) = {}
    BY <2>1
  <2> HIDE DEF Errors, I, J
  <2>3. value({}) = Collected({}, {}, base.errors)
    BY <2>1, <2>2
  <2>4. base = [totals |-> None, days |-> None, errors |-> base.errors]
    BY DEF Empty
  <2>5. value({}) = base
    BY <2>3, <2>4 DEF Collected, Totals, Days
  <2> HIDE DEF value, base
  <2> QED BY <2>5
<1>6. ASSUME NEW s \in SUBSET S, s # {}
      PROVE  g[s] = StepLive(c, g[s \ {Max(s)}], list[Max(s)])
  <2> DEFINE x == Max(s)
             t == s \ {x}
             m == list[x].name
  <2>1. x \in s /\ x \in S /\ t \in SUBSET S
    <3>1. IsFiniteSet(s) /\ s \subseteq Int
      BY <1>3, FS_Subset
    <3> QED BY <1>6, <3>1, MaxIsGreatest
  <2>2. g[s] = value(s) /\ g[t] = value(t)
    BY <2>1
  <2>3. x \in sel <=> list[x] \in Selected(c, list)
    BY <2>1 DEF SelectedPlaces
  <2> HIDE DEF x
  <2>9. Adds(list, I, s, x) /\ Adds(list, J, s, x) /\ Adds(list, sel, s, x)
    <3> HIDE DEF I, J, sel, list
    <3> QED BY <1>2, <1>3, <2>1, CollectedWith DEF list
  <2>4. /\ Totals(Names(list, I \cap s))
             = IF x \in I THEN Plus(Totals(Names(list, I \cap t)), Tokens(Usage[m]))
               ELSE Totals(Names(list, I \cap t))
        /\ Days(Names(list, J \cap s))
             = IF x \in J THEN Merged(Days(Names(list, J \cap t)), Usage[m])
               ELSE Days(Names(list, J \cap t))
    <3> HIDE DEF I, J
    <3> QED BY <2>9 DEF Adds
  <2>5. Names(list, sel \cap s) = IF x \in sel THEN Names(list, sel \cap t) \cup {m}
                                 ELSE Names(list, sel \cap t)
    BY <2>9 DEF Adds
  <2>6. CASE x \notin sel
    <3>1. x \notin I /\ x \notin J /\ Errors(s) = Errors(t)
      BY <2>5, <2>6
    <3> HIDE DEF I, J, Errors
    <3>2. value(s) = value(t)
      BY <2>4, <3>1 DEF Collected
    <3> HIDE DEF value, g, list
    <3> QED BY <2>2, <2>3, <2>6, <3>2 DEF StepLive, x, list, t
  <2>7. CASE x \in sel
    <3>1. /\ x \in I <=> requests[c][<<"token-usage", m>>] # Failed
          /\ x \in J <=> requests[c][<<"token-usage/daily", m>>] # Failed
      BY <2>7
    <3>2. Errors(s) = Errors(t) \cup ({<<"token-usage", m>>, <<"token-usage/daily", m>>}
                                          \cap FailedRequests(c))
      BY <2>5, <2>7
    <3> HIDE DEF I, J, Errors, m, t
    <3>3. AddLive(c, value(t), list[x]) =
            [totals |-> IF x \in I THEN Plus(Totals(Names(list, I \cap t)), Tokens(Usage[m]))
                        ELSE Totals(Names(list, I \cap t)),
             days   |-> IF x \in J THEN Merged(Days(Names(list, J \cap t)), Usage[m])
                        ELSE Days(Names(list, J \cap t)),
             errors |-> (base.errors \cup Errors(t))
                 \cup ({<<"token-usage", m>>, <<"token-usage/daily", m>>} \cap FailedRequests(c))]
      BY <3>1 DEF AddLive, Collected, m
    <3>4. AddLive(c, value(t), list[x]) = value(s)
      BY <2>4, <3>2, <3>3 DEF Collected
    <3> HIDE DEF value, g, list
    <3> QED BY <2>2, <2>3, <2>7, <3>4 DEF StepLive, x, list, t
  <2> QED BY <2>6, <2>7
<1>7. Live(c, base) = g[S]
  <2> HIDE DEF g, base
  <2> QED BY <1>3, <1>5, <1>6, LiveIs
<1>8. g[S] = Collected(Names(list, I), Names(list, J), base.errors \cup Errors(S))
  <2>1. I \cap S = I /\ J \cap S = J
    BY <1>3
  <2>2. g[S] = value(S)
    OBVIOUS
  <2> HIDE DEF I, J, Errors, base, g
  <2> QED BY <2>1, <2>2
<1>9. ASSUME NEW op \in {"token-usage", "token-usage/daily"}
      PROVE  Names(list, done(op)) = Succeeded(c, op)
  <2>1. \A n \in Names(list, sel) : <<op, n>> \in DataKeys(c)
    BY <1>4
  <2>2. \A n : <<op, n>> \in DOMAIN requests[c] => n \in Names(list, sel)
    <3>1. \A k \in UsageKeys(c) : k[1] # op
      BY KeysAre
    <3> QED BY <1>2, <1>4, <3>1
  <2>3. \A n : n \in Succeeded(c, op) <=> <<op, n>> \in DOMAIN requests[c] /\ requests[c][<<op, n>>] = Ok
    <3>1. \A k \in DOMAIN requests[c] : k = <<k[1], k[2]>>
      BY <1>2, <1>4 DEF UsageKeys
    <3> QED BY <3>1 DEF Succeeded
  <2>4. \A i \in sel : list[i].name \in Names(list, sel)
    BY DEF Names
  <2>5. \A i \in sel : i \in done(op) <=> requests[c][<<op, list[i].name>>] = Ok
    BY <1>2, <2>1, <2>4, CallAssumption
  <2>6. ASSUME NEW n \in Names(list, done(op)) PROVE n \in Succeeded(c, op)
    BY <1>2, <2>1, <2>3, <2>4, <2>5, <2>6 DEF Names
  <2>7. ASSUME NEW n \in Succeeded(c, op) PROVE n \in Names(list, done(op))
    <3>1. PICK i \in sel : n = list[i].name
      BY <2>2, <2>3, <2>7 DEF Names
    <3>2. i \in done(op)
      BY <2>3, <2>5, <2>7, <3>1
    <3> QED BY <3>1, <3>2 DEF Names
  <2> QED BY <2>6, <2>7
<1>10. base.errors \cup Errors(S) = base.errors \cup FailedRequests(c)
  <2>1. sel \cap S = sel
    BY <1>3
  <2>2. ASSUME NEW k \in FailedRequests(c) PROVE k \in base.errors \cup Errors(S)
    <3>1. CASE k \in UsageKeys(c)
      BY <2>2, <3>1, KeysAre DEF Empty, ResolveErrors
    <3>2. CASE k \in DataKeys(c)
      BY <1>4, <2>1, <2>2, <3>2
    <3> QED BY <1>2, <2>2, <3>1, <3>2 DEF FailedRequests
  <2> QED BY <2>2
<1>11. /\ Names(list, I) \in SUBSET DOMAIN Usage /\ IsFiniteSet(Names(list, I))
       /\ Names(list, J) \in SUBSET DOMAIN Usage /\ IsFiniteSet(Names(list, J))
  <2> HIDE DEF I, J
  <2> QED BY <1>2, <1>3, NamesAre
<1>12. Names(list, I) = Succeeded(c, "token-usage")
       /\ Names(list, J) = Succeeded(c, "token-usage/daily")
  BY <1>9
<1> HIDE DEF I, J, base, Errors, g, done
<1> QED BY <1>1, <1>7, <1>8, <1>10, <1>11, <1>12 DEF base

(* The stored data of the accounts that were asked for.                    *)
LEMMA StoredAnswer ==
    ASSUME CallIInv, NEW c \in Caller, AnswerStored(c)
    PROVE  LET names == Succeeded(c, "persistence")'
               errors == Empty(c).errors \cup FailedRequests(c)'
           IN  /\ names \in SUBSET DOMAIN Usage /\ IsFiniteSet(names)
               /\ answer'[c] = Finish(c, Collected(names, names, errors))
<1> DEFINE list == accounts[c]
           S == DOMAIN list
           sel == SelectedPlaces(c)
           base == Empty(c)
<1>1. /\ stage[c] = "loading" /\ Ended(c) /\ call[c].operation = "dashboard" /\ persistent
  BY DEF AnswerStored
<1>2. /\ CallOk(c) /\ ListOk(list)
      /\ DOMAIN requests[c] = UsageKeys(c) \cup DataKeys(c)
      /\ Names(list, sel) = {a.name : a \in Selected(c, list)}
  BY <1>1, BeforeAnswer
<1>3. PICK loaded \in [Names(list, sel) -> {Ok, Failed}] :
          /\ answer' = [answer EXCEPT ![c] = Finish(c, Stored(c, loaded, base))]
          /\ requests' = [requests EXCEPT ![c] = With(@,
                 [k \in {"persistence"} \X DOMAIN loaded |-> loaded[k[2]]])]
  BY <1>2 DEF AnswerStored, Stored
<1> DEFINE I == {i \in sel : loaded[list[i].name] = Ok}
           Errors(s) == {"persistence"} \X {n \in Names(list, sel \cap s) : loaded[n] # Ok}
           value(s) == Collected(Names(list, I \cap s), Names(list, I \cap s),
                                 base.errors \cup Errors(s))
           g == [s \in SUBSET S |-> value(s)]
<1>4. IsFiniteSet(S) /\ S \subseteq Int /\ sel \in SUBSET S /\ I \in SUBSET S
  BY <1>2 DEF ListOk, SelectedPlaces
<1>5. g[{}] = base
  <2>1. Names(list, I \cap {}) = {} /\ Names(list, sel \cap {}) = {}
    BY DEF Names
  <2>2. Errors({}) = {}
    BY <2>1
  <2> HIDE DEF Errors, I
  <2>3. value({}) = Collected({}, {}, base.errors)
    BY <2>1, <2>2
  <2>4. base = [totals |-> None, days |-> None, errors |-> base.errors]
    BY DEF Empty
  <2>5. value({}) = base
    BY <2>3, <2>4 DEF Collected, Totals, Days
  <2> HIDE DEF value, base
  <2> QED BY <2>5
<1>6. ASSUME NEW s \in SUBSET S, s # {}
      PROVE  g[s] = StepStored(c, loaded, g[s \ {Max(s)}], list[Max(s)])
  <2> DEFINE x == Max(s)
             t == s \ {x}
             m == list[x].name
  <2>1. x \in s /\ x \in S /\ t \in SUBSET S
    <3>1. IsFiniteSet(s) /\ s \subseteq Int
      BY <1>4, FS_Subset
    <3> QED BY <1>6, <3>1, MaxIsGreatest
  <2>2. g[s] = value(s) /\ g[t] = value(t)
    BY <2>1
  <2>3. x \in sel <=> list[x] \in Selected(c, list)
    BY <2>1 DEF SelectedPlaces
  <2> HIDE DEF x
  <2>4. Adds(list, I, s, x) /\ Adds(list, sel, s, x)
    <3> HIDE DEF I, sel, list
    <3> QED BY <1>2, <1>4, <2>1, CollectedWith DEF list
  <2>5. /\ Totals(Names(list, I \cap s))
             = IF x \in I THEN Plus(Totals(Names(list, I \cap t)), Tokens(Usage[m]))
               ELSE Totals(Names(list, I \cap t))
        /\ Days(Names(list, I \cap s))
             = IF x \in I THEN Merged(Days(Names(list, I \cap t)), Usage[m])
               ELSE Days(Names(list, I \cap t))
    <3> HIDE DEF I
    <3> QED BY <2>4 DEF Adds
  <2>6. Names(list, sel \cap s) = IF x \in sel THEN Names(list, sel \cap t) \cup {m}
                                 ELSE Names(list, sel \cap t)
    BY <2>4 DEF Adds
  <2>7. CASE x \notin sel
    <3>1. x \notin I /\ Errors(s) = Errors(t)
      BY <2>6, <2>7
    <3> HIDE DEF I, Errors
    <3>2. value(s) = value(t)
      BY <2>5, <3>1 DEF Collected
    <3> HIDE DEF value, g, list
    <3> QED BY <2>2, <2>3, <2>7, <3>2 DEF StepStored, x, list, t
  <2>8. CASE x \in sel
    <3>1. x \in I <=> loaded[m] = Ok
      BY <2>8
    <3>2. Errors(s) = Errors(t) \cup IF loaded[m] = Ok THEN {} ELSE {<<"persistence", m>>}
      BY <2>6, <2>8
    <3> HIDE DEF I, Errors, m, t
    <3>3. AddStored(value(t), list[x], loaded[m]) =
            [totals |-> IF x \in I THEN Plus(Totals(Names(list, I \cap t)), Tokens(Usage[m]))
                        ELSE Totals(Names(list, I \cap t)),
             days   |-> IF x \in I THEN Merged(Days(Names(list, I \cap t)), Usage[m])
                        ELSE Days(Names(list, I \cap t)),
             errors |-> (base.errors \cup Errors(t))
                 \cup IF loaded[m] = Ok THEN {} ELSE {<<"persistence", m>>}]
      BY <3>1 DEF AddStored, Collected, m
    <3>4. AddStored(value(t), list[x], loaded[m]) = value(s)
      BY <2>5, <3>2, <3>3 DEF Collected
    <3> HIDE DEF value, g, list
    <3> QED BY <2>2, <2>3, <2>8, <3>4 DEF StepStored, x, list, t, m
  <2> QED BY <2>7, <2>8
<1>7. Stored(c, loaded, base) = g[S]
  <2> HIDE DEF g, base
  <2>1. \A s \in SUBSET DOMAIN accounts[c] :
            s # {} => g[s] = StepStored(c, loaded, g[s \ {Max(s)}], accounts[c][Max(s)])
    BY <1>6
  <2>2. IsFiniteSet(DOMAIN accounts[c]) /\ DOMAIN accounts[c] \subseteq Int
    BY <1>4
  <2>3. Stored(c, loaded, base) = g[DOMAIN accounts[c]]
    <3> HIDE DEF list, sel, S
    <3> QED BY <1>5, <2>1, <2>2, StoredIs
  <2> QED BY <2>3
<1>8. g[S] = Collected(Names(list, I), Names(list, I), base.errors \cup Errors(S))
  <2>1. I \cap S = I
    BY <1>4
  <2>2. g[S] = value(S)
    OBVIOUS
  <2> HIDE DEF I, Errors, base, g
  <2> QED BY <2>1, <2>2
<1>9. answer'[c] = Finish(c, g[S])
  <2> HIDE DEF g, base
  <2> QED BY <1>3, <1>7 DEF CallIInv, CallsInv
<1>10. /\ DOMAIN requests'[c] = DOMAIN requests[c] \cup {"persistence"} \X Names(list, sel)
       /\ \A k \in DOMAIN requests[c] : requests'[c][k] = requests[c][k]
       /\ \A n \in Names(list, sel) : <<"persistence", n>> \notin DOMAIN requests[c]
       /\ \A n \in Names(list, sel) : requests'[c][<<"persistence", n>>] = loaded[n]
  <2> DEFINE new == [k \in {"persistence"} \X Names(list, sel) |-> loaded[k[2]]]
  <2>1. requests'[c] = With(requests[c], new)
    BY <1>3 DEF CallIInv, RequestsInv
  <2>2. DataKeys(c) = {}
    BY <1>1 DEF DataKeys, Operations
  <2>3. \A n : <<"persistence", n>> \notin DOMAIN requests[c]
    BY <1>2, <2>2, KeysAre
  <2>4. /\ DOMAIN new = {"persistence"} \X Names(list, sel)
        /\ \A n \in Names(list, sel) : new[<<"persistence", n>>] = loaded[n]
    OBVIOUS
  <2> HIDE DEF new
  <2> QED BY <2>1, <2>3, <2>4 DEF With
<1>11. Names(list, I) = Succeeded(c, "persistence")'
  <2>1. \A n : n \in Succeeded(c, "persistence")' <=>
            <<"persistence", n>> \in DOMAIN requests'[c] /\ requests'[c][<<"persistence", n>>] = Ok
    <3>1. \A k \in DOMAIN requests'[c] : k = <<k[1], k[2]>>
      <4>1. DataKeys(c) = {}
        BY <1>1 DEF DataKeys, Operations
      <4> QED BY <1>2, <1>10, <4>1 DEF UsageKeys
    <3> QED BY <3>1 DEF Succeeded
  <2>2. \A n : n \in Succeeded(c, "persistence")' <=> n \in Names(list, sel) /\ loaded[n] = Ok
    <3>1. \A n : <<"persistence", n>> \in DOMAIN requests'[c] => n \in Names(list, sel)
      <4>1. DataKeys(c) = {}
        BY <1>1 DEF DataKeys, Operations
      <4> QED BY <1>2, <1>10, <4>1, KeysAre
    <3> QED BY <1>10, <2>1, <3>1
  <2>3. \A n : n \in Names(list, I) <=> n \in Names(list, sel) /\ loaded[n] = Ok
    BY DEF Names
  <2> HIDE DEF I
  <2> QED BY <2>2, <2>3
<1>12. base.errors \cup Errors(S) = base.errors \cup FailedRequests(c)'
  <2>1. sel \cap S = sel
    BY <1>4
  <2>2. Errors(S) = {"persistence"} \X {n \in Names(list, sel) : loaded[n] = Failed}
    BY <1>3, <2>1, CallAssumption
  <2>3. ASSUME NEW k \in FailedRequests(c)' PROVE k \in base.errors \cup Errors(S)
    <3>1. CASE k \in DOMAIN requests[c]
      <4>1. k \in UsageKeys(c) /\ requests[c][k] = Failed
        BY <1>1, <1>2, <1>10, <2>3, <3>1 DEF FailedRequests, DataKeys, Operations
      <4> QED BY <1>2, <4>1, KeysAre DEF Empty, ResolveErrors, FailedRequests
    <3>2. CASE k \in {"persistence"} \X Names(list, sel)
      <4>1. PICK n \in Names(list, sel) : k = <<"persistence", n>>
        BY <3>2
      <4>2. loaded[n] = Failed
        BY <1>10, <2>3, <4>1 DEF FailedRequests
      <4> HIDE DEF Errors, base
      <4> QED BY <2>2, <4>1, <4>2
    <3> QED BY <1>10, <2>3, <3>1, <3>2 DEF FailedRequests
  <2>4. ASSUME NEW k \in Errors(S) PROVE k \in FailedRequests(c)'
    <3>1. PICK n \in Names(list, sel) : k = <<"persistence", n>> /\ loaded[n] = Failed
      BY <2>2, <2>4
    <3>2. k \in DOMAIN requests'[c] /\ requests'[c][k] = Failed
      BY <1>10, <3>1
    <3> QED BY <3>2 DEF FailedRequests
  <2> HIDE DEF Errors, base
  <2> QED BY <2>3, <2>4
<1>13. Names(list, I) \in SUBSET DOMAIN Usage /\ IsFiniteSet(Names(list, I))
  <2> HIDE DEF I
  <2> QED BY <1>2, <1>4, NamesAre
<1> HIDE DEF I, base, Errors, g
<1> QED BY <1>8, <1>9, <1>11, <1>12, <1>13 DEF base

-----------------------------------------------------------------------------
(***************************************************************************)
(* An answer stays as it was made until the call returns: the sums of what *)
(* was read, and an error for everything that was not.                     *)
(***************************************************************************)
ReadTotals(c) == Succeeded(c, IF persistent THEN "persistence" ELSE "token-usage")
ReadDays(c)   == Succeeded(c, IF persistent THEN "persistence" ELSE "token-usage/daily")
AllErrors(c)  == DiscoveryFailures(found[c]) \cup MissingErrors(c) \cup FailedRequests(c)

AnswerOk(c) ==
    /\ ReadTotals(c) \in SUBSET DOMAIN Usage /\ IsFiniteSet(ReadTotals(c))
    /\ ReadDays(c) \in SUBSET DOMAIN Usage /\ IsFiniteSet(ReadDays(c))
    /\ answer[c] = Finish(c, Collected(ReadTotals(c), ReadDays(c), AllErrors(c)))

AnswersInv == \A c \in Answered : AnswerOk(c)

(* An answer that a step leaves alone.                                     *)
LEMMA AnswerStays ==
    ASSUME NEW c \in Caller, AnswerOk(c), persistent' = persistent, call'[c] = call[c],
           found'[c] = found[c], accounts'[c] = accounts[c], requests'[c] = requests[c],
           answer'[c] = answer[c]
    PROVE  AnswerOk(c)'
<1>1. ReadTotals(c)' = ReadTotals(c) /\ ReadDays(c)' = ReadDays(c)
  BY DEF ReadTotals, ReadDays, Succeeded
<1>2. AllErrors(c)' = AllErrors(c)
  BY DEF AllErrors, MissingErrors, Missing, Selected, FailedRequests
<1> QED BY <1>1, <1>2 DEF AnswerOk, Finish

(* A dashboard is answered by one of two actions, and then left alone.     *)
LEMMA AnswerComesFrom ==
    ASSUME CallIInv, [Next]_vars, NEW c \in Answered'
    PROVE  \/ AnswerLive(c) \/ AnswerStored(c)
           \/ /\ c \in Answered /\ persistent' = persistent /\ call'[c] = call[c]
              /\ found'[c] = found[c] /\ accounts'[c] = accounts[c]
              /\ requests'[c] = requests[c] /\ answer'[c] = answer[c]
<1> DEFINE Same(d) == /\ persistent' = persistent /\ call'[d] = call[d]
                      /\ found'[d] = found[d] /\ accounts'[d] = accounts[d]
                      /\ requests'[d] = requests[d] /\ answer'[d] = answer[d]
                      /\ stage'[d] = stage[d]
<1>0. /\ call = [d \in Caller |-> call[d]] /\ found = [d \in Caller |-> found[d]]
      /\ accounts = [d \in Caller |-> accounts[d]] /\ answer = [d \in Caller |-> answer[d]]
      /\ requests = [d \in Caller |-> requests[d]] /\ stage \in [Caller -> Stages]
  BY DEF CallIInv, CallsInv, RequestsInv
<1>1. c \in Caller /\ stage'[c] = "answered" /\ call'[c].operation = "dashboard"
  BY DEF Answered
<1>2. ASSUME Same(c) PROVE c \in Answered
  BY <1>1, <1>2 DEF Answered
<1>3. CASE UNCHANGED vars
  BY <1>2, <1>3 DEF vars
<1>4. ASSUME NEW d \in Caller, Begin(d) PROVE Same(c)
  BY <1>0, <1>1, <1>4 DEF Begin
<1>5. ASSUME NEW d \in Caller, Disconnect(d) PROVE Same(c)
  BY <1>5 DEF Disconnect
<1>6. ASSUME NEW d \in Caller, Load(d) PROVE Same(c)
  BY <1>0, <1>1, <1>6 DEF Load
<1>7. ASSUME NEW d \in Caller, AnswerLive(d) PROVE Same(c) \/ AnswerLive(c)
  <2>1. PICK v : /\ answer' = [answer EXCEPT ![d] = v] /\ stage' = [stage EXCEPT ![d] = "answered"]
                 /\ UNCHANGED <<persistent, call, found, accounts, requests>>
    BY <1>7 DEF AnswerLive
  <2>2. d # c => Same(c)
    BY <1>0, <1>1, <2>1
  <2> QED BY <1>7, <2>2
<1>8. ASSUME NEW d \in Caller, AnswerStored(d) PROVE Same(c) \/ AnswerStored(c)
  <2>1. PICK v, r : /\ answer' = [answer EXCEPT ![d] = v] /\ requests' = [requests EXCEPT ![d] = r]
                    /\ stage' = [stage EXCEPT ![d] = "answered"]
                    /\ UNCHANGED <<persistent, call, found, accounts>>
    BY <1>8 DEF AnswerStored
  <2>2. d # c => Same(c)
    BY <1>0, <1>1, <2>1
  <2> QED BY <1>8, <2>2
<1>9. ASSUME NEW d \in Caller, AnswerEvents(d) PROVE Same(c)
  BY <1>0, <1>1, <1>9 DEF AnswerEvents
<1>10. ASSUME NEW d \in Caller, Return(d) PROVE Same(c)
  BY <1>0, <1>1, <1>10 DEF Return
<1>11. ASSUME NEW d \in Caller, NEW k \in DOMAIN requests[d],
              Acquire(d, k) \/ Abandon(d, k) \/ End(d, k)
       PROVE  Same(c)
  <2>1. /\ requests[d][k] \in Pending /\ \A e \in Caller \ {d} : requests'[e] = requests[e]
        /\ UNCHANGED <<persistent, stage, call, found, accounts, answer>>
    BY <1>0, <1>11 DEF Acquire, Abandon, End, Pending
  <2>2. stage[d] # "answered"
    BY <2>1 DEF CallIInv, RequestsInv, Ended
  <2> QED BY <1>1, <2>1, <2>2
<1> HIDE DEF Same
<1>12. Same(c) \/ AnswerLive(c) \/ AnswerStored(c)
  <2>1. CASE Next
    BY <1>4, <1>5, <1>6, <1>7, <1>8, <1>9, <1>10, <1>11, <2>1 DEF Next, Progress
  <2>2. CASE UNCHANGED vars
    BY <2>2 DEF vars, Same
  <2> QED BY <2>1, <2>2
<1> QED BY <1>2, <1>12 DEF Same

(* Answers from upstream.                                                  *)
LEMMA LiveIsOk ==
    ASSUME CallIInv, NEW c \in Caller, AnswerLive(c)
    PROVE  AnswerOk(c)'
<1> DEFINE errors == Empty(c).errors \cup FailedRequests(c)
<1>1. /\ ~persistent /\ persistent' = persistent /\ call' = call /\ found' = found
      /\ accounts' = accounts /\ requests' = requests
  BY DEF AnswerLive
<1>2. /\ ReadTotals(c)' = Succeeded(c, "token-usage")
      /\ ReadDays(c)' = Succeeded(c, "token-usage/daily")
  BY <1>1 DEF ReadTotals, ReadDays, Succeeded
<1>3. AllErrors(c)' = errors
  <2>1. AllErrors(c)' = AllErrors(c)
    BY <1>1 DEF AllErrors, MissingErrors, Missing, Selected, FailedRequests
  <2>2. Empty(c).errors = ResolveErrors(c) \cup MissingErrors(c)
    BY DEF Empty
  <2> QED BY <2>1, <2>2 DEF AllErrors, ResolveErrors
<1> QED
  <2> HIDE DEF errors
  <2> QED BY <1>1, <1>2, <1>3, LiveAnswer DEF AnswerOk, Finish, errors

(* Answers from the history.                                               *)
LEMMA StoredIsOk ==
    ASSUME CallIInv, NEW c \in Caller, AnswerStored(c)
    PROVE  AnswerOk(c)'
<1> DEFINE errors == Empty(c).errors \cup FailedRequests(c)'
<1>1. /\ persistent /\ persistent' = persistent /\ call' = call /\ found' = found
      /\ accounts' = accounts
  BY DEF AnswerStored
<1>2. /\ ReadTotals(c)' = Succeeded(c, "persistence")'
      /\ ReadDays(c)' = Succeeded(c, "persistence")'
  BY <1>1 DEF ReadTotals, ReadDays
<1>3. FailedRequests(c) \subseteq FailedRequests(c)'
  <2>1. PICK r : requests' = [requests EXCEPT ![c] = With(@, r)]
    BY DEF AnswerStored
  <2>2. requests'[c] = With(requests[c], r)
    BY <2>1 DEF CallIInv, RequestsInv
  <2> QED BY <2>2 DEF With, FailedRequests
<1>4. AllErrors(c)' = errors
  <2>1. AllErrors(c)' = DiscoveryFailures(found[c]) \cup MissingErrors(c) \cup FailedRequests(c)'
    BY <1>1 DEF AllErrors, MissingErrors, Missing, Selected
  <2>2. Empty(c).errors = ResolveErrors(c) \cup MissingErrors(c)
    BY DEF Empty
  <2>3. ResolveErrors(c) = DiscoveryFailures(found[c])
                               \cup {f \in FailedRequests(c) : f[1] = "usage"}
    BY DEF ResolveErrors
  <2> QED BY <1>3, <2>1, <2>2, <2>3
<1> QED
  <2> HIDE DEF errors
  <2> QED BY <1>1, <1>2, <1>4, StoredAnswer DEF AnswerOk, Finish, errors

(* Every step keeps the answers as they should be.                         *)
LEMMA NextKeepsAnswersInv == CallIInv /\ AnswersInv /\ [Next]_vars => AnswersInv'
<1> SUFFICES ASSUME CallIInv, AnswersInv, [Next]_vars, NEW c \in Answered' PROVE AnswerOk(c)'
  BY DEF AnswersInv
<1>1. c \in Caller
  BY DEF Answered
<1>2. CASE AnswerLive(c)
  BY <1>1, <1>2, LiveIsOk
<1>3. CASE AnswerStored(c)
  BY <1>1, <1>3, StoredIsOk
<1>4. CASE ~AnswerLive(c) /\ ~AnswerStored(c)
  <2>1. /\ c \in Answered /\ persistent' = persistent /\ call'[c] = call[c]
        /\ found'[c] = found[c] /\ accounts'[c] = accounts[c]
        /\ requests'[c] = requests[c] /\ answer'[c] = answer[c]
    BY <1>4, AnswerComesFrom
  <2>2. AnswerOk(c)
    BY <2>1 DEF AnswersInv
  <2> QED BY <1>1, <2>1, <2>2, AnswerStays
<1> QED BY <1>2, <1>3, <1>4

(* The answers of every behaviour.                                         *)
LEMMA SpecAnswersInv == Spec => [](CallIInv /\ AnswersInv)
<1>1. Init => AnswersInv
  BY DEF Init, AnswersInv, Answered
<1> QED BY <1>1, NextKeepsAnswersInv, SpecCallIInv, PTL DEF Spec

(* The fields of an answer.                                                *)
LEMMA AnswerIs ==
    ASSUME NEW c \in Caller, AnswerOk(c)
    PROVE  LET names == ReadTotals(c)
               daily == ReadDays(c)
           IN  /\ answer[c].totals = IF names = {} THEN None ELSE TotalOf(names)
               /\ answer[c].errors = AllErrors(c)
               /\ daily = {} => answer[c].days = None
               /\ daily # {} => /\ answer[c].days.recorded = [d \in DatesOf(daily) |-> DayOf(daily, d)]
                                /\ IsFiniteSet(DatesOf(daily)) /\ DatesOf(daily) \subseteq Int
<1> DEFINE names == ReadTotals(c)
           daily == ReadDays(c)
           days == Days(daily)
           out == Collected(names, daily, AllErrors(c))
<1>1. answer[c] = Finish(c, out) /\ daily \in SUBSET DOMAIN Usage /\ IsFiniteSet(daily)
  BY DEF AnswerOk
<1>2. Finish(c, out) =
        [totals |-> Totals(names),
         days   |-> IF days = None THEN None
                    ELSE [recorded |-> days, entries |-> FillDays(days, call[c].period, Now)],
         errors |-> AllErrors(c)]
  BY DEF Finish, Collected
<1> HIDE DEF daily, names
<1>3. daily = {} => days = None
  BY DEF Days
<1>4. daily # {} => /\ days = [d \in DatesOf(daily) |-> DayOf(daily, d)] /\ days # None
                    /\ IsFiniteSet(DatesOf(daily)) /\ DatesOf(daily) \subseteq Int
  BY <1>1, DaysAre
<1> HIDE DEF days, out
<1>5. /\ answer[c].totals = Totals(names) /\ answer[c].errors = AllErrors(c)
      /\ answer[c].days = IF days = None THEN None
                          ELSE [recorded |-> days, entries |-> FillDays(days, call[c].period, Now)]
  BY <1>1, <1>2
<1> QED BY <1>3, <1>4, <1>5 DEF Totals, names, daily

(* Whatever fails, is late or is gone in the middle: a dashboard that was  *)
(* answered names every source, endpoint and account that failed, and its  *)
(* totals and days are the sums of all that was read, each account once.   *)
THEOREM SpecNothingDropped == Spec => []NothingDropped
<1>1. CallIInv /\ AnswersInv => NothingDropped
  <2> SUFFICES ASSUME CallIInv, AnswersInv, NEW c \in Answered
               PROVE  LET totals == ReadTotals(c)
                          daily  == ReadDays(c)
                          logins == {UsageOf(c)[n] : n \in DOMAIN UsageOf(c)} \ {Failed}
                      IN  /\ DiscoveryFailures(found[c]) \subseteq answer[c].errors
                          /\ FailedRequests(c) \subseteq answer[c].errors
                          /\ {a.login : a \in ToSet(accounts[c])} = logins
                          /\ Len(accounts[c]) = Cardinality(logins)
                          /\ answer[c].totals = IF totals = {} THEN None ELSE TotalOf(totals)
                          /\ IF daily = {} THEN answer[c].days = None
                             ELSE answer[c].days.recorded =
                                    [d \in DatesOf(daily) |-> DayOf(daily, d)]
                          /\ call[c].login \notin {All} \cup logins
                               => <<"account", call[c].login>> \in answer[c].errors
    BY DEF NothingDropped, ReadTotals, ReadDays, DatesOf
  <2> DEFINE logins == {UsageOf(c)[n] : n \in DOMAIN UsageOf(c)} \ {Failed}
  <2>1. c \in Caller /\ stage[c] = "answered" /\ AnswerOk(c)
    BY DEF Answered, AnswersInv
  <2>2. AccountsOk(accounts[c], endpoints[c], UsageOf(c))
    BY <2>1, ListIsOk
  <2>3. logins = LoginsOf(endpoints[c], UsageOf(c))
    <3>1. DOMAIN UsageOf(c) = {endpoints[c][i].name : i \in DOMAIN endpoints[c]}
      BY DEF UsageOf, ToSet
    <3> QED BY <3>1 DEF LoginsOf
  <2> HIDE DEF logins
  <2>4. /\ {a.login : a \in ToSet(accounts[c])} = logins
        /\ Len(accounts[c]) = Cardinality(logins)
    BY <2>2, <2>3 DEF AccountsOk
  <2>5. answer[c].errors = AllErrors(c)
    BY <2>1, AnswerIs
  <2>6. ASSUME call[c].login \notin {All} \cup logins
        PROVE  <<"account", call[c].login>> \in answer[c].errors
    <3>1. Missing(c)
      BY <2>4, <2>6 DEF Missing, Selected
    <3> QED BY <2>5, <3>1 DEF AllErrors, MissingErrors
  <2> QED BY <2>1, <2>4, <2>5, <2>6, AnswerIs DEF AllErrors, logins
<1> QED BY <1>1, SpecAnswersInv, PTL

(* Unless the clocks skip a midnight: the days of an answer, filled in for *)
(* any period, are those recorded and every date of the period up to       *)
(* today, each once, however many of them there are.                       *)
THEOREM SpecDaysAreComplete ==
    ASSUME Gap = None
    PROVE  Spec => []DaysAreComplete
<1>1. CallIInv /\ AnswersInv => DaysAreComplete
  <2> SUFFICES ASSUME CallIInv, AnswersInv, NEW c \in Answered, answer[c].days # None,
                      NEW period \in Periods
               PROVE  LET days == answer[c].days.recorded
                      IN  Complete(FillDays(days, period, Now), DOMAIN days, period, Now)
    BY DEF DaysAreComplete
  <2> DEFINE days == answer[c].days.recorded
  <2>1. c \in Caller /\ AnswerOk(c)
    BY DEF Answered, AnswersInv
  <2>2. IsFiniteSet(DOMAIN days) /\ DOMAIN days \subseteq Int
    BY <2>1, AnswerIs
  <2>3. Now \in Nat
    BY CallAssumption
  <2> HIDE DEF days
  <2>4. Complete(FillDays(days, period, Now), DOMAIN days, period, Now)
    BY <2>2, <2>3, FilledIsComplete
  <2> QED BY <2>4 DEF days
<1> QED BY <1>1, SpecAnswersInv, PTL
=============================================================================
