---------------------------- MODULE DashboardCall ----------------------------
(***************************************************************************)
(* GET /api/v1/dashboard and GET /api/v1/events: each call discovers the   *)
(* endpoints, asks all of them for their accounts, then reads the usage of *)
(* the accounts asked for, from the history if there is one, from upstream *)
(* if not. The requests of all calls share the upstream client's slots.    *)
(***************************************************************************)
EXTENDS AccountResolution, FilledDays

CONSTANTS
    Caller,       \* goroutines of the HTTP server
    Call,         \* what each may be asked: [operation, login, period]
    Discovery,    \* what the two sources may give each: [yaml, docker], each a
                  \* list of endpoints or Failed
    Owners,       \* by name: logins that the endpoint may answer with
    Usage,        \* by name: the tokens of each date
    Persistence,  \* whether there is a history: the possibilities considered
    Waiting, Open, Ok,  \* states of a request, beside Failed and a login
    Limit,        \* MaxConcurrency
    Now           \* the date

All == None       \* the login of a dashboard of all accounts

(* What a source gives: a list of endpoints, or nothing as it failed.      *)
Lists ==
    Seq([source : {"yaml", "docker"}, url : Nat, name : DOMAIN Usage]) \cup {Failed}

ASSUME CallAssumption ==
    /\ Call \in [Caller -> SUBSET [operation : {"dashboard", "events"},
                                   login : Nat \cup {All}, period : Periods]]
    /\ Persistence \subseteq BOOLEAN
    /\ {Waiting, Open} \cap (Nat \cup {Failed, Ok}) = {} /\ Waiting # Open
    /\ Nat \cap {Failed, Ok} = {} /\ Failed # Ok
    /\ Discovery \in [Caller -> SUBSET [yaml : Lists, docker : Lists]]
    /\ Limit \in Nat \ {0}
    /\ Now \in Nat

(* The usage of an endpoint: tokens of finitely many dates, and no None.   *)
Dates == UNION {DOMAIN Usage[n] : n \in DOMAIN Usage}

ASSUME UsageAssumption ==
    /\ DOMAIN Usage \subseteq Nat
    /\ \A n \in DOMAIN Usage : /\ Usage[n] \in [DOMAIN Usage[n] -> Nat]
                               /\ IsFiniteSet(DOMAIN Usage[n])
    /\ Dates \subseteq Int
    /\ \A D \in SUBSET Dates : None \notin [D -> Int]

VARIABLES
    persistent,   \* Service.History is not nil
    slots,        \* elements of the channel Client.limit
    gone,         \* callers whose client went away: their context is done
    stage,        \* where a caller is
    call,         \* what it was asked
    found,        \* what its discovery found: [yaml, docker]
    endpoints,    \* its endpoints, without duplicates
    accounts,     \* the accounts it resolved, each with an endpoint's name
    requests,     \* its requests, by operation and endpoint, and their state
    answer        \* its answer

vars == <<persistent, slots, gone, stage, call, found, endpoints, accounts, requests, answer>>

Pending == {Waiting, Open}

Init ==
    /\ persistent \in Persistence
    /\ slots = 0
    /\ gone = {}
    /\ stage = [c \in Caller |-> "idle"]
    /\ call = [c \in Caller |-> None]
    /\ found = [c \in Caller |-> None]
    /\ endpoints = [c \in Caller |-> <<>>]
    /\ accounts = [c \in Caller |-> <<>>]
    /\ requests = [c \in Caller |-> <<>>]
    /\ answer = [c \in Caller |-> None]

NewRequests(keys) == [k \in keys |-> Waiting]

(* Requests of a call, and those of its next operations.                   *)
With(old, new) == [k \in DOMAIN old \cup DOMAIN new |-> IF k \in DOMAIN old THEN old[k] ELSE new[k]]

(* Discover removes duplicates and so does resolve.                        *)
Begin(c) ==
    /\ stage[c] = "idle"
    /\ stage' = [stage EXCEPT ![c] = "resolving"]
    /\ \E k \in Call[c], f \in Discovery[c] :
           /\ call' = [call EXCEPT ![c] = k]
           /\ found' = [found EXCEPT ![c] = f]
           /\ endpoints' = [endpoints EXCEPT ![c] = Deduplicate(Discover(f))]
    /\ requests' = [requests EXCEPT ![c] =
           NewRequests({<<"usage", e.name>> : e \in ToSet(endpoints'[c])})]
    /\ UNCHANGED <<persistent, slots, gone, accounts, answer>>

-----------------------------------------------------------------------------
(***************************************************************************)
(* Client.get                                                              *)
(***************************************************************************)
(* A free slot; select may prefer it to a context that is done.            *)
Acquire(c, k) ==
    /\ requests[c][k] = Waiting
    /\ slots < Limit
    /\ slots' = slots + 1
    /\ requests' = [requests EXCEPT ![c][k] = Open]
    /\ UNCHANGED <<persistent, gone, stage, call, found, endpoints, accounts, answer>>

(* The context ends first.                                                 *)
Abandon(c, k) ==
    /\ requests[c][k] = Waiting
    /\ c \in gone
    /\ requests' = [requests EXCEPT ![c][k] = Failed]
    /\ UNCHANGED <<persistent, slots, gone, stage, call, found, endpoints, accounts, answer>>

(* A login, data, or an error: usage without a login is one.               *)
Responses(k) ==
    {Failed} \cup IF k[1] = "usage" THEN {l \in Owners[k[2]] : l \in Nat} ELSE {Ok}

(* Mutant: the slot is given back after a valid response only.             *)
MutEnd(c, k) ==
    /\ requests[c][k] = Open
    /\ \E response \in Responses(k) :
           /\ requests' = [requests EXCEPT ![c][k] = response]
           /\ slots' = IF response = Failed THEN slots ELSE slots - 1
    /\ UNCHANGED <<persistent, gone, stage, call, found, endpoints, accounts, answer>>

(* A response, an error or the timeout. The deferred receive gives the     *)
(* slot back in any case.                                                  *)
End(c, k) ==
    /\ requests[c][k] = Open
    /\ \E response \in Responses(k) :
           requests' = [requests EXCEPT ![c][k] = response]
    /\ slots' = slots - 1
    /\ UNCHANGED <<persistent, gone, stage, call, found, endpoints, accounts, answer>>

Ended(c) == \A k \in DOMAIN requests[c] : requests[c][k] \notin Pending

-----------------------------------------------------------------------------
(***************************************************************************)
(* After wg.Wait().                                                        *)
(***************************************************************************)
(* The usage of all endpoints, by name.                                    *)
UsageOf(c) == [n \in {e.name : e \in ToSet(endpoints[c])} |-> requests[c][<<"usage", n>>]]

Selected(c, list) == {a \in ToSet(list) : call[c].login \in {All, a.login}}

(* The requests for an account, by operation of the call.                  *)
Operations(c) ==
    IF call[c].operation = "events" THEN {"token-usage/events"}
    ELSE IF persistent THEN {}
    ELSE {"token-usage", "token-usage/daily"}

(* Usage is known; the requests for the accounts asked for start, if any.  *)
Load(c) ==
    /\ stage[c] = "resolving" /\ Ended(c)
    /\ stage' = [stage EXCEPT ![c] = "loading"]
    /\ accounts' = [accounts EXCEPT ![c] = Accounts(endpoints[c], UsageOf(c))]
    /\ requests' = [requests EXCEPT ![c] = With(@,
           NewRequests(Operations(c) \X
               {a.name : a \in Selected(c, accounts'[c])}))]
    /\ UNCHANGED <<persistent, slots, gone, call, found, endpoints, answer>>

(* An error is an operation and its target.                                *)
FailedRequests(c) == {k \in DOMAIN requests[c] : requests[c][k] = Failed}

(* Failures of discovery and of usage, and of an account that is missing.  *)
ResolveErrors(c) ==
    DiscoveryFailures(found[c])
        \cup {f \in FailedRequests(c) : f[1] = "usage"}

Missing(c) == call[c].login # All /\ Selected(c, accounts[c]) = {}
MissingErrors(c) == IF Missing(c) THEN {<<"account", call[c].login>>} ELSE {}

Tokens(days) == SumFunction(days)

(* An accumulated value is None until there is something to accumulate.    *)
Plus(sum, n)      == IF sum = None THEN n ELSE sum + n
Merged(days, more) == IF days = None THEN more ELSE MergeDays(days, more)

Empty(c) == [totals |-> None, days |-> None,
             errors |-> ResolveErrors(c) \cup MissingErrors(c)]

Finish(c, out) ==
    [out EXCEPT !.days =
        IF @ = None THEN None
        ELSE [recorded |-> @, entries |-> FillDays(@, call[c].period, Now)]]

(* Mutant: an account whose summary failed is left out.                    *)
MutAddLive(c, out, a) ==
    IF requests[c][<<"token-usage", a.name>>] = Failed
      THEN [out EXCEPT !.errors = @ \cup {<<"token-usage", a.name>>}]
      ELSE [totals |-> Plus(out.totals, Tokens(Usage[a.name])),
            days   |-> IF requests[c][<<"token-usage/daily", a.name>>] = Failed
                         THEN out.days ELSE Merged(out.days, Usage[a.name]),
            errors |-> out.errors]

(* The summary and the days of an account, either of which may be missing. *)
AddLive(c, out, a) ==
    LET summary == requests[c][<<"token-usage", a.name>>]
        daily   == requests[c][<<"token-usage/daily", a.name>>]
    IN  [totals |-> IF summary = Failed THEN out.totals
                    ELSE Plus(out.totals, Tokens(Usage[a.name])),
         days   |-> IF daily = Failed THEN out.days ELSE Merged(out.days, Usage[a.name]),
         errors |-> out.errors
            \cup ({<<"token-usage", a.name>>, <<"token-usage/daily", a.name>>} \cap FailedRequests(c))]

(* What LoadDaily says of an account: its days, an error or no snapshot.   *)
AddStored(out, a, loaded) ==
    IF loaded # Ok THEN [out EXCEPT !.errors = @ \cup {<<"persistence", a.name>>}]
    ELSE [out EXCEPT !.totals = Plus(@, Tokens(Usage[a.name])),
                     !.days = Merged(@, Usage[a.name])]

(* Live data, once all of it is there.                                     *)
AnswerLive(c) ==
    /\ stage[c] = "loading" /\ Ended(c)
    /\ call[c].operation = "dashboard" /\ ~persistent
    /\ answer' = [answer EXCEPT ![c] =
           Finish(c, FoldLeft(LAMBDA out, a :
                                  IF a \in Selected(c, accounts[c]) THEN AddLive(c, out, a) ELSE out,
                              Empty(c), accounts[c]))]
    /\ stage' = [stage EXCEPT ![c] = "answered"]
    /\ UNCHANGED <<persistent, slots, gone, call, found, endpoints, accounts, requests>>

(* persistedDashboard reads one account after another from the history.    *)
AnswerStored(c) ==
    /\ stage[c] = "loading" /\ Ended(c)
    /\ call[c].operation = "dashboard" /\ persistent
    /\ \E loaded \in [{a.name : a \in Selected(c, accounts[c])} -> {Ok, Failed}] :
           /\ answer' = [answer EXCEPT ![c] =
                  Finish(c, FoldLeft(LAMBDA out, a :
                                         IF a \in Selected(c, accounts[c])
                                           THEN AddStored(out, a, loaded[a.name]) ELSE out,
                                     Empty(c), accounts[c]))]
           /\ requests' = [requests EXCEPT ![c] = With(@,
                  [k \in {"persistence"} \X DOMAIN loaded |-> loaded[k[2]]])]
    /\ stage' = [stage EXCEPT ![c] = "answered"]
    /\ UNCHANGED <<persistent, slots, gone, call, found, endpoints, accounts>>

AnswerEvents(c) ==
    /\ stage[c] = "loading" /\ Ended(c)
    /\ call[c].operation = "events"
    /\ answer' = [answer EXCEPT ![c] =
           [Empty(c) EXCEPT !.errors = @ \cup FailedRequests(c)]]
    /\ stage' = [stage EXCEPT ![c] = "answered"]
    /\ UNCHANGED <<persistent, slots, gone, call, found, endpoints, accounts, requests>>

(* The handler has written the answer; another request may come.           *)
Return(c) ==
    /\ stage[c] = "answered"
    /\ stage' = [stage EXCEPT ![c] = "idle"]
    /\ gone' = gone \ {c}
    /\ call' = [call EXCEPT ![c] = None]
    /\ found' = [found EXCEPT ![c] = None]
    /\ endpoints' = [endpoints EXCEPT ![c] = <<>>]
    /\ accounts' = [accounts EXCEPT ![c] = <<>>]
    /\ requests' = [requests EXCEPT ![c] = <<>>]
    /\ answer' = [answer EXCEPT ![c] = None]
    /\ UNCHANGED <<persistent, slots>>

Disconnect(c) ==
    /\ stage[c] \in {"resolving", "loading"}
    /\ c \notin gone
    /\ gone' = gone \cup {c}
    /\ UNCHANGED <<persistent, slots, stage, call, found, endpoints, accounts, requests, answer>>

Progress(c) == Load(c) \/ AnswerLive(c) \/ AnswerStored(c) \/ AnswerEvents(c) \/ Return(c)

Next == \E c \in Caller :
    \/ Begin(c) \/ Disconnect(c) \/ Progress(c)
    \/ \E k \in DOMAIN requests[c] : Acquire(c, k) \/ Abandon(c, k) \/ End(c, k)

Spec == Init /\ [][Next]_vars

(* Callers go on when they can, and a request ends, by its timeout at the  *)
(* latest. Those that wait to send on a channel are served in turn, so     *)
(* that a slot that is free again and again is not kept from a caller.     *)
Fairness == \A c \in Caller :
    /\ WF_vars(Progress(c))
    /\ WF_vars(\E k \in DOMAIN requests[c] : End(c, k))
    /\ SF_vars(\E k \in DOMAIN requests[c] : Acquire(c, k))

FairSpec == Spec /\ Fairness

-----------------------------------------------------------------------------
(***************************************************************************)
(* Properties.                                                             *)
(***************************************************************************)
OpenRequests ==
    UNION {{<<c, k>> : k \in {x \in DOMAIN requests[c] : requests[c][x] = Open}} : c \in Caller}

(* A slot is taken exactly while a request is under way, whether it fails, *)
(* times out or loses its client: none is lost for good, and there are     *)
(* never more requests than slots.                                         *)
SlotsInv == slots = Cardinality(OpenRequests) /\ slots <= Limit

Succeeded(c, operation) ==
    {k[2] : k \in {x \in DOMAIN requests[c] : x[1] = operation /\ requests[c][x] = Ok}}

TotalOf(names) == SumFunction([n \in names |-> Tokens(Usage[n])])

DayOf(names, d) ==
    SumFunction([n \in names |-> IF d \in DOMAIN Usage[n] THEN Usage[n][d] ELSE 0])

Answered == {c \in Caller : stage[c] = "answered" /\ call[c].operation = "dashboard"}

(* An answer in part is one with an error for each part that is missing:   *)
(* totals and days are the sums of all that was read, each account once,   *)
(* and every source, endpoint and account that failed is named.            *)
NothingDropped == \A c \in Answered :
    LET totals == Succeeded(c, IF persistent THEN "persistence" ELSE "token-usage")
        daily  == Succeeded(c, IF persistent THEN "persistence" ELSE "token-usage/daily")
        logins == {UsageOf(c)[n] : n \in DOMAIN UsageOf(c)} \ {Failed}
    IN  /\ DiscoveryFailures(found[c]) \subseteq answer[c].errors
        /\ FailedRequests(c) \subseteq answer[c].errors
        /\ {a.login : a \in ToSet(accounts[c])} = logins
        /\ Len(accounts[c]) = Cardinality(logins)
        /\ answer[c].totals = IF totals = {} THEN None ELSE TotalOf(totals)
        /\ IF daily = {} THEN answer[c].days = None
           ELSE answer[c].days.recorded =
                  [d \in UNION {DOMAIN Usage[n] : n \in daily} |-> DayOf(daily, d)]
        /\ call[c].login \notin {All} \cup logins => <<"account", call[c].login>> \in answer[c].errors

(* Calls that find the same endpoints, in whatever order Docker lists the  *)
(* containers, and get the same accounts from them, use the same endpoint  *)
(* for each account: a stored account stays with its source.               *)
ChoiceIsStable ==
    \A c, e \in {x \in Caller : stage[x] \in {"loading", "answered"}} :
        /\ ToSet(Items(found[c].yaml)) = ToSet(Items(found[e].yaml))
        /\ ToSet(Items(found[c].docker)) = ToSet(Items(found[e].docker))
        /\ \A n \in DOMAIN UsageOf(c) \cap DOMAIN UsageOf(e) : UsageOf(c)[n] = UsageOf(e)[n]
        => accounts[c] = accounts[e]

(* Whatever the period, the days of an answer are those recorded and every *)
(* date of the period up to today, each once; a lifetime begins with its   *)
(* first day but has seven dates at least, and is left as it is when it is *)
(* too long to be filled in.                                               *)
DaysAreComplete == \A c \in Answered :
    answer[c].days # None => \A period \in Periods :
        LET days == answer[c].days.recorded
        IN  Complete(FillDays(days, period, Now), DOMAIN days, period, Now)

(* Every call is answered, however many others are waiting for slots.      *)
EveryCallEnds == \A c \in Caller : stage[c] # "idle" ~> stage[c] = "idle"
=============================================================================
