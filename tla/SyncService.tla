---------------------------- MODULE SyncService ----------------------------
(***************************************************************************)
(* History synchronization inside one process: the calls of Service.Sync   *)
(* (the background loop and POST /api/v1/sync), the singleflight tasks     *)
(* they share, the counter that WaitForSync drains, and run()'s shutdown.  *)
(* Persistence is enabled; with it disabled Sync returns at once.          *)
(***************************************************************************)
EXTENDS Naturals, FiniteSets

CONSTANTS
    Caller,      \* goroutines that call Sync
    Background,  \* the one run() starts; the others are HTTP handlers
    Login,       \* account logins, compared case-insensitively
    Origin,      \* a source, name and URL together with an API key
    Resolve,     \* the key "sync" of the resolveSync group
    All          \* the empty login: every account

Endpoint == [login : Login, origin : Origin]
Flight   == Endpoint \cup {Resolve}

ASSUME CallerAssumption == Background \in Caller
ASSUME FlightAssumption == /\ IsFiniteSet(Endpoint)
                           /\ Resolve \notin Endpoint
                           /\ All \notin Login

VARIABLES
    pc,          \* where each caller is
    target,      \* the login each caller asked for
    slot,        \* per caller and flight: its goroutine and result channel
    cancelled,   \* HTTP callers whose request context is done
    stage,       \* how far the function of each flight has run
    outcome,     \* what it returned, and the endpoint it ran for
    stored,      \* logins with a committed snapshot in the database
    syncTasks, syncStopped, syncDone,
    ctxDone,     \* run()'s signal context, which is also SyncContext
    accepting,   \* the server still starts handlers
    mainPc       \* where run() is

callerVars == <<pc, target, slot, cancelled>>
flightVars == <<stage, outcome, stored>>
gateVars   == <<syncTasks, syncStopped, syncDone>>
mainVars   == <<ctxDone, accepting, mainPc>>
vars       == <<callerVars, flightVars, gateVars, mainVars>>

Outcome == [status   : {"none", "ok", "failed", "canceled"},
            by       : Flight,
            accounts : SUBSET Endpoint]

(* A goroutine of a call, or the call itself for Resolve, and its answer. *)
Slot == [at : {"none", "spawned", "waiting", "done"}, got : Outcome]

Result(st, e, S) == [status |-> st, by |-> e, accounts |-> S]
None(f)          == Result("none", f, {})
Unused           == [f \in Flight |-> [at |-> "none", got |-> None(f)]]

TypeOK ==
    /\ pc \in [Caller -> {"idle", "resolving", "syncing", "select", "exited"}]
    /\ target \in [Caller -> Login \cup {All}]
    /\ slot \in [Caller -> [Flight -> Slot]]
    /\ cancelled \in SUBSET (Caller \ {Background})
    /\ stage \in [Flight -> {"idle", "spawned", "running", "fetched", "ended"}]
    /\ outcome \in [Flight -> Outcome]
    /\ \A e \in Endpoint : outcome[e].by \in Endpoint
    /\ stored \in SUBSET Login
    /\ syncTasks \in Nat
    /\ syncStopped \in BOOLEAN
    /\ syncDone \in {"nil", "open", "closed", "panicked"}
    /\ ctxDone \in BOOLEAN
    /\ accepting \in BOOLEAN
    /\ mainPc \in {"serving", "shutdown", "joining", "draining", "closed", "exited"}

(* run() has just started the background goroutine and the server. *)
Init ==
    /\ pc = [c \in Caller |-> IF c = Background THEN "select" ELSE "idle"]
    /\ target = [c \in Caller |-> All]
    /\ slot = [c \in Caller |-> Unused]
    /\ cancelled = {}
    /\ stage = [f \in Flight |-> "idle"]
    /\ outcome = [f \in Flight |-> None(f)]
    /\ stored = {}
    /\ syncTasks = 0
    /\ syncStopped = FALSE
    /\ syncDone = "nil"
    /\ ctxDone = FALSE
    /\ accepting = TRUE
    /\ mainPc = "serving"

Alive == mainPc # "exited"

(***************************************************************************)
(* Callers.                                                                *)
(***************************************************************************)
(* The context a caller passes to Sync. *)
CtxDone(c) == IF c = Background THEN ctxDone ELSE c \in cancelled

(* Mutant: the shared functions run under the contexts of their callers. *)
MutSyncContextDone == ctxDone \/ cancelled # {}

(* The context the shared functions run under: never the caller's. *)
SyncContextDone == ctxDone

(* Mutant: the key leaves the URL and the credential out. *)
MutSyncAccountKey(e) == [login |-> e.login, origin |-> CHOOSE o \in Origin : TRUE]

SyncAccountKey(e) == [login |-> e.login, origin |-> e.origin]
FlightOf(e)       == IF e = Resolve THEN Resolve ELSE SyncAccountKey(e)

Matches(c, e) == target[c] \in {All, e.login}

Begin(c, login) ==
    /\ pc' = [pc EXCEPT ![c] = "resolving"]
    /\ target' = [target EXCEPT ![c] = login]
    /\ slot' = [slot EXCEPT ![c][Resolve].at = "spawned"]

(* POST /api/v1/sync starts a handler with a context of its own. *)
Request(c) ==
    /\ Alive /\ accepting
    /\ c # Background
    /\ pc[c] = "idle"
    /\ \E login \in Login \cup {All} : Begin(c, login)
    /\ UNCHANGED <<cancelled, flightVars, gateVars, mainVars>>

(* The background loop syncs at startup and whenever the ticker fires. *)
Tick ==
    /\ Alive
    /\ pc[Background] = "select"
    /\ Begin(Background, All)
    /\ UNCHANGED <<cancelled, flightVars, gateVars, mainVars>>

(* Mutant: the loop only waits for the ticker. *)
MutBackgroundExit == FALSE

BackgroundExit ==
    /\ Alive /\ ctxDone
    /\ pc[Background] = "select"
    /\ pc' = [pc EXCEPT ![Background] = "exited"]
    /\ UNCHANGED <<target, slot, cancelled, flightVars, gateVars, mainVars>>

(* The client goes away. *)
Disconnect(c) ==
    /\ Alive
    /\ c # Background
    /\ pc[c] # "idle"
    /\ cancelled' = cancelled \cup {c}
    /\ UNCHANGED <<pc, target, slot, flightVars, gateVars, mainVars>>

(* ctx.Err() and DoChan: the first caller of a key starts its flight, the *)
(* others join it, as long as singleflight has not forgotten the key.     *)
Join(c, e) ==
    LET f == FlightOf(e) IN
    /\ Alive
    /\ slot[c][e].at = "spawned"
    /\ \/ /\ CtxDone(c)
          /\ slot' = [slot EXCEPT ![c][e] =
                 [at |-> "done", got |-> Result("canceled", e, {})]]
          /\ UNCHANGED <<stage, outcome>>
       \/ /\ ~CtxDone(c)
          /\ slot' = [slot EXCEPT ![c][e].at = "waiting"]
          /\ \/ /\ stage[f] = "idle"
                /\ stage' = [stage EXCEPT ![f] = "spawned"]
                /\ outcome' = [outcome EXCEPT ![f] = None(e)]
             \/ /\ stage[f] # "idle"
                /\ UNCHANGED <<stage, outcome>>
    /\ UNCHANGED <<pc, target, cancelled, stored, gateVars, mainVars>>

(* The select of a waiting caller, when its own context ends first. What a *)
(* flight mails is taken at once: a caller that finds both ready and picks *)
(* its context ends up where it would be had its context ended earlier.    *)
Abandon(c, e) ==
    /\ Alive
    /\ slot[c][e].at = "waiting"
    /\ CtxDone(c)
    /\ slot' = [slot EXCEPT ![c][e] =
           [at |-> "done", got |-> Result("canceled", e, {})]]
    /\ UNCHANGED <<pc, target, cancelled, flightVars, gateVars, mainVars>>

Return(c) ==
    /\ pc' = [pc EXCEPT ![c] = IF c = Background THEN "select" ELSE "idle"]
    /\ slot' = [slot EXCEPT ![c] = Unused]
    /\ target' = [target EXCEPT ![c] = All]
    /\ cancelled' = cancelled \ {c}

(* Sync after resolveForSync: one goroutine per matching account. *)
Resolved(c) ==
    LET resolution == slot[c][Resolve].got IN
    /\ Alive
    /\ pc[c] = "resolving"
    /\ slot[c][Resolve].at = "done"
    /\ \/ /\ resolution.status = "canceled"
          /\ Return(c)
       \/ /\ resolution.status # "canceled"
          /\ pc' = [pc EXCEPT ![c] = "syncing"]
          /\ slot' = [slot EXCEPT ![c] = [f \in Flight |->
                 IF f \in resolution.accounts /\ Matches(c, f)
                   THEN [at |-> "spawned", got |-> None(f)]
                   ELSE [slot[c][f] EXCEPT !.got.accounts = {}]]]
          /\ UNCHANGED <<target, cancelled>>
    /\ UNCHANGED <<flightVars, gateVars, mainVars>>

(* Sync after wg.Wait(): the failures decide the answer. *)
Selected(c) == {e \in Endpoint : slot[c][e].at # "none"}

Collected(c) == /\ pc[c] = "syncing"
                /\ \A e \in Selected(c) : slot[c][e].at = "done"

(* Mutant: an account that discovery no longer finds is no failure. *)
MutAnswer(c) ==
    IF \A f \in Selected(c) \cup {Resolve} : slot[c][f].got.status = "ok"
      THEN "synced" ELSE "failed"

Answer(c) ==
    IF target[c] # All /\ Selected(c) = {} THEN "notFound"
    ELSE IF \A f \in Selected(c) \cup {Resolve} : slot[c][f].got.status = "ok"
           THEN "synced" ELSE "failed"

Collect(c) ==
    /\ Alive
    /\ Collected(c)
    /\ Return(c)
    /\ UNCHANGED <<flightVars, gateVars, mainVars>>

(***************************************************************************)
(* Flights: the functions passed to DoChan, each in its own goroutine.     *)
(***************************************************************************)
(* A set of accounts has one endpoint per login: resolve deduplicates. *)
Accounts == {S \in SUBSET Endpoint : \A e, g \in S : e.login = g.login => e = g}

End(f, st, S) ==
    /\ stage' = [stage EXCEPT ![f] = "ended"]
    /\ outcome' = [outcome EXCEPT ![f] = Result(st, outcome[f].by, S)]

(* Mutant: finishSyncTask is deferred before beginSyncTask is asked. *)
MutBeginEarlyDefer(f) ==
    /\ Alive
    /\ stage[f] = "spawned"
    /\ \/ syncStopped /\ End(f, "canceled", {}) /\ syncTasks' = syncTasks - 1
       \/ /\ ~syncStopped
          /\ syncTasks' = syncTasks + 1
          /\ stage' = [stage EXCEPT ![f] = "running"]
          /\ UNCHANGED outcome
    /\ UNCHANGED <<callerVars, stored, syncStopped, syncDone, mainVars>>

BeginSyncTask(f) ==
    /\ Alive
    /\ stage[f] = "spawned"
    /\ \/ /\ syncStopped
          /\ End(f, "canceled", {})
          /\ UNCHANGED syncTasks
       \/ /\ ~syncStopped
          /\ syncTasks' = syncTasks + 1
          /\ stage' = [stage EXCEPT ![f] = "running"]
          /\ UNCHANGED outcome
    /\ UNCHANGED <<callerVars, stored, syncStopped, syncDone, mainVars>>

(* Mutant: the channel is closed while other tasks are running. *)
MutFinishSyncTask ==
    /\ syncTasks' = syncTasks - 1
    /\ syncDone' = IF syncStopped THEN "closed" ELSE syncDone
    /\ UNCHANGED syncStopped

(* The deferred finishSyncTask; closing a closed channel panics. *)
FinishSyncTask ==
    /\ syncTasks' = syncTasks - 1
    /\ syncDone' = IF syncStopped /\ syncTasks = 1
                     THEN IF syncDone = "open" THEN "closed" ELSE "panicked"
                     ELSE syncDone
    /\ UNCHANGED syncStopped

(* Discovery and the usage requests may find any accounts, and fail. *)
ResolveAccounts ==
    /\ Alive
    /\ stage[Resolve] = "running"
    /\ \E S \in Accounts, st \in {"ok", "failed"} : End(Resolve, st, S)
    /\ FinishSyncTask
    /\ UNCHANGED <<callerVars, stored, mainVars>>

FetchDaily(f) ==
    /\ Alive
    /\ f # Resolve
    /\ stage[f] = "running"
    /\ stage' = [stage EXCEPT ![f] = "fetched"]
    /\ UNCHANGED <<callerVars, outcome, stored, gateVars, mainVars>>

(* SaveDaily is one transaction: it commits or changes nothing. *)
SaveDaily(f) ==
    /\ Alive
    /\ f # Resolve
    /\ stage[f] = "fetched"
    /\ stored' = stored \cup {outcome[f].by.login}
    /\ End(f, "ok", {})
    /\ FinishSyncTask
    /\ UNCHANGED <<callerVars, mainVars>>

(* The request or the transaction fails, or SyncContext ends it. *)
SyncFails(f) ==
    /\ Alive
    /\ f # Resolve
    /\ stage[f] \in {"running", "fetched"}
    /\ \/ End(f, "failed", {})
       \/ SyncContextDone /\ End(f, "canceled", {})
    /\ FinishSyncTask
    /\ UNCHANGED <<callerVars, stored, mainVars>>

(* Mutant: only one of the waiting callers gets the result. *)
MutPublish(f) ==
    /\ Alive
    /\ stage[f] = "ended"
    /\ stage' = [stage EXCEPT ![f] = "idle"]
    /\ outcome' = [outcome EXCEPT ![f] = None(f)]
    /\ LET waiting == {c \in Caller : slot[c][f].at = "waiting"}
           lucky   == CHOOSE c \in waiting : TRUE
       IN  slot' = IF waiting = {} THEN slot
                   ELSE [slot EXCEPT ![lucky][f] = [at |-> "done", got |-> outcome[f]]]
    /\ UNCHANGED <<pc, target, cancelled, stored, gateVars, mainVars>>

(* singleflight forgets the key and mails every waiter in one step. *)
Publish(f) ==
    /\ Alive
    /\ stage[f] = "ended"
    /\ stage' = [stage EXCEPT ![f] = "idle"]
    /\ outcome' = [outcome EXCEPT ![f] = None(f)]
    /\ slot' = [c \in Caller |-> [e \in Flight |->
           IF slot[c][e].at = "waiting" /\ FlightOf(e) = f
             THEN [at |-> "done", got |-> outcome[f]]
             ELSE slot[c][e]]]
    /\ UNCHANGED <<pc, target, cancelled, stored, gateVars, mainVars>>

(***************************************************************************)
(* run().                                                                  *)
(***************************************************************************)
Handlers == Caller \ {Background}
Busy     == {c \in Handlers : pc[c] # "idle"}

Signal ==
    /\ Alive /\ ~ctxDone
    /\ ctxDone' = TRUE
    /\ UNCHANGED <<callerVars, flightVars, gateVars, accepting, mainPc>>

(* The listener failed; open connections still deliver requests. stop(). *)
ServerFails ==
    /\ mainPc = "serving"
    /\ mainPc' = "joining"
    /\ ctxDone' = TRUE
    /\ UNCHANGED <<callerVars, flightVars, gateVars, accepting>>

BeginShutdown ==
    /\ mainPc = "serving" /\ ctxDone
    /\ mainPc' = "shutdown"
    /\ accepting' = FALSE
    /\ UNCHANGED <<callerVars, flightVars, gateVars, ctxDone>>

(* server.Shutdown returned in time, or server.Close cut the rest off. *)
EndShutdown ==
    /\ mainPc = "shutdown"
    /\ \/ Busy = {} /\ UNCHANGED cancelled
       \/ cancelled' = cancelled \cup Busy
    /\ mainPc' = "joining"
    /\ UNCHANGED <<pc, target, slot, flightVars, gateVars, ctxDone, accepting>>

(* background.Wait(), then the critical section of WaitForSync. *)
WaitForSync ==
    /\ mainPc = "joining"
    /\ pc[Background] = "exited"
    /\ syncStopped' = TRUE
    /\ syncDone' = IF syncStopped THEN syncDone
                   ELSE IF syncTasks = 0 THEN "closed" ELSE "open"
    /\ mainPc' = "draining"
    /\ UNCHANGED <<callerVars, flightVars, syncTasks, ctxDone, accepting>>

(* Mutant: the database is closed without waiting for the channel. *)
MutCloseHistory ==
    /\ mainPc = "draining"
    /\ mainPc' = "closed"
    /\ UNCHANGED <<callerVars, flightVars, gateVars, ctxDone, accepting>>

(* <-done, then the deferred history.Close(). *)
CloseHistory ==
    /\ mainPc = "draining"
    /\ syncDone = "closed"
    /\ mainPc' = "closed"
    /\ UNCHANGED <<callerVars, flightVars, gateVars, ctxDone, accepting>>

(* The other deferred calls; returning from main ends every goroutine. *)
Exit ==
    /\ mainPc = "closed"
    /\ mainPc' = "exited"
    /\ UNCHANGED <<callerVars, flightVars, gateVars, ctxDone, accepting>>

Terminated == mainPc = "exited" /\ UNCHANGED vars

-----------------------------------------------------------------------------
CallerStep(c) ==
    \/ \E e \in Flight : Join(c, e) \/ Abandon(c, e)
    \/ Resolved(c)
    \/ Collect(c)

FlightStep(f) ==
    \/ BeginSyncTask(f)
    \/ f = Resolve /\ ResolveAccounts
    \/ FetchDaily(f)
    \/ SaveDaily(f)
    \/ SyncFails(f)
    \/ Publish(f)

MainStep ==
    BeginShutdown \/ EndShutdown \/ WaitForSync \/ CloseHistory \/ Exit

Next ==
    \/ \E c \in Caller : Request(c) \/ Disconnect(c) \/ CallerStep(c)
    \/ Tick \/ BackgroundExit
    \/ \E f \in Flight : FlightStep(f)
    \/ Signal \/ ServerFails \/ MainStep
    \/ Terminated

Spec == Init /\ [][Next]_vars

(***************************************************************************)
(* Goroutines run; upstream requests and Docker calls have deadlines, and  *)
(* so has Shutdown. When the ticker is ready too, the select of the        *)
(* background loop picks between the two at random, and so ctx.Done()      *)
(* sooner or later.                                                        *)
(***************************************************************************)
Fairness ==
    /\ \A c \in Caller : WF_vars(CallerStep(c))
    /\ \A f \in Flight : WF_vars(FlightStep(f))
    /\ SF_vars(BackgroundExit)
    /\ WF_vars(MainStep)

FairSpec == Spec /\ Fairness

-----------------------------------------------------------------------------
(***************************************************************************)
(* Properties.                                                             *)
(***************************************************************************)
Active == {f \in Flight : stage[f] \in {"running", "fetched"}}

(* main.go closes the database only after WaitForSync: from then on no     *)
(* shared task is running that could still read or write it, whoever       *)
(* started the task and whether or not that caller is still there.         *)
NoTaskAfterClose == mainPc \in {"closed", "exited"} => Active = {}

(* The counter, the flag, the channel and run() agree: the counter counts  *)
(* the tasks inside, the channel is made when WaitForSync raises the flag, *)
(* and it is closed at the very moment when none is left, not later.       *)
DrainInv ==
    /\ syncTasks = Cardinality(Active)
    /\ syncStopped <=> mainPc \in {"draining", "closed", "exited"}
    /\ syncDone = IF ~syncStopped THEN "nil"
                  ELSE IF syncTasks = 0 THEN "closed" ELSE "open"
    /\ mainPc \in {"closed", "exited"} => syncDone = "closed"

(* beginSyncTask and finishSyncTask never close syncDone a second time,    *)
(* even when calls of Sync keep coming after WaitForSync.                  *)
NoDoubleClose == syncDone # "panicked"

(* A client that goes away, or is cut off by server.Close, fails its own   *)
(* call only: whoever shares its flights is canceled by run()'s context    *)
(* or not at all.                                                          *)
CancellationIsPrivate ==
    \A c \in Caller, f \in Flight :
        slot[c][f].got.status = "canceled" => ctxDone \/ c \in cancelled

(* The answer a caller gets for an account was obtained with the URL and   *)
(* the API key that its own discovery found, never with those of a flight  *)
(* started before the credential changed.                                  *)
OwnEndpoint ==
    \A c \in Caller, e \in Endpoint :
        slot[c][e].at = "done" => slot[c][e].got.by = e

(* When POST /api/v1/sync is about to answer synced: true, the dashboard   *)
(* has a committed snapshot of the account asked for, and of every account *)
(* the call selected.                                                      *)
SyncedIsStored ==
    \A c \in Caller :
        Collected(c) /\ Answer(c) = "synced" =>
            /\ {e.login : e \in Selected(c)} \subseteq stored
            /\ target[c] = All \/ target[c] \in stored

(* What the counter, the flag and the channel implement together: a gate   *)
(* that admits tasks until it is shut and opens the way to Close when the  *)
(* last task has left.                                                     *)
Gate == INSTANCE TaskGate WITH
    Task   <- Flight,
    active <- Active,
    gate   <- IF ~syncStopped THEN "open"
              ELSE IF syncDone = "closed" THEN "drained" ELSE "shut"

GateSpec == Gate!Spec

(* Every call of Sync returns, whatever its caller, the other callers and  *)
(* the shutdown do in the meantime.                                        *)
EveryCallReturns ==
    \A c \in Caller :
        pc[c] \in {"resolving", "syncing"}
            ~> pc[c] \in {"idle", "select"} \/ mainPc = "exited"

(* A signal, or a listener that fails, ends the process: neither the       *)
(* background loop nor WaitForSync holds it up for ever.                   *)
ShutdownCompletes == ctxDone ~> mainPc = "exited"
=============================================================================
