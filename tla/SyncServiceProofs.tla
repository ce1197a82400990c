------------------------- MODULE SyncServiceProofs -------------------------
(***************************************************************************)
(* Proofs about SyncService, for any callers, logins and origins: the gate *)
(* of tasks at shutdown, and what calls get from the flights they share.   *)
(***************************************************************************)
EXTENDS SyncService, FiniteSetTheorems, TLAPS

(* DrainInv needs the types, and the type of syncTasks needs DrainInv.     *)
IInv == TypeOK /\ DrainInv

-----------------------------------------------------------------------------
(* Flights and their outcomes. *)
LEMMA ResolveIsFlight == Resolve \in Flight
BY DEF Flight

(* What a flight may answer.                                               *)
LEMMA ResultType ==
    ASSUME NEW st \in {"none", "ok", "failed", "canceled"},
           NEW e \in Flight, NEW S \in SUBSET Endpoint
    PROVE  Result(st, e, S) \in Outcome
BY DEF Result, Outcome

(* The slots of a caller that has asked nothing.                           *)
LEMMA UnusedType == Unused \in [Flight -> Slot]
<1>1. \A f \in Flight : None(f) \in Outcome
  BY ResultType DEF None
<1>2. QED
  BY <1>1 DEF Unused, Slot

(* Only finitely many tasks can be inside. *)
LEMMA ActiveFinite == IsFiniteSet(Active) /\ Cardinality(Active) \in Nat
<1>1. IsFiniteSet(Flight)
  BY FlightAssumption, FS_AddElement DEF Flight
<1>2. Active \subseteq Flight
  BY DEF Active
<1>3. QED
  BY <1>1, <1>2, FS_Subset, FS_CardinalityType

(* The counter is zero just when nobody is inside. *)
LEMMA ActiveEmpty == Active = {} <=> Cardinality(Active) = 0
BY ActiveFinite, FS_EmptySet

(* One flight changes stage: what becomes of Active. *)
LEMMA ActiveStep ==
    ASSUME TypeOK, NEW f \in Flight,
           NEW x \in {"idle", "spawned", "running", "fetched", "ended"},
           stage' = [stage EXCEPT ![f] = x]
    PROVE  Active' = IF x \in {"running", "fetched"}
                       THEN Active \cup {f} ELSE Active \ {f}
BY DEF Active, TypeOK

(* Nothing moves in or out when no flight changes stage. *)
LEMMA ActiveSame == ASSUME UNCHANGED stage PROVE Active' = Active
BY DEF Active

(* finishSyncTask keeps the counter, the flag and the channel in step. *)
LEMMA FinishKeepsDrainInv ==
    ASSUME IInv, NEW f \in Active, mainPc' = mainPc,
           stage' = [stage EXCEPT ![f] = "ended"],
           FinishSyncTask
    PROVE  DrainInv' /\ syncTasks' \in Nat
           /\ syncDone' \in {"nil", "open", "closed", "panicked"}
<1>1. f \in Flight
  BY DEF Active
<1>2. Active' = Active \ {f}
  BY <1>1, ActiveStep DEF IInv
<1>3. /\ Cardinality(Active') = Cardinality(Active) - 1
      /\ Cardinality(Active') \in Nat
      /\ Cardinality(Active) \in Nat
  BY <1>2, ActiveFinite, FS_RemoveElement, FS_CardinalityType
<1>4. syncTasks' = Cardinality(Active') /\ syncTasks \in Nat /\ syncTasks # 0
  BY <1>3 DEF FinishSyncTask, IInv, DrainInv
<1>5. syncDone' = IF ~syncStopped' THEN "nil"
                  ELSE IF syncTasks' = 0 THEN "closed" ELSE "open"
  BY <1>4 DEF FinishSyncTask, IInv, DrainInv
<1>6. mainPc' \in {"closed", "exited"} => syncDone' = "closed"
  BY <1>4 DEF IInv, DrainInv
<1>7. QED
  BY <1>3, <1>4, <1>5, <1>6 DEF FinishSyncTask, IInv, DrainInv

-----------------------------------------------------------------------------
(* The initial state. *)
LEMMA InitIInv == Init => IInv
<1>1. ASSUME Init PROVE Active = {}
  BY <1>1 DEF Init, Active
<1>2. ASSUME Init PROVE DrainInv
  BY <1>1, <1>2, FS_EmptySet DEF Init, DrainInv
<1>3. ASSUME Init PROVE TypeOK
  <2>1. \A f \in Flight : None(f) \in Outcome /\ None(f).by = f
    BY ResultType DEF None, Result
  <2>2. QED
    BY <1>3, <2>1, UnusedType, CallerAssumption DEF Init, TypeOK, Flight
<1>4. QED
  BY <1>2, <1>3 DEF IInv

-----------------------------------------------------------------------------
(* Nothing changes.                                                        *)
LEMMA StutterKeepsIInv == ASSUME IInv, UNCHANGED vars PROVE IInv'
BY ActiveSame DEF IInv, TypeOK, DrainInv, vars, callerVars, flightVars, gateVars, mainVars

(* The steps of the callers. *)
LEMMA CallerStepsKeepDrainInv ==
    ASSUME IInv, UNCHANGED <<Active, gateVars, mainPc>>
    PROVE  DrainInv'
BY DEF IInv, DrainInv, gateVars

(* A caller begins.                                                        *)
LEMMA BeginTypes ==
    ASSUME TypeOK, NEW c \in Caller, NEW login \in Login \cup {All}, Begin(c, login)
    PROVE  /\ pc' \in [Caller -> {"idle", "resolving", "syncing", "select", "exited"}]
           /\ target' \in [Caller -> Login \cup {All}]
           /\ slot' \in [Caller -> [Flight -> Slot]]
<1>1. [slot[c][Resolve] EXCEPT !.at = "spawned"] \in Slot
  BY ResolveIsFlight DEF TypeOK, Slot
<1>2. slot' \in [Caller -> [Flight -> Slot]]
  BY <1>1, ResolveIsFlight DEF TypeOK, Begin
<1>3. QED
  BY <1>2 DEF TypeOK, Begin

(* A caller returns.                                                       *)
LEMMA ReturnTypes ==
    ASSUME TypeOK, NEW c \in Caller, Return(c)
    PROVE  /\ pc' \in [Caller -> {"idle", "resolving", "syncing", "select", "exited"}]
           /\ target' \in [Caller -> Login \cup {All}]
           /\ slot' \in [Caller -> [Flight -> Slot]]
           /\ cancelled' \in SUBSET (Caller \ {Background})
BY UnusedType DEF TypeOK, Return

(* One slot of one caller changes.                                         *)
LEMMA SlotUpdateType ==
    ASSUME TypeOK, NEW c \in Caller, NEW e \in Flight, NEW x \in Slot,
           slot' = [slot EXCEPT ![c][e] = x]
    PROVE  slot' \in [Caller -> [Flight -> Slot]]
BY DEF TypeOK

(* A caller joins a flight or starts one; neither is a task yet.           *)
LEMMA JoinTypes ==
    ASSUME TypeOK, NEW c \in Caller, NEW e \in Flight, Join(c, e)
    PROVE  TypeOK' /\ Active' = Active
<1> DEFINE f == FlightOf(e)
<1>1. f \in Flight
  BY DEF FlightOf, SyncAccountKey, Flight, Endpoint
<1>2. CASE CtxDone(c)
  <2>1. [at |-> "done", got |-> Result("canceled", e, {})] \in Slot
    BY ResultType DEF Slot
  <2>2. slot' = [slot EXCEPT ![c][e] = [at |-> "done", got |-> Result("canceled", e, {})]]
    BY <1>2 DEF Join
  <2>3. slot' \in [Caller -> [Flight -> Slot]]
    BY <2>1, <2>2, SlotUpdateType
  <2>4. QED
    BY <1>2, <2>3 DEF TypeOK, Join, Active, gateVars, mainVars
<1>3. CASE ~CtxDone(c)
  <2>1. [slot[c][e] EXCEPT !.at = "waiting"] \in Slot
    BY DEF TypeOK, Slot
  <2>2. slot' \in [Caller -> [Flight -> Slot]]
    <3>1. slot' = [slot EXCEPT ![c][e] = [slot[c][e] EXCEPT !.at = "waiting"]]
      BY <1>3 DEF Join
    <3>2. QED
      BY <2>1, <3>1, SlotUpdateType
  <2>3. /\ outcome' \in [Flight -> Outcome]
        /\ \A g \in Endpoint : outcome'[g].by \in Endpoint
    <3>1. None(e) \in Outcome /\ None(e).by = e
      BY ResultType DEF None, Result
    <3>2. e = Resolve => f = Resolve
      BY DEF FlightOf
    <3>3. outcome' = outcome \/ outcome' = [outcome EXCEPT ![f] = None(e)]
      BY <1>3 DEF Join
    <3>4. f \in Endpoint => e \in Endpoint
      BY <3>2, FlightAssumption DEF Flight
    <3> HIDE DEF f
    <3>5. outcome' \in [Flight -> Outcome]
      BY <1>1, <3>1, <3>3 DEF TypeOK
    <3>6. ASSUME NEW g \in Endpoint PROVE outcome'[g].by \in Endpoint
      BY <1>1, <3>1, <3>3, <3>4, <3>6 DEF TypeOK, Flight
    <3>7. QED
      BY <3>5, <3>6
  <2>4. \/ stage' = stage
        \/ stage[f] = "idle" /\ stage' = [stage EXCEPT ![f] = "spawned"]
    BY <1>3 DEF Join
  <2>5. stage' \in [Flight -> {"idle", "spawned", "running", "fetched", "ended"}]
    BY <1>1, <2>4 DEF TypeOK
  <2>6. Active' = Active
    BY <1>1, <2>4 DEF Active, TypeOK
  <2>7. QED
    BY <2>2, <2>3, <2>5, <2>6 DEF TypeOK, Join, gateVars, mainVars
<1>4. QED
  BY <1>2, <1>3

(* A caller stops waiting.                                                 *)
LEMMA AbandonTypes ==
    ASSUME TypeOK, NEW c \in Caller, NEW e \in Flight, Abandon(c, e)
    PROVE  TypeOK'
<1>1. [at |-> "done", got |-> Result("canceled", e, {})] \in Slot
  BY ResultType DEF Slot
<1>2. slot' \in [Caller -> [Flight -> Slot]]
  BY <1>1, SlotUpdateType DEF Abandon
<1>3. QED
  BY <1>2 DEF TypeOK, Abandon, flightVars, gateVars, mainVars

(* A caller goes on with the accounts that were resolved.                  *)
LEMMA ResolvedTypes ==
    ASSUME TypeOK, NEW c \in Caller, Resolved(c)
    PROVE  TypeOK'
<1>1. CASE slot[c][Resolve].got.status = "canceled"
  BY <1>1, ReturnTypes DEF TypeOK, Resolved, flightVars, gateVars, mainVars
<1>2. CASE slot[c][Resolve].got.status # "canceled"
  <2> DEFINE mine == [f \in Flight |->
                 IF f \in slot[c][Resolve].got.accounts /\ Matches(c, f)
                   THEN [at |-> "spawned", got |-> None(f)]
                   ELSE [slot[c][f] EXCEPT !.got.accounts = {}]]
  <2>1. \A f \in Flight : [at |-> "spawned", got |-> None(f)] \in Slot
    BY ResultType DEF None, Slot
  <2>2. \A f \in Flight : [slot[c][f] EXCEPT !.got.accounts = {}] \in Slot
    <3>1. SUFFICES ASSUME NEW f \in Flight
                   PROVE  [slot[c][f] EXCEPT !.got.accounts = {}] \in Slot
      OBVIOUS
    <3>2. slot[c][f] \in Slot
      BY DEF TypeOK
    <3>3. [slot[c][f].got EXCEPT !.accounts = {}] \in Outcome
      BY <3>2 DEF Slot, Outcome
    <3>4. [slot[c][f] EXCEPT !.got.accounts = {}]
            = [at |-> slot[c][f].at, got |-> [slot[c][f].got EXCEPT !.accounts = {}]]
      BY <3>2 DEF Slot
    <3>5. QED
      BY <3>2, <3>3, <3>4 DEF Slot
  <2>3. mine \in [Flight -> Slot]
    BY <2>1, <2>2
  <2>4. slot' = [slot EXCEPT ![c] = mine]
    BY <1>2 DEF Resolved
  <2>5. slot' \in [Caller -> [Flight -> Slot]]
    BY <2>3, <2>4 DEF TypeOK
  <2>6. QED
    BY <1>2, <2>5 DEF TypeOK, Resolved, flightVars, gateVars, mainVars
<1>3. QED
  BY <1>1, <1>2

(* No step of a caller lets a task in.                                     *)
LEMMA CallerStepKeepsIInv ==
    ASSUME IInv, NEW c \in Caller, CallerStep(c)
    PROVE  IInv'
<1> USE DEF IInv
<1>1. ASSUME NEW e \in Flight, Join(c, e) PROVE IInv'
  BY <1>1, JoinTypes, CallerStepsKeepDrainInv DEF Join, mainVars
<1>2. ASSUME NEW e \in Flight, Abandon(c, e) PROVE IInv'
  BY <1>2, AbandonTypes, ActiveSame, CallerStepsKeepDrainInv DEF Abandon, flightVars, mainVars
<1>3. CASE Resolved(c)
  BY <1>3, ResolvedTypes, ActiveSame, CallerStepsKeepDrainInv DEF Resolved, flightVars, mainVars
<1>4. CASE Collect(c)
  <2>1. TypeOK'
    BY <1>4, ReturnTypes DEF Collect, TypeOK, flightVars, gateVars, mainVars
  <2>2. QED
    BY <1>4, <2>1, ActiveSame, CallerStepsKeepDrainInv DEF Collect, flightVars, mainVars
<1>5. QED
  BY <1>1, <1>2, <1>3, <1>4 DEF CallerStep

(* The steps of the environment that start and end calls. *)
LEMMA CallsKeepIInv ==
    ASSUME IInv,
           (\E c \in Caller : Request(c) \/ Disconnect(c)) \/ Tick \/ BackgroundExit
    PROVE  IInv'
<1> USE DEF IInv
<1>1. TypeOK'
  <2>1. ASSUME NEW c \in Caller, Request(c) PROVE TypeOK'
    BY <2>1, BeginTypes DEF Request, TypeOK, flightVars, gateVars, mainVars
  <2>2. ASSUME NEW c \in Caller, Disconnect(c) PROVE TypeOK'
    BY <2>2 DEF Disconnect, TypeOK, flightVars, gateVars, mainVars
  <2>3. CASE Tick
    BY <2>3, BeginTypes, CallerAssumption DEF Tick, TypeOK, flightVars, gateVars, mainVars
  <2>4. CASE BackgroundExit
    BY <2>4 DEF BackgroundExit, TypeOK, flightVars, gateVars, mainVars
  <2>5. QED
    BY <2>1, <2>2, <2>3, <2>4
<1>2. UNCHANGED <<stage, gateVars, mainPc>>
  BY DEF Request, Disconnect, Tick, BackgroundExit, flightVars, mainVars
<1>3. QED
  BY <1>1, <1>2, ActiveSame, CallerStepsKeepDrainInv

-----------------------------------------------------------------------------
(* The steps of the flights. *)
LEMMA EndTypes ==
    ASSUME TypeOK, NEW f \in Flight, NEW st \in {"ok", "failed", "canceled"},
           NEW S \in SUBSET Endpoint, End(f, st, S)
    PROVE  /\ stage' \in [Flight -> {"idle", "spawned", "running", "fetched", "ended"}]
           /\ outcome' \in [Flight -> Outcome]
           /\ \A e \in Endpoint : outcome'[e].by \in Endpoint
<1>1. outcome[f].by \in Flight
  BY DEF TypeOK, Outcome
<1>2. Result(st, outcome[f].by, S) \in Outcome
  BY <1>1, ResultType
<1>3. Result(st, outcome[f].by, S).by = outcome[f].by
  BY DEF Result
<1>4. QED
  BY <1>2, <1>3 DEF End, TypeOK, Flight

(* A task goes in only while the service is not stopped.                   *)
LEMMA BeginSyncTaskKeepsIInv ==
    ASSUME IInv, NEW f \in Flight, BeginSyncTask(f)
    PROVE  IInv'
<1> USE DEF IInv
<1>1. CASE syncStopped
  <2>1. End(f, "canceled", {}) /\ UNCHANGED gateVars /\ UNCHANGED mainPc
    BY <1>1 DEF BeginSyncTask, gateVars, mainVars
  <2>2. TypeOK'
    BY <2>1, EndTypes DEF BeginSyncTask, TypeOK, gateVars, callerVars, mainVars
  <2>3. Active' = Active \ {f}
    BY <2>1, ActiveStep DEF End
  <2>4. f \notin Active
    BY DEF BeginSyncTask, Active
  <2>5. Active' = Active
    BY <2>3, <2>4
  <2>6. QED
    BY <2>1, <2>2, <2>5, CallerStepsKeepDrainInv
<1>2. CASE ~syncStopped
  <2>1. Active' = Active \cup {f} /\ f \notin Active
    BY <1>2, ActiveStep DEF BeginSyncTask, Active
  <2>2. Cardinality(Active') = Cardinality(Active) + 1
    BY <2>1, ActiveFinite, FS_AddElement
  <2>3. TypeOK'
    BY <1>2 DEF BeginSyncTask, TypeOK, callerVars, mainVars
  <2>4. DrainInv'
    BY <1>2, <2>2 DEF BeginSyncTask, DrainInv, mainVars
  <2>5. QED
    BY <2>3, <2>4
<1>3. QED
  BY <1>1, <1>2

(* A task that ends, whichever way. *)
LEMMA TaskEndKeepsIInv ==
    ASSUME IInv, NEW f \in Active,
           NEW st \in {"ok", "failed", "canceled"}, NEW S \in SUBSET Endpoint,
           End(f, st, S), FinishSyncTask, stored' \in SUBSET Login,
           UNCHANGED <<callerVars, mainVars>>
    PROVE  IInv'
<1>1. f \in Flight
  BY DEF Active
<1>2. /\ stage' \in [Flight -> {"idle", "spawned", "running", "fetched", "ended"}]
      /\ outcome' \in [Flight -> Outcome]
      /\ \A e \in Endpoint : outcome'[e].by \in Endpoint
  BY <1>1, EndTypes DEF IInv
<1>3. /\ DrainInv'
      /\ syncTasks' \in Nat
      /\ syncDone' \in {"nil", "open", "closed", "panicked"}
  BY FinishKeepsDrainInv DEF End, mainVars
<1>4. TypeOK'
  BY <1>2, <1>3 DEF IInv, TypeOK, FinishSyncTask, callerVars, mainVars
<1>5. QED
  BY <1>3, <1>4 DEF IInv

(* A flight that ends leaves the gate.                                     *)
LEMMA FlightStepKeepsIInv ==
    ASSUME IInv, NEW f \in Flight, FlightStep(f)
    PROVE  IInv'
<1>1. CASE BeginSyncTask(f)
  BY <1>1, BeginSyncTaskKeepsIInv
<1>2. CASE f = Resolve /\ ResolveAccounts
  <2>1. Resolve \in Active
    BY <1>2, ResolveIsFlight DEF ResolveAccounts, Active
  <2>2. PICK S \in Accounts, st \in {"ok", "failed"} : End(Resolve, st, S)
    BY <1>2 DEF ResolveAccounts
  <2>3. S \in SUBSET Endpoint
    BY DEF Accounts
  <2>4. stored' \in SUBSET Login
    BY <1>2 DEF ResolveAccounts, IInv, TypeOK
  <2>5. FinishSyncTask /\ UNCHANGED <<callerVars, mainVars>>
    BY <1>2 DEF ResolveAccounts
  <2>6. QED
    BY <2>1, <2>2, <2>3, <2>4, <2>5, TaskEndKeepsIInv
<1>3. CASE FetchDaily(f)
  <2>1. Active' = Active \cup {f} /\ f \in Active
    BY <1>3, ActiveStep DEF FetchDaily, Active, IInv
  <2>2. Active' = Active
    BY <2>1
  <2>3. DrainInv'
    BY <1>3, <2>2, CallerStepsKeepDrainInv DEF FetchDaily, mainVars
  <2>4. TypeOK'
    BY <1>3 DEF FetchDaily, IInv, TypeOK, callerVars, gateVars, mainVars
  <2>5. QED
    BY <2>3, <2>4 DEF IInv
<1>4. CASE SaveDaily(f)
  <2>1. f \in Active
    BY <1>4 DEF SaveDaily, Active
  <2>2. outcome[f].by \in Endpoint
    BY <1>4 DEF SaveDaily, IInv, TypeOK, Flight
  <2>3. stored' \in SUBSET Login
    BY <1>4, <2>2 DEF SaveDaily, IInv, TypeOK, Endpoint
  <2>4. QED
    BY <1>4, <2>1, <2>3, TaskEndKeepsIInv DEF SaveDaily
<1>5. CASE SyncFails(f)
  <2>1. f \in Active
    BY <1>5 DEF SyncFails, Active
  <2>2. PICK st \in {"failed", "canceled"} : End(f, st, {})
    BY <1>5 DEF SyncFails
  <2>3. stored' \in SUBSET Login
    BY <1>5 DEF SyncFails, IInv, TypeOK
  <2>4. FinishSyncTask /\ UNCHANGED <<callerVars, mainVars>>
    BY <1>5 DEF SyncFails
  <2>5. QED
    BY <2>1, <2>2, <2>3, <2>4, TaskEndKeepsIInv
<1>6. CASE Publish(f)
  <2>1. \A g \in Flight : None(g) \in Outcome /\ None(g).by = g
    BY ResultType DEF None, Result
  <2>2. [at |-> "done", got |-> outcome[f]] \in Slot
    BY DEF IInv, TypeOK, Slot
  <2>3. slot' \in [Caller -> [Flight -> Slot]]
    BY <1>6, <2>2 DEF Publish, IInv, TypeOK
  <2>4. TypeOK'
    BY <1>6, <2>1, <2>3 DEF Publish, IInv, TypeOK, Flight, gateVars, mainVars
  <2>5. Active' = Active \ {f} /\ f \notin Active
    BY <1>6, ActiveStep DEF Publish, Active, IInv
  <2>6. Active' = Active
    BY <2>5
  <2>7. DrainInv'
    BY <1>6, <2>6, CallerStepsKeepDrainInv DEF Publish, mainVars
  <2>8. QED
    BY <2>4, <2>7 DEF IInv
<1>7. QED
  BY <1>1, <1>2, <1>3, <1>4, <1>5, <1>6 DEF FlightStep

-----------------------------------------------------------------------------
(* The steps of run(). *)
LEMMA MainKeepsIInv ==
    ASSUME IInv, Signal \/ ServerFails \/ MainStep
    PROVE  IInv'
<1>1. UNCHANGED stage
  BY DEF Signal, ServerFails, MainStep, BeginShutdown, EndShutdown, WaitForSync,
         CloseHistory, Exit, flightVars
<1>2. Active' = Active
  BY <1>1, ActiveSame
<1>3. CASE Signal \/ ServerFails \/ BeginShutdown
  <2>1. UNCHANGED <<callerVars, flightVars, gateVars>>
    BY <1>3 DEF Signal, ServerFails, BeginShutdown
  <2>2. /\ ctxDone' \in BOOLEAN
        /\ accepting' \in BOOLEAN
        /\ mainPc' \in {"serving", "shutdown", "joining", "draining", "closed", "exited"}
    BY <1>3 DEF Signal, ServerFails, BeginShutdown, IInv, TypeOK
  <2>3. TypeOK'
    BY <2>1, <2>2 DEF IInv, TypeOK, callerVars, flightVars, gateVars
  <2>4. DrainInv'
    BY <1>2, <1>3, <2>1 DEF Signal, ServerFails, BeginShutdown, IInv, DrainInv, gateVars
  <2>5. QED
    BY <2>3, <2>4 DEF IInv
<1>4. CASE EndShutdown
  <2>1. cancelled' \in SUBSET (Caller \ {Background})
    BY <1>4 DEF EndShutdown, IInv, TypeOK, Busy, Handlers
  <2>2. QED
    BY <1>2, <1>4, <2>1 DEF EndShutdown, IInv, TypeOK, DrainInv, flightVars, gateVars
<1>5. CASE WaitForSync
  BY <1>2, <1>5 DEF WaitForSync, IInv, TypeOK, DrainInv, callerVars, flightVars
<1>6. CASE CloseHistory \/ Exit
  BY <1>2, <1>6 DEF CloseHistory, Exit, IInv, TypeOK, DrainInv,
                    callerVars, flightVars, gateVars
<1>7. QED
  BY <1>3, <1>4, <1>5, <1>6 DEF MainStep

(* The invariant is inductive. *)
LEMMA NextKeepsIInv ==
    ASSUME IInv, [Next]_vars
    PROVE  IInv'
<1>1. CASE Next
  BY <1>1, CallsKeepIInv, CallerStepKeepsIInv, FlightStepKeepsIInv, MainKeepsIInv,
     StutterKeepsIInv DEF Next, Terminated
<1>2. CASE UNCHANGED vars
  BY <1>2, StutterKeepsIInv
<1>3. QED
  BY <1>1, <1>2

(* Every state the program reaches is typed, and the counter, the flag,    *)
(* the channel and run() agree in it.                                      *)
THEOREM SpecDrainInv == Spec => [](TypeOK /\ DrainInv)
<1>1. Init => IInv
  BY InitIInv
<1>2. IInv /\ [Next]_vars => IInv'
  BY NextKeepsIInv
<1>3. QED
  BY <1>1, <1>2, PTL DEF Spec, IInv

(* Places, flights and counters keep to their domains: no task leaves the  *)
(* counter that has not entered it, whatever is canceled or refused.       *)
THEOREM SpecTypeOK == Spec => []TypeOK
<1>1. TypeOK /\ DrainInv => TypeOK
  OBVIOUS
<1>2. QED
  BY <1>1, SpecDrainInv, PTL

(* Once run() has closed the database no shared task is left that could    *)
(* use it: the counter is zero, so the set it counts is empty.             *)
THEOREM SpecNoTaskAfterClose == Spec => []NoTaskAfterClose
<1>1. TypeOK /\ DrainInv => NoTaskAfterClose
  BY ActiveFinite, FS_EmptySet DEF DrainInv, NoTaskAfterClose
<1>2. QED
  BY <1>1, SpecDrainInv, PTL

(* finishSyncTask and WaitForSync never close syncDone twice, however many *)
(* calls of Sync come before, during and after the shutdown.               *)
THEOREM SpecNoDoubleClose == Spec => []NoDoubleClose
<1>1. TypeOK /\ DrainInv => NoDoubleClose
  BY DEF DrainInv, NoDoubleClose
<1>2. QED
  BY <1>1, SpecDrainInv, PTL

-----------------------------------------------------------------------------
(* The abstract gate. *)
GateState == IF ~syncStopped THEN "open"
             ELSE IF syncDone = "closed" THEN "drained" ELSE "shut"

(* The gate does not see steps that leave the tasks alone.                 *)
LEMMA GateStutters ==
    ASSUME UNCHANGED <<Active, gateVars>>
    PROVE  UNCHANGED <<Active, GateState>>
BY DEF gateVars, GateState

(* A step of a flight is one of the gate: a task goes in, is turned away or *)
(* leaves.                                                                 *)
LEMMA FlightStepRefines ==
    ASSUME IInv, IInv', NEW f \in Flight, FlightStep(f)
    PROVE  Gate!Next \/ UNCHANGED <<Active, GateState>>
<1>1. CASE BeginSyncTask(f)
  <2>1. CASE syncStopped
    <3>1. Active' = Active \ {f} /\ f \notin Active
      BY <1>1, <2>1, ActiveStep DEF BeginSyncTask, End, Active, IInv
    <3>2. QED
      BY <1>1, <2>1, <3>1, GateStutters DEF BeginSyncTask, gateVars
  <2>2. CASE ~syncStopped
    <3>1. Active' = Active \cup {f} /\ f \notin Active
      BY <1>1, <2>2, ActiveStep DEF BeginSyncTask, Active, IInv
    <3>2. Gate!Enter(f)
      BY <1>1, <2>2, <3>1 DEF BeginSyncTask, Gate!Enter, GateState
    <3>3. QED
      BY <3>2 DEF Gate!Next
  <2>3. QED
    BY <2>1, <2>2
<1>2. CASE (f = Resolve /\ ResolveAccounts) \/ SaveDaily(f) \/ SyncFails(f)
  <2>1. f \in Active /\ stage' = [stage EXCEPT ![f] = "ended"] /\ FinishSyncTask
    BY <1>2 DEF ResolveAccounts, SaveDaily, SyncFails, End, Active
  <2>2. Active' = Active \ {f}
    BY <2>1, ActiveStep DEF IInv
  <2>3. GateState' = IF GateState = "open" THEN "open" ELSE Gate!ShutWith(Active')
    <3>1. CASE syncStopped
      <4>1. GateState # "open" /\ syncStopped'
        BY <2>1, <3>1 DEF GateState, FinishSyncTask
      <4>2. Active' = {} <=> Cardinality(Active') = 0
        BY <2>2, ActiveFinite, FS_RemoveElement, FS_EmptySet
      <4>3. GateState' = IF Active' = {} THEN "drained" ELSE "shut"
        BY <4>1, <4>2 DEF IInv, GateState, DrainInv
      <4>4. QED
        BY <4>1, <4>3 DEF Gate!ShutWith
    <3>2. CASE ~syncStopped
      BY <2>1, <3>2 DEF GateState, FinishSyncTask
    <3>3. QED
      BY <3>1, <3>2
  <2>4. Gate!Leave(f)
    BY <2>1, <2>2, <2>3 DEF Gate!Leave, GateState
  <2>5. QED
    BY <2>4 DEF Gate!Next
<1>3. CASE FetchDaily(f) \/ Publish(f)
  <2>1. Active' = Active
    BY <1>3, ActiveStep DEF FetchDaily, Publish, Active, IInv
  <2>2. QED
    BY <1>3, <2>1, GateStutters DEF FetchDaily, Publish
<1>4. QED
  BY <1>1, <1>2, <1>3 DEF FlightStep

(* Every step is a step of the gate or none.                               *)
LEMMA StepRefines ==
    ASSUME IInv, IInv', [Next]_vars
    PROVE  [Gate!Next]_<<Active, GateState>>
<1>1. CASE \E f \in Flight : FlightStep(f)
  BY <1>1, FlightStepRefines
<1>2. CASE \E c \in Caller, e \in Flight : Join(c, e)
  BY <1>2, JoinTypes, GateStutters DEF Join, IInv
<1>3. CASE WaitForSync
  <2>1. syncStopped' /\ ~syncStopped /\ Active' = Active
    BY <1>3, ActiveSame DEF WaitForSync, flightVars, IInv, DrainInv
  <2>2. GateState' = IF Active' = {} THEN "drained" ELSE "shut"
    BY <2>1, ActiveEmpty DEF IInv, GateState, DrainInv
  <2>3. Gate!Shut
    BY <2>1, <2>2 DEF Gate!Shut, Gate!ShutWith, GateState
  <2>4. QED
    BY <2>3 DEF Gate!Next
<1>4. CASE UNCHANGED <<stage, gateVars>>
  BY <1>4, ActiveSame, GateStutters
<1>5. ASSUME NEW c \in Caller, CallerStep(c),
             ~ \E e \in Flight : Join(c, e)
      PROVE  UNCHANGED <<stage, gateVars>>
  BY <1>5 DEF CallerStep, Abandon, Resolved, Collect, flightVars
<1>6. ASSUME \/ \E c \in Caller : Request(c) \/ Disconnect(c)
             \/ Tick \/ BackgroundExit \/ Signal \/ ServerFails
             \/ (MainStep /\ ~WaitForSync)
             \/ Terminated \/ UNCHANGED vars
      PROVE  UNCHANGED <<stage, gateVars>>
  BY <1>6 DEF Request, Disconnect, Tick, BackgroundExit, Signal, ServerFails,
              MainStep, BeginShutdown, EndShutdown, CloseHistory, Exit,
              Terminated, vars, flightVars
<1>7. QED
  BY <1>1, <1>2, <1>3, <1>4, <1>5, <1>6 DEF Next, MainStep

(* The counter, the flag and the channel are a gate: tasks enter until     *)
(* WaitForSync shuts it, and <-done returns when the last one has left.    *)
THEOREM SpecImplementsGate == Spec => GateSpec
<1>1. Init => Gate!Init
  BY DEF Init, Gate!Init, Active, GateState
<1>2. TypeOK /\ DrainInv /\ (TypeOK /\ DrainInv)' /\ [Next]_vars
        => [Gate!Next]_<<Active, GateState>>
  BY StepRefines DEF IInv
<1>3. QED
  BY <1>1, <1>2, SpecDrainInv, PTL DEF Spec, GateSpec, Gate!Spec, GateState

-----------------------------------------------------------------------------
(***************************************************************************)
(* What each call of Service.Sync gets from the flights it shares.         *)
(***************************************************************************)
(* run() leaves the serving state only with its context ended.             *)
ShutdownIsSignalled == mainPc # "serving" => ctxDone

(* What a flight has computed is about its own key: the endpoint it ran    *)
(* for, a cancellation that run()'s context caused, a snapshot committed.  *)
FlightInv ==
    \A f \in Flight :
        /\ outcome[f].by = f
        /\ outcome[f].status = "canceled" => ctxDone
        /\ f \in Endpoint /\ outcome[f].status = "ok" => f.login \in stored

(* What a caller has been told, flight by flight: of its own endpoint, a   *)
(* cancellation only by run()'s context or its own, a snapshot only if it  *)
(* is committed.                                                           *)
Told(got, c, f, done, gone, saved) ==
    /\ got.by = f
    /\ got.status = "canceled" => done \/ c \in gone
    /\ f \in Endpoint /\ got.status = "ok" => f.login \in saved

AnswerInv ==
    \A c \in Caller, f \in Flight :
        Told(slot[c][f].got, c, f, ctxDone, cancelled, stored)

(* A call waits for accounts only after it has resolved them, and only for *)
(* those it was asked for.                                                 *)
SelectionInv ==
    \A c \in Caller, e \in Endpoint :
        slot[c][e].at # "none" => pc[c] = "syncing" /\ Matches(c, e)

CallInv == ShutdownIsSignalled /\ FlightInv /\ AnswerInv /\ SelectionInv

-----------------------------------------------------------------------------
(* An endpoint is its own key: it has no fields but login and origin.      *)
LEMMA FlightIsItsKey == ASSUME NEW e \in Flight PROVE FlightOf(e) = e
BY DEF FlightOf, SyncAccountKey, Flight, Endpoint

(* The flight of an account is not the one that resolves accounts.         *)
LEMMA EndpointIsFlight ==
    ASSUME NEW e \in Endpoint PROVE e \in Flight /\ e # Resolve
BY FlightAssumption DEF Flight

(* The signal is never taken back, and no snapshot is removed.             *)
LEMMA SignalStays == ASSUME Next PROVE ctxDone => ctxDone'
<1>1. ASSUME NEW c \in Caller, Request(c) \/ Disconnect(c) \/ CallerStep(c)
      PROVE  UNCHANGED ctxDone
  BY <1>1 DEF Request, Disconnect, CallerStep, Join, Abandon, Resolved, Collect, mainVars
<1>2. ASSUME NEW f \in Flight, FlightStep(f) PROVE UNCHANGED ctxDone
  BY <1>2 DEF FlightStep, BeginSyncTask, ResolveAccounts, FetchDaily, SaveDaily,
              SyncFails, Publish, mainVars
<1>3. QED
  BY <1>1, <1>2 DEF Next, Tick, BackgroundExit, Signal, ServerFails, MainStep, BeginShutdown,
     EndShutdown, WaitForSync, CloseHistory, Exit, Terminated, vars, mainVars

(* No snapshot is removed from the store.                                  *)
LEMMA SnapshotsStay == ASSUME Next PROVE stored \subseteq stored'
<1>1. ASSUME NEW c \in Caller, Request(c) \/ Disconnect(c) \/ CallerStep(c)
      PROVE  UNCHANGED stored
  BY <1>1 DEF Request, Disconnect, CallerStep, Join, Abandon, Resolved, Collect, flightVars
<1>2. ASSUME NEW f \in Flight, FlightStep(f) PROVE stored \subseteq stored'
  BY <1>2 DEF FlightStep, BeginSyncTask, ResolveAccounts, FetchDaily, SaveDaily,
              SyncFails, Publish
<1>3. QED
  BY <1>1, <1>2 DEF Next, Tick, BackgroundExit, Signal, ServerFails, MainStep, BeginShutdown,
     EndShutdown, WaitForSync, CloseHistory, Exit, Terminated, vars, flightVars

(* Nobody has asked anything at first.                                     *)
LEMMA InitCallInv == Init => CallInv
<1> SUFFICES ASSUME Init PROVE CallInv
  OBVIOUS
<1>1. \A f \in Flight : None(f).by = f /\ None(f).status = "none"
  BY DEF None, Result
<1>2. \A c \in Caller, f \in Flight : slot[c][f].at = "none" /\ slot[c][f].got = None(f)
  BY DEF Init, Unused
<1>3. \A f \in Flight : outcome[f] = None(f)
  BY DEF Init
<1>4. FlightInv /\ AnswerInv
  BY <1>1, <1>2, <1>3 DEF FlightInv, AnswerInv, Told
<1>5. \A c \in Caller, e \in Endpoint : slot[c][e].at = "none"
  BY <1>2, EndpointIsFlight
<1>6. ShutdownIsSignalled /\ SelectionInv
  BY <1>5 DEF Init, ShutdownIsSignalled, SelectionInv
<1>7. QED
  BY <1>4, <1>6 DEF CallInv

(* The service is stopped after it was signalled.                          *)
LEMMA StepKeepsShutdownIsSignalled ==
    ASSUME ShutdownIsSignalled, Next PROVE ShutdownIsSignalled'
<1>1. ASSUME NEW c \in Caller, Request(c) \/ Disconnect(c) \/ CallerStep(c)
      PROVE  UNCHANGED <<ctxDone, mainPc>>
  BY <1>1 DEF Request, Disconnect, CallerStep, Join, Abandon, Resolved, Collect, mainVars
<1>2. ASSUME NEW f \in Flight, FlightStep(f) PROVE UNCHANGED <<ctxDone, mainPc>>
  BY <1>2 DEF FlightStep, BeginSyncTask, ResolveAccounts, FetchDaily, SaveDaily,
              SyncFails, Publish, mainVars
<1>3. QED
  BY <1>1, <1>2 DEF ShutdownIsSignalled, Next, Tick, BackgroundExit, Signal, ServerFails,
     MainStep, BeginShutdown, EndShutdown, WaitForSync, CloseHistory, Exit, Terminated,
     vars, mainVars

-----------------------------------------------------------------------------
(* The flights. *)
(* A function that returns: what it must see to in order to keep FlightInv. *)
LEMMA EndKeepsFlightInv ==
    ASSUME TypeOK, FlightInv, Next, NEW f \in Flight, NEW st, NEW S, End(f, st, S),
           st = "canceled" => ctxDone,
           f \in Endpoint /\ st = "ok" => f.login \in stored'
    PROVE  FlightInv'
<1>1. ASSUME NEW g \in Flight PROVE
        /\ outcome'[g].by = g
        /\ outcome'[g].status = "canceled" => ctxDone'
        /\ g \in Endpoint /\ outcome'[g].status = "ok" => g.login \in stored'
  <2>1. CASE g = f
    <3>1. outcome'[g] = Result(st, f, S)
      BY <2>1 DEF End, TypeOK, FlightInv
    <3>2. QED
      BY <2>1, <3>1, SignalStays DEF Result
  <2>2. CASE g # f
    <3>1. outcome'[g] = outcome[g]
      BY <2>2 DEF End, TypeOK
    <3>2. QED
      BY <3>1, SignalStays, SnapshotsStay DEF FlightInv
  <2>3. QED
    BY <2>1, <2>2
<1>2. QED
  BY <1>1 DEF FlightInv

(* A key that is taken or forgotten: nothing has been computed for it yet. *)
LEMMA ResetKeepsFlightInv ==
    ASSUME TypeOK, FlightInv, Next, NEW f \in Flight,
           outcome' = [outcome EXCEPT ![f] = None(f)]
    PROVE  FlightInv'
<1>1. ASSUME NEW g \in Flight PROVE
        /\ outcome'[g].by = g
        /\ outcome'[g].status = "canceled" => ctxDone'
        /\ g \in Endpoint /\ outcome'[g].status = "ok" => g.login \in stored'
  <2>1. outcome'[g] = IF g = f THEN None(g) ELSE outcome[g]
    BY DEF TypeOK
  <2>2. QED
    BY <2>1, SignalStays, SnapshotsStay DEF FlightInv, None, Result
<1>2. QED
  BY <1>1 DEF FlightInv

(* No flight ends.                                                         *)
LEMMA SameKeepsFlightInv ==
    ASSUME FlightInv, Next, UNCHANGED outcome PROVE FlightInv'
BY SignalStays, SnapshotsStay DEF FlightInv

(* What a flight has ended with is true of the signal and the store.       *)
LEMMA StepKeepsFlightInv ==
    ASSUME IInv, CallInv, Next PROVE FlightInv'
<1> USE DEF IInv, CallInv
<1>1. ASSUME NEW c \in Caller, NEW e \in Flight, Join(c, e) PROVE FlightInv'
  <2>1. outcome' = outcome \/ outcome' = [outcome EXCEPT ![e] = None(e)]
    BY <1>1, FlightIsItsKey DEF Join
  <2>2. QED
    BY <2>1, ResetKeepsFlightInv, SameKeepsFlightInv
<1>2. ASSUME NEW f \in Flight, FlightStep(f) PROVE FlightInv'
  <2>1. CASE BeginSyncTask(f)
    <3>1. CASE syncStopped
      <4>1. ctxDone
        BY <3>1 DEF DrainInv, ShutdownIsSignalled
      <4>2. End(f, "canceled", {})
        BY <2>1, <3>1 DEF BeginSyncTask
      <4>3. QED
        BY <4>1, <4>2, EndKeepsFlightInv
    <3>2. CASE ~syncStopped
      BY <2>1, <3>2, SameKeepsFlightInv DEF BeginSyncTask
    <3>3. QED
      BY <3>1, <3>2
  <2>2. CASE f = Resolve /\ ResolveAccounts
    <3>1. PICK S \in Accounts, st \in {"ok", "failed"} : End(Resolve, st, S)
      BY <2>2 DEF ResolveAccounts
    <3>2. QED
      BY <2>2, <3>1, FlightAssumption, EndKeepsFlightInv
  <2>3. CASE FetchDaily(f)
    BY <2>3, SameKeepsFlightInv DEF FetchDaily
  <2>4. CASE SaveDaily(f)
    <3>1. f.login \in stored' /\ End(f, "ok", {})
      BY <2>4 DEF SaveDaily, FlightInv
    <3>2. QED
      BY <3>1, EndKeepsFlightInv
  <2>5. CASE SyncFails(f)
    <3>1. PICK st \in {"failed", "canceled"} :
            End(f, st, {}) /\ (st = "canceled" => ctxDone)
      BY <2>5 DEF SyncFails, SyncContextDone
    <3>2. QED
      BY <3>1, EndKeepsFlightInv
  <2>6. CASE Publish(f)
    BY <2>6, ResetKeepsFlightInv DEF Publish
  <2>7. QED
    BY <1>2, <2>1, <2>2, <2>3, <2>4, <2>5, <2>6 DEF FlightStep
<1>3. ASSUME NEW c \in Caller, CallerStep(c), ~ \E e \in Flight : Join(c, e)
      PROVE  UNCHANGED outcome
  BY <1>3 DEF CallerStep, Abandon, Resolved, Collect, flightVars
<1>4. ASSUME \/ \E c \in Caller : Request(c) \/ Disconnect(c)
             \/ Tick \/ BackgroundExit \/ Signal \/ ServerFails \/ MainStep \/ Terminated
      PROVE  UNCHANGED outcome
  BY <1>4 DEF Request, Disconnect, Tick, BackgroundExit, Signal, ServerFails, MainStep,
     BeginShutdown, EndShutdown, WaitForSync, CloseHistory, Exit, Terminated, vars, flightVars
<1>5. QED
  BY <1>1, <1>2, <1>3, <1>4, SameKeepsFlightInv DEF Next

-----------------------------------------------------------------------------
(* The answers. *)
(* What somebody has been told stays true, unless his call returns.        *)
LEMMA ToldStays ==
    ASSUME Next
    PROVE  \A got, c, f :
             /\ Told(got, c, f, ctxDone, cancelled, stored)
             /\ c \in cancelled => c \in cancelled'
             => Told(got, c, f, ctxDone', cancelled', stored')
BY SignalStays, SnapshotsStay DEF Told

(* Calls that only move their own slots, one at a time. *)
LEMMA SlotUpdateKeepsAnswerInv ==
    ASSUME TypeOK, AnswerInv, Next, NEW c \in Caller, NEW f \in Flight, NEW x,
           slot' = [slot EXCEPT ![c][f] = x], UNCHANGED cancelled,
           Told(x.got, c, f, ctxDone, cancelled, stored)
    PROVE  AnswerInv'
<1>1. ASSUME NEW d \in Caller, NEW g \in Flight
      PROVE  Told(slot'[d][g].got, d, g, ctxDone', cancelled', stored')
  <2>1. slot'[d][g] = IF d = c /\ g = f THEN x ELSE slot[d][g]
    BY DEF TypeOK
  <2>2. Told(slot[d][g].got, d, g, ctxDone, cancelled, stored)
    BY DEF AnswerInv, Told
  <2>3. Told(slot'[d][g].got, d, g, ctxDone, cancelled, stored)
    BY <2>1, <2>2
  <2>4. QED
    BY <2>3, ToldStays
<1>2. QED
  BY <1>1 DEF AnswerInv, Told

(* A caller that returns forgets its answers.                              *)
LEMMA ReturnKeepsAnswerInv ==
    ASSUME TypeOK, AnswerInv, Next, NEW c \in Caller, Return(c)
    PROVE  AnswerInv'
<1>1. ASSUME NEW d \in Caller, NEW g \in Flight
      PROVE  Told(slot'[d][g].got, d, g, ctxDone', cancelled', stored')
  <2>1. CASE d = c
    <3>1. slot'[d][g].got = None(g)
      BY <2>1 DEF Return, TypeOK, Unused
    <3>2. QED
      BY <3>1 DEF Told, None, Result
  <2>2. CASE d # c
    <3>1. slot'[d][g] = slot[d][g] /\ (d \in cancelled => d \in cancelled')
      BY <2>2 DEF Return, TypeOK
    <3>2. Told(slot[d][g].got, d, g, ctxDone, cancelled, stored)
      BY DEF AnswerInv, Told
    <3>3. QED
      BY <3>1, <3>2, ToldStays
  <2>3. QED
    BY <2>1, <2>2
<1>2. QED
  BY <1>1 DEF AnswerInv, Told

(* A caller that joins, or stops waiting, gives itself no answer but a     *)
(* cancellation.                                                           *)
LEMMA JoinKeepsAnswerInv ==
    ASSUME TypeOK, AnswerInv, Next, NEW c \in Caller, NEW f \in Flight,
           Join(c, f) \/ Abandon(c, f)
    PROVE  AnswerInv'
<1>1. UNCHANGED cancelled
  BY DEF Join, Abandon
<1>2. CASE CtxDone(c)
  <2> DEFINE x == [at |-> "done", got |-> Result("canceled", f, {})]
  <2>1. slot' = [slot EXCEPT ![c][f] = x]
    BY <1>2 DEF Join, Abandon
  <2>2. ctxDone \/ c \in cancelled
    BY <1>2 DEF CtxDone
  <2>3. Told(x.got, c, f, ctxDone, cancelled, stored)
    BY <2>2 DEF Told, Result
  <2>4. QED
    BY <1>1, <2>1, <2>3, SlotUpdateKeepsAnswerInv
<1>3. CASE ~CtxDone(c)
  <2> DEFINE x == [slot[c][f] EXCEPT !.at = "waiting"]
  <2>1. slot' = [slot EXCEPT ![c][f] = x]
    BY <1>3 DEF Join, Abandon
  <2>2. x.got = slot[c][f].got
    BY DEF TypeOK, Slot
  <2>3. Told(x.got, c, f, ctxDone, cancelled, stored)
    BY <2>2 DEF Told, AnswerInv
  <2>4. QED
    BY <1>1, <2>1, <2>3, SlotUpdateKeepsAnswerInv
<1>4. QED
  BY <1>2, <1>3

(* Sync goes on with the accounts that the resolution has found.           *)
LEMMA ResolvedKeepsAnswerInv ==
    ASSUME TypeOK, AnswerInv, Next, NEW c \in Caller, Resolved(c)
    PROVE  AnswerInv'
<1>1. CASE slot[c][Resolve].got.status = "canceled"
  BY <1>1, ReturnKeepsAnswerInv DEF Resolved
<1>2. CASE slot[c][Resolve].got.status # "canceled"
  <2>1. ASSUME NEW d \in Caller, NEW g \in Flight
        PROVE  Told(slot'[d][g].got, d, g, ctxDone', cancelled', stored')
    <3>1. \/ slot'[d][g].got = None(g)
          \/ slot'[d][g].got = [slot[d][g].got EXCEPT !.accounts = {}]
          \/ slot'[d][g].got = slot[d][g].got
      <4>1. CASE d = c
        <5> DEFINE picked(f) == f \in slot[c][Resolve].got.accounts /\ Matches(c, f)
                   mine == [f \in Flight |->
                     IF picked(f) THEN [at |-> "spawned", got |-> None(f)]
                                  ELSE [slot[c][f] EXCEPT !.got.accounts = {}]]
        <5>1. slot' = [slot EXCEPT ![c] = mine]
          BY <1>2 DEF Resolved
        <5>2. slot'[d] = mine
          BY <4>1, <5>1 DEF TypeOK
        <5>3. slot'[d][g] = IF picked(g) THEN [at |-> "spawned", got |-> None(g)]
                                         ELSE [slot[c][g] EXCEPT !.got.accounts = {}]
          BY <5>2
        <5>4. [slot[c][g] EXCEPT !.got.accounts = {}].got
                = [slot[c][g].got EXCEPT !.accounts = {}]
          BY DEF TypeOK, Slot
        <5>5. QED
          BY <4>1, <5>3, <5>4
      <4>2. CASE d # c
        BY <1>2, <4>2 DEF Resolved, TypeOK
      <4>3. QED
        BY <4>1, <4>2
    <3>2. /\ slot[d][g].got \in Outcome
          /\ Told(slot[d][g].got, d, g, ctxDone, cancelled, stored)
      BY DEF TypeOK, Slot, AnswerInv, Told
    <3>3. Told(slot'[d][g].got, d, g, ctxDone, cancelled, stored)
      BY <3>1, <3>2 DEF Told, Outcome, None, Result
    <3>4. UNCHANGED cancelled
      BY <1>2 DEF Resolved
    <3>5. QED
      BY <3>3, <3>4, ToldStays
  <2>2. QED
    BY <2>1 DEF AnswerInv
<1>3. QED
  BY <1>1, <1>2

(* Every waiter is mailed what its own flight has computed.                *)
LEMMA PublishKeepsAnswerInv ==
    ASSUME TypeOK, FlightInv, AnswerInv, Next, NEW f \in Flight, Publish(f)
    PROVE  AnswerInv'
<1>1. ASSUME NEW c \in Caller, NEW e \in Flight
      PROVE  Told(slot'[c][e].got, c, e, ctxDone', cancelled', stored')
  <2>1. \/ slot'[c][e].got = outcome[f] /\ e = f
        \/ slot'[c][e] = slot[c][e]
    BY FlightIsItsKey DEF Publish
  <2>2. /\ Told(slot[c][e].got, c, e, ctxDone, cancelled, stored)
        /\ Told(outcome[f], c, f, ctxDone, cancelled, stored)
    BY DEF AnswerInv, FlightInv, Told
  <2>3. Told(slot'[c][e].got, c, e, ctxDone, cancelled, stored)
    BY <2>1, <2>2
  <2>4. UNCHANGED cancelled
    BY DEF Publish
  <2>5. QED
    BY <2>3, <2>4, ToldStays
<1>2. QED
  BY <1>1 DEF AnswerInv, Told

(* A caller that begins has no answer.                                     *)
LEMMA BeginKeepsAnswerInv ==
    ASSUME TypeOK, AnswerInv, Next, NEW c \in Caller, NEW login, Begin(c, login),
           UNCHANGED cancelled
    PROVE  AnswerInv'
<1> DEFINE x == [slot[c][Resolve] EXCEPT !.at = "spawned"]
<1>1. slot' = [slot EXCEPT ![c][Resolve] = x]
  BY DEF Begin
<1>2. x.got = slot[c][Resolve].got
  BY ResolveIsFlight DEF TypeOK, Slot
<1>3. Told(x.got, c, Resolve, ctxDone, cancelled, stored)
  BY <1>2, ResolveIsFlight DEF Told, AnswerInv
<1>4. QED
  BY <1>1, <1>3, ResolveIsFlight, SlotUpdateKeepsAnswerInv

(* Steps that leave every channel alone.                                   *)
LEMMA SameKeepsAnswerInv ==
    ASSUME AnswerInv, Next, UNCHANGED slot, cancelled \subseteq cancelled'
    PROVE  AnswerInv'
BY SignalStays, SnapshotsStay DEF AnswerInv, Told

(* A caller is told what the flight it waited for has ended with.          *)
LEMMA StepKeepsAnswerInv ==
    ASSUME IInv, CallInv, Next PROVE AnswerInv'
<1> USE DEF IInv, CallInv
<1>1. ASSUME NEW c \in Caller, CallerStep(c) PROVE AnswerInv'
  <2>1. CASE Collect(c)
    BY <2>1, ReturnKeepsAnswerInv DEF Collect
  <2>2. QED
    BY <1>1, <2>1, JoinKeepsAnswerInv, ResolvedKeepsAnswerInv DEF CallerStep
<1>2. ASSUME NEW c \in Caller, Request(c) \/ Disconnect(c) PROVE AnswerInv'
  <2>1. CASE Request(c)
    BY <2>1, BeginKeepsAnswerInv DEF Request
  <2>2. CASE Disconnect(c)
    BY <2>2, SameKeepsAnswerInv DEF Disconnect
  <2>3. QED
    BY <1>2, <2>1, <2>2
<1>3. CASE Tick
  BY <1>3, CallerAssumption, BeginKeepsAnswerInv DEF Tick
<1>4. ASSUME NEW f \in Flight, FlightStep(f) PROVE AnswerInv'
  <2>1. CASE Publish(f)
    BY <2>1, PublishKeepsAnswerInv
  <2>2. ASSUME ~Publish(f) PROVE UNCHANGED callerVars
    BY <1>4, <2>2 DEF FlightStep, BeginSyncTask, ResolveAccounts, FetchDaily, SaveDaily,
                        SyncFails
  <2>3. QED
    BY <2>1, <2>2, SameKeepsAnswerInv DEF callerVars
<1>5. ASSUME BackgroundExit \/ Signal \/ ServerFails \/ MainStep \/ Terminated
      PROVE  UNCHANGED slot /\ cancelled \subseteq cancelled'
  BY <1>5 DEF BackgroundExit, Signal, ServerFails, MainStep, BeginShutdown, EndShutdown,
     WaitForSync, CloseHistory, Exit, Terminated, vars, callerVars
<1>6. QED
  BY <1>1, <1>2, <1>3, <1>4, <1>5, SameKeepsAnswerInv DEF Next

-----------------------------------------------------------------------------
(* The selection. *)
LEMMA SameKeepsSelectionInv ==
    ASSUME SelectionInv, UNCHANGED <<pc, target, slot>>
    PROVE  SelectionInv'
BY DEF SelectionInv, Matches

(* A slot in use changes.                                                  *)
LEMMA SlotUpdateKeepsSelectionInv ==
    ASSUME TypeOK, SelectionInv, NEW c \in Caller, NEW f \in Flight, NEW x,
           slot' = [slot EXCEPT ![c][f] = x], UNCHANGED <<pc, target>>,
           slot[c][f].at # "none"
    PROVE  SelectionInv'
<1>1. ASSUME NEW d \in Caller, NEW e \in Endpoint, slot'[d][e].at # "none"
      PROVE  slot[d][e].at # "none"
  BY <1>1 DEF TypeOK
<1>2. QED
  BY <1>1 DEF SelectionInv, Matches

(* A caller that returns uses no slot.                                     *)
LEMMA ReturnKeepsSelectionInv ==
    ASSUME TypeOK, SelectionInv, NEW c \in Caller, Return(c)
    PROVE  SelectionInv'
<1>1. ASSUME NEW d \in Caller, NEW e \in Endpoint, slot'[d][e].at # "none"
      PROVE  d # c
  <2>1. slot' = [slot EXCEPT ![c] = Unused] /\ Unused[e].at = "none"
    BY EndpointIsFlight DEF Return, Unused
  <2>2. QED
    BY <1>1, <2>1 DEF TypeOK
<1>2. ASSUME NEW d \in Caller, d # c
      PROVE  pc'[d] = pc[d] /\ target'[d] = target[d] /\ slot'[d] = slot[d]
  BY <1>2 DEF Return, TypeOK
<1>3. QED
  BY <1>1, <1>2 DEF SelectionInv, Matches

(* A call starts where the last one of its caller has returned. *)
LEMMA BeginKeepsSelectionInv ==
    ASSUME TypeOK, SelectionInv, NEW c \in Caller, NEW login, Begin(c, login),
           pc[c] # "syncing"
    PROVE  SelectionInv'
<1>1. ASSUME NEW d \in Caller, NEW e \in Endpoint PROVE slot'[d][e] = slot[d][e]
  BY EndpointIsFlight, ResolveIsFlight DEF Begin, TypeOK
<1>2. ASSUME NEW d \in Caller, d # c
      PROVE  pc'[d] = pc[d] /\ target'[d] = target[d]
  BY <1>2 DEF Begin, TypeOK
<1>3. QED
  BY <1>1, <1>2 DEF SelectionInv, Matches

(* A caller takes the accounts that match what it asked for.               *)
LEMMA ResolvedKeepsSelectionInv ==
    ASSUME TypeOK, SelectionInv, NEW c \in Caller, Resolved(c)
    PROVE  SelectionInv'
<1>1. CASE slot[c][Resolve].got.status = "canceled"
  BY <1>1, ReturnKeepsSelectionInv DEF Resolved
<1>2. CASE slot[c][Resolve].got.status # "canceled"
  <2> DEFINE picked(f) == f \in slot[c][Resolve].got.accounts /\ Matches(c, f)
             mine == [f \in Flight |->
               IF picked(f) THEN [at |-> "spawned", got |-> None(f)]
                            ELSE [slot[c][f] EXCEPT !.got.accounts = {}]]
  <2>1. /\ slot' = [slot EXCEPT ![c] = mine]
        /\ pc' = [pc EXCEPT ![c] = "syncing"]
        /\ UNCHANGED target
    BY <1>2 DEF Resolved
  <2>2. ASSUME NEW d \in Caller, NEW e \in Endpoint, slot'[d][e].at # "none"
        PROVE  pc'[d] = "syncing" /\ Matches(d, e)
    <3>1. CASE d = c
      <4>1. slot'[d] = mine /\ e \in Flight
        BY <2>1, <3>1, EndpointIsFlight DEF TypeOK
      <4>2. ~picked(e) => slot'[d][e] = [slot[c][e] EXCEPT !.got.accounts = {}]
        BY <4>1
      <4>3. ~picked(e) => slot[c][e].at # "none"
        BY <2>2, <4>1, <4>2 DEF TypeOK, Slot
      <4>4. Matches(c, e)
        BY <4>3 DEF SelectionInv
      <4>5. QED
        BY <2>1, <3>1, <4>4 DEF TypeOK
    <3>2. CASE d # c
      BY <2>1, <2>2, <3>2 DEF SelectionInv, TypeOK
    <3>3. QED
      BY <3>1, <3>2
  <2>3. QED
    BY <2>1, <2>2 DEF SelectionInv, Matches
<1>3. QED
  BY <1>1, <1>2

(* An answer is given to those that wait for it.                           *)
LEMMA PublishKeepsSelectionInv ==
    ASSUME TypeOK, SelectionInv, NEW f \in Flight, Publish(f)
    PROVE  SelectionInv'
<1>1. ASSUME NEW d \in Caller, NEW e \in Endpoint, slot'[d][e].at # "none"
      PROVE  slot[d][e].at # "none"
  BY <1>1, EndpointIsFlight DEF Publish
<1>2. QED
  BY <1>1 DEF SelectionInv, Matches, Publish

(* No caller waits for an account that it did not ask for.                 *)
LEMMA StepKeepsSelectionInv ==
    ASSUME TypeOK, SelectionInv, Next PROVE SelectionInv'
<1>1. ASSUME NEW c \in Caller, CallerStep(c) PROVE SelectionInv'
  <2>1. ASSUME NEW e \in Flight, Join(c, e) \/ Abandon(c, e) PROVE SelectionInv'
    <3>1. PICK x : slot' = [slot EXCEPT ![c][e] = x]
      BY <2>1 DEF Join, Abandon
    <3>2. slot[c][e].at # "none" /\ UNCHANGED <<pc, target>>
      BY <2>1 DEF Join, Abandon
    <3>3. QED
      BY <3>1, <3>2, SlotUpdateKeepsSelectionInv
  <2>2. CASE Collect(c)
    BY <2>2, ReturnKeepsSelectionInv DEF Collect
  <2>3. QED
    BY <1>1, <2>1, <2>2, ResolvedKeepsSelectionInv DEF CallerStep
<1>2. ASSUME NEW c \in Caller, Request(c) \/ Disconnect(c) PROVE SelectionInv'
  <2>1. CASE Request(c)
    BY <2>1, BeginKeepsSelectionInv DEF Request
  <2>2. CASE Disconnect(c)
    BY <2>2, SameKeepsSelectionInv DEF Disconnect
  <2>3. QED
    BY <1>2, <2>1, <2>2
<1>3. CASE Tick
  BY <1>3, CallerAssumption, BeginKeepsSelectionInv DEF Tick
<1>4. CASE BackgroundExit
  <2>1. \A d \in Caller : pc[d] = "syncing" => pc'[d] = "syncing"
    BY <1>4, CallerAssumption DEF BackgroundExit, TypeOK
  <2>2. QED
    BY <1>4, <2>1 DEF BackgroundExit, SelectionInv, Matches
<1>5. ASSUME NEW f \in Flight, FlightStep(f) PROVE SelectionInv'
  <2>1. CASE Publish(f)
    BY <2>1, PublishKeepsSelectionInv
  <2>2. ASSUME ~Publish(f) PROVE UNCHANGED callerVars
    BY <1>5, <2>2 DEF FlightStep, BeginSyncTask, ResolveAccounts, FetchDaily, SaveDaily,
                        SyncFails
  <2>3. QED
    BY <2>1, <2>2, SameKeepsSelectionInv DEF callerVars
<1>6. ASSUME Signal \/ ServerFails \/ MainStep \/ Terminated
      PROVE  UNCHANGED <<pc, target, slot>>
  BY <1>6 DEF Signal, ServerFails, MainStep, BeginShutdown, EndShutdown,
     WaitForSync, CloseHistory, Exit, Terminated, vars, callerVars
<1>7. QED
  BY <1>1, <1>2, <1>3, <1>4, <1>5, <1>6, SameKeepsSelectionInv DEF Next

-----------------------------------------------------------------------------
(* Every step keeps the answers true.                                      *)
LEMMA NextKeepsCallInv ==
    ASSUME IInv, CallInv, [Next]_vars
    PROVE  CallInv'
<1>1. CASE Next
  BY <1>1, StepKeepsShutdownIsSignalled, StepKeepsFlightInv, StepKeepsAnswerInv,
     StepKeepsSelectionInv DEF CallInv, IInv
<1>2. CASE UNCHANGED vars
  BY <1>2 DEF CallInv, ShutdownIsSignalled, FlightInv, AnswerInv, SelectionInv, Matches,
              vars, callerVars, flightVars, mainVars
<1>3. QED
  BY <1>1, <1>2

(* Whatever the interleaving of callers, flights and shutdown: what a      *)
(* flight has computed and what a caller has been told is about the key,   *)
(* the credential and the context it should be about.                      *)
THEOREM SpecCallInv == Spec => []CallInv
<1>1. Init => CallInv
  BY InitCallInv
<1>2. TypeOK /\ DrainInv /\ CallInv /\ [Next]_vars => CallInv'
  BY NextKeepsCallInv DEF IInv
<1>3. QED
  BY <1>1, <1>2, SpecDrainInv, PTL DEF Spec

(* A client that goes away, or that server.Close cuts off, fails no call   *)
(* but its own, with any number of callers on the same flight: a flight is *)
(* canceled by run()'s context alone, and a caller also by its own.        *)
THEOREM SpecCancellationIsPrivate == Spec => []CancellationIsPrivate
<1>1. CallInv => CancellationIsPrivate
  BY DEF CallInv, AnswerInv, Told, CancellationIsPrivate
<1>2. QED
  BY <1>1, SpecCallInv, PTL

(* syncAccountKey keeps credentials apart: no caller is answered from a    *)
(* flight that ran with another URL or API key than its own discovery      *)
(* found, however flights of the same login overlap.                       *)
THEOREM SpecOwnEndpoint == Spec => []OwnEndpoint
<1>1. CallInv => OwnEndpoint
  BY EndpointIsFlight DEF CallInv, AnswerInv, Told, OwnEndpoint
<1>2. QED
  BY <1>1, SpecCallInv, PTL

(* synced: true is only answered when every account of the call, and the   *)
(* one that was asked for, has a committed snapshot.                       *)
THEOREM SpecSyncedIsStored == Spec => []SyncedIsStored
<1>1. CallInv => SyncedIsStored
  <2> SUFFICES ASSUME CallInv, NEW c \in Caller, Collected(c), Answer(c) = "synced"
               PROVE  /\ {e.login : e \in Selected(c)} \subseteq stored
                      /\ target[c] = All \/ target[c] \in stored
    BY DEF SyncedIsStored
  <2>1. ~(target[c] # All /\ Selected(c) = {})
    BY DEF Answer
  <2>2. ASSUME NEW e \in Selected(c)
        PROVE  e.login \in stored /\ target[c] \in {All, e.login}
    <3>1. e \in Endpoint /\ e \in Flight /\ slot[c][e].at # "none"
      BY EndpointIsFlight DEF Selected
    <3>2. slot[c][e].got.status = "ok"
      BY <2>1 DEF Answer
    <3>3. QED
      BY <3>1, <3>2 DEF CallInv, AnswerInv, Told, SelectionInv, Matches
  <2>3. QED
    BY <2>1, <2>2
<1>2. QED
  BY <1>1, SpecCallInv, PTL
=============================================================================
