------------------------------ MODULE TaskGate ------------------------------
(***************************************************************************)
(* What beginSyncTask, finishSyncTask and WaitForSync promise together:    *)
(* tasks enter while the gate is open, none enters once it is shut, and it *)
(* is drained exactly when the last task has left.                         *)
(***************************************************************************)
CONSTANT Task
VARIABLES active, gate

Init == active = {} /\ gate = "open"

Enter(t) ==
    /\ gate = "open"
    /\ t \notin active
    /\ active' = active \cup {t}
    /\ UNCHANGED gate

(* The gate once it is shut, with the tasks S still inside. *)
ShutWith(S) == IF S = {} THEN "drained" ELSE "shut"

Leave(t) ==
    /\ t \in active
    /\ active' = active \ {t}
    /\ gate' = IF gate = "open" THEN "open" ELSE ShutWith(active')

Shut ==
    /\ gate = "open"
    /\ gate' = ShutWith(active)
    /\ UNCHANGED active

Next == Shut \/ \E t \in Task : Enter(t) \/ Leave(t)

Spec == Init /\ [][Next]_<<active, gate>>
=============================================================================
