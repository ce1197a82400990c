--------------------------- MODULE MCDashboardCall ---------------------------
(***************************************************************************)
(* DashboardCall for TLC. Two containers and an endpoint of the file, of   *)
(* which some share a URL, a name or an account.                           *)
(***************************************************************************)
EXTENDS DashboardCall

CONSTANT Browser   \* a caller, the other one asks for events

(* The file's endpoint has the URL of the first container.                 *)
File   == [source |-> "yaml", url |-> 1, name |-> 3]
First  == [source |-> "docker", url |-> 1, name |-> 1]
Second == [source |-> "docker", url |-> 2, name |-> 2]

Both     == [yaml |-> <<File>>, docker |-> <<First, Second>>]
Reversed == [yaml |-> Failed, docker |-> <<Second, First>>]

Discoveries ==
    [c \in Caller |-> IF c # Browser THEN {Reversed}
        ELSE {Both, Reversed, [yaml |-> <<File>>, docker |-> Failed],
              [yaml |-> Failed, docker |-> <<First, Second>>]}]

Logins == [name \in 1 .. 3 |-> IF name = 2 THEN {11, 12} ELSE {11}]

(* The date is a Wednesday, the second of its month.                       *)
Date == 37

(* An hour before a midnight that the clock leaves out.                    *)
Earlier == -1

Recorded ==
    <<[d \in {Date} |-> 1], [d \in {Date - 8, Date} |-> IF d = Date THEN 2 ELSE 4],
      [d \in {Date - 9, Date - 1} |-> 8]>>

Dashboard(login, period) == [operation |-> "dashboard", login |-> login, period |-> period]
Events(login)            == [operation |-> "events", login |-> login, period |-> "last_7_days"]

Asked ==
    [c \in Caller |-> IF c = Browser THEN {Dashboard(All, "lifetime"), Dashboard(12, "this_month")}
                          ELSE {Events(11)}]
=============================================================================
