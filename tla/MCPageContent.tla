---------------------------- MODULE MCPageContent ----------------------------
(***************************************************************************)
(* PageContent for TLC: answers that differ in what the tables depend on,  *)
(* quotas with every field missing, at and beside its boundaries.          *)
(***************************************************************************)
EXTENDS PageContent

Metering(entitlement, remaining) ==
    [unlimited |-> FALSE, entitlement |-> entitlement, remaining |-> remaining,
     percentRemaining |-> 2500, creditsUsed |-> 7, hasQuota |-> TRUE]

Account(login, alias, quota, costs) ==
    [login |-> login, alias |-> alias, quota |-> quota, costs |-> costs]

Entry(name, input, read, costs) ==
    [name |-> name, input |-> input, read |-> read, costs |-> costs]

USD(n) == [c \in {"USD"} |-> n]
EUR(n) == [c \in {"EUR"} |-> n]
Free   == [c \in {} |-> 0]

(* Two accounts share a display name; one has no quota to speak of.        *)
Many ==
    [accounts |-> <<Account(1, 3, Metering(10, 5), USD(2)),
                    Account(2, 3, Metering(10, None), USD(1)),
                    Account(3, None, Metering(0, None), USD(2))>>,
     models   |-> <<Entry(1, 2, 1, USD(1)), Entry(2, 0, 0, USD(1)),
                    Entry(3, 1, 1, Free)>>,
     days     |-> <<Entry(1, 1, 0, USD(2)), Entry(2, 0, 1, Free),
                    Entry(3, 1, 1, USD(1))>>]

(* Costs in two currencies, fewer days, no display names, no models.       *)
Mixed ==
    [accounts |-> <<Account(1, None, Metering(10, 5), EUR(2)),
                    Account(2, None, Metering(10, 9), USD(1))>>,
     models   |-> <<>>,
     days     |-> <<Entry(1, 1, 0, EUR(2)), Entry(2, 1, 0, USD(2))>>]

Nothing == [accounts |-> <<>>, models |-> <<>>, days |-> <<>>]

Answers == {Many, Mixed, Nothing}

TableColumns == [id \in Table |->
    CASE id = "accounts" -> {"name", "used", "cost"}
      [] id = "models" -> {"name", "rate"}
      [] id = "days" -> {"name", "cost"}]

Quotas_ ==
    [unlimited : {TRUE, FALSE, None}, entitlement : {None, 0, 10},
     remaining : {None, -1, 0, 4, 12},
     percentRemaining : {None, -100, 0, 4, 5, 6, 994, 995, 1004, 1005, 1006, 10000},
     creditsUsed : {None, 0, 7}, hasQuota : {TRUE, FALSE, None}]
=============================================================================
