------------------------------- MODULE Quotas -------------------------------
(***************************************************************************)
(* What the page makes of a quota of an account. A quota has the fields of *)
(* the upstream report, each of them None when it is missing. Percentages  *)
(* are in hundredths.                                                      *)
(***************************************************************************)
EXTENDS Integers

CONSTANT None

Percent == 100
Full    == 100 * Percent
Decimal == Percent \div 10

MaxOf(a, b) == IF a > b THEN a ELSE b
MinOf(a, b) == IF a < b THEN a ELSE b

Unlimited(q) == q.unlimited = TRUE
Metered(q)   == q.unlimited = FALSE /\ q.entitlement # 0

ValidMeteredQuota(q) == Metered(q) /\ q.entitlement # None /\ q.entitlement > 0

RemainingValue(q) ==
    IF Metered(q) /\ q.remaining # None /\ q.remaining >= 0
      THEN q.remaining ELSE None

UsedPercentValue(q) ==
    IF Metered(q) /\ q.percentRemaining # None
      THEN Full - MinOf(Full, MaxOf(0, q.percentRemaining)) ELSE None

AvailableCredits(q) == q.hasQuota # FALSE /\ q.creditsUsed # None /\ q.creditsUsed >= 0

(* What is used, in units of 1 / Full of a request: a share of the         *)
(* entitlement is a fraction.                                              *)
UsedValue(q) ==
    CASE Unlimited(q) /\ AvailableCredits(q) -> Full * q.creditsUsed
      [] ValidMeteredQuota(q) /\ RemainingValue(q) # None ->
             Full * MaxOf(0, q.entitlement - RemainingValue(q))
      [] /\ ValidMeteredQuota(q) /\ RemainingValue(q) = None
         /\ UsedPercentValue(q) # None -> q.entitlement * UsedPercentValue(q)
      [] OTHER -> None

TotalValue(q) == IF ValidMeteredQuota(q) THEN q.entitlement ELSE None

(* One decimal, halves upwards, as Math.round does and the number format.  *)
Rounded(p) == Decimal * ((p + Decimal \div 2) \div Decimal)

Level(p) ==
    IF p >= Full THEN "exhausted" ELSE IF p >= 90 * Percent THEN "warning" ELSE ""

(* Mutant: the level is that of the exact percentage.                      *)
MutUsageLevel(p) == Level(p)

UsageLevel(p) == Level(Rounded(p))

(* What a row of the accounts and what a card say: a number and a level.   *)
Shown(number, level) == [number |-> number, level |-> level]

(* The row rounds first, the number format then finds nothing to round.    *)
QuotaUsage(q) ==
    LET used == UsedPercentValue(q) IN
    IF Unlimited(q) \/ used = None THEN Shown(None, "")
    ELSE Shown(Rounded(Rounded(used)), UsageLevel(Rounded(used)))

QuotaCard(q) ==
    LET used == UsedPercentValue(q) IN
    IF Unlimited(q) \/ used = None THEN Shown(None, "")
    ELSE Shown(Rounded(used), UsageLevel(used))

(* A row and the card of its account agree, and so do their parts: what    *)
(* reads 100% used is marked as exhausted, what reads less is not, and     *)
(* used and remaining requests make up the total, if no more remain.       *)
Consistent(q) ==
    /\ QuotaUsage(q) = QuotaCard(q)
    /\ QuotaCard(q).number = Full <=> QuotaCard(q).level = "exhausted"
    /\ TotalValue(q) # None /\ RemainingValue(q) # None =>
           UsedValue(q) = IF RemainingValue(q) <= TotalValue(q)
                            THEN Full * (TotalValue(q) - RemainingValue(q)) ELSE 0
=============================================================================
