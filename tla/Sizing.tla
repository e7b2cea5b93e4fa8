------------------------------- MODULE Sizing -------------------------------
(***************************************************************************)
(* The executor's position size from a risk budget (sized_volume in        *)
(* scripts/ea_shim.py). Prices and the distance of the stop are in ticks,  *)
(* volumes in the smallest unit of volume.                                 *)
(***************************************************************************)
EXTENDS Integers, FiniteSetsExt

CONSTANTS Ticks, Values, Volumes, Budgets, Requested

ASSUME SizingAssumption ==
    /\ Ticks \subseteq Int /\ Values \subseteq Int /\ Budgets \subseteq Int
    /\ Volumes \subseteq Nat

VARIABLE order   \* the inputs of one call

Orders ==
    {o \in [ref : Ticks, sl : Ticks, risk : Budgets, value : Values,
            step : Volumes \ {0}, min : Volumes, max : Volumes] : o.min <= o.max}

Distance(o) == IF o.ref > o.sl THEN o.ref - o.sl ELSE o.sl - o.ref

\* No budget, no stop, no specification of the symbol, or a stop at the price.
CannotSize(o) == o.risk <= 0 \/ o.sl <= 0 \/ o.ref <= 0 \/ o.value <= 0 \/ Distance(o) <= 0

\* Mutant: a lot below the minimum is raised to it.
sized_volume_raised(o) ==
    IF CannotSize(o) THEN Requested
    ELSE LET vol == ((o.risk \div (Distance(o) * o.value)) \div o.step) * o.step
         IN Min({Max({vol, o.min}), o.max})

sized_volume(o) ==
    IF CannotSize(o) THEN Requested
    ELSE LET vol == ((o.risk \div (Distance(o) * o.value)) \div o.step) * o.step
         IN IF vol < o.min THEN 0 ELSE Min({vol, o.max})

\* A sized order loses at most the budget at its stop, and no larger step of volume
\* within the broker's limits would: the minimum lot is refused rather than exceeded, and
\* the broker's maximum is the only thing that makes a lot smaller (sized_volume).
SizedIsLargestWithinRisk ==
    ~ CannotSize(order) =>
        LET loss == Distance(order) * order.value
            vol == sized_volume(order)
        IN /\ vol * loss <= order.risk
           /\ vol = 0 \/ vol \in order.min .. order.max
           /\ \A k \in 0 .. order.risk :
                LET larger == k * order.step
                IN larger > vol /\ larger >= order.min /\ larger <= order.max => larger * loss > order.risk
=============================================================================
