-------------------------------- MODULE Ledger --------------------------------
(***************************************************************************)
(* What the budgets promise about money: check_budget and decide_route     *)
(* (src/app/gateway/router.py) against the request log                     *)
(* (src/app/storage/db.py), for many requests at a time.                   *)
(*                                                                         *)
(* A request reads the spend of the last day, then that of the last        *)
(* thirty days, in two queries of one threadpool job; it is let through,   *)
(* downgraded to mock-small or rejected on what it read, and its cost is   *)
(* logged much later, or never.  Nothing is reserved in between, so what   *)
(* bounds the spend is the number of requests at work.  Gateway.tla, the   *)
(* whole request path, is checked to implement this module.                *)
(*                                                                         *)
(* Money is counted in units small enough that costs are whole numbers.    *)
(***************************************************************************)
EXTENDS Integers, FiniteSets

CONSTANTS Request,          \* the requests at work at the same time
          DailyBudget,      \* settings.daily_budget_usd
          MonthlyBudget,    \* settings.monthly_budget_usd
          Modes,            \* what settings.budget_exceeded_action may be
          MaxCost           \* the most one request can cost

ASSUME BudgetAssumption == DailyBudget \in Nat \ {0} /\ MonthlyBudget \in Nat \ {0}
ASSUME ModesAssumption == Modes \subseteq {"downgrade", "reject"}
ASSUME MaxCostAssumption == MaxCost \in Nat

VARIABLES onExceeded,   \* settings.budget_exceeded_action: chosen once, never changed
          full,     \* cost of last day's rows of requests let through within budget
          cheap,    \* cost of last day's rows of requests that were downgraded
          older,    \* cost of the rows between one and thirty days old
          phase     \* how far each request is

vars == <<onExceeded, full, cheap, older, phase>>

Phase == {"out",                        \* no request, or one that has not been routed
          "under", "over",              \* the daily spend has been read
          "admitted", "downgraded"}     \* routed, its cost not logged

TypeOK ==
    /\ onExceeded \in Modes
    /\ full \in Nat /\ cheap \in Nat /\ older \in Nat
    /\ phase \in [Request -> Phase]
    /\ onExceeded = "reject" => \A r \in Request : phase[r] # "downgraded"

Init ==
    /\ onExceeded \in Modes
    /\ full = 0 /\ cheap = 0 /\ older = 0
    /\ phase = [r \in Request |-> "out"]

------------------------------------------------------------------------------
(* Mutants: plausible slips in check_budget and db.py.                      *)
AlwaysWithinDay == TRUE
MonthWithoutToday == older < MonthlyBudget
IgnoresTheMode == "downgraded"

------------------------------------------------------------------------------
(* The two comparisons of check_budget, each at the time of its query.      *)
WithinDay == full + cheap < DailyBudget
WithinMonth == full + cheap + older < MonthlyBudget

(* What becomes of a request over budget.                                   *)
Exceeded == IF onExceeded = "reject" THEN "out" ELSE "downgraded"

ReadDaily(r) ==
    /\ phase[r] = "out"
    /\ phase' = [phase EXCEPT ![r] = IF WithinDay THEN "under" ELSE "over"]
    /\ UNCHANGED <<onExceeded, full, cheap, older>>

ReadMonthly(r) ==
    /\ phase[r] \in {"under", "over"}
    /\ phase' = [phase EXCEPT ![r] =
                    IF phase[r] = "under" /\ WithinMonth THEN "admitted" ELSE Exceeded]
    /\ UNCHANGED <<onExceeded, full, cheap, older>>

(* log_request commits the row with its estimated cost.                     *)
Charge(r, c) ==
    /\ phase[r] \in {"admitted", "downgraded"}
    /\ phase' = [phase EXCEPT ![r] = "out"]
    /\ \/ phase[r] = "admitted" /\ full' = full + c /\ cheap' = cheap
       \/ phase[r] = "downgraded" /\ cheap' = cheap + c /\ full' = full
    /\ UNCHANGED <<onExceeded, older>>

(* No provider answers, the client disconnects, the commit fails or the     *)
(* process dies: the request ends without a row.                            *)
Abandon(r) ==
    /\ phase[r] # "out"
    /\ phase' = [phase EXCEPT ![r] = "out"]
    /\ UNCHANGED <<onExceeded, full, cheap, older>>

(* Rows become older than a day, older than thirty days.                    *)
AgeDay(f, c) ==
    /\ UNCHANGED <<phase, onExceeded>>
    /\ f <= full /\ c <= cheap
    /\ full' = full - f /\ cheap' = cheap - c /\ older' = older + f + c

AgeMonth(c) ==
    /\ UNCHANGED <<phase, onExceeded, full, cheap>>
    /\ c <= older
    /\ older' = older - c

(* All requests at work are lost; the rows are on disk.                     *)
Restart ==
    /\ phase' = [r \in Request |-> "out"]
    /\ UNCHANGED <<onExceeded, full, cheap, older>>

Next ==
    \/ \E c \in 0 .. older : AgeMonth(c)
    \/ \E f \in 0 .. full, c \in 0 .. cheap : AgeDay(f, c)
    \/ \E r \in Request :
          \/ ReadDaily(r)
          \/ ReadMonthly(r)
          \/ \E c \in 0 .. MaxCost : Charge(r, c)
          \/ Abandon(r)
    \/ Restart

Spec == Init /\ [][Next]_vars

------------------------------------------------------------------------------
N == Cardinality(Request)

(* The last day's spend of requests that were let through within budget     *)
(* overshoots the daily budget by less than what the requests at work at    *)
(* one moment can cost together, in both modes.                             *)
DailyOvershootBounded == full < DailyBudget + N * MaxCost

(* In "reject" mode nobody is let through over budget, and so the thirty    *)
(* days' spend overshoots the monthly budget by less than that as well.     *)
RejectBounds ==
    onExceeded = "reject" =>
        /\ cheap = 0
        /\ full + older < MonthlyBudget + N * MaxCost
==============================================================================
