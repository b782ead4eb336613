--------------------------- MODULE RevenueSchedule --------------------------
(***************************************************************************)
(* generateStraightLineSchedule (billing-service,                          *)
(* DeferredRevenueAmortizationScheduleEngine.ts), one action per month.    *)
(* Amounts are in cents.  toFixed rounds the monthly rate to the cent;     *)
(* which way half a cent goes depends on its floating-point value and is   *)
(* left open.                                                              *)
(***************************************************************************)
EXTENDS Naturals, Integers, Sequences

CONSTANTS
    Totals,             \* contractTotalUSD
    Terms,              \* durationMonths
    StartMonths         \* months since year zero: 12 * startYear + startMonth - 1

ASSUME ScheduleAssumption ==
    /\ Totals \subseteq Nat
    /\ Terms \subseteq Nat \ {0}
    /\ StartMonths \subseteq Nat

VARIABLES contractTotal, durationMonths, startMonth, monthlyRate, currentDeferred, schedule

scheduleVars == <<contractTotal, durationMonths, startMonth, monthlyRate, currentDeferred, schedule>>

\* The whole numbers nearest to a / b
Rounded(a, b) == {r \in a \div b .. a \div b + 1 : 2 * (r * b - a) <= b /\ 2 * (a - r * b) <= b}

ScheduleInit ==
    /\ contractTotal \in Totals
    /\ durationMonths \in Terms
    /\ startMonth \in StartMonths
    /\ monthlyRate \in Rounded(contractTotal, durationMonths)
    /\ currentDeferred = contractTotal
    /\ schedule = <<>>

\* Variants with one plausible mistake: the last month is like the others, and
\* the month after December is January of the same year.
SameEveryMonth(m) == IF currentDeferred < monthlyRate THEN currentDeferred ELSE monthlyRate
SameYear(m) == [year |-> startMonth \div 12, month |-> ((startMonth + m) % 12) + 1]

Recognized(m) ==
    IF m = durationMonths - 1 \/ currentDeferred < monthlyRate
    THEN currentDeferred
    ELSE monthlyRate

PeriodKey(m) == [year |-> (startMonth + m) \div 12, month |-> ((startMonth + m) % 12) + 1]

RecognizeMonth ==
    LET m == Len(schedule)
        endBalance == currentDeferred - Recognized(m)
    IN  /\ m < durationMonths
        /\ schedule' = Append(schedule,
                [period |-> PeriodKey(m), beginning |-> currentDeferred,
                 recognized |-> Recognized(m), ending |-> endBalance])
        /\ currentDeferred' = endBalance
        /\ UNCHANGED <<contractTotal, durationMonths, startMonth, monthlyRate>>

ScheduleSpec == ScheduleInit /\ [][RecognizeMonth]_scheduleVars

----------------------------------------------------------------------------
\* Whatever the rounding of the rate, the schedule recognises the contract to
\* the cent and never more than is left, and the last month is off an even
\* share by no more than half a cent for each month.
ScheduleExact ==
    /\ currentDeferred >= 0
    /\ Len(schedule) = durationMonths =>
        LET last == schedule[durationMonths].recognized
        IN  /\ currentDeferred = 0
            /\ 2 * (last - monthlyRate) <= durationMonths
            /\ 2 * (monthlyRate - last) <= durationMonths

\* The periods are consecutive months, over the turn of every year.
PeriodsFollow ==
    \A m \in 1 .. Len(schedule) - 1 :
        LET this == schedule[m].period
            next == schedule[m + 1].period
        IN  /\ next.month \in 1 .. 12
            /\ 12 * next.year + next.month = 12 * this.year + this.month + 1
            /\ schedule[m + 1].beginning = schedule[m].ending
=============================================================================
