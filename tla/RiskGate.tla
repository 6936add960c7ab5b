------------------------------ MODULE RiskGate ------------------------------
(***************************************************************************)
(* The risk gate of APP/services/risk: the manual account file, the caps   *)
(* and locks of engine.budget_and_locks, the size of engine._position and  *)
(* the verdict of engine.assess, used by a trader over days and weeks.     *)
(*                                                                         *)
(* Money is in units of which Cent make a cent, percentages in hundredths  *)
(* of a percent; caps are in parts, 10000 to a unit, so that a percentage  *)
(* of an amount is a product.  A plan is described by what sizing asks of  *)
(* it.  Trading itself is outside the system: the trader enters a trade    *)
(* only when the assessment is WITHIN_LIMITS, at the size it gives, and    *)
(* records it in the file; results are recorded or not.                    *)
(***************************************************************************)
EXTENDS Integers, FiniteSets

CONSTANTS
    RiskPct, DailyPct, WeeklyPct, OpenPct,      \* RiskLimits
    MaxTrades, MaxPositions, MaxLosses,         \* RiskLimits, counts
    PropStart, PropDailyPct, PropTotalPct,      \* PropRules
    Cent,                                       \* units in a cent
    MinVolume,                                  \* in volume steps
    Balance,                                    \* of the new account
    PerVolume,                                  \* money lost at the stop per step
    Wins, PartLosses,                           \* results other than a full loss
    WeekDays, LastDay                           \* bound on the calendar

\* The models refuse a percentage that is not positive.
ASSUME PercentAssumption ==
    \A p \in {RiskPct, DailyPct, WeeklyPct, OpenPct, PropDailyPct, PropTotalPct} :
        p \in Nat \ {0} /\ p <= 10000

ASSUME CountAssumption ==
    /\ MaxTrades \in Nat /\ MaxPositions \in 1 .. 5 /\ MaxLosses \in Nat
    /\ MinVolume \in Nat \ {0} /\ WeekDays \in Nat \ {0} /\ LastDay \in Nat

ASSUME MoneyAssumption ==
    /\ Cent \in Nat \ {0}
    /\ Balance \in Nat /\ PropStart \in 0 .. Balance
    /\ PerVolume \subseteq Nat \ {0}
    /\ Wins \subseteq Nat /\ PartLosses \subseteq Nat

VARIABLES
    acct,      \* the account as it is
    file,      \* the account as the profile file has it, with its trading day
    profile,   \* what loading the file gives: OK, MISSING, INVALID
    day        \* the current trading day

riskVars == <<acct, file, profile, day>>

Slots == 1 .. 5     \* hardLimits.maxPositions of risk.json

\* open gives what the position in a slot can still lose, 0 when there is none.
Account == [balance : Int, today : Int, week : Int, trades : Nat,
            losses : Nat, open : [Slots -> Nat], day : Nat]

\* What is wrong with a plan: its stop is on the wrong side, its spec missing or
\* inconsistent or without a rate, its spread too wide, its margin too large.
Flaws == {"none", "stop", "spec", "spread", "margin"}

Plan == [perVolume : PerVolume, flaw : Flaws]

\* Locks that depend on the candles and on where open positions stand.
MarketLocks == SUBSET {"VOLATILITY", "ADDING_TO_LOSER"}

Larger(a, b) == IF a >= b THEN a ELSE b

-----------------------------------------------------------------------------
(* Budget and locks.                                                       *)

OpenRisk(a) == a.open[1] + a.open[2] + a.open[3] + a.open[4] + a.open[5]

OpenSlots(a) == {s \in Slots : a.open[s] > 0}

Loss(pnl) == Larger(0, -pnl)

Start(a, pnl) == Larger(0, a.balance - pnl)

\* Mutant: what open positions can still lose is not counted.
RealizedOnly(a) == Start(a, a.today) * DailyPct - 10000 * Loss(a.today)

DailyCap(a) == Start(a, a.today) * DailyPct - 10000 * (Loss(a.today) + OpenRisk(a))

WeeklyCap(a) == Start(a, a.week) * WeeklyPct - 10000 * (Loss(a.week) + OpenRisk(a))

OpenCap(a) == a.balance * OpenPct - 10000 * OpenRisk(a)

PropDailyCap(a) ==
    Start(a, a.today) * PropDailyPct - 10000 * (Loss(a.today) + OpenRisk(a))

PropTotalCap(a) ==
    10000 * a.balance - PropStart * (10000 - PropTotalPct) - 10000 * OpenRisk(a)

\* Mutants: a cap is left out of the budget.
NoDailyCap(a) == {a.balance * RiskPct, WeeklyCap(a), OpenCap(a),
                  PropDailyCap(a), PropTotalCap(a)}

Caps(a) == {a.balance * RiskPct, DailyCap(a), WeeklyCap(a), OpenCap(a),
            PropDailyCap(a), PropTotalCap(a)}

Effective(a) == LET caps  == Caps(a)
                    least == CHOOSE c \in caps : \A d \in caps : c <= d
                IN  Larger(0, least)

HalfCent == 5000 * Cent

\* What the least cap is to the nearest cent.  Half a cent goes either way: the
\* cap is a sum of binary fractions, a little above or below the half.
Budgets(a) ==
    LET e     == Effective(a)
        lower == Cent * (e \div (2 * HalfCent))
    IN  {b \in {lower, lower + Cent} : 10000 * b - e \in -HalfCent .. HalfCent}

\* Mutant: a spent weekly limit is no lock.
NoWeeklyLock(a) ==
    {l \in {"DAILY_LOSS_LIMIT", "MAX_OPEN_RISK"} :
        \/ l = "DAILY_LOSS_LIMIT" /\ DailyCap(a) <= 0
        \/ l = "MAX_OPEN_RISK" /\ OpenCap(a) <= 0}

CapLocks(a) ==
    {l \in {"DAILY_LOSS_LIMIT", "WEEKLY_LOSS_LIMIT", "MAX_OPEN_RISK",
            "PROP_DAILY_DRAWDOWN", "PROP_TOTAL_DRAWDOWN"} :
        \/ l = "DAILY_LOSS_LIMIT" /\ DailyCap(a) <= 0
        \/ l = "WEEKLY_LOSS_LIMIT" /\ WeeklyCap(a) <= 0
        \/ l = "MAX_OPEN_RISK" /\ OpenCap(a) <= 0
        \/ l = "PROP_DAILY_DRAWDOWN" /\ PropDailyCap(a) <= 0
        \/ l = "PROP_TOTAL_DRAWDOWN" /\ PropTotalCap(a) <= 0}

AccountLocks(a, today) ==
    {l \in {"ACCOUNT_STATE_STALE", "MAX_POSITIONS", "MAX_TRADES_PER_DAY",
            "CONSECUTIVE_LOSSES"} :
        \/ l = "ACCOUNT_STATE_STALE" /\ a.day # today
        \/ l = "MAX_POSITIONS" /\ Cardinality(OpenSlots(a)) >= MaxPositions
        \/ l = "MAX_TRADES_PER_DAY" /\ a.trades >= MaxTrades
        \/ l = "CONSECUTIVE_LOSSES" /\ a.losses >= MaxLosses}

-----------------------------------------------------------------------------
(* The size of a plan, and the assessment.                                 *)

Volume(b, p) == b \div p.perVolume

SizeVerified(p) == p.flaw # "spec"

\* With a budget that is 0.00 there is no size, and no lock.
TradeLocks(b, p) ==
    {l \in {"INVALID_STOP", "UNSAFE_SPREAD", "BELOW_MIN_VOLUME",
            "INSUFFICIENT_MARGIN"} :
        \/ l = "INVALID_STOP" /\ p.flaw = "stop"
        \/ l = "UNSAFE_SPREAD" /\ p.flaw = "spread"
        \/ /\ l = "BELOW_MIN_VOLUME"
           /\ p.flaw \notin {"stop", "spec"} /\ b > 0
           /\ Volume(b, p) < MinVolume
        \/ /\ l = "INSUFFICIENT_MARGIN"
           /\ p.flaw = "margin" /\ Volume(b, p) >= MinVolume}

Locks(a, b, today, p, market) ==
    CapLocks(a) \cup AccountLocks(a, today) \cup TradeLocks(b, p) \cup market

Status(a, b, loaded, today, p, market) ==
    IF loaded = "MISSING" THEN "NOT_CONFIGURED"
    ELSE IF loaded = "INVALID" \/ a.balance <= 0 THEN "INVALID_PROFILE"
    ELSE IF Locks(a, b, today, p, market) # {} THEN "LOCKED"
    ELSE IF ~SizeVerified(p) THEN "SIZE_UNVERIFIED" ELSE "WITHIN_LIMITS"

-----------------------------------------------------------------------------
(* The account over time.                                                  *)

NewAccount == [balance |-> Balance, today |-> 0, week |-> 0, trades |-> 0,
               losses |-> 0, open |-> [s \in Slots |-> 0], day |-> 0]

RiskInit ==
    /\ acct = NewAccount /\ file = NewAccount
    /\ profile = "OK" /\ day = 0

\* The trader follows a plan the gate found within limits and gave a size, and
\* records it.
Enter(p, market, b) ==
    /\ Status(file, b, profile, day, p, market) = "WITHIN_LIMITS"
    /\ Volume(b, p) >= MinVolume
    /\ \E s \in Slots \ OpenSlots(acct) :
         /\ \A t \in Slots \ OpenSlots(acct) : s <= t
         /\ acct' = [acct EXCEPT
              !.open[s] = Volume(b, p) * p.perVolume,
              !.trades = @ + 1]
    /\ file' = acct'
    /\ UNCHANGED <<profile, day>>

\* A run of losses ends with a result that is none.
NextLosses(n, pnl) == IF pnl < 0 THEN n + 1 ELSE 0

\* A position ends with a result no worse than its stop.
Close(s, pnl, recorded) ==
    /\ s \in OpenSlots(acct)
    /\ acct' = [acct EXCEPT
          !.balance = @ + pnl, !.today = @ + pnl, !.week = @ + pnl,
          !.losses = NextLosses(@, pnl),
          !.open[s] = 0]
    /\ file' = IF recorded THEN acct' ELSE file
    /\ UNCHANGED <<profile, day>>

Results(s) == Wins \cup {-r : r \in {acct.open[s]} \cup
                                     {x \in PartLosses : x <= acct.open[s]}}

\* A new trading day; the file still holds the account of an earlier one.
NextDay ==
    /\ day < LastDay
    /\ day' = day + 1
    /\ acct' = [acct EXCEPT !.today = 0, !.trades = 0, !.day = day + 1,
                            !.week = IF (day + 1) % WeekDays = 0 THEN 0 ELSE @]
    /\ UNCHANGED <<file, profile>>

UpdateFile == file' = acct /\ profile' = "OK" /\ UNCHANGED <<acct, day>>

BreakFile == /\ profile = "OK"
             /\ profile' \in {"MISSING", "INVALID"}
             /\ UNCHANGED <<acct, file, day>>

RiskNext ==
    \/ \E p \in Plan, market \in MarketLocks, b \in Budgets(file) : Enter(p, market, b)
    \/ \E s \in Slots, recorded \in BOOLEAN :
         \E pnl \in Results(s) : Close(s, pnl, recorded)
    \/ NextDay
    \/ UpdateFile
    \/ BreakFile

RiskSpec == RiskInit /\ [][RiskNext]_riskVars

-----------------------------------------------------------------------------
(* Properties.                                                             *)

RiskTypeOK ==
    /\ acct \in Account /\ file \in Account
    /\ profile \in {"OK", "MISSING", "INVALID"} /\ day \in Nat

(***************************************************************************)
(* However trades overlap, whichever results are recorded, and over day    *)
(* and week changes with positions open: what was lost today and this week *)
(* together with all that open positions can still lose stays within the   *)
(* daily and weekly limits (budget_and_locks, _position).  A budget is     *)
(* given to the nearest cent, so a limit may be passed by half of one, but *)
(* never by more: the halves of several trades do not add up.              *)
(***************************************************************************)
DailyLimitHolds == DailyCap(acct) >= -HalfCent

WeeklyLimitHolds == WeeklyCap(acct) >= -HalfCent

(***************************************************************************)
(* To the same half cent, the balance never falls under the prop drawdown  *)
(* floor, and a day never loses more than the prop daily drawdown, even if *)
(* every open position is stopped out at once.                             *)
(***************************************************************************)
FloorHolds == PropTotalCap(acct) >= -HalfCent /\ PropDailyCap(acct) >= -HalfCent

(***************************************************************************)
(* The three of them: nothing that is open can take a limit with it, but   *)
(* for the half cent of one rounding (budget_and_locks, _position).        *)
(***************************************************************************)
LimitsAreKept == DailyLimitHolds /\ WeeklyLimitHolds /\ FloorHolds

(***************************************************************************)
(* Results the trader has not recorded yet never make the gate more        *)
(* generous: as long as the file is of the current day, no cap computed    *)
(* from it exceeds the cap of the account as it is.                        *)
(***************************************************************************)
LateFileIsSafe ==
    file.day = day =>
       /\ DailyCap(file) <= DailyCap(acct) /\ WeeklyCap(file) <= WeeklyCap(acct)
       /\ OpenCap(file) <= OpenCap(acct)
       /\ PropDailyCap(file) <= PropDailyCap(acct)
       /\ PropTotalCap(file) <= PropTotalCap(acct)

Unsized(p, b) ==
    Status(file, b, profile, day, p, {}) = "WITHIN_LIMITS" /\ Volume(b, p) < MinVolume

(***************************************************************************)
(* The one way to be within limits without a size is a remainder of half a *)
(* cent or less: a spent cap always locks, and whatever is left of the     *)
(* caps beyond that either sizes the plan or says that it is too small     *)
(* (budget_and_locks, _position, assess).  With such a remainder it does   *)
(* happen: the caps are compared before they are rounded to a cent and the *)
(* size is taken after (README, 6).                                        *)
(***************************************************************************)
OnlyHalfACentIsUnsized ==
    \A p \in Plan : \A b \in Budgets(file) :
        Unsized(p, b) => Effective(file) \in 1 .. HalfCent

=============================================================================
