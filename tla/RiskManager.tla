----------------------------- MODULE RiskManager -----------------------------
(***************************************************************************)
(* The pre-trade risk manager of the order path (risk/manager.py): a kill  *)
(* switch, a counter of accepted orders per calendar minute, a daily loss  *)
(* guard, and limits on quote age, order notional and resulting position.  *)
(*                                                                         *)
(* Time is in seconds and money in cents or any other integer unit; the    *)
(* wording of the refusal reasons is left out, their order is kept.        *)
(***************************************************************************)
EXTENDS Integers

CONSTANTS
    MaxPositionSize, MaxOrderNotional, DailyLossLimit,
    MaxOrdersPerMinute, MaxStaleQuoteSeconds,
    SecondsPerMinute,   \* 60 in the code; the calendar minute of now
    NoQuote             \* latest_quote is None

ASSUME RiskManagerAssumption ==
    /\ MaxPositionSize \in Nat
    /\ MaxOrderNotional \in Nat
    /\ DailyLossLimit \in Int
    /\ MaxOrdersPerMinute \in Nat
    /\ MaxStaleQuoteSeconds \in Nat
    /\ SecondsPerMinute \in Nat \ {0}

VARIABLES
    killSwitch,         \* emergency stop, never cleared
    orderWindowMinute,  \* minute the counter belongs to, -1 for None
    ordersInWindow,     \* orders accepted in that minute
    pnl                 \* realized plus unrealized, as last reported

riskVars == <<killSwitch, orderWindowMinute, ordersInWindow, pnl>>

-----------------------------------------------------------------------------
Abs(n) == IF n < 0 THEN -n ELSE n

Minute(now) == now \div SecondsPerMinute

(* The counter after _roll_minute_window.  Changed form: the count of the  *)
(* running minute is forgotten.                                            *)
WindowForgotten(now) == 0

WindowCount(now) == IF Minute(now) = orderWindowMinute THEN ordersInWindow ELSE 0

(* Changed form: the guard stops on profit.                                *)
LossGuardReversed == pnl >= Abs(DailyLossLimit)

MaxLossBreached == pnl =< -Abs(DailyLossLimit)

IsStale(quote, now) == now - quote.timestamp > MaxStaleQuoteSeconds

(* last or (bid + ask) / 2, doubled; a last price of zero counts as none.  *)
TwiceReferencePrice(quote) ==
    IF quote.last # 0 THEN 2 * quote.last ELSE quote.bid + quote.ask

NotionalWithinLimit(quantity, quote) ==
    quantity * TwiceReferencePrice(quote) =< 2 * MaxOrderNotional

Proposed(side, quantity, position) ==
    IF side = "BUY" THEN position + quantity ELSE position - quantity

PositionUnsigned(side, quantity, position) == quantity =< MaxPositionSize

PositionWithinLimit(side, quantity, position) ==
    Abs(Proposed(side, quantity, position)) =< MaxPositionSize

(* The decision of evaluate_order for a request of quantity on side, with  *)
(* position held in its instrument now.  Changed form: without the kill    *)
(* switch.                                                                 *)
KillSwitchSkipped(side, quantity, position, quote, now) ==
    /\ WindowCount(now) < MaxOrdersPerMinute
    /\ ~MaxLossBreached
    /\ quote # NoQuote
    /\ ~IsStale(quote, now)
    /\ NotionalWithinLimit(quantity, quote)
    /\ PositionWithinLimit(side, quantity, position)

Allowed(side, quantity, position, quote, now) ==
    /\ ~killSwitch
    /\ WindowCount(now) < MaxOrdersPerMinute
    /\ ~MaxLossBreached
    /\ quote # NoQuote
    /\ ~IsStale(quote, now)
    /\ NotionalWithinLimit(quantity, quote)
    /\ PositionWithinLimit(side, quantity, position)

(* The effect of evaluate_order: an active kill switch returns before the  *)
(* window is rolled; only an accepted order is counted.                    *)
EvaluateOrder(allowed, now) ==
    /\ IF killSwitch
         THEN UNCHANGED <<orderWindowMinute, ordersInWindow>>
         ELSE /\ orderWindowMinute' = Minute(now)
              /\ ordersInWindow' = WindowCount(now) + (IF allowed THEN 1 ELSE 0)
    /\ UNCHANGED <<killSwitch, pnl>>

UpdateDailyPnl(total) ==
    /\ pnl' = total
    /\ UNCHANGED <<killSwitch, orderWindowMinute, ordersInWindow>>

TriggerKillSwitch ==
    /\ killSwitch' = TRUE
    /\ UNCHANGED <<orderWindowMinute, ordersInWindow, pnl>>

RiskInit ==
    /\ killSwitch = FALSE
    /\ orderWindowMinute = -1
    /\ ordersInWindow = 0
    /\ pnl = 0

RiskTypeOK ==
    /\ killSwitch \in BOOLEAN
    /\ orderWindowMinute \in Nat \cup {-1}
    /\ ordersInWindow \in 0..MaxOrdersPerMinute
    /\ pnl \in Int
=============================================================================
