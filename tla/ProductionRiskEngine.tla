------------------------- MODULE ProductionRiskEngine -------------------------
(***************************************************************************)
(* The production risk engine (risk/framework.py): every control is        *)
(* evaluated, the order is allowed when none is violated, and every        *)
(* decision is recorded in the audit log.  Unlike the risk manager of the  *)
(* order path it remembers the idempotency keys it approved, accumulates   *)
(* violations instead of stopping at the first, rolls the rate window even *)
(* while stopped, and its stop can be cleared.                             *)
(*                                                                         *)
(* The snapshot of portfolio and market a caller passes is data: a record  *)
(* of the values evaluate_order looks up for the order at hand, its        *)
(* dictionaries resolved but for the drawdowns.  The reasons' wording is   *)
(* left out: Violations is the set of controls violated.                   *)
(*                                                                         *)
(* The time of a decision is an argument of evaluate_order.  Nothing makes *)
(* callers pass times in order, so any call may carry any time.            *)
(***************************************************************************)
EXTENDS Integers, Sequences, FiniteSets

CONSTANTS
    Orders,            \* orders submitted
    Snapshots,         \* what callers may pass
    Limits,            \* ProductionRiskLimits
    Times,             \* what callers may pass for now, in seconds
    SecondsPerMinute,
    SecondsPerDay,
    MaxEvaluations,    \* bound on the audit log
    NoQuote,           \* no quote in the snapshot
    NoInstrument,      \* no InstrumentRiskInfo in the snapshot
    NoExpiry           \* an instrument without expiry

Strategies == {order.strategy : order \in Orders}

(* The keys "strategy:..." carry the strategy's name in front.             *)
OrderRequest ==
    [key: STRING, strategy: Strategies, side: {"BUY", "SELL"},
     quantity: Nat \ {0}, isOption: BOOLEAN]

(* The order's instrument: exposures of its sector and its group, and the  *)
(* day it expires.                                                         *)
InstrumentRiskInfo ==
    [sector: Int, group: Int, expiry: Nat \cup {NoExpiry}]

MarketQuote == [timestamp: Int, last: Nat, bid: Nat, ask: Nat]

RiskSnapshot ==
    [position: Int, gross: Int, net: Int, pnl: Int, drawdown: [Strategies -> Nat],
     quote: MarketQuote \cup {NoQuote},
     instrument: InstrumentRiskInfo \cup {NoInstrument},
     delta: Int, gamma: Int, vega: Int, brokerConnected: BOOLEAN]

ProductionRiskLimits ==
    [position: Nat, sector: Nat, group: Nat, gross: Nat, net: Nat, dailyLoss: Int,
     drawdown: Nat, ordersPerMinute: Nat, delta: Nat, gamma: Nat, vega: Nat,
     daysToExpiry: Nat, staleSeconds: Nat]

ASSUME ProductionRiskAssumption ==
    /\ Orders \subseteq OrderRequest
    /\ Snapshots \subseteq RiskSnapshot
    /\ Limits \in ProductionRiskLimits
    /\ Times \subseteq Nat
    /\ SecondsPerMinute \in Nat \ {0}
    /\ SecondsPerDay \in Nat \ {0}
    /\ MaxEvaluations \in Nat

VARIABLES
    emergencyStop,
    orderWindow,       \* minute the counter belongs to, -1 for None
    ordersInWindow,
    seenOrderKeys,     \* keys of approved orders
    audit              \* audit log; at, the decision's time, is added to it

vars == <<emergencyStop, orderWindow, ordersInWindow, seenOrderKeys, audit>>

-----------------------------------------------------------------------------
Abs(n) == IF n < 0 THEN -n ELSE n

Minute(now) == now \div SecondsPerMinute

Day(now) == now \div SecondsPerDay

WindowCount(now) == IF Minute(now) = orderWindow THEN ordersInWindow ELSE 0

SignedQuantity(order) == IF order.side = "BUY" THEN order.quantity ELSE -order.quantity

(* Twice the reference price, 0 without a quote.                           *)
TwicePrice(quote) ==
    IF quote = NoQuote THEN 0
    ELSE IF quote.last # 0 THEN 2 * quote.last ELSE quote.bid + quote.ask

OperationalViolations(order, snapshot, now) ==
    {v \in {"emergency stop", "broker connectivity", "duplicate key", "order rate"} :
       \/ v = "emergency stop" /\ emergencyStop
       \/ v = "broker connectivity" /\ ~snapshot.brokerConnected
       \/ v = "duplicate key" /\ order.key \in seenOrderKeys
       \/ v = "order rate" /\ WindowCount(now) >= Limits.ordersPerMinute}

LossViolations(order, snapshot) ==
    {v \in {"daily loss", "strategy drawdown"} :
       \/ v = "daily loss" /\ snapshot.pnl =< -Abs(Limits.dailyLoss)
       \/ /\ v = "strategy drawdown"
          /\ snapshot.drawdown[order.strategy] >= Limits.drawdown}

MarketViolations(snapshot, now) ==
    {v \in {"missing quote", "stale quote"} :
       \/ v = "missing quote" /\ snapshot.quote = NoQuote
       \/ /\ v = "stale quote"
          /\ snapshot.quote # NoQuote
          /\ now - snapshot.quote.timestamp > Limits.staleSeconds}

(* Exposures are doubled, like the price.                                  *)
ExposureViolations(order, snapshot) ==
    LET notional == SignedQuantity(order) * TwicePrice(snapshot.quote)
        known == snapshot.instrument # NoInstrument
    IN  {v \in {"position", "gross", "net", "sector", "group"} :
           \/ /\ v = "position"
              /\ Abs(snapshot.position + SignedQuantity(order)) > Limits.position
           \/ v = "gross" /\ 2 * snapshot.gross + Abs(notional) > 2 * Limits.gross
           \/ v = "net" /\ Abs(2 * snapshot.net + notional) > 2 * Limits.net
           \/ /\ v = "sector" /\ known
              /\ 2 * snapshot.instrument.sector + Abs(notional) > 2 * Limits.sector
           \/ /\ v = "group" /\ known
              /\ 2 * snapshot.instrument.group + Abs(notional) > 2 * Limits.group}

OptionViolations(order, snapshot, now) ==
    {v \in {"expiry", "delta", "gamma", "vega"} :
       /\ order.isOption
       /\ \/ /\ v = "expiry"
             /\ snapshot.instrument # NoInstrument
             /\ snapshot.instrument.expiry # NoExpiry
             /\ snapshot.instrument.expiry - Day(now) < Limits.daysToExpiry
          \/ v = "delta" /\ Abs(snapshot.delta) > Limits.delta
          \/ v = "gamma" /\ Abs(snapshot.gamma) > Limits.gamma
          \/ v = "vega" /\ Abs(snapshot.vega) > Limits.vega}

Violations(order, snapshot, now) ==
    OperationalViolations(order, snapshot, now)
      \cup LossViolations(order, snapshot)
      \cup MarketViolations(snapshot, now)
      \cup ExposureViolations(order, snapshot)
      \cup OptionViolations(order, snapshot, now)

-----------------------------------------------------------------------------
(* What a decision changes.  Changed forms: a blocked order consumes its   *)
(* key too; only the audit log, not the window, counts approvals.          *)
Audited(order, allowed, now) ==
    audit' = Append(audit, [key |-> order.key, allowed |-> allowed, at |-> now])

RecordConsumesKey(order, allowed, now) ==
    /\ ordersInWindow' = WindowCount(now) + (IF allowed THEN 1 ELSE 0)
    /\ seenOrderKeys' = seenOrderKeys \cup {order.key}
    /\ Audited(order, allowed, now)

RecordForgetsCount(order, allowed, now) ==
    /\ ordersInWindow' = WindowCount(now)
    /\ seenOrderKeys' = IF allowed THEN seenOrderKeys \cup {order.key} ELSE seenOrderKeys
    /\ Audited(order, allowed, now)

RecordDecision(order, allowed, now) ==
    /\ ordersInWindow' = WindowCount(now) + (IF allowed THEN 1 ELSE 0)
    /\ seenOrderKeys' = IF allowed THEN seenOrderKeys \cup {order.key} ELSE seenOrderKeys
    /\ Audited(order, allowed, now)

EvaluateOrder(order, snapshot, now) ==
    /\ Len(audit) < MaxEvaluations
    /\ RecordDecision(order, Violations(order, snapshot, now) = {}, now)
    /\ orderWindow' = Minute(now)
    /\ UNCHANGED emergencyStop

TriggerEmergencyStop ==
    /\ emergencyStop' = TRUE
    /\ UNCHANGED <<orderWindow, ordersInWindow, seenOrderKeys, audit>>

ClearEmergencyStop ==
    /\ emergencyStop' = FALSE
    /\ UNCHANGED <<orderWindow, ordersInWindow, seenOrderKeys, audit>>

Init ==
    /\ emergencyStop = FALSE
    /\ orderWindow = -1
    /\ ordersInWindow = 0
    /\ seenOrderKeys = {}
    /\ audit = <<>>

Next ==
    \/ \E order \in Orders, snapshot \in Snapshots, now \in Times :
         EvaluateOrder(order, snapshot, now)
    \/ TriggerEmergencyStop
    \/ ClearEmergencyStop

Spec == Init /\ [][Next]_vars

-----------------------------------------------------------------------------
(* Properties.                                                             *)

Keys == {order.key : order \in Orders}

Approvals == {i \in DOMAIN audit : audit[i].allowed}

(* Every variable has its type; in particular the counter of a minute      *)
(* never passes the limit.                                                 *)
TypeOK ==
    /\ emergencyStop \in BOOLEAN
    /\ orderWindow \in Nat \cup {-1}
    /\ ordersInWindow \in 0..Limits.ordersPerMinute
    /\ seenOrderKeys \subseteq Keys
    /\ audit \in Seq([key: Keys, allowed: BOOLEAN, at: Times])

(* A key is approved once, whatever is blocked, stopped and cleared in     *)
(* between; and the keys remembered are those the audit log shows as       *)
(* approved, so a blocked order may be submitted again under its key.      *)
ApprovedOncePerKey ==
    /\ seenOrderKeys = {audit[i].key : i \in Approvals}
    /\ \A i, j \in Approvals : audit[i].key = audit[j].key => i = j

(* The log falls into stretches of decisions of one minute.  No stretch    *)
(* approves more than the limit, and the counter is what the last stretch  *)
(* approved; so a minute is overrun only if times go back, once for every  *)
(* time the log returns to it, and never while times are in order.         *)
Stretches ==
    {i \in DOMAIN audit : i = 1 \/ Minute(audit[i].at) # Minute(audit[i - 1].at)}

ApprovedInStretch(s) ==
    Cardinality({i \in Approvals : i >= s /\ {t \in Stretches : s < t /\ t =< i} = {}})

AuditShowsRateLimit ==
    /\ \A s \in Stretches :
         /\ ApprovedInStretch(s) =< Limits.ordersPerMinute
         /\ {t \in Stretches : t > s} = {} => ordersInWindow = ApprovedInStretch(s)
    /\ \A m \in {Minute(t) : t \in Times} :
         Cardinality({i \in Approvals : Minute(audit[i].at) = m}) =<
           Limits.ordersPerMinute
             * Cardinality({s \in Stretches : Minute(audit[s].at) = m})
=============================================================================
