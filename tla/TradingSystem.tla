---------------------------- MODULE TradingSystem ----------------------------
(***************************************************************************)
(* The order path end to end: OrderManager asks RiskManager about every    *)
(* create and replace, with the positions booked so far and the quote the  *)
(* caller passes, before the broker sees the request.  The decision, with  *)
(* the clock as it is then, and the call of the broker are two steps: time *)
(* passes between them, and a minute may end.                              *)
(*                                                                         *)
(* Both components are extended: their variables and operators keep their  *)
(* names, and the operations of the composition are made of theirs.        *)
(* clock is the wall clock both read; it is taken to be monotone.          *)
(***************************************************************************)
EXTENDS OrderManager, RiskManager

CONSTANTS
    Prices,      \* last, bid and ask prices quotes may carry, 0 included
    Losses,      \* losses update_daily_pnl may report, 0 for none
    MaxTime,     \* bound on the clock, for model checking
    NoOrder      \* the request in flight replaces no order

VARIABLES
    clock,
    inFlight,    \* the approved request on its way to the broker, if any
    sent,        \* history: minute -> requests the broker received in it
    late         \* history: minutes that received a request of an earlier one

ASSUME TradingSystemAssumption ==
    /\ Prices \subseteq Nat
    /\ Losses \subseteq Nat
    /\ MaxTime \in Nat
    /\ NoOrder \notin OrderIds

requestVars == <<inFlight, sent, late>>

systemVars == <<vars, riskVars, clock, requestVars>>

(* A submit, or a replace of the order id.                                 *)
Call == [id: OrderIds \cup {NoOrder}, request: OrderRequest]

Calling == inFlight # {}

-----------------------------------------------------------------------------
Quotes ==
    {NoQuote} \cup [timestamp: {clock - MaxStaleQuoteSeconds - 1, clock},
                    last: Prices, bid: Prices, ask: Prices]

(* The answers the risk manager may give to request, over the quotes.      *)
Decisions(request) ==
    {Allowed(request.side, request.quantity, positions[request.instrument],
             quote, clock) : quote \in Quotes}

(* The risk manager is asked with the clock as it is now.  A refused       *)
(* request is stored at once; an approved one is counted and goes on to    *)
(* the broker, which may have it in a later second or minute.              *)
Decide(call, allowed) ==
    /\ EvaluateOrder(allowed, clock)
    /\ \/ ~allowed /\ StoreRejected(call.request) /\ UNCHANGED inFlight
       \/ allowed /\ inFlight' = {call} /\ UNCHANGED vars
    /\ UNCHANGED <<clock, sent, late>>

(* A duplicate key, an unknown order or a forbidden transition raises      *)
(* before the risk manager is asked.                                       *)
SubmitChecked(request, allowed) ==
    /\ ~Calling
    /\ Idle
    /\ KeyIsFresh(request.key)
    /\ Decide([id |-> NoOrder, request |-> request], allowed)

(* Changed form: a replace is not checked.                                 *)
ReplaceUnchecked(id, request, allowed) ==
    /\ ~Calling
    /\ Idle
    /\ KeyIsFresh(request.key)
    /\ id \in DOMAIN orders
    /\ ValidTransition(orders[id].status, "REPLACED")
    /\ inFlight' = {[id |-> id, request |-> request]}
    /\ UNCHANGED <<vars, riskVars, clock, sent, late>>

ReplaceChecked(id, request, allowed) ==
    /\ ~Calling
    /\ Idle
    /\ KeyIsFresh(request.key)
    /\ id \in DOMAIN orders
    /\ ValidTransition(orders[id].status, "REPLACED")
    /\ Decide([id |-> id, request |-> request], allowed)

(* The broker is called; its reply is stored, or lost on the way back.     *)
Receive(call) ==
    \/ /\ call.id = NoOrder
       /\ CreateOrder(call.request, TRUE) \/ SubmitReplyLost(call.request)
    \/ /\ call.id # NoOrder
       /\ \/ ReplaceOrder(call.id, call.request, TRUE)
          \/ ReplaceReplyLost(call.id, call.request)

RequestReceived ==
    /\ \E call \in inFlight : Receive(call)
    /\ inFlight' = {}
    /\ sent' = [sent EXCEPT ![Minute(clock)] = @ + 1]
    /\ late' = late \cup ({Minute(clock)} \ {orderWindowMinute})
    /\ UNCHANGED <<riskVars, clock>>

(* submit or replace raises before the broker has seen the request: it is  *)
(* counted all the same, and the exception is passed on.                   *)
RequestNotReceived ==
    /\ Calling
    /\ inFlight' = {}
    /\ UNCHANGED <<vars, riskVars, clock, sent, late>>

(* The operations below begin when no other is going on: the program is    *)
(* synchronous, and while it waits for the broker only the clock moves.    *)
PassOnCancel(id) ==
    /\ ~Calling
    /\ CancelOrder(id) \/ CancelReplyLost(id)
    /\ UNCHANGED <<riskVars, clock, requestVars>>

HandleFills ==
    /\ ~Calling
    /\ \/ AddFill
       \/ PollFills
       \/ ProcessPolledFill
       \/ \E fill \in executions : ProcessFill(fill)
    /\ UNCHANGED <<riskVars, clock, requestVars>>

(* The operations of the risk manager that other parts call.               *)
ReportPnl ==
    /\ ~Calling
    /\ \E loss \in Losses : UpdateDailyPnl(-loss)
    /\ UNCHANGED <<vars, clock, requestVars>>

Stop ==
    /\ ~Calling
    /\ TriggerKillSwitch
    /\ UNCHANGED <<vars, clock, requestVars>>

Tick ==
    /\ clock < MaxTime
    /\ clock' = clock + 1
    /\ UNCHANGED <<vars, riskVars, requestVars>>

SystemInit ==
    /\ Init
    /\ RiskInit
    /\ clock = 0
    /\ inFlight = {}
    /\ late = {}
    /\ sent = [m \in 0..Minute(MaxTime) |-> 0]

SystemNext ==
    \/ \E request \in OrderRequest :
         \E allowed \in Decisions(request) :
           \/ SubmitChecked(request, allowed)
           \/ \E id \in OrderIds : ReplaceChecked(id, request, allowed)
    \/ RequestReceived
    \/ RequestNotReceived
    \/ \E id \in OrderIds : PassOnCancel(id)
    \/ HandleFills
    \/ ReportPnl
    \/ Stop
    \/ Tick

SystemSpec == SystemInit /\ [][SystemNext]_systemVars

-----------------------------------------------------------------------------
(* Properties.                                                             *)

(* The type invariants of both components and of the composition.          *)
SystemTypeOK ==
    /\ TypeOK
    /\ RiskTypeOK
    /\ clock \in 0..MaxTime
    /\ inFlight \subseteq Call
    /\ \A call1, call2 \in inFlight : call1 = call2
    /\ sent \in [0..Minute(MaxTime) -> Nat]
    /\ late \subseteq 0..Minute(MaxTime)

(* Requests the broker received in minute m that were decided before it.   *)
Late(m) == IF m \in late THEN 1 ELSE 0

InFlight == IF Calling THEN 1 ELSE 0

(* The broker never receives more requests in a calendar minute than the   *)
(* limit, replaces and submits with a lost reply included, but for one     *)
(* that was decided in an earlier minute and took until now: the limit is  *)
(* kept by the decisions of a minute, and a minute may receive one more.   *)
(* (Of sixty seconds that touch two minutes nothing is said.)              *)
RateLimitHolds == \A m \in DOMAIN sent : sent[m] =< MaxOrdersPerMinute + Late(m)

(* The counter the limit is checked against never lags behind: it counts   *)
(* whatever the broker received in the minute of the window and what is on *)
(* its way, but for the one request of an earlier minute, and that is the  *)
(* only kind a later minute has received.  (The counter may run ahead, by  *)
(* requests that raised before the broker had them or that came later.)    *)
WindowCountsSentOrders ==
    \A m \in DOMAIN sent :
      /\ m = orderWindowMinute => sent[m] + InFlight =< ordersInWindow + Late(m)
      /\ m > orderWindowMinute => sent[m] =< Late(m)

(* After the kill switch no request reaches the broker: nothing is issued  *)
(* and no broker order changes but by a cancel.  Working orders can still  *)
(* fill and be canceled.                                                   *)
KillSwitchStopsRequests ==
    [][killSwitch =>
         /\ killSwitch'
         /\ issued' = issued
         /\ \A id \in DOMAIN brokerOrders :
              /\ id \in DOMAIN brokerOrders'
              /\ brokerOrders'[id].request = brokerOrders[id].request]_systemVars

(* While the reported loss breaches the limit no request reaches the       *)
(* broker, by create or by replace, however the two are mixed with fills.  *)
NoRequestAfterLoss ==
    [][pnl =< -Abs(DailyLossLimit) => sent' = sent]_systemVars

(* As long as the broker has seen a single order, with whatever replaces   *)
(* and partial fills, no fill carries the position past the limit.  (With  *)
(* two working orders it can: evaluate_order is shown booked positions,    *)
(* not what the orders already working may still fill.)                    *)
SingleOrderKeepsLimit ==
    (\A id1, id2 \in DOMAIN brokerOrders : id1 = id2) =>
      \A i \in Instruments : Abs(positions[i]) =< MaxPositionSize
=============================================================================
