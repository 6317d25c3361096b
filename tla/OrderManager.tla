---------------------------- MODULE OrderManager ----------------------------
(***************************************************************************)
(* The order management system (oms/order_manager.py) together with the    *)
(* execution service that forwards its calls, the broker behind it         *)
(* (adapters/broker/in_memory.py) and the position book its fills reach    *)
(* (portfolio/updater.py).                                                 *)
(*                                                                         *)
(* The process is single threaded: an operation of the order manager runs  *)
(* to its return or its raise.  refresh_fills is the exception worth       *)
(* splitting: it empties the broker's queue first and then processes the   *)
(* batch fill by fill, each fill with effects of its own, and stops at the *)
(* first fill that raises.  While batch is not empty no other operation of *)
(* the order manager runs; the broker goes on producing fills.             *)
(*                                                                         *)
(* A call that raises before it changes anything is a stuttering step and  *)
(* has no action.  Prices, order types and reject reasons are left out:    *)
(* no guard of this component reads them.                                  *)
(***************************************************************************)
EXTENDS Integers, FiniteSets, Sequences, Functions

CONSTANTS
    Keys,             \* idempotency keys callers choose
    BrokerIds,        \* identifiers the broker gives to orders, each once
    FillIds,          \* identifiers of executions
    Instruments,
    MaxQuantity,      \* largest quantity of one request or one fill
    RekeyingBroker,   \* may a replaced order get a new identifier?
    MaxLostReplies    \* keys the broker may take by calls that raise

(* The identifier of an order refused by the risk check.                   *)
RejectedId(key) == <<"rejected", key>>

RejectedIds == {RejectedId(k) : k \in Keys}

ASSUME OrderManagerAssumption ==
    /\ MaxQuantity \in Nat \ {0}
    /\ RekeyingBroker \in BOOLEAN
    /\ MaxLostReplies \in Nat
    /\ BrokerIds \cap RejectedIds = {}

VARIABLES
    orders,       \* OMS: order id -> order
    orderKeys,    \* OMS: idempotency keys consumed
    fillIdsSeen,  \* OMS: fill ids consumed
    positions,    \* position book: instrument -> signed quantity
    brokerOrders, \* broker: order id -> order
    issued,       \* broker: order ids handed out so far
    lostKeys,     \* history: keys the broker took by calls that raised
    disputed,     \* broker: order ids whose last call raised at the caller
    fills,        \* broker: executions not polled yet
    executions,   \* every fill the broker has returned from add_fill
    batch,        \* fills of a refresh_fills call not processed yet
    booked        \* history: what process_fill applied, in terms of fills

omsVars == <<orders, orderKeys, fillIdsSeen, positions, booked>>
brokerVars == <<brokerOrders, issued, lostKeys, disputed, fills, executions>>
vars == <<orders, orderKeys, fillIdsSeen, positions, booked,
          brokerOrders, issued, lostKeys, disputed, fills, executions, batch>>

-----------------------------------------------------------------------------
(* Data.                                                                   *)

Sides == {"BUY", "SELL"}

OrderIds == BrokerIds \cup RejectedIds

OrderStatus == {"PENDING_NEW", "ACKNOWLEDGED", "PARTIALLY_FILLED", "FILLED",
                "CANCELED", "REPLACED", "REJECTED"}

OrderRequest == [key: Keys, instrument: Instruments, side: Sides,
                 quantity: 1..MaxQuantity]

Order == [request: OrderRequest, status: OrderStatus, filled: 0..MaxQuantity]

TradeFill == [id: FillIds, order: BrokerIds, quantity: 1..MaxQuantity]

Booking == [fill: TradeFill, request: OrderRequest]

AllowedTransitions ==
    [s \in OrderStatus |->
       CASE s = "PENDING_NEW" -> {"ACKNOWLEDGED", "REJECTED", "CANCELED"}
         [] s = "ACKNOWLEDGED" ->
              {"PARTIALLY_FILLED", "FILLED", "CANCELED", "REPLACED", "REJECTED"}
         [] s = "PARTIALLY_FILLED" ->
              {"PARTIALLY_FILLED", "FILLED", "CANCELED", "REPLACED"}
         [] s = "REPLACED" ->
              {"ACKNOWLEDGED", "PARTIALLY_FILLED", "FILLED", "CANCELED"}
         [] OTHER -> {}]

Terminal == {s \in OrderStatus : AllowedTransitions[s] = {}}

ValidTransition(current, target) == target \in AllowedTransitions[current]

Put(f, k, v) == [x \in DOMAIN f \cup {k} |-> IF x = k THEN v ELSE f[x]]

Without(f, k) == [x \in DOMAIN f \ {k} |-> f[x]]

SideIgnored(side, n) == n

SignedQuantity(side, n) == IF side = "BUY" THEN n ELSE -n

NewOrder(request, status) ==
    [request |-> request, status |-> status, filled |-> 0]

-----------------------------------------------------------------------------
(* The broker.                                                             *)

(* submit_order acknowledges at once, under an identifier never used.      *)
BrokerSubmit(id, request) ==
    /\ id \notin issued
    /\ issued' = issued \cup {id}
    /\ brokerOrders' = Put(brokerOrders, id, NewOrder(request, "ACKNOWLEDGED"))
    /\ UNCHANGED <<fills, executions>>

(* replace_order keeps the broker's own filled quantity, which add_fill    *)
(* never touches.  A broker may move the order to a new identifier.        *)
BrokerReplace(id, new, request) ==
    /\ id \in DOMAIN brokerOrders
    /\ new = id \/ (RekeyingBroker /\ new \notin issued)
    /\ issued' = issued \cup {new}
    /\ brokerOrders' = Put(Without(brokerOrders, id), new,
         [brokerOrders[id] EXCEPT !.request = request, !.status = "REPLACED"])
    /\ UNCHANGED <<fills, executions>>

BrokerCancel(id) ==
    /\ id \in DOMAIN brokerOrders
    /\ brokerOrders' = [brokerOrders EXCEPT ![id].status = "CANCELED"]
    /\ UNCHANGED <<issued, fills, executions>>

(* add_fill: an execution of any order the broker ever issued, of any      *)
(* quantity; it looks at no order.                                         *)
AddFill ==
    \E fill \in TradeFill :
      /\ fill.id \notin {e.id : e \in executions}
      /\ fill.order \in issued
      /\ fills' = Append(fills, fill)
      /\ executions' = executions \cup {fill}
      /\ UNCHANGED <<orders, orderKeys, fillIdsSeen, positions, booked,
                     brokerOrders, issued, lostKeys, disputed, batch>>

-----------------------------------------------------------------------------
(* create_order and replace_order.  allowed is the risk manager's answer.  *)

Idle == batch = <<>>

KeyCheckDropped(key) == TRUE

KeyIsFresh(key) == key \notin orderKeys

(* A refused request is stored under an identifier of its own, and its key *)
(* is consumed.                                                            *)
StoreRejected(request) ==
    /\ orders' = Put(orders, RejectedId(request.key), NewOrder(request, "REJECTED"))
    /\ orderKeys' = orderKeys \cup {request.key}
    /\ UNCHANGED <<fillIdsSeen, positions, booked>>
    /\ UNCHANGED <<brokerVars, batch>>

CreateOrder(request, allowed) ==
    /\ Idle
    /\ KeyIsFresh(request.key)
    /\ \/ ~allowed /\ StoreRejected(request)
       \/ /\ allowed
          /\ \E id \in BrokerIds :
               /\ BrokerSubmit(id, request)
               /\ orders' = Put(orders, id, NewOrder(request, "ACKNOWLEDGED"))
          /\ orderKeys' = orderKeys \cup {request.key}
          /\ UNCHANGED <<fillIdsSeen, positions, booked, lostKeys, disputed, batch>>

(* submit raises after the broker has taken the order: create_order passes *)
(* the exception on, with nothing stored and the key not consumed.         *)
SubmitReplyLost(request) ==
    /\ Cardinality(lostKeys) < MaxLostReplies
    /\ Idle
    /\ KeyIsFresh(request.key)
    /\ \E id \in BrokerIds :
         /\ BrokerSubmit(id, request)
         /\ disputed' = disputed \cup {id}
    /\ lostKeys' = lostKeys \cup {request.key}
    /\ UNCHANGED <<omsVars, batch>>

(* Changed form: the old identifier is kept although the broker moved.     *)
ReplaceKeepsOldId(id, request, allowed) ==
    /\ Idle
    /\ KeyIsFresh(request.key)
    /\ id \in DOMAIN orders
    /\ ValidTransition(orders[id].status, "REPLACED")
    /\ allowed
    /\ \E new \in BrokerIds : BrokerReplace(id, new, request)
    /\ orders' = [orders EXCEPT ![id].request = request, ![id].status = "REPLACED"]
    /\ orderKeys' = orderKeys \cup {request.key}
    /\ UNCHANGED <<fillIdsSeen, positions, booked, lostKeys, disputed, batch>>

(* A replace that goes through settles what an earlier call left open.     *)
ReplaceOrder(id, request, allowed) ==
    /\ Idle
    /\ KeyIsFresh(request.key)
    /\ id \in DOMAIN orders
    /\ ValidTransition(orders[id].status, "REPLACED")
    /\ \/ ~allowed /\ StoreRejected(request)
       \/ /\ allowed
          /\ \E new \in BrokerIds :
               /\ BrokerReplace(id, new, request)
               /\ orders' = Put(Without(orders, id), new,
                    [brokerOrders[id] EXCEPT !.request = request,
                                             !.status = "REPLACED"])
          /\ orderKeys' = orderKeys \cup {request.key}
          /\ disputed' = disputed \ {id}
          /\ UNCHANGED <<fillIdsSeen, positions, booked, lostKeys, batch>>

(* replace raises after the broker has replaced: the order manager keeps   *)
(* the order as it was, under the old identifier, and the key fresh.       *)
ReplaceReplyLost(id, request) ==
    /\ Cardinality(lostKeys) < MaxLostReplies
    /\ Idle
    /\ KeyIsFresh(request.key)
    /\ id \in DOMAIN orders
    /\ ValidTransition(orders[id].status, "REPLACED")
    /\ \E new \in BrokerIds :
         /\ BrokerReplace(id, new, request)
         /\ disputed' = disputed \cup {id, new}
    /\ lostKeys' = lostKeys \cup {request.key}
    /\ UNCHANGED <<omsVars, batch>>

(* Changed form: the transition table is not consulted.                    *)
CancelUnchecked(id) ==
    /\ Idle
    /\ id \in DOMAIN orders
    /\ BrokerCancel(id)
    /\ orders' = [orders EXCEPT ![id] = [brokerOrders[id] EXCEPT !.status = "CANCELED"]]
    /\ disputed' = disputed \ {id}
    /\ UNCHANGED <<orderKeys, fillIdsSeen, positions, booked, lostKeys, batch>>

(* The order stored is the broker's copy, filled quantity included.        *)
CancelOrder(id) ==
    /\ Idle
    /\ id \in DOMAIN orders
    /\ ValidTransition(orders[id].status, "CANCELED")
    /\ BrokerCancel(id)
    /\ orders' = [orders EXCEPT ![id] = [brokerOrders[id] EXCEPT !.status = "CANCELED"]]
    /\ disputed' = disputed \ {id}
    /\ UNCHANGED <<orderKeys, fillIdsSeen, positions, booked, lostKeys, batch>>

(* cancel raises after the broker has canceled: the order stays open here. *)
CancelReplyLost(id) ==
    /\ Idle
    /\ id \in DOMAIN orders
    /\ ValidTransition(orders[id].status, "CANCELED")
    /\ BrokerCancel(id)
    /\ disputed' = disputed \cup {id}
    /\ UNCHANGED <<omsVars, lostKeys, batch>>

-----------------------------------------------------------------------------
(* process_fill.                                                           *)

FilledOneLate(order, fill) ==
    IF order.filled + fill.quantity =< order.request.quantity
      THEN "PARTIALLY_FILLED" ELSE "FILLED"

FillStatus(order, fill) ==
    IF order.filled + fill.quantity < order.request.quantity
      THEN "PARTIALLY_FILLED" ELSE "FILLED"

(* Changed forms: without the overfill check, without the duplicate check. *)
BookableOverfill(fill) ==
    /\ fill.id \notin fillIdsSeen
    /\ fill.order \in DOMAIN orders
    /\ orders[fill.order].status \notin {"CANCELED", "REJECTED", "FILLED"}

BookableTwice(fill) ==
    /\ fill.order \in DOMAIN orders
    /\ orders[fill.order].status \notin {"CANCELED", "REJECTED", "FILLED"}
    /\ orders[fill.order].filled + fill.quantity =< orders[fill.order].request.quantity

Bookable(fill) ==
    /\ fill.id \notin fillIdsSeen
    /\ fill.order \in DOMAIN orders
    /\ LET order == orders[fill.order] IN
         /\ order.status \notin {"CANCELED", "REJECTED", "FILLED"}
         /\ order.filled + fill.quantity =< order.request.quantity
         /\ ValidTransition(order.status, FillStatus(order, fill))

(* The order, the position and the set of consumed fill ids move together. *)
BookFill(fill) ==
    LET order == orders[fill.order]
        request == order.request
    IN  /\ orders' = [orders EXCEPT ![fill.order] =
                        [order EXCEPT !.filled = @ + fill.quantity,
                                      !.status = FillStatus(order, fill)]]
        /\ positions' = [positions EXCEPT ![request.instrument] =
                           @ + SignedQuantity(request.side, fill.quantity)]
        /\ fillIdsSeen' = fillIdsSeen \cup {fill.id}
        /\ booked' = booked \cup {[fill |-> fill, request |-> request]}
        /\ UNCHANGED orderKeys

(* A fill that raises has already been added to the consumed ids.          *)
RefuseFill(fill) ==
    /\ fillIdsSeen' = fillIdsSeen \cup {fill.id}
    /\ UNCHANGED <<orders, orderKeys, positions, booked>>

(* A caller hands in a fill it got from the broker, as the tests do.       *)
ProcessFill(fill) ==
    /\ Idle
    /\ \/ Bookable(fill) /\ BookFill(fill)
       \/ ~Bookable(fill) /\ RefuseFill(fill)
    /\ UNCHANGED <<brokerVars, batch>>

(* refresh_fills: poll_fills returns the queue and clears it ...           *)
PollFills ==
    /\ Idle
    /\ fills # <<>>
    /\ batch' = fills
    /\ fills' = <<>>
    /\ UNCHANGED <<omsVars, brokerOrders, issued, lostKeys, disputed, executions>>

(* ... and the batch is processed in order, up to the first raise.         *)
ProcessPolledFill ==
    /\ ~Idle
    /\ LET fill == Head(batch) IN
         \/ Bookable(fill) /\ BookFill(fill) /\ batch' = Tail(batch)
         \/ ~Bookable(fill) /\ RefuseFill(fill) /\ batch' = <<>>
    /\ UNCHANGED brokerVars

-----------------------------------------------------------------------------
NoOrders == [id \in {} |-> 0]

Init ==
    /\ orders = NoOrders
    /\ orderKeys = {}
    /\ fillIdsSeen = {}
    /\ positions = [i \in Instruments |-> 0]
    /\ brokerOrders = NoOrders
    /\ issued = {}
    /\ lostKeys = {}
    /\ disputed = {}
    /\ fills = <<>>
    /\ executions = {}
    /\ batch = <<>>
    /\ booked = {}

Next ==
    \/ \E request \in OrderRequest, allowed \in BOOLEAN :
         \/ CreateOrder(request, allowed)
         \/ \E id \in OrderIds : ReplaceOrder(id, request, allowed)
    \/ \E request \in OrderRequest :
         \/ SubmitReplyLost(request)
         \/ \E id \in OrderIds : ReplaceReplyLost(id, request)
    \/ \E id \in OrderIds : CancelOrder(id) \/ CancelReplyLost(id)
    \/ AddFill
    \/ \E fill \in executions : ProcessFill(fill)
    \/ PollFills
    \/ ProcessPolledFill

Spec == Init /\ [][Next]_vars

-----------------------------------------------------------------------------
(* Properties.                                                             *)

(* Every variable has its type: the one type invariant of this module.     *)
TypeOK ==
    /\ DOMAIN orders \subseteq OrderIds
    /\ \A id \in DOMAIN orders : orders[id] \in Order
    /\ orderKeys \subseteq Keys
    /\ fillIdsSeen \subseteq FillIds
    /\ positions \in [Instruments -> Int]
    /\ issued \subseteq BrokerIds
    /\ lostKeys \subseteq Keys
    /\ disputed \subseteq issued
    /\ DOMAIN brokerOrders \subseteq issued
    /\ \A id \in DOMAIN brokerOrders : brokerOrders[id] \in Order
    /\ executions \subseteq TradeFill
    /\ fills \in Seq(TradeFill)
    /\ batch \in Seq(TradeFill)
    /\ booked \subseteq Booking

(* An order is FILLED exactly when nothing of it is left, PARTIALLY_FILLED *)
(* only strictly between, and never filled beyond its request: status and  *)
(* quantity of process_fill agree, across replaces and cancels too.        *)
StatusMatchesQuantity ==
    \A id \in DOMAIN orders :
      LET order == orders[id] IN
        /\ order.filled =< order.request.quantity
        /\ order.status = "FILLED" <=> order.filled = order.request.quantity
        /\ order.status = "PARTIALLY_FILLED" => order.filled > 0

(* The position book is the sum of the fills booked, each exactly once,    *)
(* however the caller mixes process_fill and refresh_fills.                *)
BookedMove ==
    [b \in Booking |-> SignedQuantity(b.request.side, b.fill.quantity)]

BookedIn(i) == {b \in booked : b.request.instrument = i}

PositionsAreBookedFills ==
    \A i \in Instruments :
      positions[i] = SumFunctionOnSet(BookedMove, BookedIn(i))

(* What is booked while a request is in force never exceeds the quantity   *)
(* of that request, over replaces, late fills and calls that raised.  (The *)
(* requests of one order together may exceed each of them: NoOverfill.)    *)
BookedQuantity == [b \in Booking |-> b.fill.quantity]

BookedFor(request) == {b \in booked : b.request = request}

RequestsAreNotOverfilled ==
    \A b \in booked :
      SumFunctionOnSet(BookedQuantity, BookedFor(b.request)) =< b.request.quantity

(* An idempotency key names at most one order of the order manager, and    *)
(* the key of every order is remembered, over create, replace and refusal; *)
(* except for keys the broker took by a call that raised: a later cancel   *)
(* stores the broker's copy, whose key was never consumed.                 *)
OneOrderPerKey ==
    /\ \A id \in DOMAIN orders : orders[id].request.key \in orderKeys \cup lostKeys
    /\ \A id1, id2 \in DOMAIN orders :
         orders[id1].request.key = orders[id2].request.key =>
           id1 = id2 \/ orders[id1].request.key \in lostKeys

(* tests/test_order_manager_flow.py:84 wants duplicate keys "blocked before *)
(* broker submission": two broker orders share a key only if a call with   *)
(* that key raised after the broker had acted.  (Then they may: the key    *)
(* was not consumed, and the caller's retry is submitted a second time.)   *)
KeysSubmittedOnce ==
    \A id1, id2 \in DOMAIN brokerOrders :
      brokerOrders[id1].request.key = brokerOrders[id2].request.key =>
        id1 = id2 \/ brokerOrders[id1].request.key \in lostKeys

(* The two order stores agree after every operation: what the order        *)
(* manager holds under a broker identifier the broker holds too, for the   *)
(* same request and canceled on both sides or neither; and the broker      *)
(* works no order the order manager does not know.  Excepted are the       *)
(* orders whose last call raised; a call that goes through repairs them.   *)
BrokerAgrees ==
    /\ \A id \in DOMAIN orders \ (RejectedIds \cup disputed) :
         /\ id \in DOMAIN brokerOrders
         /\ brokerOrders[id].request = orders[id].request
         /\ orders[id].status = "CANCELED" <=> brokerOrders[id].status = "CANCELED"
    /\ DOMAIN brokerOrders \ disputed \subseteq DOMAIN orders

(* An order that was filled, canceled or rejected is never touched again:  *)
(* no late fill, replace, cancel or rekeying changes or removes it.        *)
TerminalOrdersAreFrozen ==
    [][\A id \in DOMAIN orders :
         orders[id].status \in Terminal =>
           id \in DOMAIN orders' /\ orders'[id] = orders[id]]_vars

(* The order manager implements the abstract order life cycle.             *)
LiveIds == {id \in DOMAIN orders : orders[id].status \notin Terminal}

WantedBy(order) ==
    [instrument |-> order.request.instrument,
     side |-> order.request.side,
     left |-> order.request.quantity - order.filled]

WorkingOrders == [id \in LiveIds |-> WantedBy(orders[id])]

ClosedIds == DOMAIN orders \ LiveIds

Lifecycle == INSTANCE OrderLifecycle WITH
    Ids <- OrderIds,
    Symbols <- Instruments,
    working <- WorkingOrders,
    closed <- ClosedIds,
    net <- positions

ImplementsLifecycle == Lifecycle!Spec

-----------------------------------------------------------------------------
(* What the repository says and the code does not do.                      *)

(* tests/test_order_manager_flow.py:228, "OMS should reject fills that     *)
(* exceed requested quantity": what was booked under one order identifier  *)
(* never exceeds the largest quantity its requests named.                  *)
BookedUnder(id) ==
    SumFunctionOnSet(BookedQuantity, {b \in booked : b.fill.order = id})

NoOverfill ==
    \A id \in DOMAIN orders \ RejectedIds : BookedUnder(id) =< MaxQuantity

(* oms/order_manager.py:157, "Poll broker fills and process resulting      *)
(* order updates": a fill is in the broker's queue or in the batch being   *)
(* processed until process_fill has been called with it.                   *)
PolledFillsAreProcessed ==
    \A e \in executions :
      \/ e.id \in fillIdsSeen
      \/ \E n \in DOMAIN fills : fills[n] = e
      \/ \E n \in DOMAIN batch : batch[n] = e
=============================================================================
