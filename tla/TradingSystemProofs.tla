------------------------- MODULE TradingSystemProofs -------------------------
(***************************************************************************)
(* What the order path guarantees for every value of its constants.  The   *)
(* first part is about the order manager alone, the second about its       *)
(* composition with the risk manager.                                      *)
(*                                                                         *)
(* StatusMatchesQuantity and OneOrderPerKey are not inductive: replace and *)
(* cancel store the broker's copy of an order, so the argument needs that  *)
(* the broker's copies are unfilled, and carry the request the order       *)
(* manager holds unless a call that raised brought them another one.       *)
(* BrokerCopies says so.                                                   *)
(*                                                                         *)
(* The sections of the first part: the invariant step by step; terminal    *)
(* orders; the two order stores; what is booked, as sums over the          *)
(* bookings; the refinement of the abstract order life cycle.  The second  *)
(* part shows that the composition still is an order manager, so that the  *)
(* first part holds of it, and that the limits of the risk manager hold of *)
(* what the broker receives.                                               *)
(***************************************************************************)
EXTENDS TradingSystem, DataTheorems

BrokerCopies ==
    /\ \A id \in DOMAIN brokerOrders :
         /\ brokerOrders[id].filled = 0
         /\ \/ brokerOrders[id].request.key \in lostKeys
            \/ id \in DOMAIN orders /\ brokerOrders[id].request = orders[id].request
    /\ \A id \in DOMAIN orders \ (RejectedIds \cup disputed) :
         /\ id \in DOMAIN brokerOrders
         /\ brokerOrders[id].request = orders[id].request

IInv == TypeOK /\ StatusMatchesQuantity /\ OneOrderPerKey /\ BrokerCopies

-----------------------------------------------------------------------------
(* Small facts about the data.                                             *)

LEMMA NewOrderType ==
  ASSUME NEW request \in OrderRequest, NEW status \in OrderStatus
  PROVE  NewOrder(request, status) \in Order
<1>1. 0 \in 0..MaxQuantity
  BY OrderManagerAssumption
<1> QED
  BY <1>1 DEF NewOrder, Order

LEMMA RejectedIdType ==
  ASSUME NEW key \in Keys
  PROVE  RejectedId(key) \in RejectedIds /\ RejectedId(key) \in OrderIds
BY DEF RejectedIds, OrderIds

LEMMA FillStatusType ==
  ASSUME NEW order, NEW fill
  PROVE  FillStatus(order, fill) \in {"PARTIALLY_FILLED", "FILLED"}
BY DEF FillStatus

LEMMA InitIInv == Init => IInv
<1> SUFFICES ASSUME Init PROVE IInv
  OBVIOUS
<1>1. DOMAIN orders = {} /\ DOMAIN brokerOrders = {}
  BY DEF Init, NoOrders
<1>2. TypeOK
  BY <1>1 DEF Init, TypeOK
<1> QED
  BY <1>1, <1>2 DEF IInv, StatusMatchesQuantity, OneOrderPerKey, BrokerCopies

-----------------------------------------------------------------------------
(* The steps: one lemma per operation of the order manager.                *)

(* Storing a rejected order under its own identifier.                      *)
LEMMA StoreRejectedIInv ==
  ASSUME IInv, NEW request \in OrderRequest, KeyIsFresh(request.key),
         StoreRejected(request)
  PROVE  IInv'
<1> DEFINE rid == RejectedId(request.key)
<1>1. request.key \in Keys
  BY DEF OrderRequest
<1>2. rid \in RejectedIds /\ rid \in OrderIds
  BY <1>1, RejectedIdType
<1>3. NewOrder(request, "REJECTED") \in Order
  BY NewOrderType DEF OrderStatus
<1>4. /\ DOMAIN orders' = DOMAIN orders \cup {rid}
      /\ \A id \in DOMAIN orders' :
           orders'[id] = IF id = rid THEN NewOrder(request, "REJECTED") ELSE orders[id]
  BY DEF StoreRejected, Put
<1>5. UNCHANGED <<fillIdsSeen, positions, booked, brokerOrders, issued,
                  lostKeys, disputed, fills, executions, batch>>
  BY DEF StoreRejected, brokerVars
<1>6. orderKeys' = orderKeys \cup {request.key}
  BY DEF StoreRejected
<1>7. TypeOK'
  BY <1>1, <1>2, <1>3, <1>4, <1>5, <1>6 DEF IInv, TypeOK
<1>8. StatusMatchesQuantity'
  BY <1>4, OrderManagerAssumption
     DEF IInv, TypeOK, StatusMatchesQuantity, NewOrder, OrderRequest
<1>9. OneOrderPerKey'
  BY <1>4, <1>5, <1>6 DEF IInv, OneOrderPerKey, NewOrder, KeyIsFresh
<1>10. BrokerCopies'
  <2>1. rid \notin DOMAIN brokerOrders
    BY <1>2, OrderManagerAssumption DEF IInv, TypeOK
  <2> QED
    BY <1>2, <1>4, <1>5, <2>1 DEF IInv, BrokerCopies
<1> QED
  BY <1>7, <1>8, <1>9, <1>10 DEF IInv

LEMMA CreateOrderIInv ==
  ASSUME IInv, NEW request \in OrderRequest, NEW allowed \in BOOLEAN,
         CreateOrder(request, allowed)
  PROVE  IInv'
<1>1. CASE ~allowed /\ StoreRejected(request)
  BY <1>1, StoreRejectedIInv DEF CreateOrder
<1>2. CASE allowed /\ ~StoreRejected(request)
  <2>1. PICK id \in BrokerIds :
          /\ BrokerSubmit(id, request)
          /\ orders' = Put(orders, id, NewOrder(request, "ACKNOWLEDGED"))
    BY <1>2 DEF CreateOrder
  <2>2. NewOrder(request, "ACKNOWLEDGED") \in Order
    BY NewOrderType DEF OrderStatus
  <2>3. /\ DOMAIN orders' = DOMAIN orders \cup {id}
        /\ \A x \in DOMAIN orders' :
             orders'[x] = IF x = id THEN NewOrder(request, "ACKNOWLEDGED")
                          ELSE orders[x]
    BY <2>1 DEF Put
  <2>4. /\ DOMAIN brokerOrders' = DOMAIN brokerOrders \cup {id}
        /\ \A x \in DOMAIN brokerOrders' :
             brokerOrders'[x] = IF x = id THEN NewOrder(request, "ACKNOWLEDGED")
                                ELSE brokerOrders[x]
        /\ id \notin issued
        /\ issued' = issued \cup {id}
    BY <2>1 DEF BrokerSubmit, Put
  <2>5. /\ KeyIsFresh(request.key)
        /\ orderKeys' = orderKeys \cup {request.key}
        /\ UNCHANGED <<fillIdsSeen, positions, booked, lostKeys, disputed, batch,
                       fills, executions>>
    BY <1>2, <2>1 DEF CreateOrder, BrokerSubmit
  <2>6. id \notin DOMAIN brokerOrders
    BY <2>4 DEF IInv, TypeOK
  <2>7. TypeOK'
    BY <2>2, <2>3, <2>4, <2>5 DEF IInv, TypeOK, OrderIds, OrderRequest
  <2>8. StatusMatchesQuantity'
    BY <2>3, OrderManagerAssumption
       DEF IInv, TypeOK, StatusMatchesQuantity, NewOrder, OrderRequest
  <2>9. OneOrderPerKey'
    BY <2>3, <2>5 DEF IInv, OneOrderPerKey, NewOrder, KeyIsFresh
  <2>10. BrokerCopies'
    BY <2>3, <2>4, <2>5, <2>6 DEF IInv, BrokerCopies, NewOrder
  <2> QED
    BY <2>7, <2>8, <2>9, <2>10 DEF IInv
<1>3. CASE allowed /\ StoreRejected(request)
  BY <1>3, StoreRejectedIInv DEF CreateOrder
<1> QED
  BY <1>1, <1>2, <1>3 DEF CreateOrder

LEMMA SubmitReplyLostIInv ==
  ASSUME IInv, NEW request \in OrderRequest, SubmitReplyLost(request)
  PROVE  IInv'
<1>1. PICK id \in BrokerIds :
        /\ BrokerSubmit(id, request)
        /\ disputed' = disputed \cup {id}
        /\ lostKeys' = lostKeys \cup {request.key}
  BY DEF SubmitReplyLost
<1>2. /\ DOMAIN brokerOrders' = DOMAIN brokerOrders \cup {id}
      /\ \A x \in DOMAIN brokerOrders' :
           brokerOrders'[x] = IF x = id THEN NewOrder(request, "ACKNOWLEDGED")
                              ELSE brokerOrders[x]
      /\ id \notin issued
      /\ issued' = issued \cup {id}
  BY <1>1 DEF BrokerSubmit, Put
<1>3. UNCHANGED <<orders, orderKeys, fillIdsSeen, positions, booked, batch,
                  fills, executions>>
  BY <1>1 DEF SubmitReplyLost, BrokerSubmit, omsVars
<1>4. NewOrder(request, "ACKNOWLEDGED") \in Order
  BY NewOrderType DEF OrderStatus
<1>5. TypeOK'
  BY <1>1, <1>2, <1>3, <1>4 DEF IInv, TypeOK, OrderRequest
<1>6. StatusMatchesQuantity' /\ OneOrderPerKey'
  BY <1>1, <1>3 DEF IInv, StatusMatchesQuantity, OneOrderPerKey
<1>7. BrokerCopies'
  BY <1>1, <1>2, <1>3 DEF IInv, TypeOK, BrokerCopies, NewOrder
<1> QED
  BY <1>5, <1>6, <1>7 DEF IInv

LEMMA ReplaceOrderIInv ==
  ASSUME IInv, NEW request \in OrderRequest, NEW allowed \in BOOLEAN,
         NEW id \in OrderIds, ReplaceOrder(id, request, allowed)
  PROVE  IInv'
<1>1. CASE StoreRejected(request)
  BY <1>1, StoreRejectedIInv DEF ReplaceOrder
<1>2. CASE ~StoreRejected(request)
  <2> DEFINE copy == [brokerOrders[id] EXCEPT !.request = request,
                                              !.status = "REPLACED"]
  <2>1. PICK new \in BrokerIds :
          /\ BrokerReplace(id, new, request)
          /\ orders' = Put(Without(orders, id), new, copy)
    BY <1>2 DEF ReplaceOrder
  <2>2. /\ id \in DOMAIN orders
        /\ id \in DOMAIN brokerOrders
        /\ new = id \/ new \notin issued
        /\ issued' = issued \cup {new}
    BY <2>1 DEF ReplaceOrder, BrokerReplace
  <2>3. /\ copy \in Order
        /\ copy.request = request
        /\ copy.status = "REPLACED"
        /\ copy.filled = 0
    BY <2>2 DEF IInv, TypeOK, BrokerCopies, Order, OrderStatus
  <2>4. /\ DOMAIN orders' = (DOMAIN orders \ {id}) \cup {new}
        /\ \A x \in DOMAIN orders' :
             orders'[x] = IF x = new THEN copy ELSE orders[x]
    BY <2>1 DEF Put, Without
  <2>5. /\ DOMAIN brokerOrders' = (DOMAIN brokerOrders \ {id}) \cup {new}
        /\ \A x \in DOMAIN brokerOrders' :
             brokerOrders'[x] = IF x = new THEN copy ELSE brokerOrders[x]
    BY <2>1 DEF BrokerReplace, Put, Without
  <2>6. /\ KeyIsFresh(request.key)
        /\ orderKeys' = orderKeys \cup {request.key}
        /\ disputed' = disputed \ {id}
        /\ UNCHANGED <<fillIdsSeen, positions, booked, lostKeys, batch,
                       fills, executions>>
    BY <1>2, <2>1 DEF ReplaceOrder, BrokerReplace
  <2> HIDE DEF copy
  <2>7. TypeOK'
    BY <2>2, <2>3, <2>4, <2>5, <2>6 DEF IInv, TypeOK, OrderIds, OrderRequest
  <2>8. StatusMatchesQuantity'
    BY <2>3, <2>4, OrderManagerAssumption
       DEF IInv, TypeOK, StatusMatchesQuantity, OrderRequest
  <2>9. OneOrderPerKey'
    BY <2>3, <2>4, <2>6 DEF IInv, OneOrderPerKey, KeyIsFresh
  <2>10. BrokerCopies'
    <3>1. ASSUME NEW x \in DOMAIN brokerOrders'
          PROVE  /\ brokerOrders'[x].filled = 0
                 /\ \/ brokerOrders'[x].request.key \in lostKeys'
                    \/ /\ x \in DOMAIN orders'
                       /\ brokerOrders'[x].request = orders'[x].request
      BY <3>1, <2>3, <2>4, <2>5, <2>6 DEF IInv, BrokerCopies
    <3>2. ASSUME NEW x \in DOMAIN orders' \ (RejectedIds \cup disputed')
          PROVE  /\ x \in DOMAIN brokerOrders'
                 /\ brokerOrders'[x].request = orders'[x].request
      BY <3>2, <2>3, <2>4, <2>5, <2>6 DEF IInv, BrokerCopies
    <3> QED
      BY <3>1, <3>2 DEF BrokerCopies
  <2> QED
    BY <2>7, <2>8, <2>9, <2>10 DEF IInv
<1> QED
  BY <1>1, <1>2

LEMMA ReplaceReplyLostIInv ==
  ASSUME IInv, NEW request \in OrderRequest, NEW id \in OrderIds,
         ReplaceReplyLost(id, request)
  PROVE  IInv'
<1> DEFINE copy == [brokerOrders[id] EXCEPT !.request = request,
                                            !.status = "REPLACED"]
<1>1. PICK new \in BrokerIds :
        /\ BrokerReplace(id, new, request)
        /\ disputed' = disputed \cup {id, new}
  BY DEF ReplaceReplyLost
<1>2. /\ id \in DOMAIN brokerOrders
      /\ issued' = issued \cup {new}
      /\ DOMAIN brokerOrders' = (DOMAIN brokerOrders \ {id}) \cup {new}
      /\ \A x \in DOMAIN brokerOrders' :
           brokerOrders'[x] = IF x = new THEN copy ELSE brokerOrders[x]
  BY <1>1 DEF BrokerReplace, Put, Without
<1>3. /\ lostKeys' = lostKeys \cup {request.key}
      /\ UNCHANGED <<orders, orderKeys, fillIdsSeen, positions, booked, batch,
                     fills, executions>>
  BY <1>1 DEF ReplaceReplyLost, BrokerReplace, omsVars
<1>4. copy \in Order /\ copy.request = request /\ copy.filled = 0
  BY <1>2 DEF IInv, TypeOK, BrokerCopies, Order, OrderStatus
<1> HIDE DEF copy
<1>5. TypeOK'
  BY <1>1, <1>2, <1>3, <1>4 DEF IInv, TypeOK, OrderRequest
<1>6. StatusMatchesQuantity' /\ OneOrderPerKey'
  BY <1>3 DEF IInv, StatusMatchesQuantity, OneOrderPerKey
<1>7. BrokerCopies'
  BY <1>1, <1>2, <1>3, <1>4 DEF IInv, BrokerCopies
<1> QED
  BY <1>5, <1>6, <1>7 DEF IInv

LEMMA CancelOrderIInv ==
  ASSUME IInv, NEW id \in OrderIds, CancelOrder(id)
  PROVE  IInv'
<1> DEFINE copy == [brokerOrders[id] EXCEPT !.status = "CANCELED"]
<1>1. /\ id \in DOMAIN orders
      /\ id \in DOMAIN brokerOrders
      /\ id \notin RejectedIds
  BY OrderManagerAssumption DEF CancelOrder, BrokerCancel, IInv, TypeOK
<1>2. /\ copy \in Order
      /\ copy.request = brokerOrders[id].request
      /\ copy.request.key \in lostKeys \/ copy.request = orders[id].request
      /\ copy.status = "CANCELED"
      /\ copy.filled = 0
  BY <1>1 DEF IInv, TypeOK, BrokerCopies, Order, OrderStatus
<1>3. /\ DOMAIN orders' = DOMAIN orders
      /\ \A x \in DOMAIN orders : orders'[x] = IF x = id THEN copy ELSE orders[x]
      /\ DOMAIN brokerOrders' = DOMAIN brokerOrders
      /\ \A x \in DOMAIN brokerOrders :
           brokerOrders'[x] = IF x = id THEN copy ELSE brokerOrders[x]
      /\ disputed' = disputed \ {id}
      /\ UNCHANGED <<orderKeys, fillIdsSeen, positions, booked, batch, issued,
                     lostKeys, fills, executions>>
  BY <1>1 DEF CancelOrder, BrokerCancel
<1> HIDE DEF copy
<1>4. TypeOK'
  BY <1>2, <1>3 DEF IInv, TypeOK
<1>. copy.request.quantity \in Nat /\ copy.request.quantity > 0
  BY <1>2, OrderManagerAssumption DEF Order, OrderRequest
<1>5. StatusMatchesQuantity'
  BY <1>2, <1>3 DEF IInv, StatusMatchesQuantity
<1>6. OneOrderPerKey'
  BY <1>1, <1>2, <1>3 DEF IInv, OneOrderPerKey
<1>7. BrokerCopies'
  BY <1>1, <1>2, <1>3 DEF IInv, BrokerCopies
<1> QED
  BY <1>4, <1>5, <1>6, <1>7 DEF IInv

LEMMA CancelReplyLostIInv ==
  ASSUME IInv, NEW id \in OrderIds, CancelReplyLost(id)
  PROVE  IInv'
<1> DEFINE copy == [brokerOrders[id] EXCEPT !.status = "CANCELED"]
<1>1. /\ id \in DOMAIN brokerOrders
      /\ DOMAIN brokerOrders' = DOMAIN brokerOrders
      /\ \A x \in DOMAIN brokerOrders :
           brokerOrders'[x] = IF x = id THEN copy ELSE brokerOrders[x]
      /\ disputed' = disputed \cup {id}
      /\ UNCHANGED <<orders, orderKeys, fillIdsSeen, positions, booked, batch,
                     issued, lostKeys, fills, executions>>
  BY DEF CancelReplyLost, BrokerCancel, omsVars
<1>2. copy \in Order /\ copy.request = brokerOrders[id].request /\ copy.filled = 0
  BY <1>1 DEF IInv, TypeOK, BrokerCopies, Order, OrderStatus
<1> HIDE DEF copy
<1>3. TypeOK'
  BY <1>1, <1>2 DEF IInv, TypeOK
<1>4. StatusMatchesQuantity' /\ OneOrderPerKey'
  BY <1>1 DEF IInv, StatusMatchesQuantity, OneOrderPerKey
<1>5. BrokerCopies'
  BY <1>1, <1>2 DEF IInv, BrokerCopies
<1> QED
  BY <1>3, <1>4, <1>5 DEF IInv

(* process_fill, on the path that books the fill.                          *)
LEMMA BookFillIInv ==
  ASSUME IInv, NEW fill \in TradeFill, Bookable(fill), BookFill(fill),
         UNCHANGED brokerVars, batch' \in Seq(TradeFill)
  PROVE  IInv'
<1> DEFINE order == orders[fill.order]
           after == [order EXCEPT !.filled = @ + fill.quantity,
                                  !.status = FillStatus(order, fill)]
<1>1. /\ fill.order \in DOMAIN orders
      /\ order.status \notin {"CANCELED", "REJECTED", "FILLED"}
      /\ order.filled + fill.quantity =< order.request.quantity
  BY DEF Bookable
<1>2. order \in Order
  BY <1>1 DEF IInv, TypeOK
<1>3. /\ order.filled \in 0..MaxQuantity
      /\ order.request.quantity \in 1..MaxQuantity
      /\ order.request \in OrderRequest
      /\ fill.quantity \in 1..MaxQuantity
      /\ fill.id \in FillIds
  BY <1>2 DEF Order, OrderRequest, TradeFill
<1>4. /\ order.filled + fill.quantity \in 0..MaxQuantity
      /\ order.filled + fill.quantity > 0
  BY <1>1, <1>3, OrderManagerAssumption
<1>5. FillStatus(order, fill) \in OrderStatus
  BY FillStatusType DEF OrderStatus
<1>6. /\ after \in Order
      /\ after.filled = order.filled + fill.quantity
      /\ after.status = FillStatus(order, fill)
      /\ after.request = order.request
  BY <1>2, <1>4, <1>5 DEF Order
<1>7. /\ DOMAIN orders' = DOMAIN orders
      /\ \A x \in DOMAIN orders :
           orders'[x] = IF x = fill.order THEN after ELSE orders[x]
  BY <1>1 DEF BookFill
<1>8. UNCHANGED <<orderKeys, brokerOrders, issued, lostKeys, disputed, fills, executions>>
  BY DEF BookFill, brokerVars
<1>9. booked' \subseteq Booking
  BY <1>3 DEF BookFill, IInv, TypeOK, Booking, OrderRequest
<1>10. positions' \in [Instruments -> Int]
  <2>1. /\ order.request.instrument \in Instruments
        /\ SignedQuantity(order.request.side, fill.quantity) \in Int
    BY <1>3, OrderManagerAssumption DEF OrderRequest, SignedQuantity
  <2> QED
    BY <2>1 DEF BookFill, IInv, TypeOK
<1>11. fillIdsSeen' \subseteq FillIds
  BY <1>3 DEF BookFill, IInv, TypeOK
<1> HIDE DEF after
<1>12. TypeOK'
  BY <1>6, <1>7, <1>8, <1>9, <1>10, <1>11 DEF IInv, TypeOK
<1>13. StatusMatchesQuantity'
  <2>1. /\ after.filled =< after.request.quantity
        /\ after.status = "FILLED" <=> after.filled = after.request.quantity
        /\ after.status = "PARTIALLY_FILLED" => after.filled > 0
    BY <1>1, <1>3, <1>4, <1>6, OrderManagerAssumption DEF FillStatus
  <2> QED
    BY <1>7, <2>1 DEF IInv, StatusMatchesQuantity
<1>14. OneOrderPerKey'
  BY <1>1, <1>6, <1>7, <1>8 DEF IInv, OneOrderPerKey
<1>15. BrokerCopies'
  BY <1>1, <1>6, <1>7, <1>8 DEF IInv, BrokerCopies
<1> QED
  BY <1>12, <1>13, <1>14, <1>15 DEF IInv

(* process_fill, on the path that raises: only a fill id is consumed.      *)
LEMMA RefuseFillIInv ==
  ASSUME IInv, NEW fill \in TradeFill, RefuseFill(fill),
         UNCHANGED brokerVars, batch' \in Seq(TradeFill)
  PROVE  IInv'
<1>1. UNCHANGED <<orders, orderKeys, positions, booked, brokerOrders, issued,
                  lostKeys, disputed, fills, executions>>
  BY DEF RefuseFill, brokerVars
<1>2. fillIdsSeen' \subseteq FillIds
  BY DEF RefuseFill, IInv, TypeOK, TradeFill
<1>3. TypeOK'
  BY <1>1, <1>2 DEF IInv, TypeOK
<1> QED
  BY <1>1, <1>3
     DEF IInv, StatusMatchesQuantity, OneOrderPerKey, BrokerCopies

LEMMA FillIsTyped ==
  ASSUME IInv, ~Idle
  PROVE  Head(batch) \in TradeFill /\ Tail(batch) \in Seq(TradeFill)
BY DEF IInv, TypeOK, Idle

LEMMA NextIInv == IInv /\ [Next]_vars => IInv'
<1> SUFFICES ASSUME IInv, [Next]_vars PROVE IInv'
  OBVIOUS
<1>1. CASE \E request \in OrderRequest, allowed \in BOOLEAN :
             CreateOrder(request, allowed)
  BY <1>1, CreateOrderIInv
<1>2. CASE \E request \in OrderRequest, allowed \in BOOLEAN, id \in OrderIds :
             ReplaceOrder(id, request, allowed)
  BY <1>2, ReplaceOrderIInv
<1>3. CASE \E request \in OrderRequest :
             \/ SubmitReplyLost(request)
             \/ \E id \in OrderIds : ReplaceReplyLost(id, request)
  BY <1>3, SubmitReplyLostIInv, ReplaceReplyLostIInv
<1>4. CASE \E id \in OrderIds : CancelOrder(id) \/ CancelReplyLost(id)
  BY <1>4, CancelOrderIInv, CancelReplyLostIInv
<1>5. CASE AddFill
  <2>1. UNCHANGED <<orders, orderKeys, fillIdsSeen, positions, booked,
                    brokerOrders, issued, lostKeys, disputed, batch>>
    BY <1>5 DEF AddFill
  <2>2. fills' \in Seq(TradeFill) /\ executions' \subseteq TradeFill
    BY <1>5 DEF AddFill, IInv, TypeOK
  <2>3. TypeOK'
    BY <2>1, <2>2 DEF IInv, TypeOK
  <2> QED
    BY <2>1, <2>3 DEF IInv, StatusMatchesQuantity, OneOrderPerKey, BrokerCopies
<1>6. CASE \E fill \in executions : ProcessFill(fill)
  <2>1. PICK fill \in executions : ProcessFill(fill)
    BY <1>6
  <2>2. /\ fill \in TradeFill
        /\ UNCHANGED brokerVars
        /\ batch' \in Seq(TradeFill)
    BY <2>1 DEF ProcessFill, IInv, TypeOK
  <2> QED
    BY <2>1, <2>2, BookFillIInv, RefuseFillIInv DEF ProcessFill
<1>7. CASE PollFills
  <2>1. UNCHANGED <<orders, orderKeys, fillIdsSeen, positions, booked,
                    brokerOrders, issued, lostKeys, disputed, executions>>
    BY <1>7 DEF PollFills, omsVars
  <2>2. fills' \in Seq(TradeFill) /\ batch' \in Seq(TradeFill)
    BY <1>7 DEF PollFills, IInv, TypeOK
  <2>3. TypeOK'
    BY <2>1, <2>2 DEF IInv, TypeOK
  <2> QED
    BY <2>1, <2>3 DEF IInv, StatusMatchesQuantity, OneOrderPerKey, BrokerCopies
<1>8. CASE ProcessPolledFill
  <2> DEFINE fill == Head(batch)
  <2>1. fill \in TradeFill /\ Tail(batch) \in Seq(TradeFill)
    BY <1>8, FillIsTyped DEF ProcessPolledFill
  <2>2. UNCHANGED brokerVars
    BY <1>8 DEF ProcessPolledFill
  <2>3. CASE Bookable(fill) /\ BookFill(fill) /\ batch' = Tail(batch)
    BY <2>1, <2>2, <2>3, BookFillIInv
  <2>4. CASE ~Bookable(fill) /\ RefuseFill(fill) /\ batch' = <<>>
    BY <2>1, <2>2, <2>4, RefuseFillIInv
  <2> QED
    BY <1>8, <2>3, <2>4 DEF ProcessPolledFill
<1>9. CASE UNCHANGED vars
  BY <1>9 DEF vars, IInv, TypeOK, StatusMatchesQuantity, OneOrderPerKey, BrokerCopies
<1> QED
  BY <1>1, <1>2, <1>3, <1>4, <1>5, <1>6, <1>7, <1>8, <1>9 DEF Next

-----------------------------------------------------------------------------
(* The strengthened invariant holds in every reachable state.              *)
THEOREM Invariance == Spec => []IInv
<1>1. Init => IInv
  BY InitIInv
<1>2. IInv /\ [Next]_vars => IInv'
  BY NextIInv
<1> QED
  BY <1>1, <1>2, PTL DEF Spec

(* Every reachable state is well typed: no operation stores an order, a    *)
(* position or a fill outside its type, an overfilled order included.      *)
THEOREM TypeCorrect == Spec => []TypeOK
BY Invariance, PTL DEF IInv

(* The status an order carries always agrees with how much of it is        *)
(* filled, over any sequence of creates, replaces, cancels and fills.      *)
THEOREM StatusAlwaysMatches == Spec => []StatusMatchesQuantity
BY Invariance, PTL DEF IInv

(* No idempotency key names two orders of the order manager, unless a call *)
(* with that key raised after the broker had acted.                        *)
THEOREM KeysAreUnique == Spec => []OneOrderPerKey
BY Invariance, PTL DEF IInv

-----------------------------------------------------------------------------
(* Terminal orders are frozen.  A step that stores an order may overwrite  *)
(* one only under an identifier already in use.  Broker identifiers are    *)
(* new by BrokerCopies and TypeOK; for the identifier of a refused request *)
(* the argument needs that the key the identifier is made of is consumed,  *)
(* so that KeyIsFresh excludes it: RejectedOrders.                         *)

RejectedOrders ==
    \A k \in Keys : RejectedId(k) \in DOMAIN orders =>
      /\ k \in orderKeys
      /\ orders[RejectedId(k)].status = "REJECTED"

(* What a step does to the orders and keys there are, and to the refused   *)
(* orders it adds.                                                         *)
Frozen ==
    \A id \in DOMAIN orders : orders[id].status \in Terminal =>
      id \in DOMAIN orders' /\ orders'[id] = orders[id]

FreshRejections ==
    /\ orderKeys \subseteq orderKeys'
    /\ \A k \in Keys :
         RejectedId(k) \in DOMAIN orders' /\ RejectedId(k) \notin DOMAIN orders =>
           /\ k \in orderKeys'
           /\ orders'[RejectedId(k)].status = "REJECTED"

LEMMA MovableIsNotTerminal ==
  ASSUME NEW current, NEW target, ValidTransition(current, target)
  PROVE  current \notin Terminal
BY DEF ValidTransition, Terminal

LEMMA TerminalStatuses == Terminal = {"FILLED", "CANCELED", "REJECTED"}
BY DEF Terminal, OrderStatus, AllowedTransitions

(* The order manager's orders under broker identifiers are ones the broker *)
(* has issued: an identifier never issued is new to the order manager.     *)
LEMMA RejectedIsTerminal == "REJECTED" \in Terminal
BY DEF Terminal, OrderStatus, AllowedTransitions

LEMMA RejectedIdInjective ==
  ASSUME NEW k1, NEW k2, RejectedId(k1) = RejectedId(k2)
  PROVE  k1 = k2
BY DEF RejectedId

(* Broker identifiers and those of refused requests do not meet.           *)
LEMMA BrokerIdsApart ==
  ASSUME NEW id \in BrokerIds, NEW k \in Keys
  PROVE  id # RejectedId(k)
BY OrderManagerAssumption DEF RejectedIds

LEMMA StoreRejectedFreezes ==
  ASSUME IInv, RejectedOrders, NEW request \in OrderRequest,
         KeyIsFresh(request.key), StoreRejected(request)
  PROVE  Frozen /\ FreshRejections
<1> DEFINE rid == RejectedId(request.key)
<1>1. request.key \in Keys
  BY DEF OrderRequest
<1>2. /\ DOMAIN orders' = DOMAIN orders \cup {rid}
      /\ \A id \in DOMAIN orders' :
           orders'[id] = IF id = rid THEN NewOrder(request, "REJECTED") ELSE orders[id]
      /\ orderKeys' = orderKeys \cup {request.key}
  BY DEF StoreRejected, Put
<1>3. rid \notin DOMAIN orders
  BY <1>1 DEF RejectedOrders, KeyIsFresh
<1>4. Frozen
  BY <1>2, <1>3 DEF Frozen
<1>5. FreshRejections
  BY <1>2, RejectedIdInjective DEF FreshRejections, NewOrder
<1> QED
  BY <1>4, <1>5

LEMMA CreateOrderFreezes ==
  ASSUME IInv, RejectedOrders, NEW request \in OrderRequest,
         NEW allowed \in BOOLEAN, CreateOrder(request, allowed)
  PROVE  Frozen /\ FreshRejections
<1>1. CASE StoreRejected(request)
  BY <1>1, StoreRejectedFreezes DEF CreateOrder
<1>2. CASE ~StoreRejected(request)
  <2>1. PICK id \in BrokerIds :
          /\ BrokerSubmit(id, request)
          /\ orders' = Put(orders, id, NewOrder(request, "ACKNOWLEDGED"))
    BY <1>2 DEF CreateOrder
  <2>2. /\ DOMAIN orders' = DOMAIN orders \cup {id}
        /\ \A x \in DOMAIN orders : x # id => orders'[x] = orders[x]
        /\ orderKeys \subseteq orderKeys'
    BY <1>2, <2>1 DEF CreateOrder, Put
  <2>3. \A k \in Keys : id # RejectedId(k)
    BY BrokerIdsApart
  <2>4. id \notin DOMAIN orders
    BY <2>1, <2>3 DEF BrokerSubmit, IInv, TypeOK, BrokerCopies, RejectedIds
  <2> QED
    BY <2>2, <2>3, <2>4 DEF Frozen, FreshRejections
<1> QED
  BY <1>1, <1>2

LEMMA ReplaceOrderFreezes ==
  ASSUME IInv, RejectedOrders, NEW request \in OrderRequest,
         NEW allowed \in BOOLEAN, NEW id \in OrderIds,
         ReplaceOrder(id, request, allowed)
  PROVE  Frozen /\ FreshRejections
<1>1. CASE StoreRejected(request)
  BY <1>1, StoreRejectedFreezes DEF ReplaceOrder
<1>2. CASE ~StoreRejected(request)
  <2> DEFINE copy == [brokerOrders[id] EXCEPT !.request = request,
                                              !.status = "REPLACED"]
  <2>1. PICK new \in BrokerIds :
          /\ BrokerReplace(id, new, request)
          /\ orders' = Put(Without(orders, id), new, copy)
    BY <1>2 DEF ReplaceOrder
  <2>2. /\ DOMAIN orders' = (DOMAIN orders \ {id}) \cup {new}
        /\ \A x \in DOMAIN orders : x # id /\ x # new => orders'[x] = orders[x]
        /\ orderKeys \subseteq orderKeys'
    BY <1>2, <2>1 DEF ReplaceOrder, Put, Without
  <2>3. \A k \in Keys : new # RejectedId(k)
    BY BrokerIdsApart
  <2>4. new = id \/ new \notin DOMAIN orders
    BY <2>1, <2>3 DEF BrokerReplace, IInv, TypeOK, BrokerCopies, RejectedIds
  <2>5. orders[id].status \notin Terminal
    BY MovableIsNotTerminal DEF ReplaceOrder
  <2> QED
    BY <2>2, <2>3, <2>4, <2>5 DEF Frozen, FreshRejections
<1> QED
  BY <1>1, <1>2

LEMMA CancelOrderFreezes ==
  ASSUME NEW id \in OrderIds, CancelOrder(id)
  PROVE  Frozen /\ FreshRejections
<1>1. /\ DOMAIN orders' = DOMAIN orders
      /\ \A x \in DOMAIN orders : x # id => orders'[x] = orders[x]
      /\ UNCHANGED orderKeys
  BY DEF CancelOrder
<1>2. orders[id].status \notin Terminal
  BY MovableIsNotTerminal DEF CancelOrder
<1> QED
  BY <1>1, <1>2 DEF Frozen, FreshRejections

LEMMA BookFillFreezes ==
  ASSUME NEW fill, Bookable(fill), BookFill(fill)
  PROVE  Frozen /\ FreshRejections
<1>1. /\ DOMAIN orders' = DOMAIN orders
      /\ \A x \in DOMAIN orders : x # fill.order => orders'[x] = orders[x]
      /\ UNCHANGED orderKeys
  BY DEF BookFill
<1>2. orders[fill.order].status \notin Terminal
  BY MovableIsNotTerminal DEF Bookable
<1> QED
  BY <1>1, <1>2 DEF Frozen, FreshRejections

LEMMA OtherStepsFreeze ==
  ASSUME UNCHANGED <<orders, orderKeys>>
  PROVE  Frozen /\ FreshRejections
BY DEF Frozen, FreshRejections

LEMMA NextFreezes ==
  ASSUME IInv, RejectedOrders, [Next]_vars
  PROVE  Frozen /\ FreshRejections
<1>1. CASE \E request \in OrderRequest, allowed \in BOOLEAN :
             CreateOrder(request, allowed)
  BY <1>1, CreateOrderFreezes
<1>2. CASE \E request \in OrderRequest, allowed \in BOOLEAN, id \in OrderIds :
             ReplaceOrder(id, request, allowed)
  BY <1>2, ReplaceOrderFreezes
<1>3. CASE \E request \in OrderRequest :
             \/ SubmitReplyLost(request)
             \/ \E id \in OrderIds : ReplaceReplyLost(id, request)
  BY <1>3, OtherStepsFreeze DEF SubmitReplyLost, ReplaceReplyLost, omsVars
<1>4. CASE \E id \in OrderIds : CancelOrder(id) \/ CancelReplyLost(id)
  BY <1>4, CancelOrderFreezes, OtherStepsFreeze DEF CancelReplyLost, omsVars
<1>5. CASE AddFill \/ PollFills \/ UNCHANGED vars
  BY <1>5, OtherStepsFreeze DEF AddFill, PollFills, omsVars, vars
<1>6. CASE \E fill \in executions : ProcessFill(fill)
  BY <1>6, BookFillFreezes, OtherStepsFreeze DEF ProcessFill, RefuseFill
<1>7. CASE ProcessPolledFill
  BY <1>7, BookFillFreezes, OtherStepsFreeze DEF ProcessPolledFill, RefuseFill
<1> QED
  BY <1>1, <1>2, <1>3, <1>4, <1>5, <1>6, <1>7 DEF Next

LEMMA RejectedOrdersInvariant == Spec => []RejectedOrders
<1>1. Init => RejectedOrders
  BY DEF Init, NoOrders, RejectedOrders
<1>2. IInv /\ RejectedOrders /\ [Next]_vars => RejectedOrders'
  <2> SUFFICES ASSUME IInv, RejectedOrders, [Next]_vars, NEW k \in Keys,
                      RejectedId(k) \in DOMAIN orders'
               PROVE  /\ k \in orderKeys'
                      /\ orders'[RejectedId(k)].status = "REJECTED"
    BY DEF RejectedOrders
  <2> Frozen /\ FreshRejections
    BY NextFreezes
  <2>1. CASE RejectedId(k) \in DOMAIN orders
    BY <2>1, RejectedIsTerminal DEF RejectedOrders, Frozen, FreshRejections
  <2>2. CASE RejectedId(k) \notin DOMAIN orders
    BY <2>2 DEF FreshRejections
  <2> QED
    BY <2>1, <2>2
<1> QED
  BY <1>1, <1>2, Invariance, PTL DEF Spec

(* No order that was filled, canceled or rejected ever changes or goes.    *)
THEOREM TerminalOrdersStay == Spec => TerminalOrdersAreFrozen
<1>1. IInv /\ RejectedOrders /\ [Next]_vars => [Frozen]_vars
  BY NextFreezes
<1>2. [Frozen]_vars =>
        [\A id \in DOMAIN orders : orders[id].status \in Terminal =>
           id \in DOMAIN orders' /\ orders'[id] = orders[id]]_vars
  BY DEF Frozen
<1> QED
  BY <1>1, <1>2, Invariance, RejectedOrdersInvariant, PTL
     DEF Spec, TerminalOrdersAreFrozen

-----------------------------------------------------------------------------
(* The two order stores agree.  Beyond BrokerCopies this needs the status  *)
(* on both sides and the orders only the broker knows, which are those     *)
(* whose last call raised.                                                 *)

CanceledTogether ==
    /\ \A id \in DOMAIN orders \ (RejectedIds \cup disputed) :
         orders[id].status = "CANCELED" <=> brokerOrders[id].status = "CANCELED"
    /\ DOMAIN brokerOrders \ disputed \subseteq DOMAIN orders

LEMMA StoreRejectedAgrees ==
  ASSUME CanceledTogether, NEW request \in OrderRequest, StoreRejected(request)
  PROVE  CanceledTogether'
<1> DEFINE rid == RejectedId(request.key)
<1>1. rid \in RejectedIds
  BY RejectedIdType DEF OrderRequest
<1>2. /\ DOMAIN orders' = DOMAIN orders \cup {rid}
      /\ \A id \in DOMAIN orders : id # rid => orders'[id] = orders[id]
      /\ UNCHANGED <<brokerOrders, disputed>>
  BY DEF StoreRejected, Put, brokerVars
<1> QED
  BY <1>1, <1>2 DEF CanceledTogether

LEMMA CreateOrderAgrees ==
  ASSUME IInv, CanceledTogether, NEW request \in OrderRequest,
         NEW allowed \in BOOLEAN, CreateOrder(request, allowed)
  PROVE  CanceledTogether'
<1>1. CASE StoreRejected(request)
  BY <1>1, StoreRejectedAgrees
<1>2. CASE ~StoreRejected(request)
  <2>1. PICK id \in BrokerIds :
          /\ BrokerSubmit(id, request)
          /\ orders' = Put(orders, id, NewOrder(request, "ACKNOWLEDGED"))
    BY <1>2 DEF CreateOrder
  <2>2. /\ DOMAIN orders' = DOMAIN orders \cup {id}
        /\ \A x \in DOMAIN orders' :
             orders'[x] = IF x = id THEN NewOrder(request, "ACKNOWLEDGED")
                          ELSE orders[x]
    BY <2>1 DEF Put
  <2>3. /\ DOMAIN brokerOrders' = DOMAIN brokerOrders \cup {id}
        /\ \A x \in DOMAIN brokerOrders' :
             brokerOrders'[x] = IF x = id THEN NewOrder(request, "ACKNOWLEDGED")
                                ELSE brokerOrders[x]
        /\ UNCHANGED disputed
    BY <1>2, <2>1 DEF CreateOrder, BrokerSubmit, Put
  <2>4. \A x \in DOMAIN orders \ (RejectedIds \cup disputed) : x \in DOMAIN brokerOrders
    BY DEF IInv, BrokerCopies
  <2> QED
    BY <2>2, <2>3, <2>4 DEF CanceledTogether
<1> QED
  BY <1>1, <1>2

LEMMA SubmitReplyLostAgrees ==
  ASSUME IInv, CanceledTogether, NEW request \in OrderRequest,
         SubmitReplyLost(request)
  PROVE  CanceledTogether'
<1>1. PICK id \in BrokerIds :
        BrokerSubmit(id, request) /\ disputed' = disputed \cup {id}
  BY DEF SubmitReplyLost
<1>2. /\ DOMAIN brokerOrders' = DOMAIN brokerOrders \cup {id}
      /\ \A x \in DOMAIN brokerOrders : x # id => brokerOrders'[x] = brokerOrders[x]
      /\ UNCHANGED orders
  BY <1>1 DEF SubmitReplyLost, BrokerSubmit, Put, omsVars
<1>3. id \notin DOMAIN brokerOrders
  BY <1>1 DEF BrokerSubmit, IInv, TypeOK
<1>4. \A x \in DOMAIN orders \ (RejectedIds \cup disputed) : x \in DOMAIN brokerOrders
  BY DEF IInv, BrokerCopies
<1> QED
  BY <1>1, <1>2, <1>3, <1>4 DEF CanceledTogether

LEMMA ReplaceOrderAgrees ==
  ASSUME IInv, CanceledTogether, NEW request \in OrderRequest,
         NEW allowed \in BOOLEAN, NEW id \in OrderIds,
         ReplaceOrder(id, request, allowed)
  PROVE  CanceledTogether'
<1>1. CASE StoreRejected(request)
  BY <1>1, StoreRejectedAgrees
<1>2. CASE ~StoreRejected(request)
  <2> DEFINE copy == [brokerOrders[id] EXCEPT !.request = request,
                                              !.status = "REPLACED"]
  <2>1. PICK new \in BrokerIds :
          /\ BrokerReplace(id, new, request)
          /\ orders' = Put(Without(orders, id), new, copy)
    BY <1>2 DEF ReplaceOrder
  <2>2. /\ DOMAIN orders' = (DOMAIN orders \ {id}) \cup {new}
        /\ \A x \in DOMAIN orders' :
             orders'[x] = IF x = new THEN copy ELSE orders[x]
    BY <2>1 DEF Put, Without
  <2>3. /\ DOMAIN brokerOrders' = (DOMAIN brokerOrders \ {id}) \cup {new}
        /\ \A x \in DOMAIN brokerOrders' :
             brokerOrders'[x] = IF x = new THEN copy ELSE brokerOrders[x]
        /\ disputed' = disputed \ {id}
    BY <1>2, <2>1 DEF ReplaceOrder, BrokerReplace, Put, Without
  <2>4. \A x \in DOMAIN orders \ (RejectedIds \cup disputed) : x \in DOMAIN brokerOrders
    BY DEF IInv, BrokerCopies
  <2> HIDE DEF copy
  <2> QED
    BY <2>2, <2>3, <2>4 DEF CanceledTogether
<1> QED
  BY <1>1, <1>2

LEMMA ReplaceReplyLostAgrees ==
  ASSUME IInv, CanceledTogether, NEW request \in OrderRequest,
         NEW id \in OrderIds, ReplaceReplyLost(id, request)
  PROVE  CanceledTogether'
<1>1. PICK new \in BrokerIds :
        /\ BrokerReplace(id, new, request)
        /\ disputed' = disputed \cup {id, new}
  BY DEF ReplaceReplyLost
<1>2. /\ DOMAIN brokerOrders' = (DOMAIN brokerOrders \ {id}) \cup {new}
      /\ \A x \in DOMAIN brokerOrders' :
           x # new => brokerOrders'[x] = brokerOrders[x]
      /\ UNCHANGED orders
  BY <1>1 DEF ReplaceReplyLost, BrokerReplace, Put, Without, omsVars
<1>3. \A x \in DOMAIN orders \ (RejectedIds \cup disputed) : x \in DOMAIN brokerOrders
  BY DEF IInv, BrokerCopies
<1> QED
  BY <1>1, <1>2, <1>3 DEF CanceledTogether

LEMMA CancelOrderAgrees ==
  ASSUME IInv, CanceledTogether, NEW id \in OrderIds, CancelOrder(id)
  PROVE  CanceledTogether'
<1> DEFINE copy == [brokerOrders[id] EXCEPT !.status = "CANCELED"]
<1>1. /\ id \in DOMAIN orders /\ id \in DOMAIN brokerOrders
      /\ DOMAIN orders' = DOMAIN orders
      /\ \A x \in DOMAIN orders : orders'[x] = IF x = id THEN copy ELSE orders[x]
      /\ DOMAIN brokerOrders' = DOMAIN brokerOrders
      /\ \A x \in DOMAIN brokerOrders :
           brokerOrders'[x] = IF x = id THEN copy ELSE brokerOrders[x]
      /\ disputed' = disputed \ {id}
  BY DEF CancelOrder, BrokerCancel
<1>2. \A x \in DOMAIN orders \ (RejectedIds \cup disputed) : x \in DOMAIN brokerOrders
  BY DEF IInv, BrokerCopies
<1> HIDE DEF copy
<1> QED
  BY <1>1, <1>2 DEF CanceledTogether

LEMMA CancelReplyLostAgrees ==
  ASSUME IInv, CanceledTogether, NEW id \in OrderIds, CancelReplyLost(id)
  PROVE  CanceledTogether'
<1>1. /\ DOMAIN brokerOrders' = DOMAIN brokerOrders
      /\ \A x \in DOMAIN brokerOrders : x # id => brokerOrders'[x] = brokerOrders[x]
      /\ disputed' = disputed \cup {id}
      /\ UNCHANGED orders
  BY DEF CancelReplyLost, BrokerCancel, omsVars
<1>2. \A x \in DOMAIN orders \ (RejectedIds \cup disputed) : x \in DOMAIN brokerOrders
  BY DEF IInv, BrokerCopies
<1>3. ASSUME NEW x \in DOMAIN orders' \ (RejectedIds \cup disputed')
      PROVE  orders'[x].status = "CANCELED" <=> brokerOrders'[x].status = "CANCELED"
  <2>1. /\ x \in DOMAIN orders \ (RejectedIds \cup disputed)
        /\ x # id
        /\ orders'[x] = orders[x]
    BY <1>1, <1>3
  <2>2. brokerOrders'[x] = brokerOrders[x]
    BY <1>1, <1>2, <2>1
  <2> QED
    BY <2>1, <2>2 DEF CanceledTogether
<1>4. DOMAIN brokerOrders' \ disputed' \subseteq DOMAIN orders'
  BY <1>1 DEF CanceledTogether
<1> QED
  BY <1>3, <1>4 DEF CanceledTogether

(* A fill books only on an order that is not canceled, and leaves it so.   *)
LEMMA BookFillAgrees ==
  ASSUME IInv, CanceledTogether, NEW fill, Bookable(fill), BookFill(fill),
         UNCHANGED brokerVars
  PROVE  CanceledTogether'
<1>1. /\ DOMAIN orders' = DOMAIN orders
      /\ \A x \in DOMAIN orders : x # fill.order => orders'[x] = orders[x]
      /\ UNCHANGED <<brokerOrders, disputed>>
  BY DEF BookFill, brokerVars
<1>2. /\ orders[fill.order].status # "CANCELED"
      /\ fill.order \in DOMAIN orders
  BY DEF Bookable
<1>3. orders'[fill.order].status = FillStatus(orders[fill.order], fill)
  BY <1>2 DEF BookFill, IInv, TypeOK, Order
<1>4. orders'[fill.order].status # "CANCELED"
  BY <1>3, FillStatusType
<1> QED
  BY <1>1, <1>2, <1>4 DEF CanceledTogether

LEMMA NextAgrees ==
  ASSUME IInv, CanceledTogether, [Next]_vars
  PROVE  CanceledTogether'
<1>1. CASE \E request \in OrderRequest, allowed \in BOOLEAN :
             CreateOrder(request, allowed)
  BY <1>1, CreateOrderAgrees
<1>2. CASE \E request \in OrderRequest, allowed \in BOOLEAN, id \in OrderIds :
             ReplaceOrder(id, request, allowed)
  BY <1>2, ReplaceOrderAgrees
<1>3. CASE \E request \in OrderRequest :
             \/ SubmitReplyLost(request)
             \/ \E id \in OrderIds : ReplaceReplyLost(id, request)
  BY <1>3, SubmitReplyLostAgrees, ReplaceReplyLostAgrees
<1>4. CASE \E id \in OrderIds : CancelOrder(id) \/ CancelReplyLost(id)
  BY <1>4, CancelOrderAgrees, CancelReplyLostAgrees
<1>5. CASE UNCHANGED <<orders, brokerOrders, disputed>>
  BY <1>5 DEF CanceledTogether
<1>6. CASE AddFill \/ PollFills \/ UNCHANGED vars
  BY <1>5, <1>6 DEF AddFill, PollFills, omsVars, vars
<1>7. CASE \E fill \in executions : ProcessFill(fill)
  BY <1>5, <1>7, BookFillAgrees DEF ProcessFill, RefuseFill, brokerVars
<1>8. CASE ProcessPolledFill
  BY <1>5, <1>8, BookFillAgrees DEF ProcessPolledFill, RefuseFill, brokerVars
<1> QED
  BY <1>1, <1>2, <1>3, <1>4, <1>6, <1>7, <1>8 DEF Next

(* Order manager and broker agree on every order they share, and the       *)
(* broker works no other, but for orders whose last call raised.           *)
THEOREM StoresAgree == Spec => []BrokerAgrees
<1>1. Init => CanceledTogether
  BY DEF Init, NoOrders, CanceledTogether
<1>2. IInv /\ CanceledTogether /\ [Next]_vars => CanceledTogether'
  BY NextAgrees
<1>3. IInv /\ CanceledTogether => BrokerAgrees
  BY DEF IInv, BrokerCopies, CanceledTogether, BrokerAgrees
<1> QED
  BY <1>1, <1>2, <1>3, Invariance, PTL DEF Spec

(* No key is submitted twice unless a call with it raised at the caller:   *)
(* a broker order with any other key is the order manager's under the same *)
(* identifier, and the order manager's keys are unique.                    *)
THEOREM KeysAreSubmittedOnce == Spec => []KeysSubmittedOnce
<1>1. IInv => KeysSubmittedOnce
  <2> SUFFICES ASSUME IInv,
                      NEW id1 \in DOMAIN brokerOrders,
                      NEW id2 \in DOMAIN brokerOrders,
                      brokerOrders[id1].request.key = brokerOrders[id2].request.key,
                      brokerOrders[id1].request.key \notin lostKeys
               PROVE  id1 = id2
    BY DEF KeysSubmittedOnce
  <2>1. /\ id1 \in DOMAIN orders /\ brokerOrders[id1].request = orders[id1].request
        /\ id2 \in DOMAIN orders /\ brokerOrders[id2].request = orders[id2].request
    BY DEF IInv, BrokerCopies
  <2> QED
    BY <2>1 DEF IInv, OneOrderPerKey
<1> QED
  BY <1>1, Invariance, PTL

-----------------------------------------------------------------------------
(* What is booked.  A fill is booked once, because its id is consumed with *)
(* the booking; so each booking adds its quantity to one position, and to  *)
(* what is booked for one request.  That this stays within the request     *)
(* needs its connection to the order: as long as an order is live, the     *)
(* bookings for its request are no more than the order's filled quantity,  *)
(* no other live order shares its key, and a request with a fresh key has  *)
(* no bookings yet.                                                        *)

BookedAmount(request) == SumFunctionOnSet(BookedQuantity, BookedFor(request))

BookingsAreNew ==
    /\ IsFiniteSet(booked)
    /\ \A b \in booked : b.fill.id \in fillIdsSeen /\ b.request.key \in orderKeys

LiveOrdersCover ==
    /\ \A id \in LiveIds :
         /\ orders[id].request.key \in orderKeys
         /\ BookedAmount(orders[id].request) =< orders[id].filled
    /\ \A id1, id2 \in LiveIds :
         orders[id1].request.key = orders[id2].request.key => id1 = id2

BookingInv ==
    /\ BookingsAreNew
    /\ LiveOrdersCover
    /\ PositionsAreBookedFills
    /\ RequestsAreNotOverfilled

(* What a step without a booking does to the live orders: one of them may  *)
(* be new, or have a new request; its key was fresh then.                  *)
LiveOrdersCarried(new) ==
    \A id \in LiveIds' :
      \/ id \in LiveIds /\ orders'[id] = orders[id]
      \/ /\ id = new
         /\ orders'[id].request.key \in orderKeys' \ orderKeys
         /\ orders'[id].filled = 0

NothingBooked(new) ==
    /\ UNCHANGED <<booked, positions>>
    /\ fillIdsSeen \subseteq fillIdsSeen'
    /\ orderKeys \subseteq orderKeys'
    /\ LiveOrdersCarried(new)

(* Such a step keeps what is known of the bookings.                        *)
LEMMA NothingBookedKeeps ==
  ASSUME BookingInv, NEW new, NothingBooked(new)
  PROVE  BookingInv'
<1>1. \A r : BookedFor(r)' = BookedFor(r)
  BY DEF NothingBooked, BookedFor
<1>2. \A i : BookedIn(i)' = BookedIn(i)
  BY DEF NothingBooked, BookedIn
<1>3. BookingsAreNew'
  BY DEF NothingBooked, BookingInv, BookingsAreNew
<1>4. PositionsAreBookedFills'
  BY <1>2 DEF NothingBooked, BookingInv, PositionsAreBookedFills
<1>5. RequestsAreNotOverfilled'
  BY <1>1 DEF NothingBooked, BookingInv, RequestsAreNotOverfilled
<1>6. ASSUME NEW id \in LiveIds', NEW r, r = orders'[id].request
      PROVE  r.key \in orderKeys' /\ BookedAmount(r)' =< orders'[id].filled
  <2>1. BookedAmount(r)' = BookedAmount(r)
    BY <1>1 DEF BookedAmount
  <2>2. CASE id \in LiveIds /\ orders'[id] = orders[id]
    BY <1>6, <2>1, <2>2 DEF NothingBooked, BookingInv, LiveOrdersCover
  <2>3. CASE r.key \in orderKeys' \ orderKeys /\ orders'[id].filled = 0
    <3>1. BookedFor(r) = {}
      BY <2>3 DEF BookedFor, BookingInv, BookingsAreNew
    <3> QED
      BY <2>1, <2>3, <3>1, SumOfEmpty DEF BookedAmount
  <2> QED
    BY <1>6, <2>2, <2>3 DEF NothingBooked, LiveOrdersCarried
<1>7. ASSUME NEW id1 \in LiveIds', NEW id2 \in LiveIds',
             orders'[id1].request.key = orders'[id2].request.key
      PROVE  id1 = id2
  BY <1>7 DEF NothingBooked, LiveOrdersCarried, BookingInv, LiveOrdersCover
<1>8. LiveOrdersCover'
  BY <1>6, <1>7 DEF LiveOrdersCover, BookedAmount, BookedFor
<1> QED
  BY <1>3, <1>4, <1>5, <1>8 DEF BookingInv

(* A fill that books adds one booking, covered by the order it fills.      *)
LEMMA BookFillKeeps ==
  ASSUME IInv, BookingInv, NEW fill \in TradeFill, Bookable(fill), BookFill(fill)
  PROVE  BookingInv'
<1> DEFINE order == orders[fill.order]
           request == order.request
           b == [fill |-> fill, request |-> request]
<1>1. /\ fill.id \notin fillIdsSeen
      /\ fill.order \in LiveIds
      /\ order.filled + fill.quantity =< request.quantity
  BY MovableIsNotTerminal DEF Bookable, LiveIds
<1>2. order \in Order
  BY <1>1 DEF LiveIds, IInv, TypeOK
<1>3. /\ request \in OrderRequest
      /\ order.filled \in Nat
      /\ request.quantity \in Nat
      /\ request.instrument \in Instruments
      /\ fill.quantity \in Nat
  BY <1>2, OrderManagerAssumption DEF Order, OrderRequest, TradeFill
<1>4. b \in Booking /\ b \notin booked /\ b.request = request /\ b.fill = fill
  BY <1>1, <1>3 DEF Booking, BookingInv, BookingsAreNew
<1>5. /\ booked' = booked \cup {b}
      /\ fillIdsSeen' = fillIdsSeen \cup {fill.id}
      /\ orderKeys' = orderKeys
      /\ DOMAIN orders' = DOMAIN orders
      /\ \A id \in DOMAIN orders : id # fill.order => orders'[id] = orders[id]
      /\ orders'[fill.order].request = request
      /\ orders'[fill.order].filled = order.filled + fill.quantity
  BY <1>1, <1>2 DEF BookFill, Order, LiveIds
<1>6. positions' = [positions EXCEPT ![request.instrument] =
                      @ + SignedQuantity(request.side, fill.quantity)]
  BY DEF BookFill
<1>7. /\ BookedQuantity[b] = fill.quantity
      /\ BookedMove[b] = SignedQuantity(request.side, fill.quantity)
  BY <1>4 DEF BookedQuantity, BookedMove
<1>8. \A y \in booked \cup {b} : BookedQuantity[y] \in Int /\ BookedMove[y] \in Int
  BY <1>4 DEF IInv, TypeOK, BookedQuantity, BookedMove, Booking, TradeFill, SignedQuantity
<1> HIDE DEF b
<1>9. IsFiniteSet(booked)
  BY DEF BookingInv, BookingsAreNew
(* Only the sums over the bookings of this request and instrument change.  *)
<1>10. ASSUME NEW r
       PROVE  /\ BookedAmount(r) \in Int
              /\ BookedAmount(r)' = BookedAmount(r) + IF r = request THEN fill.quantity ELSE 0
  <2>1. IsFiniteSet(BookedFor(r)) /\ b \notin BookedFor(r)
    BY <1>4, <1>9, FS_Subset DEF BookedFor
  <2>2. /\ SumFunctionOnSet(BookedQuantity, BookedFor(r)) \in Int
        /\ SumFunctionOnSet(BookedQuantity, BookedFor(r) \cup {b}) =
             SumFunctionOnSet(BookedQuantity, BookedFor(r)) + fill.quantity
    <3>1. \A y \in BookedFor(r) \cup {b} : BookedQuantity[y] \in Int
      BY <1>8 DEF BookedFor
    <3> QED
      BY <1>7, <2>1, <3>1, SumAdds
  <2>3. BookedFor(r)' = IF r = request THEN BookedFor(r) \cup {b} ELSE BookedFor(r)
    BY <1>4, <1>5 DEF BookedFor
  <2> QED
    BY <2>2, <2>3 DEF BookedAmount
<1>11. ASSUME NEW i \in Instruments
       PROVE  positions'[i] = SumFunctionOnSet(BookedMove, BookedIn(i))'
  <2>1. IsFiniteSet(BookedIn(i)) /\ b \notin BookedIn(i)
    BY <1>4, <1>9, FS_Subset DEF BookedIn
  <2>2. /\ SumFunctionOnSet(BookedMove, BookedIn(i)) \in Int
        /\ SumFunctionOnSet(BookedMove, BookedIn(i) \cup {b}) =
             SumFunctionOnSet(BookedMove, BookedIn(i))
               + SignedQuantity(request.side, fill.quantity)
    <3>1. \A y \in BookedIn(i) \cup {b} : BookedMove[y] \in Int
      BY <1>8 DEF BookedIn
    <3> QED
      BY <1>7, <2>1, <3>1, SumAdds
  <2>3. BookedIn(i)' = IF i = request.instrument THEN BookedIn(i) \cup {b} ELSE BookedIn(i)
    BY <1>4, <1>5 DEF BookedIn
  <2>4. positions[i] = SumFunctionOnSet(BookedMove, BookedIn(i))
    BY DEF BookingInv, PositionsAreBookedFills
  <2>5. positions'[i] = IF i = request.instrument
                          THEN positions[i] + SignedQuantity(request.side, fill.quantity)
                          ELSE positions[i]
    BY <1>6 DEF IInv, TypeOK
  <2> QED
    BY <2>2, <2>3, <2>4, <2>5
<1>12. BookingsAreNew'
  <2>1. request.key \in orderKeys
    BY <1>1 DEF BookingInv, LiveOrdersCover
  <2> QED
    BY <1>4, <1>5, <1>9, <2>1, FS_AddElement DEF BookingInv, BookingsAreNew
<1>13. PositionsAreBookedFills'
  BY <1>11 DEF PositionsAreBookedFills
(* The order's filled quantity covers the booking, and the request covers it. *)
<1>14. BookedAmount(request) =< order.filled
  BY <1>1 DEF BookingInv, LiveOrdersCover
<1>15. RequestsAreNotOverfilled'
  <2>1. ASSUME NEW c \in booked' PROVE BookedAmount(c.request)' =< c.request.quantity
    <3>1. CASE c.request = request
      BY <1>1, <1>3, <1>10, <1>14, <3>1
    <3>2. CASE c.request # request
      <4>1. c \in booked
        BY <1>4, <1>5, <2>1, <3>2
      <4>2. BookedAmount(c.request) =< c.request.quantity
        BY <4>1 DEF BookingInv, RequestsAreNotOverfilled, BookedAmount
      <4> QED
        BY <1>10, <3>2, <4>2
    <3> QED
      BY <3>1, <3>2
  <2> QED
    BY <2>1 DEF RequestsAreNotOverfilled, BookedAmount
<1>16. LiveIds' \subseteq LiveIds
  BY <1>1, <1>5 DEF LiveIds
<1>17. ASSUME NEW id \in LiveIds', NEW r, r = orders'[id].request
       PROVE  r.key \in orderKeys' /\ BookedAmount(r)' =< orders'[id].filled
  <2>1. CASE id = fill.order
    BY <1>1, <1>3, <1>5, <1>10, <1>14, <1>17, <2>1 DEF BookingInv, LiveOrdersCover
  <2>2. CASE id # fill.order
    <3>1. id \in LiveIds /\ r = orders[id].request /\ orders'[id] = orders[id]
      BY <1>5, <1>16, <1>17, <2>2 DEF LiveIds
    <3>2. r # request
      BY <1>1, <2>2, <3>1 DEF BookingInv, LiveOrdersCover
    <3>3. r.key \in orderKeys /\ BookedAmount(r) =< orders[id].filled
      BY <3>1 DEF BookingInv, LiveOrdersCover
    <3> QED
      BY <1>5, <1>10, <3>1, <3>2, <3>3
  <2> QED
    BY <2>1, <2>2
<1>18. ASSUME NEW id1 \in LiveIds', NEW id2 \in LiveIds',
              orders'[id1].request.key = orders'[id2].request.key
       PROVE  id1 = id2
  <2>1. \A id \in LiveIds' : orders'[id].request = orders[id].request
    BY <1>5, <1>16 DEF LiveIds
  <2> QED
    BY <1>16, <1>18, <2>1 DEF BookingInv, LiveOrdersCover
<1>19. LiveOrdersCover'
  BY <1>17, <1>18 DEF LiveOrdersCover, BookedAmount, BookedFor
<1> QED
  BY <1>12, <1>13, <1>15, <1>19 DEF BookingInv

LEMMA UnchangedOrdersBookNothing ==
  ASSUME UNCHANGED <<orders, orderKeys, positions, booked>>,
         fillIdsSeen \subseteq fillIdsSeen'
  PROVE  NothingBooked(0)
BY DEF NothingBooked, LiveOrdersCarried, LiveIds

LEMMA StoreRejectedBooksNothing ==
  ASSUME NEW request \in OrderRequest, StoreRejected(request)
  PROVE  NothingBooked(0)
<1> DEFINE rid == RejectedId(request.key)
<1>1. /\ DOMAIN orders' = DOMAIN orders \cup {rid}
      /\ \A id \in DOMAIN orders' :
           orders'[id] = IF id = rid THEN NewOrder(request, "REJECTED") ELSE orders[id]
  BY DEF StoreRejected, Put
<1>2. rid \notin LiveIds'
  BY <1>1, RejectedIsTerminal DEF LiveIds, NewOrder
<1>3. LiveOrdersCarried(0)
  BY <1>1, <1>2 DEF LiveOrdersCarried, LiveIds
<1> QED
  BY <1>3 DEF NothingBooked, StoreRejected

LEMMA CreateOrderKeeps ==
  ASSUME BookingInv, NEW request \in OrderRequest, NEW allowed \in BOOLEAN,
         CreateOrder(request, allowed)
  PROVE  BookingInv'
<1>1. CASE StoreRejected(request)
  BY <1>1, StoreRejectedBooksNothing, NothingBookedKeeps
<1>2. CASE ~StoreRejected(request)
  <2>1. PICK new \in BrokerIds :
          orders' = Put(orders, new, NewOrder(request, "ACKNOWLEDGED"))
    BY <1>2 DEF CreateOrder
  <2>2. /\ request.key \notin orderKeys
        /\ orderKeys' = orderKeys \cup {request.key}
        /\ UNCHANGED <<fillIdsSeen, positions, booked>>
    BY <1>2 DEF CreateOrder, KeyIsFresh
  <2>3. LiveOrdersCarried(new)
    BY <2>1, <2>2 DEF LiveOrdersCarried, LiveIds, Put, NewOrder
  <2> QED
    BY <2>2, <2>3, NothingBookedKeeps DEF NothingBooked
<1> QED
  BY <1>1, <1>2

LEMMA ReplaceOrderKeeps ==
  ASSUME IInv, BookingInv, NEW request \in OrderRequest, NEW allowed \in BOOLEAN,
         NEW id \in OrderIds, ReplaceOrder(id, request, allowed)
  PROVE  BookingInv'
<1>1. CASE StoreRejected(request)
  BY <1>1, StoreRejectedBooksNothing, NothingBookedKeeps
<1>2. CASE ~StoreRejected(request)
  <2> DEFINE copy == [brokerOrders[id] EXCEPT !.request = request,
                                              !.status = "REPLACED"]
  <2>1. PICK new \in BrokerIds :
          /\ BrokerReplace(id, new, request)
          /\ orders' = Put(Without(orders, id), new, copy)
    BY <1>2 DEF ReplaceOrder
  <2>2. id \in DOMAIN brokerOrders
    BY <2>1 DEF BrokerReplace
  <2>3. copy.request = request /\ copy.filled = 0
    BY <2>2 DEF IInv, TypeOK, BrokerCopies, Order
  <2>4. /\ request.key \notin orderKeys
        /\ orderKeys' = orderKeys \cup {request.key}
        /\ UNCHANGED <<fillIdsSeen, positions, booked>>
    BY <1>2 DEF ReplaceOrder, KeyIsFresh
  <2>5. /\ DOMAIN orders' = (DOMAIN orders \ {id}) \cup {new}
        /\ \A x \in DOMAIN orders' : orders'[x] = IF x = new THEN copy ELSE orders[x]
    BY <2>1 DEF Put, Without
  <2> HIDE DEF copy
  <2>6. LiveOrdersCarried(new)
    BY <2>3, <2>4, <2>5 DEF LiveOrdersCarried, LiveIds
  <2> QED
    BY <2>4, <2>6, NothingBookedKeeps DEF NothingBooked
<1> QED
  BY <1>1, <1>2

(* What a cancel stores is terminal, whatever key the broker's copy has.   *)
LEMMA CancelOrderKeeps ==
  ASSUME IInv, BookingInv, NEW id \in OrderIds, CancelOrder(id)
  PROVE  BookingInv'
<1>1. /\ DOMAIN orders' = DOMAIN orders
      /\ \A x \in DOMAIN orders : x # id => orders'[x] = orders[x]
      /\ UNCHANGED <<orderKeys, fillIdsSeen, positions, booked>>
  BY DEF CancelOrder
<1>2. orders'[id].status = "CANCELED"
  BY DEF CancelOrder, BrokerCancel, IInv, TypeOK, Order
<1>3. LiveOrdersCarried(0)
  BY <1>1, <1>2, TerminalStatuses DEF LiveOrdersCarried, LiveIds
<1> QED
  BY <1>1, <1>3, NothingBookedKeeps DEF NothingBooked

LEMMA NextKeepsBookings ==
  ASSUME IInv, BookingInv, [Next]_vars
  PROVE  BookingInv'
<1>1. CASE \E request \in OrderRequest, allowed \in BOOLEAN :
             CreateOrder(request, allowed)
  BY <1>1, CreateOrderKeeps
<1>2. CASE \E request \in OrderRequest, allowed \in BOOLEAN, id \in OrderIds :
             ReplaceOrder(id, request, allowed)
  BY <1>2, ReplaceOrderKeeps
<1>3. CASE \E id \in OrderIds : CancelOrder(id)
  BY <1>3, CancelOrderKeeps
<1>4. CASE /\ UNCHANGED <<orders, orderKeys, positions, booked>>
           /\ fillIdsSeen \subseteq fillIdsSeen'
  BY <1>4, UnchangedOrdersBookNothing, NothingBookedKeeps
<1>5. CASE \/ \E request \in OrderRequest :
                \/ SubmitReplyLost(request)
                \/ \E id \in OrderIds : ReplaceReplyLost(id, request)
           \/ \E id \in OrderIds : CancelReplyLost(id)
  BY <1>4, <1>5 DEF SubmitReplyLost, ReplaceReplyLost, CancelReplyLost, omsVars
<1>6. CASE AddFill \/ PollFills \/ UNCHANGED vars
  BY <1>4, <1>6 DEF AddFill, PollFills, omsVars, vars
<1>7. CASE \E fill \in executions : ProcessFill(fill)
  <2>1. executions \subseteq TradeFill
    BY DEF IInv, TypeOK
  <2> QED
    BY <1>4, <1>7, <2>1, BookFillKeeps DEF ProcessFill, RefuseFill
<1>8. CASE ProcessPolledFill
  <2>1. Head(batch) \in TradeFill
    BY <1>8, FillIsTyped DEF ProcessPolledFill
  <2> QED
    BY <1>4, <1>8, <2>1, BookFillKeeps DEF ProcessPolledFill, RefuseFill
<1> QED
  BY <1>1, <1>2, <1>3, <1>5, <1>6, <1>7, <1>8 DEF Next

LEMMA InitBookings == Init => BookingInv
<1> SUFFICES ASSUME Init PROVE BookingInv
  OBVIOUS
<1>1. /\ booked = {} /\ positions = [i \in Instruments |-> 0]
      /\ LiveIds = {}
  BY DEF Init, NoOrders, LiveIds
<1>2. PositionsAreBookedFills
  <2>1. \A i : BookedIn(i) = {}
    BY <1>1 DEF BookedIn
  <2> QED
    BY <1>1, <2>1, SumOfEmpty DEF PositionsAreBookedFills
<1> QED
  BY <1>1, <1>2, FS_EmptySet
     DEF BookingInv, BookingsAreNew, LiveOrdersCover, RequestsAreNotOverfilled

LEMMA BookingInvariance == Spec => []BookingInv
BY InitBookings, NextKeepsBookings, Invariance, PTL DEF Spec

(* However process_fill and refresh_fills are mixed and whatever raises,   *)
(* the position book is the sum of the fills booked, each exactly once.    *)
THEOREM PositionsAreFills == Spec => []PositionsAreBookedFills
BY BookingInvariance, PTL DEF BookingInv

(* No request has more booked than it asked for: neither replaces nor late *)
(* fills nor orders canceled by the broker's copy let one through.         *)
THEOREM NoRequestOverfilled == Spec => []RequestsAreNotOverfilled
BY BookingInvariance, PTL DEF BookingInv

-----------------------------------------------------------------------------
(* OrderManager implements OrderLifecycle: its initial state is an initial *)
(* state there, and each of its steps is a step there or changes nothing   *)
(* there.                                                                  *)
(*                                                                         *)
(*   a refusal            Refuse      create_order          Accept         *)
(*   replace_order        Amend       cancel_order          Close          *)
(*   a fill that books    Execute     everything else       no change      *)
(*                                                                         *)
(* The invariants above carry it: an identifier is new on both sides       *)
(* (BrokerCopies, RejectedOrders), a replaced order wants all of its new   *)
(* quantity because the broker's copy is unfilled (BrokerCopies), and an   *)
(* order is terminal exactly when nothing of it is left or nobody wants it *)
(* any more (StatusMatchesQuantity).                                       *)

LEMMA UnissuedIsNew ==
  ASSUME IInv, NEW id \in BrokerIds, id \notin issued
  PROVE  id \notin DOMAIN orders
BY OrderManagerAssumption DEF IInv, TypeOK, BrokerCopies, RejectedIds

LEMMA WantedByType ==
  ASSUME IInv, NEW id \in LiveIds
  PROVE  WantedBy(orders[id]).left \in 1..MaxQuantity
<1>1. /\ orders[id] \in Order
      /\ orders[id].status \notin Terminal
  BY DEF LiveIds, IInv, TypeOK
<1>2. /\ orders[id].filled \in 0..MaxQuantity
      /\ orders[id].request.quantity \in 1..MaxQuantity
  BY <1>1 DEF Order, OrderRequest
<1>3. /\ orders[id].filled =< orders[id].request.quantity
      /\ orders[id].filled # orders[id].request.quantity
  BY <1>1, TerminalStatuses DEF IInv, StatusMatchesQuantity, LiveIds
<1> QED
  BY <1>2, <1>3, OrderManagerAssumption DEF WantedBy

(* What a request wants before anything of it is filled.                   *)
LEMMA NewOrderWanted ==
  ASSUME NEW request \in OrderRequest, NEW order \in Order,
         order.request = request, order.filled = 0
  PROVE  WantedBy(order) \in Lifecycle!Wanted
<1>1. /\ request.quantity \in 1..MaxQuantity
      /\ request.instrument \in Instruments
      /\ request.side \in {"BUY", "SELL"}
  BY DEF OrderRequest, Sides
<1>2. request.quantity - 0 \in 1..MaxQuantity
  BY <1>1, OrderManagerAssumption
<1> QED
  BY <1>1, <1>2 DEF WantedBy, Lifecycle!Wanted

LEMMA InitRefines == Init => Lifecycle!Init
BY DEF Init, NoOrders, Lifecycle!Init, WorkingOrders, ClosedIds, LiveIds

(* The state of the abstract specification is read off orders and          *)
(* positions only.                                                         *)
LEMMA OtherStepsStutter ==
  ASSUME UNCHANGED <<orders, positions>>
  PROVE  UNCHANGED Lifecycle!vars
BY DEF Lifecycle!vars, WorkingOrders, ClosedIds, LiveIds

-----------------------------------------------------------------------------
LEMMA StoreRejectedRefines ==
  ASSUME IInv, RejectedOrders, NEW request \in OrderRequest,
         KeyIsFresh(request.key), StoreRejected(request)
  PROVE  Lifecycle!Next
<1> DEFINE rid == RejectedId(request.key)
<1>1. rid \in OrderIds /\ request.key \in Keys
  BY RejectedIdType DEF OrderRequest
<1>2. rid \notin DOMAIN orders
  BY <1>1 DEF RejectedOrders, KeyIsFresh
<1>3. /\ DOMAIN orders' = DOMAIN orders \cup {rid}
      /\ orders'[rid] = NewOrder(request, "REJECTED")
      /\ \A id \in DOMAIN orders : orders'[id] = orders[id]
      /\ UNCHANGED positions
  BY <1>2 DEF StoreRejected, Put
<1>4. orders'[rid].status \in Terminal
  BY <1>3, RejectedIsTerminal DEF NewOrder
<1>5. LiveIds' = LiveIds
  BY <1>2, <1>3, <1>4 DEF LiveIds
<1>6. WorkingOrders' = WorkingOrders
  BY <1>3, <1>5 DEF WorkingOrders, LiveIds
<1>7. ClosedIds' = ClosedIds \cup {rid}
  BY <1>2, <1>3, <1>5 DEF ClosedIds, LiveIds
<1>8. rid \notin DOMAIN WorkingOrders
  BY <1>2 DEF WorkingOrders, LiveIds
<1>9. Lifecycle!Refuse(rid)
  BY <1>3, <1>6, <1>7, <1>8 DEF Lifecycle!Refuse
<1> QED
  BY <1>1, <1>9 DEF Lifecycle!Next

LEMMA CreateOrderRefines ==
  ASSUME IInv, RejectedOrders, NEW request \in OrderRequest,
         NEW allowed \in BOOLEAN, CreateOrder(request, allowed)
  PROVE  Lifecycle!Next
<1>1. CASE StoreRejected(request)
  BY <1>1, StoreRejectedRefines DEF CreateOrder
<1>2. CASE ~StoreRejected(request)
  <2> DEFINE order == NewOrder(request, "ACKNOWLEDGED")
  <2>1. PICK id \in BrokerIds :
          /\ BrokerSubmit(id, request)
          /\ orders' = Put(orders, id, order)
    BY <1>2 DEF CreateOrder
  <2>2. id \notin DOMAIN orders
    BY <2>1, UnissuedIsNew DEF BrokerSubmit
  <2>3. /\ DOMAIN orders' = DOMAIN orders \cup {id}
        /\ orders'[id] = order
        /\ \A x \in DOMAIN orders : orders'[x] = orders[x]
        /\ UNCHANGED positions
    BY <1>2, <2>1, <2>2 DEF CreateOrder, Put
  <2>4. /\ order \in Order
        /\ order.request = request
        /\ order.filled = 0
        /\ order.status \notin Terminal
    BY NewOrderType, TerminalStatuses DEF NewOrder, OrderStatus
  <2>5. WantedBy(order) \in Lifecycle!Wanted
    BY <2>4, NewOrderWanted
  <2> HIDE DEF order
  <2>6. LiveIds' = LiveIds \cup {id}
    BY <2>2, <2>3, <2>4 DEF LiveIds
  <2>7. WorkingOrders' = [x \in DOMAIN WorkingOrders \cup {id} |->
                            IF x = id THEN WantedBy(order) ELSE WorkingOrders[x]]
    BY <2>2, <2>3, <2>6 DEF WorkingOrders, LiveIds
  <2>8. UNCHANGED ClosedIds
    BY <2>2, <2>3, <2>6 DEF ClosedIds, LiveIds
  <2>9. id \notin DOMAIN WorkingOrders \cup ClosedIds
    BY <2>2 DEF WorkingOrders, ClosedIds, LiveIds
  <2>10. Lifecycle!Accept(id, WantedBy(order))
    BY <2>3, <2>7, <2>8, <2>9 DEF Lifecycle!Accept
  <2> QED
    BY <2>5, <2>10 DEF Lifecycle!Next, OrderIds
<1> QED
  BY <1>1, <1>2

LEMMA ReplaceOrderRefines ==
  ASSUME IInv, RejectedOrders, NEW request \in OrderRequest,
         NEW allowed \in BOOLEAN, NEW id \in OrderIds,
         ReplaceOrder(id, request, allowed)
  PROVE  Lifecycle!Next
<1>1. CASE StoreRejected(request)
  BY <1>1, StoreRejectedRefines DEF ReplaceOrder
<1>2. CASE ~StoreRejected(request)
  <2> DEFINE copy == [brokerOrders[id] EXCEPT !.request = request,
                                              !.status = "REPLACED"]
  <2>1. PICK new \in BrokerIds :
          /\ BrokerReplace(id, new, request)
          /\ orders' = Put(Without(orders, id), new, copy)
    BY <1>2 DEF ReplaceOrder
  <2>2. /\ id \in DOMAIN brokerOrders
        /\ new = id \/ new \notin issued
    BY <2>1 DEF BrokerReplace
  <2>3. new = id \/ new \notin DOMAIN orders
    BY <2>2, UnissuedIsNew
  <2>4. /\ copy \in Order
        /\ copy.request = request
        /\ copy.status = "REPLACED"
        /\ copy.filled = 0
    BY <2>2 DEF IInv, TypeOK, BrokerCopies, Order, OrderStatus
  <2>5. WantedBy(copy) \in Lifecycle!Wanted
    BY <2>4, NewOrderWanted
  <2>6. copy.status \notin Terminal
    BY <2>4, TerminalStatuses
  <2>7. id \in LiveIds
    BY MovableIsNotTerminal DEF ReplaceOrder, LiveIds
  <2> HIDE DEF copy
  <2>8. /\ DOMAIN orders' = (DOMAIN orders \ {id}) \cup {new}
        /\ orders'[new] = copy
        /\ \A x \in DOMAIN orders \ {id, new} : orders'[x] = orders[x]
        /\ UNCHANGED positions
    BY <1>2, <2>1 DEF ReplaceOrder, Put, Without
  <2>9. LiveIds' = (LiveIds \ {id}) \cup {new}
    BY <2>3, <2>6, <2>8 DEF LiveIds
  <2>10. WorkingOrders' = [x \in (DOMAIN WorkingOrders \ {id}) \cup {new} |->
                             IF x = new THEN WantedBy(copy) ELSE WorkingOrders[x]]
    BY <2>3, <2>8, <2>9 DEF WorkingOrders, LiveIds
  <2>11. UNCHANGED ClosedIds
    BY <2>3, <2>7, <2>8, <2>9 DEF ClosedIds, LiveIds
  <2>12. new = id \/ new \notin DOMAIN WorkingOrders \cup ClosedIds
    BY <2>3 DEF WorkingOrders, ClosedIds, LiveIds
  <2>13. Lifecycle!Amend(id, new, WantedBy(copy))
    BY <2>7, <2>8, <2>10, <2>11, <2>12 DEF Lifecycle!Amend, WorkingOrders
  <2> QED
    BY <2>5, <2>13 DEF Lifecycle!Next, OrderIds
<1> QED
  BY <1>1, <1>2

LEMMA CancelOrderRefines ==
  ASSUME IInv, NEW id \in OrderIds, CancelOrder(id)
  PROVE  Lifecycle!Next
<1>1. id \in LiveIds
  BY MovableIsNotTerminal DEF CancelOrder, LiveIds
<1>2. /\ DOMAIN orders' = DOMAIN orders
      /\ \A x \in DOMAIN orders \ {id} : orders'[x] = orders[x]
      /\ UNCHANGED positions
  BY DEF CancelOrder
<1>3. orders'[id].status = "CANCELED"
  BY DEF CancelOrder, BrokerCancel, IInv, TypeOK, Order
<1>4. LiveIds' = LiveIds \ {id}
  BY <1>2, <1>3, TerminalStatuses DEF LiveIds
<1>5. WorkingOrders' = [x \in DOMAIN WorkingOrders \ {id} |-> WorkingOrders[x]]
  BY <1>2, <1>4 DEF WorkingOrders, LiveIds
<1>6. ClosedIds' = ClosedIds \cup {id}
  BY <1>1, <1>2, <1>4 DEF ClosedIds, LiveIds
<1>7. Lifecycle!Close(id)
  BY <1>1, <1>2, <1>5, <1>6 DEF Lifecycle!Close, WorkingOrders
<1> QED
  BY <1>7 DEF Lifecycle!Next

(* A fill that books: the order executes, and is closed if nothing of it   *)
(* is left.                                                                *)
LEMMA BookFillRefines ==
  ASSUME IInv, NEW fill \in TradeFill, Bookable(fill), BookFill(fill)
  PROVE  Lifecycle!Next
<1> DEFINE id == fill.order
           order == orders[id]
           after == [order EXCEPT !.filled = @ + fill.quantity,
                                  !.status = FillStatus(order, fill)]
           left == order.request.quantity - order.filled
<1>1. /\ id \in DOMAIN orders
      /\ order.status \notin Terminal
      /\ order.filled + fill.quantity =< order.request.quantity
  BY MovableIsNotTerminal DEF Bookable
<1>2. order \in Order /\ id \in OrderIds
  BY <1>1 DEF IInv, TypeOK
<1>3. /\ order.filled \in Nat
      /\ order.request.quantity \in Nat
      /\ fill.quantity \in 1..MaxQuantity
      /\ fill.quantity \in Nat
  BY <1>2, OrderManagerAssumption DEF Order, OrderRequest, TradeFill
<1>4. fill.quantity =< left
  BY <1>1, <1>3
<1>5. /\ after.request = order.request
      /\ after.filled = order.filled + fill.quantity
      /\ after.status = FillStatus(order, fill)
  BY <1>2 DEF Order
<1>6. after.status \in Terminal <=> fill.quantity = left
  BY <1>3, <1>4, <1>5, TerminalStatuses DEF FillStatus
<1>7. WantedBy(after) = [WantedBy(order) EXCEPT !.left = @ - fill.quantity]
  BY <1>3, <1>5 DEF WantedBy
<1>8. /\ DOMAIN orders' = DOMAIN orders
      /\ orders'[id] = after
      /\ \A x \in DOMAIN orders \ {id} : orders'[x] = orders[x]
      /\ positions' = [positions EXCEPT ![order.request.instrument] =
                         @ + SignedQuantity(order.request.side, fill.quantity)]
  BY <1>1 DEF BookFill
<1>9. /\ id \in DOMAIN WorkingOrders
      /\ WorkingOrders[id] = WantedBy(order)
      /\ WantedBy(order).left = left
      /\ WantedBy(order).instrument = order.request.instrument
      /\ WantedBy(order).side = order.request.side
  BY <1>1 DEF WorkingOrders, LiveIds, WantedBy
<1>10. Lifecycle!Signed(order.request.side, fill.quantity)
         = SignedQuantity(order.request.side, fill.quantity)
  BY DEF Lifecycle!Signed, SignedQuantity
<1> HIDE DEF after, order, left
<1>11. positions' = [positions EXCEPT ![WorkingOrders[id].instrument] =
                       @ + Lifecycle!Signed(WorkingOrders[id].side, fill.quantity)]
  BY <1>8, <1>9, <1>10
<1>12. ASSUME fill.quantity = left
       PROVE  Lifecycle!Execute(id, fill.quantity)
  <2>1. LiveIds' = LiveIds \ {id}
    BY <1>6, <1>8, <1>12 DEF LiveIds
  <2>2. WorkingOrders' = [x \in DOMAIN WorkingOrders \ {id} |-> WorkingOrders[x]]
    BY <1>8, <2>1 DEF WorkingOrders, LiveIds
  <2>3. ClosedIds' = ClosedIds \cup {id}
    BY <1>1, <1>8, <2>1 DEF ClosedIds, LiveIds
  <2> QED
    BY <1>4, <1>9, <1>11, <1>12, <2>2, <2>3 DEF Lifecycle!Execute
<1>13. ASSUME fill.quantity # left
       PROVE  Lifecycle!Execute(id, fill.quantity)
  <2>1. LiveIds' = LiveIds
    BY <1>1, <1>6, <1>8, <1>13 DEF LiveIds, order
  <2>2. WorkingOrders' = [WorkingOrders EXCEPT ![id].left = @ - fill.quantity]
    BY <1>7, <1>8, <1>9, <2>1 DEF WorkingOrders, LiveIds
  <2>3. UNCHANGED ClosedIds
    BY <1>8, <2>1 DEF ClosedIds
  <2> QED
    BY <1>4, <1>9, <1>11, <1>13, <2>2, <2>3 DEF Lifecycle!Execute
<1>14. Lifecycle!Execute(id, fill.quantity)
  BY <1>12, <1>13
<1> QED
  BY <1>2, <1>3, <1>14 DEF Lifecycle!Next

-----------------------------------------------------------------------------
LEMMA NextRefines ==
  ASSUME IInv, RejectedOrders, [Next]_vars
  PROVE  [Lifecycle!Next]_(Lifecycle!vars)
<1>1. CASE \E request \in OrderRequest, allowed \in BOOLEAN :
             CreateOrder(request, allowed)
  BY <1>1, CreateOrderRefines
<1>2. CASE \E request \in OrderRequest, allowed \in BOOLEAN, id \in OrderIds :
             ReplaceOrder(id, request, allowed)
  BY <1>2, ReplaceOrderRefines
<1>3. CASE \E request \in OrderRequest :
             \/ SubmitReplyLost(request)
             \/ \E id \in OrderIds : ReplaceReplyLost(id, request)
  BY <1>3, OtherStepsStutter DEF SubmitReplyLost, ReplaceReplyLost, omsVars
<1>4. CASE \E id \in OrderIds : CancelOrder(id) \/ CancelReplyLost(id)
  BY <1>4, CancelOrderRefines, OtherStepsStutter DEF CancelReplyLost, omsVars
<1>5. CASE AddFill \/ PollFills \/ UNCHANGED vars
  BY <1>5, OtherStepsStutter DEF AddFill, PollFills, omsVars, vars
<1>6. CASE \E fill \in executions : ProcessFill(fill)
  <2>1. executions \subseteq TradeFill
    BY DEF IInv, TypeOK
  <2> QED
    BY <1>6, <2>1, BookFillRefines, OtherStepsStutter DEF ProcessFill, RefuseFill
<1>7. CASE ProcessPolledFill
  <2>1. Head(batch) \in TradeFill
    BY <1>7, FillIsTyped DEF ProcessPolledFill
  <2> QED
    BY <1>7, <2>1, BookFillRefines, OtherStepsStutter
       DEF ProcessPolledFill, RefuseFill
<1> QED
  BY <1>1, <1>2, <1>3, <1>4, <1>5, <1>6, <1>7 DEF Next

(* Whatever callers, the broker and lost replies do, an observer of        *)
(* orders and positions sees an OrderLifecycle: no order comes back, none  *)
(* executes more than it has left, no position moves without an order.     *)
THEOREM Refinement == Spec => ImplementsLifecycle
<1>1. Init => Lifecycle!Init
  BY InitRefines
<1>2. IInv /\ RejectedOrders /\ [Next]_vars => [Lifecycle!Next]_(Lifecycle!vars)
  BY NextRefines
<1> QED
  BY <1>1, <1>2, Invariance, RejectedOrdersInvariant, PTL
     DEF Spec, ImplementsLifecycle, Lifecycle!Spec

(* The ways a request may pass through the risk manager.                   *)
Handled(request, allowed) ==
    \/ SubmitChecked(request, allowed)
    \/ \E id \in OrderIds : ReplaceChecked(id, request, allowed)

LEMMA DecisionsAreChecks ==
  ASSUME NEW request \in OrderRequest, NEW allowed \in Decisions(request)
  PROVE  /\ allowed \in BOOLEAN
         /\ allowed =>
              /\ ~killSwitch
              /\ WindowCount(clock) < MaxOrdersPerMinute
              /\ ~MaxLossBreached
              /\ PositionWithinLimit(request.side, request.quantity,
                                     positions[request.instrument])
BY DEF Decisions, Allowed

(* What a decision changes: a refused request is stored, an approved one   *)
(* is in flight.                                                           *)
LEMMA HandledDecides ==
  ASSUME NEW request \in OrderRequest, NEW allowed, Handled(request, allowed)
  PROVE  /\ ~Calling
         /\ Idle /\ KeyIsFresh(request.key)
         /\ EvaluateOrder(allowed, clock)
         /\ UNCHANGED <<clock, sent, late>>
         /\ \/ ~allowed /\ StoreRejected(request) /\ UNCHANGED inFlight
            \/ /\ allowed /\ UNCHANGED vars
               /\ \E call \in Call : call.request = request /\ inFlight' = {call}
<1>1. CASE SubmitChecked(request, allowed)
  <2> DEFINE call == [id |-> NoOrder, request |-> request]
  <2>1. call \in Call /\ call.request = request
    BY DEF Call
  <2>2. Decide(call, allowed)
    BY <1>1 DEF SubmitChecked
  <2> HIDE DEF call
  <2> QED
    BY <1>1, <2>1, <2>2 DEF SubmitChecked, Decide
<1>2. CASE \E id \in OrderIds : ReplaceChecked(id, request, allowed)
  <2>1. PICK id \in OrderIds : ReplaceChecked(id, request, allowed)
    BY <1>2
  <2> DEFINE call == [id |-> id, request |-> request]
  <2>2. call \in Call /\ call.request = request
    BY DEF Call
  <2>3. Decide(call, allowed)
    BY <2>1 DEF ReplaceChecked
  <2> HIDE DEF call
  <2> QED
    BY <2>1, <2>2, <2>3 DEF ReplaceChecked, Decide
<1> QED
  BY <1>1, <1>2 DEF Handled

(* A decision as one step of the composition.                              *)
Decision ==
    \E request \in OrderRequest :
      \E allowed \in Decisions(request) : Handled(request, allowed)

(* The other operations begin when no call is going on.                    *)
OtherOperation ==
    \/ \E id \in OrderIds : PassOnCancel(id)
    \/ HandleFills
    \/ ReportPnl
    \/ Stop

LEMMA SystemSteps ==
  ASSUME [SystemNext]_systemVars
  PROVE  \/ Decision
         \/ RequestReceived
         \/ RequestNotReceived
         \/ OtherOperation
         \/ Tick
         \/ UNCHANGED systemVars
BY DEF SystemNext, Decision, Handled, OtherOperation

LEMMA OtherOperationWaits ==
  ASSUME OtherOperation
  PROVE  ~Calling /\ UNCHANGED <<clock, inFlight, sent, late>>
BY DEF OtherOperation, PassOnCancel, HandleFills, ReportPnl, Stop, requestVars

-----------------------------------------------------------------------------
(* The request in flight is one the risk manager has just approved: what   *)
(* it checked still holds when the broker receives the request, the clock  *)
(* excepted.                                                               *)
CallsAreApproved ==
    /\ inFlight \subseteq Call
    /\ \A call1, call2 \in inFlight : call1 = call2
    /\ Calling => ~killSwitch /\ ~MaxLossBreached
    /\ \A call \in inFlight :
         PositionWithinLimit(call.request.side, call.request.quantity,
                             positions[call.request.instrument])

LEMMA NoCallIsApproved ==
  ASSUME inFlight' = {}
  PROVE  CallsAreApproved'
BY DEF CallsAreApproved, Calling

LEMMA NextCalls == CallsAreApproved /\ [SystemNext]_systemVars => CallsAreApproved'
<1> SUFFICES ASSUME CallsAreApproved, [SystemNext]_systemVars PROVE CallsAreApproved'
  OBVIOUS
<1>1. CASE Decision
  <2>0. PICK request \in OrderRequest :
          \E allowed \in Decisions(request) : Handled(request, allowed)
    BY <1>1 DEF Decision
  <2>1. PICK allowed \in Decisions(request) : Handled(request, allowed)
    BY <2>0
  <2>2. CASE ~allowed
    BY <2>1, <2>2, HandledDecides, NoCallIsApproved DEF Calling
  <2>3. CASE allowed
    <3>1. PICK call \in Call : call.request = request /\ inFlight' = {call}
      BY <2>1, <2>3, HandledDecides
    <3>2. UNCHANGED <<killSwitch, pnl, positions>>
      BY <2>1, <2>3, HandledDecides DEF EvaluateOrder, vars, omsVars
    <3>3. /\ ~killSwitch /\ ~MaxLossBreached
          /\ PositionWithinLimit(request.side, request.quantity,
                                 positions[request.instrument])
      BY <2>3, DecisionsAreChecks
    <3>4. ~killSwitch' /\ ~MaxLossBreached'
      BY <3>2, <3>3 DEF MaxLossBreached
    <3>5. PositionWithinLimit(call.request.side, call.request.quantity,
                              positions'[call.request.instrument])
      BY <3>1, <3>2, <3>3
    <3> QED
      BY <3>1, <3>4, <3>5 DEF CallsAreApproved
  <2> QED
    BY <2>2, <2>3
<1>2. CASE RequestReceived \/ RequestNotReceived
  BY <1>2, NoCallIsApproved DEF RequestReceived, RequestNotReceived
<1>3. CASE OtherOperation
  BY <1>3, OtherOperationWaits, NoCallIsApproved DEF Calling
<1>4. CASE UNCHANGED <<vars, riskVars, inFlight>>
  <2>1. UNCHANGED <<killSwitch, pnl, positions, inFlight>>
    BY <1>4 DEF vars, omsVars, riskVars
  <2> QED
    BY <2>1 DEF CallsAreApproved, Calling, MaxLossBreached
<1>5. CASE Tick \/ UNCHANGED systemVars
  BY <1>4, <1>5 DEF Tick, systemVars, requestVars
<1> QED
  BY <1>1, <1>2, <1>3, <1>5, SystemSteps

THEOREM CallsStayApproved == SystemSpec => []CallsAreApproved
<1>1. SystemInit => CallsAreApproved
  BY DEF SystemInit, CallsAreApproved, Calling
<1> QED
  BY <1>1, NextCalls, PTL DEF SystemSpec

-----------------------------------------------------------------------------
(* Every step of the order path is a step of the order manager, or none:   *)
(* a refusal is all of create_order or replace_order, an approval nothing  *)
(* the order manager sees, and what the broker then does is the rest.      *)
LEMMA ReceiveIsOrderStep ==
  ASSUME NEW call \in Call, Receive(call)
  PROVE  Next
<1>1. call.request \in OrderRequest
  BY DEF Call
<1>2. CASE call.id = NoOrder
  BY <1>1, <1>2 DEF Receive, Next
<1>3. CASE call.id # NoOrder
  <2>1. call.id \in OrderIds
    BY <1>3 DEF Call
  <2> QED
    BY <1>1, <1>3, <2>1 DEF Receive, Next
<1> QED
  BY <1>2, <1>3

LEMMA SystemStepIsOrderStep ==
  CallsAreApproved /\ [SystemNext]_systemVars => [Next]_vars
<1> SUFFICES ASSUME CallsAreApproved, [SystemNext]_systemVars PROVE [Next]_vars
  OBVIOUS
<1>1. CASE Decision
  <2>0. PICK request \in OrderRequest :
          \E allowed \in Decisions(request) : Handled(request, allowed)
    BY <1>1 DEF Decision
  <2>1. PICK allowed \in Decisions(request) : Handled(request, allowed)
    BY <2>0
  <2>2. CASE StoreRejected(request)
    <3>1. CreateOrder(request, FALSE)
      BY <2>1, <2>2, HandledDecides DEF CreateOrder
    <3> QED
      BY <3>1 DEF Next
  <2> QED
    BY <2>1, <2>2, HandledDecides
<1>2. CASE RequestReceived
  BY <1>2, ReceiveIsOrderStep DEF RequestReceived, CallsAreApproved
<1>3. CASE OtherOperation
  BY <1>3 DEF OtherOperation, PassOnCancel, HandleFills, ReportPnl, Stop, Next
<1>4. CASE RequestNotReceived \/ Tick \/ UNCHANGED systemVars
  BY <1>4 DEF RequestNotReceived, Tick, systemVars
<1> QED
  BY <1>1, <1>2, <1>3, <1>4, SystemSteps

(* The composition is an order manager: what the first part proves of Spec,*)
(* the order path keeps, although a call is two steps of it.               *)
THEOREM OrderPathIsOrderManager == SystemSpec => Spec
<1>1. SystemInit => Init
  BY DEF SystemInit
<1> QED
  BY <1>1, SystemStepIsOrderStep, CallsStayApproved, PTL DEF SystemSpec, Spec

-----------------------------------------------------------------------------
(* The order rate.  Neither the window nor anything received belongs to a  *)
(* minute to come, and while a request is in flight its minute is the      *)
(* window's and no later one has received anything: a minute can receive   *)
(* only one request of an earlier minute, because the next is decided      *)
(* after that one has arrived.                                             *)
RateInv ==
    /\ RiskTypeOK
    /\ clock \in 0..MaxTime
    /\ sent \in [0..Minute(MaxTime) -> Nat]
    /\ late \subseteq 0..Minute(MaxTime)
    /\ orderWindowMinute =< Minute(clock)
    /\ \A m \in DOMAIN sent :
         m > Minute(clock) \/ (Calling /\ m > orderWindowMinute) =>
           sent[m] = 0 /\ m \notin late
    /\ WindowCountsSentOrders
    /\ RateLimitHolds

LEMMA MinuteType ==
  ASSUME NEW t \in Nat
  PROVE  Minute(t) \in Nat
BY RiskManagerAssumption DEF Minute

LEMMA MinuteMonotone ==
  ASSUME NEW t1 \in Nat, NEW t2 \in Nat, t1 =< t2
  PROVE  Minute(t1) =< Minute(t2)
BY RiskManagerAssumption DEF Minute

(* What the arithmetic below is about.                                     *)
LEMMA RateTypes ==
  ASSUME RateInv
  PROVE  /\ Minute(clock) \in Nat
         /\ Minute(clock) \in 0..Minute(MaxTime)
         /\ MaxOrdersPerMinute \in Nat
         /\ ordersInWindow \in 0..MaxOrdersPerMinute
         /\ orderWindowMinute \in Nat \cup {-1}
         /\ DOMAIN sent = 0..Minute(MaxTime)
         /\ \A m \in 0..Minute(MaxTime) : m \in Nat /\ sent[m] \in Nat /\ Late(m) \in {0, 1}
<1>1. clock \in Nat /\ clock =< MaxTime /\ MaxTime \in Nat
  BY TradingSystemAssumption DEF RateInv
<1>2. Minute(clock) \in Nat /\ Minute(MaxTime) \in Nat /\ Minute(clock) =< Minute(MaxTime)
  BY <1>1, MinuteType, MinuteMonotone
<1>3. \A m \in 0..Minute(MaxTime) : m \in Nat /\ sent[m] \in Nat
  BY <1>2 DEF RateInv
<1>4. \A m \in 0..Minute(MaxTime) : Late(m) \in {0, 1}
  BY DEF Late
<1> QED
  BY <1>2, <1>3, <1>4, RiskManagerAssumption DEF RateInv, RiskTypeOK

(* A step that changes neither the window nor what was received.           *)
LEMMA RateInvStays ==
  ASSUME RateInv, UNCHANGED <<orderWindowMinute, ordersInWindow, sent, late>>,
         killSwitch' \in BOOLEAN, pnl' \in Int,
         clock' \in 0..MaxTime, Minute(clock) =< Minute(clock'),
         Minute(clock') \in Nat, Calling' => Calling
  PROVE  RateInv'
<1>1. RiskTypeOK'
  BY DEF RateInv, RiskTypeOK
<1>2. orderWindowMinute' =< Minute(clock')
  BY RateTypes DEF RateInv
<1>3. \A m \in DOMAIN sent' :
        m > Minute(clock') \/ (Calling' /\ m > orderWindowMinute') =>
          sent'[m] = 0 /\ m \notin late'
  BY RateTypes DEF RateInv
<1>4. InFlight' =< InFlight /\ InFlight \in {0, 1} /\ InFlight' \in {0, 1}
  BY DEF InFlight
<1>5. WindowCountsSentOrders'
  <2> SUFFICES ASSUME NEW m \in DOMAIN sent
               PROVE  /\ m = orderWindowMinute =>
                           sent[m] + InFlight' =< ordersInWindow + Late(m)
                      /\ m > orderWindowMinute => sent[m] =< Late(m)
    BY DEF WindowCountsSentOrders, Late
  <2>1. sent[m] \in Nat /\ Late(m) \in {0, 1} /\ ordersInWindow \in Nat
    BY RateTypes
  <2> QED
    BY <1>4, <2>1 DEF RateInv, WindowCountsSentOrders
<1>6. RateLimitHolds'
  BY DEF RateInv, RateLimitHolds, Late
<1> QED
  BY <1>1, <1>2, <1>3, <1>5, <1>6 DEF RateInv

(* A decision takes the window to the running minute; an approval, found   *)
(* below the limit, is counted and in flight.                              *)
LEMMA DecisionRateInv ==
  ASSUME RateInv, NEW allowed \in BOOLEAN,
         allowed => ~killSwitch /\ WindowCount(clock) < MaxOrdersPerMinute,
         ~Calling, Calling' => allowed,
         EvaluateOrder(allowed, clock),
         UNCHANGED <<clock, sent, late>>
  PROVE  RateInv'
<1> DEFINE now == Minute(clock)
<1>1. CASE killSwitch
  <2>1. UNCHANGED <<orderWindowMinute, ordersInWindow, killSwitch, pnl>> /\ ~Calling'
    BY <1>1 DEF EvaluateOrder
  <2>2. killSwitch \in BOOLEAN /\ pnl \in Int /\ clock \in 0..MaxTime
    BY DEF RateInv, RiskTypeOK
  <2>3. now \in Nat /\ now =< now
    BY RateTypes
  <2> QED
    BY <2>1, <2>2, <2>3, RateInvStays
<1>2. CASE ~killSwitch
  <2> DEFINE counted == IF allowed THEN 1 ELSE 0
  <2>1. /\ orderWindowMinute' = now
        /\ ordersInWindow' = WindowCount(clock) + counted
        /\ UNCHANGED <<killSwitch, pnl, clock>>
    BY <1>2 DEF EvaluateOrder
  <2>2. InFlight' \in {0, 1} /\ InFlight' =< counted /\ counted \in {0, 1}
    BY DEF InFlight
  <2>3. /\ WindowCount(clock) \in 0..MaxOrdersPerMinute
        /\ sent[now] =< WindowCount(clock) + Late(now)
    <3>1. now \in DOMAIN sent /\ sent[now] \in Nat /\ Late(now) \in {0, 1}
      BY RateTypes
    <3>2. CASE now = orderWindowMinute
      <4>1. InFlight = 0
        BY DEF InFlight
      <4> QED
        BY <3>1, <3>2, <4>1, RateTypes
           DEF WindowCount, RateInv, WindowCountsSentOrders
    <3>3. CASE now # orderWindowMinute
      <4>1. now > orderWindowMinute
        BY <3>3, RateTypes DEF RateInv
      <4> QED
        BY <3>1, <3>3, <4>1, RateTypes
           DEF WindowCount, RateInv, WindowCountsSentOrders
    <3> QED
      BY <3>2, <3>3
  <2> HIDE DEF counted
  <2>4. ordersInWindow' \in 0..MaxOrdersPerMinute
    BY <2>1, <2>2, <2>3, RateTypes DEF counted
  <2>5. RiskTypeOK'
    BY <2>1, <2>4, RateTypes DEF RateInv, RiskTypeOK
  <2>6. \A m \in DOMAIN sent' :
          m > Minute(clock') \/ (Calling' /\ m > orderWindowMinute') =>
            sent'[m] = 0 /\ m \notin late'
    BY <2>1 DEF RateInv
  <2>7. WindowCountsSentOrders'
    <3> SUFFICES ASSUME NEW m \in DOMAIN sent
                 PROVE  /\ m = now => sent[m] + InFlight' =< ordersInWindow' + Late(m)
                        /\ m > now => sent[m] =< Late(m)
      BY <2>1 DEF WindowCountsSentOrders, Late
    <3>1. sent[m] \in Nat /\ Late(m) \in {0, 1}
      BY RateTypes
    <3>2. m > now => sent[m] = 0
      BY DEF RateInv
    <3>3. m = now => sent[m] + InFlight' =< ordersInWindow' + Late(m)
      BY <2>1, <2>2, <2>3, <3>1, RateTypes
    <3> QED
      BY <3>1, <3>2, <3>3
  <2>8. RateLimitHolds'
    BY DEF RateInv, RateLimitHolds, Late
  <2>9. orderWindowMinute' =< Minute(clock')
    BY <2>1, RateTypes
  <2> QED
    BY <2>1, <2>5, <2>6, <2>7, <2>8, <2>9 DEF RateInv
<1> QED
  BY <1>1, <1>2

(* The broker receives the request in flight: in the minute of the window  *)
(* it takes the place that was counted, in a later one it is the first.    *)
LEMMA ReceivedRateInv ==
  ASSUME RateInv, RequestReceived
  PROVE  RateInv'
<1> DEFINE now == Minute(clock)
<1>1. /\ Calling /\ ~Calling'
      /\ sent' = [sent EXCEPT ![now] = @ + 1]
      /\ late' = late \cup ({now} \ {orderWindowMinute})
      /\ UNCHANGED <<killSwitch, orderWindowMinute, ordersInWindow, pnl, clock>>
  BY DEF RequestReceived, Calling, riskVars
<1>2. /\ now \in Nat /\ now \in DOMAIN sent
      /\ orderWindowMinute =< now
      /\ sent \in [0..Minute(MaxTime) -> Nat]
      /\ sent[now] \in Nat
  BY RateTypes DEF RateInv
<1>3. /\ sent' \in [0..Minute(MaxTime) -> Nat]
      /\ sent'[now] = sent[now] + 1
      /\ \A m \in DOMAIN sent : m # now => sent'[m] = sent[m]
      /\ DOMAIN sent' = DOMAIN sent
  BY <1>1, <1>2
<1>4. late' \subseteq 0..Minute(MaxTime)
  BY <1>1, RateTypes DEF RateInv
<1>5. \A m \in DOMAIN sent : m # now => (m \in late' <=> m \in late)
  BY <1>1
<1>6. InFlight = 1 /\ InFlight' = 0
  BY <1>1 DEF InFlight
<1>7. RiskTypeOK'
  BY <1>1 DEF RateInv, RiskTypeOK
<1>8. \A m \in DOMAIN sent' :
        m > Minute(clock') \/ (Calling' /\ m > orderWindowMinute') =>
          sent'[m] = 0 /\ m \notin late'
  <2> SUFFICES ASSUME NEW m \in DOMAIN sent, m > now
               PROVE  sent'[m] = 0 /\ m \notin late'
    BY <1>1, <1>3
  <2>1. m # now
    BY <1>2, RateTypes
  <2> QED
    BY <1>3, <1>5, <2>1 DEF RateInv
<1>9. CASE now = orderWindowMinute
  <2>1. late' = late
    BY <1>1, <1>9
  <2>2. sent'[now] =< ordersInWindow + Late(now)
    BY <1>2, <1>3, <1>6, <1>9, RateTypes DEF RateInv, WindowCountsSentOrders
  <2>3. WindowCountsSentOrders'
    <3> SUFFICES ASSUME NEW m \in DOMAIN sent
                 PROVE  /\ m = now => sent'[m] + 0 =< ordersInWindow + Late(m)
                        /\ m > now => sent'[m] =< Late(m)
      BY <1>1, <1>3, <1>6, <1>9, <2>1 DEF WindowCountsSentOrders, Late
    <3>1. sent'[m] \in Nat
      BY <1>3, RateTypes
    <3>2. m > now => sent'[m] =< Late(m)
      BY <1>2, <1>3, <1>9, RateTypes DEF RateInv, WindowCountsSentOrders
    <3> QED
      BY <2>2, <3>1, <3>2
  <2>4. RateLimitHolds'
    <3> SUFFICES ASSUME NEW m \in DOMAIN sent
                 PROVE  sent'[m] =< MaxOrdersPerMinute + Late(m)
      BY <1>3, <2>1 DEF RateLimitHolds, Late
    <3>1. CASE m = now
      BY <1>2, <1>3, <2>2, <3>1, RateTypes
    <3>2. CASE m # now
      BY <1>3, <3>2 DEF RateInv, RateLimitHolds
    <3> QED
      BY <3>1, <3>2
  <2> QED
    BY <1>1, <1>3, <1>4, <1>7, <1>8, <2>3, <2>4 DEF RateInv
<1>10. CASE now # orderWindowMinute
  <2>1. now > orderWindowMinute
    BY <1>2, <1>10, RateTypes
  <2>2. sent[now] = 0
    BY <1>1, <1>2, <2>1 DEF RateInv
  <2>3. sent'[now] = 1 /\ now \in late'
    BY <1>1, <1>3, <1>10, <2>2
  <2>4. \A m \in DOMAIN sent : m # now => Late(m)' = Late(m)
    BY <1>5 DEF Late
  <2>5. WindowCountsSentOrders'
    <3> SUFFICES ASSUME NEW m \in DOMAIN sent
                 PROVE  /\ m = orderWindowMinute =>
                             sent'[m] + 0 =< ordersInWindow + Late(m)'
                        /\ m > orderWindowMinute => sent'[m] =< Late(m)'
      BY <1>1, <1>3, <1>6 DEF WindowCountsSentOrders, Late
    <3>1. CASE m = now
      BY <1>10, <2>3, <3>1 DEF Late
    <3>2. CASE m # now
      <4>1. sent'[m] = sent[m] /\ Late(m)' = Late(m)
        BY <1>3, <2>4, <3>2
      <4>2. sent[m] \in Nat /\ Late(m) \in {0, 1} /\ ordersInWindow \in Nat
        BY RateTypes
      <4> QED
        BY <1>6, <4>1, <4>2 DEF RateInv, WindowCountsSentOrders
    <3> QED
      BY <3>1, <3>2
  <2>6. RateLimitHolds'
    <3> SUFFICES ASSUME NEW m \in DOMAIN sent
                 PROVE  sent'[m] =< MaxOrdersPerMinute + Late(m)'
      BY <1>3 DEF RateLimitHolds, Late
    <3>1. CASE m = now
      BY <2>3, <3>1, RateTypes DEF Late
    <3>2. CASE m # now
      BY <1>3, <2>4, <3>2 DEF RateInv, RateLimitHolds
    <3> QED
      BY <3>1, <3>2
  <2> QED
    BY <1>1, <1>3, <1>4, <1>7, <1>8, <2>5, <2>6 DEF RateInv
<1> QED
  BY <1>9, <1>10

LEMMA NextRateInv == RateInv /\ [SystemNext]_systemVars => RateInv'
<1> SUFFICES ASSUME RateInv, [SystemNext]_systemVars PROVE RateInv'
  OBVIOUS
<1>0. /\ killSwitch \in BOOLEAN /\ pnl \in Int /\ clock \in 0..MaxTime
      /\ Minute(clock) \in Nat /\ Minute(clock) =< Minute(clock)
  BY RateTypes DEF RateInv, RiskTypeOK
<1>1. CASE Decision
  <2>0. PICK request \in OrderRequest :
          \E allowed \in Decisions(request) : Handled(request, allowed)
    BY <1>1 DEF Decision
  <2>1. PICK allowed \in Decisions(request) : Handled(request, allowed)
    BY <2>0
  <2>2. /\ EvaluateOrder(allowed, clock)
        /\ ~Calling
        /\ Calling' => allowed
        /\ UNCHANGED <<clock, sent, late>>
    BY <2>1, HandledDecides DEF Calling
  <2> QED
    BY <2>2, DecisionsAreChecks, DecisionRateInv
<1>2. CASE RequestReceived
  BY <1>2, ReceivedRateInv
<1>3. CASE UNCHANGED <<killSwitch, pnl, orderWindowMinute, ordersInWindow,
                       clock, sent, late>> /\ (Calling' => Calling)
  BY <1>0, <1>3, RateInvStays
<1>4. CASE RequestNotReceived \/ UNCHANGED systemVars
  BY <1>3, <1>4 DEF RequestNotReceived, Calling, systemVars, riskVars, requestVars
<1>5. CASE OtherOperation
  <2>1. ~Calling' /\ UNCHANGED <<clock, sent, late>>
    BY <1>5, OtherOperationWaits DEF Calling
  <2>2. CASE (\E id \in OrderIds : PassOnCancel(id)) \/ HandleFills
    BY <1>3, <2>1, <2>2 DEF PassOnCancel, HandleFills, riskVars
  <2>3. CASE ReportPnl
    <3>1. pnl' \in Int /\ UNCHANGED <<killSwitch, orderWindowMinute, ordersInWindow>>
      BY <2>3, TradingSystemAssumption DEF ReportPnl, UpdateDailyPnl
    <3> QED
      BY <1>0, <2>1, <3>1, RateInvStays
  <2>4. CASE Stop
    <3>1. killSwitch' \in BOOLEAN /\ UNCHANGED <<pnl, orderWindowMinute, ordersInWindow>>
      BY <2>4 DEF Stop, TriggerKillSwitch
    <3> QED
      BY <1>0, <2>1, <3>1, RateInvStays
  <2> QED
    BY <1>5, <2>2, <2>3, <2>4 DEF OtherOperation
<1>6. CASE Tick
  <2>1. /\ clock \in Nat /\ clock' = clock + 1 /\ clock' \in 0..MaxTime
        /\ UNCHANGED <<killSwitch, pnl, orderWindowMinute, ordersInWindow, sent, late>>
        /\ Calling' => Calling
    BY <1>6, TradingSystemAssumption DEF Tick, RateInv, riskVars, requestVars, Calling
  <2>2. Minute(clock) =< Minute(clock') /\ Minute(clock') \in Nat
    BY <2>1, MinuteMonotone, MinuteType
  <2> QED
    BY <1>0, <2>1, <2>2, RateInvStays
<1> QED
  BY <1>1, <1>2, <1>4, <1>5, <1>6, SystemSteps

LEMMA InitRateInv == SystemInit => RateInv
<1> SUFFICES ASSUME SystemInit PROVE RateInv
  OBVIOUS
<1>1. Minute(0) \in Nat /\ Minute(MaxTime) \in Nat
  BY MinuteType, TradingSystemAssumption
<1>2. /\ orderWindowMinute = -1 /\ ordersInWindow = 0 /\ pnl = 0 /\ clock = 0
      /\ late = {} /\ ~Calling
      /\ sent = [m \in 0..Minute(MaxTime) |-> 0]
  BY DEF SystemInit, RiskInit, Calling
<1>3. RiskTypeOK
  <2>1. killSwitch \in BOOLEAN
    BY DEF SystemInit, RiskInit
  <2> QED
    BY <1>2, <2>1, RiskManagerAssumption DEF RiskTypeOK
<1>4. \A m \in DOMAIN sent : sent[m] = 0 /\ Late(m) = 0 /\ m \notin late
  BY <1>2 DEF Late
<1>5. InFlight = 0
  BY <1>2 DEF InFlight
<1>6. WindowCountsSentOrders /\ RateLimitHolds
  BY <1>2, <1>4, <1>5, RiskManagerAssumption DEF WindowCountsSentOrders, RateLimitHolds
<1>7. clock \in 0..MaxTime /\ orderWindowMinute =< Minute(clock)
  BY <1>1, <1>2, TradingSystemAssumption
<1>8. sent \in [0..Minute(MaxTime) -> Nat] /\ late \subseteq 0..Minute(MaxTime)
  BY <1>2
<1> QED
  BY <1>3, <1>4, <1>6, <1>7, <1>8 DEF RateInv

THEOREM RateInvariance == SystemSpec => []RateInv
BY InitRateInv, NextRateInv, PTL DEF SystemSpec

(* The state of both components stays well typed in the composition; in    *)
(* particular the counter of the window never passes the limit, and there  *)
(* is never more than one request in flight.                               *)
THEOREM SystemTypeCorrect == SystemSpec => []SystemTypeOK
<1>1. IInv /\ RateInv /\ CallsAreApproved => SystemTypeOK
  BY DEF IInv, RateInv, CallsAreApproved, SystemTypeOK
<1> QED
  BY <1>1, OrderPathIsOrderManager, Invariance, RateInvariance, CallsStayApproved, PTL

(* The broker receives MaxOrdersPerMinute requests in one calendar minute, *)
(* and one more at most, which an earlier minute decided, whatever is      *)
(* refused, replaced, lost or filled and however long calls take.          *)
THEOREM RateIsLimited == SystemSpec => []RateLimitHolds
BY RateInvariance, PTL DEF RateInv

(* The counter never lags behind what the broker received in its minute    *)
(* and what is on its way, but for one request of an earlier minute.       *)
THEOREM WindowCounts == SystemSpec => []WindowCountsSentOrders
BY RateInvariance, PTL DEF RateInv

-----------------------------------------------------------------------------
(* Kill switch and loss guard.  No request is in flight when either is on: *)
(* both are set between calls, and no request is approved afterwards.      *)

(* Under the kill switch the broker's requests stay as they are.           *)
RequestsStay ==
    /\ killSwitch'
    /\ issued' = issued
    /\ \A id \in DOMAIN brokerOrders :
         /\ id \in DOMAIN brokerOrders'
         /\ brokerOrders'[id].request = brokerOrders[id].request

LEMMA KillSwitchStep ==
  ASSUME IInv, CallsAreApproved, killSwitch, [SystemNext]_systemVars
  PROVE  RequestsStay
<1>1. CASE Decision
  <2>1. PICK request \in OrderRequest :
          \E allowed \in Decisions(request) : Handled(request, allowed)
    BY <1>1 DEF Decision
  <2>2. PICK allowed \in Decisions(request) : Handled(request, allowed)
    BY <2>1
  <2>3. ~allowed
    BY DecisionsAreChecks
  <2>4. UNCHANGED killSwitch /\ StoreRejected(request)
    BY <2>2, <2>3, HandledDecides DEF EvaluateOrder
  <2> QED
    BY <2>4 DEF StoreRejected, brokerVars, RequestsStay
<1>2. CASE \E id \in OrderIds : PassOnCancel(id)
  <2>1. PICK id \in OrderIds : PassOnCancel(id)
    BY <1>2
  <2>2. BrokerCancel(id) /\ UNCHANGED killSwitch
    BY <2>1 DEF PassOnCancel, CancelOrder, CancelReplyLost, riskVars
  <2>3. \A x \in DOMAIN brokerOrders : brokerOrders[x] \in Order
    BY DEF IInv, TypeOK
  <2>4. /\ DOMAIN brokerOrders' = DOMAIN brokerOrders
        /\ \A x \in DOMAIN brokerOrders :
             brokerOrders'[x].request = brokerOrders[x].request
        /\ issued' = issued
    BY <2>2, <2>3 DEF BrokerCancel, Order
  <2> QED
    BY <2>2, <2>4 DEF RequestsStay
<1>3. CASE UNCHANGED <<brokerOrders, issued>> /\ killSwitch'
  BY <1>3 DEF RequestsStay
<1>4. CASE HandleFills
  BY <1>3, <1>4
     DEF HandleFills, AddFill, PollFills, ProcessPolledFill, ProcessFill,
         brokerVars, riskVars
<1>5. CASE ReportPnl \/ Stop \/ Tick \/ UNCHANGED systemVars
  BY <1>3, <1>5
     DEF ReportPnl, UpdateDailyPnl, Stop, TriggerKillSwitch, Tick, systemVars,
         vars, riskVars
<1>6. CASE RequestReceived \/ RequestNotReceived
  BY <1>6 DEF RequestReceived, RequestNotReceived, CallsAreApproved, Calling
<1> QED
  BY <1>1, <1>2, <1>4, <1>5, <1>6, SystemSteps DEF OtherOperation

(* Once the kill switch is on it stays on, the broker issues nothing, and  *)
(* no request it holds changes.                                            *)
THEOREM KillSwitchStops == SystemSpec => KillSwitchStopsRequests
<1>1. IInv /\ CallsAreApproved /\ [SystemNext]_systemVars =>
        [killSwitch => RequestsStay]_systemVars
  BY KillSwitchStep
<1>2. [killSwitch => RequestsStay]_systemVars =>
        [killSwitch =>
          /\ killSwitch'
          /\ issued' = issued
          /\ \A id \in DOMAIN brokerOrders :
               /\ id \in DOMAIN brokerOrders'
               /\ brokerOrders'[id].request = brokerOrders[id].request]_systemVars
  BY DEF RequestsStay
<1> QED
  BY <1>1, <1>2, OrderPathIsOrderManager, Invariance, CallsStayApproved, PTL
     DEF SystemSpec, KillSwitchStopsRequests

LEMMA LossStep ==
  ASSUME CallsAreApproved, MaxLossBreached, [SystemNext]_systemVars
  PROVE  sent' = sent
<1>1. CASE Decision
  BY <1>1, HandledDecides DEF Decision
<1>2. CASE RequestReceived
  BY <1>2 DEF RequestReceived, CallsAreApproved, Calling
<1>3. CASE RequestNotReceived \/ OtherOperation \/ Tick \/ UNCHANGED systemVars
  BY <1>3, OtherOperationWaits DEF RequestNotReceived, Tick, systemVars, requestVars
<1> QED
  BY <1>1, <1>2, <1>3, SystemSteps

(* While the loss limit is breached the broker receives no request.        *)
THEOREM LossStopsRequests == SystemSpec => NoRequestAfterLoss
<1>1. CallsAreApproved /\ [SystemNext]_systemVars =>
        [pnl =< -Abs(DailyLossLimit) => sent' = sent]_systemVars
  BY LossStep DEF MaxLossBreached
<1> QED
  BY <1>1, CallsStayApproved, PTL DEF SystemSpec, NoRequestAfterLoss

-----------------------------------------------------------------------------
(* The position limit.  While the broker has seen one order, the order     *)
(* manager has at most one order a fill can reach, and the position it     *)
(* would lead to when filled is within the limit: that is what             *)
(* evaluate_order checked when the order got its quantity, and a fill      *)
(* moves position and remainder by the same amount.                        *)

SingleOrder == \A id1, id2 \in DOMAIN brokerOrders : id1 = id2

ReachedIds == DOMAIN orders \ RejectedIds

Within(n) == -MaxPositionSize =< n /\ n =< MaxPositionSize

(* The position after the rest of the order is filled.                     *)
Filled(order) ==
    positions[order.request.instrument]
      + SignedQuantity(order.request.side, order.request.quantity - order.filled)

Headroom ==
    SingleOrder =>
      /\ \A i \in Instruments : Within(positions[i])
      /\ \A id \in ReachedIds :
           orders[id].status \notin Terminal => Within(Filled(orders[id]))
      /\ \A id1, id2 \in ReachedIds : id1 = id2
      /\ DOMAIN brokerOrders = {} => ReachedIds = {}

LEMMA CheckedIsWithin ==
  ASSUME IInv, NEW request \in OrderRequest, NEW order \in Order,
         order.request = request, order.filled = 0,
         PositionWithinLimit(request.side, request.quantity,
                             positions[request.instrument])
  PROVE  Within(Filled(order))
<1>1. /\ request.quantity \in Nat
      /\ request.side \in {"BUY", "SELL"}
      /\ positions[request.instrument] \in Int
  BY OrderManagerAssumption DEF OrderRequest, Sides, IInv, TypeOK
<1>2. MaxPositionSize \in Nat
  BY RiskManagerAssumption
<1>3. CASE request.side = "BUY"
  BY <1>1, <1>2, <1>3
     DEF PositionWithinLimit, Proposed, Abs, Within, Filled, SignedQuantity
<1>4. CASE request.side = "SELL"
  BY <1>1, <1>2, <1>4
     DEF PositionWithinLimit, Proposed, Abs, Within, Filled, SignedQuantity
<1> QED
  BY <1>1, <1>3, <1>4

(* Submits.  A single order after the submit means none before.            *)
LEMMA SubmitSingle ==
  ASSUME IInv, NEW id \in BrokerIds, NEW request, BrokerSubmit(id, request)
  PROVE  /\ DOMAIN brokerOrders' # {}
         /\ SingleOrder' => DOMAIN brokerOrders = {} /\ SingleOrder
<1>1. id \notin DOMAIN brokerOrders
  BY DEF BrokerSubmit, IInv, TypeOK
<1>2. DOMAIN brokerOrders' = DOMAIN brokerOrders \cup {id}
  BY DEF BrokerSubmit, Put
<1> QED
  BY <1>1, <1>2 DEF SingleOrder

(* Replaces.  They take one order's place.                                 *)
LEMMA ReplaceSingle ==
  ASSUME IInv, NEW id, NEW new \in BrokerIds, NEW request,
         BrokerReplace(id, new, request)
  PROVE  /\ DOMAIN brokerOrders' # {}
         /\ SingleOrder' => SingleOrder
<1>1. /\ id \in DOMAIN brokerOrders
      /\ new = id \/ new \notin DOMAIN brokerOrders
      /\ DOMAIN brokerOrders' = (DOMAIN brokerOrders \ {id}) \cup {new}
  BY DEF BrokerReplace, Put, Without, IInv, TypeOK
<1> QED
  BY <1>1 DEF SingleOrder

LEMMA RejectedHeadroom ==
  ASSUME Headroom, NEW request \in OrderRequest, StoreRejected(request)
  PROVE  Headroom'
<1>1. RejectedId(request.key) \in RejectedIds
  BY RejectedIdType DEF OrderRequest
<1>2. /\ DOMAIN orders' = DOMAIN orders \cup {RejectedId(request.key)}
      /\ \A x \in DOMAIN orders' : x # RejectedId(request.key) => orders'[x] = orders[x]
      /\ UNCHANGED <<brokerOrders, positions>>
  BY DEF StoreRejected, Put, brokerVars
<1>3. ReachedIds' = ReachedIds /\ \A x \in ReachedIds : orders'[x] = orders[x]
  BY <1>1, <1>2 DEF ReachedIds
<1> QED
  BY <1>2, <1>3 DEF Headroom, SingleOrder, Filled

LEMMA CreateHeadroom ==
  ASSUME IInv, Headroom, NEW request \in OrderRequest, NEW allowed \in BOOLEAN,
         allowed => PositionWithinLimit(request.side, request.quantity,
                                        positions[request.instrument]),
         CreateOrder(request, allowed)
  PROVE  Headroom'
<1>1. CASE StoreRejected(request)
  BY <1>1, RejectedHeadroom
<1>2. CASE ~StoreRejected(request)
  <2> DEFINE order == NewOrder(request, "ACKNOWLEDGED")
  <2>1. PICK id \in BrokerIds :
          BrokerSubmit(id, request) /\ orders' = Put(orders, id, order)
    BY <1>2 DEF CreateOrder
  <2>2. allowed /\ UNCHANGED positions
    BY <1>2 DEF CreateOrder
  <2>3. order \in Order /\ order.request = request /\ order.filled = 0
    BY NewOrderType DEF NewOrder, OrderStatus
  <2>4. Within(Filled(order))
    BY <2>2, <2>3, CheckedIsWithin
  <2> HIDE DEF order
  <2>5. /\ DOMAIN orders' = DOMAIN orders \cup {id}
        /\ orders'[id] = order
    BY <2>1 DEF Put
  <2>6. id \notin RejectedIds
    BY OrderManagerAssumption
  <2>7. SUFFICES ASSUME SingleOrder' PROVE Headroom'
    BY DEF Headroom
  <2>8. /\ ReachedIds = {}
        /\ \A i \in Instruments : Within(positions[i])
        /\ DOMAIN brokerOrders' # {}
    BY <2>1, <2>7, SubmitSingle DEF Headroom
  <2>9. ReachedIds' = {id}
    BY <2>5, <2>6, <2>8 DEF ReachedIds
  <2>10. Filled(order)' = Filled(order)
    BY <2>2, <2>3 DEF Filled, order, NewOrder
  <2> QED
    BY <2>2, <2>4, <2>5, <2>8, <2>9, <2>10 DEF Headroom, Filled
<1> QED
  BY <1>1, <1>2

LEMMA ReplaceHeadroom ==
  ASSUME IInv, Headroom, NEW request \in OrderRequest, NEW allowed \in BOOLEAN,
         NEW id \in OrderIds,
         allowed => PositionWithinLimit(request.side, request.quantity,
                                        positions[request.instrument]),
         ReplaceOrder(id, request, allowed)
  PROVE  Headroom'
<1>1. CASE StoreRejected(request)
  BY <1>1, RejectedHeadroom
<1>2. CASE ~StoreRejected(request)
  <2> DEFINE copy == [brokerOrders[id] EXCEPT !.request = request,
                                              !.status = "REPLACED"]
  <2>1. PICK new \in BrokerIds :
          /\ BrokerReplace(id, new, request)
          /\ orders' = Put(Without(orders, id), new, copy)
    BY <1>2 DEF ReplaceOrder
  <2>2. allowed /\ UNCHANGED positions /\ id \in DOMAIN orders
    BY <1>2 DEF ReplaceOrder
  <2>3. /\ copy \in Order
        /\ copy.request = request
        /\ copy.filled = 0
    BY <2>1 DEF BrokerReplace, IInv, TypeOK, BrokerCopies, Order, OrderStatus
  <2> HIDE DEF copy
  <2>4. Within(Filled(copy))
    BY <2>2, <2>3, CheckedIsWithin
  <2>5. /\ DOMAIN orders' = (DOMAIN orders \ {id}) \cup {new}
        /\ orders'[new] = copy
    BY <2>1 DEF Put, Without
  <2>6. new \notin RejectedIds /\ id \notin RejectedIds
    BY <2>1, OrderManagerAssumption DEF BrokerReplace, IInv, TypeOK
  <2>7. SUFFICES ASSUME SingleOrder' PROVE Headroom'
    BY DEF Headroom
  <2>8. /\ \A id1, id2 \in ReachedIds : id1 = id2
        /\ \A i \in Instruments : Within(positions[i])
        /\ DOMAIN brokerOrders' # {}
    BY <2>1, <2>7, ReplaceSingle DEF Headroom
  <2>9. ReachedIds' = {new}
    BY <2>2, <2>5, <2>6, <2>8 DEF ReachedIds
  <2>10. positions'[orders'[new].request.instrument]
           + SignedQuantity(orders'[new].request.side,
                            orders'[new].request.quantity - orders'[new].filled)
           = Filled(copy)
    BY <2>2, <2>5 DEF Filled
  <2> QED
    BY <2>2, <2>4, <2>8, <2>9, <2>10 DEF Headroom, Filled
<1> QED
  BY <1>1, <1>2

LEMMA CancelHeadroom ==
  ASSUME IInv, Headroom, NEW id \in OrderIds, CancelOrder(id)
  PROVE  Headroom'
<1>1. /\ DOMAIN orders' = DOMAIN orders
      /\ \A x \in DOMAIN orders : x # id => orders'[x] = orders[x]
      /\ DOMAIN brokerOrders' = DOMAIN brokerOrders
      /\ UNCHANGED positions
      /\ id \in DOMAIN orders
  BY DEF CancelOrder, BrokerCancel
<1>2. orders'[id].status = "CANCELED"
  BY DEF CancelOrder, BrokerCancel, IInv, TypeOK, Order
<1>3. "CANCELED" \in Terminal
  BY DEF Terminal, OrderStatus, AllowedTransitions
<1> QED
  BY <1>1, <1>2, <1>3 DEF Headroom, SingleOrder, ReachedIds, Filled

LEMMA LostReplyHeadroom ==
  ASSUME IInv, Headroom, UNCHANGED <<orders, positions>>,
         \/ \E id \in BrokerIds, request \in OrderRequest : BrokerSubmit(id, request)
         \/ \E id \in OrderIds, new \in BrokerIds, request \in OrderRequest :
              BrokerReplace(id, new, request)
         \/ DOMAIN brokerOrders' = DOMAIN brokerOrders
  PROVE  Headroom'
<1>1. SingleOrder' => SingleOrder
  BY SubmitSingle, ReplaceSingle DEF SingleOrder
<1>2. DOMAIN brokerOrders' = {} => DOMAIN brokerOrders = {}
  BY SubmitSingle, ReplaceSingle
<1> QED
  BY <1>1, <1>2 DEF Headroom, ReachedIds, Filled

(* A fill of the order moves the position towards where the order leads.   *)
LEMMA BookFillHeadroom ==
  ASSUME IInv, Headroom, NEW fill \in TradeFill, Bookable(fill), BookFill(fill),
         UNCHANGED brokerVars
  PROVE  Headroom'
<1> DEFINE id == fill.order
           order == orders[id]
           i == order.request.instrument
           move == SignedQuantity(order.request.side, fill.quantity)
<1>1. /\ id \in DOMAIN orders /\ id \in ReachedIds
      /\ order.status \notin Terminal
      /\ order.filled + fill.quantity =< order.request.quantity
  BY MovableIsNotTerminal, OrderManagerAssumption
     DEF Bookable, ReachedIds, TradeFill
<1>2. order \in Order
  BY <1>1 DEF IInv, TypeOK
<1>3. /\ order.filled \in Nat
      /\ order.request.quantity \in Nat
      /\ fill.quantity \in Nat
      /\ i \in Instruments
      /\ order.request.side \in {"BUY", "SELL"}
      /\ positions \in [Instruments -> Int]
  BY <1>2, OrderManagerAssumption
     DEF Order, OrderRequest, TradeFill, Sides, IInv, TypeOK
<1>4. MaxPositionSize \in Nat
  BY RiskManagerAssumption
<1>5. /\ DOMAIN orders' = DOMAIN orders
      /\ orders'[id].request = order.request
      /\ orders'[id].filled = order.filled + fill.quantity
      /\ positions' = [positions EXCEPT ![i] = @ + move]
      /\ UNCHANGED brokerOrders
  BY <1>1, <1>2 DEF BookFill, brokerVars, Order
<1>6. positions'[i] = positions[i] + move
  BY <1>3, <1>5
<1> SUFFICES ASSUME SingleOrder' PROVE Headroom'
  BY DEF Headroom
<1>7. /\ SingleOrder
      /\ \A x \in ReachedIds : x = id
      /\ Within(Filled(order))
      /\ Within(positions[i])
      /\ DOMAIN brokerOrders # {}
  BY <1>1, <1>3, <1>5 DEF Headroom, SingleOrder
<1>8. positions[i] + SignedQuantity(order.request.side,
                                    order.request.quantity - order.filled)
        = Filled(order)
  BY DEF Filled
<1>9. Within(positions[i] + move)
  <2>1. CASE order.request.side = "BUY"
    BY <1>1, <1>3, <1>4, <1>7, <1>8, <2>1 DEF Within, SignedQuantity
  <2>2. CASE order.request.side = "SELL"
    BY <1>1, <1>3, <1>4, <1>7, <1>8, <2>2 DEF Within, SignedQuantity
  <2> QED
    BY <1>3, <2>1, <2>2
<1>10. \A j \in Instruments : Within(positions'[j])
  BY <1>3, <1>5, <1>6, <1>7, <1>9 DEF Headroom
<1>11. positions'[i]
         + SignedQuantity(order.request.side,
                          order.request.quantity - (order.filled + fill.quantity))
         = Filled(order)
  <2>1. positions[i] \in Int
    BY <1>3
  <2>2. CASE order.request.side = "BUY"
    BY <1>3, <1>6, <1>8, <2>1, <2>2 DEF SignedQuantity
  <2>3. CASE order.request.side = "SELL"
    BY <1>3, <1>6, <1>8, <2>1, <2>3 DEF SignedQuantity
  <2> QED
    BY <1>3, <2>2, <2>3
<1>12. ReachedIds' = ReachedIds
  BY <1>5 DEF ReachedIds
<1>13. \A x \in ReachedIds' : Within(positions'[orders'[x].request.instrument]
         + SignedQuantity(orders'[x].request.side,
                          orders'[x].request.quantity - orders'[x].filled))
  BY <1>5, <1>7, <1>11, <1>12
<1> QED
  BY <1>5, <1>7, <1>10, <1>12, <1>13 DEF Headroom, Filled

(* What the broker receives is within the limit from the position booked,  *)
(* which has not moved since the risk manager looked at it.                *)
LEMMA ReceiveHeadroom ==
  ASSUME IInv, Headroom, CallsAreApproved, NEW call \in inFlight, Receive(call)
  PROVE  Headroom'
<1> DEFINE request == call.request
<1>1. /\ call \in Call /\ request \in OrderRequest
      /\ PositionWithinLimit(request.side, request.quantity,
                             positions[request.instrument])
  BY DEF CallsAreApproved, Call
<1> HIDE DEF request
<1>2. CASE CreateOrder(request, TRUE)
  BY <1>1, <1>2, CreateHeadroom
<1>3. CASE SubmitReplyLost(request)
  BY <1>1, <1>3, LostReplyHeadroom DEF SubmitReplyLost, omsVars
<1>4. CASE call.id # NoOrder
  <2>1. call.id \in OrderIds
    BY <1>1, <1>4 DEF Call
  <2>2. CASE ReplaceOrder(call.id, request, TRUE)
    BY <1>1, <2>1, <2>2, ReplaceHeadroom
  <2>3. CASE ReplaceReplyLost(call.id, request)
    BY <1>1, <2>1, <2>3, LostReplyHeadroom DEF ReplaceReplyLost, omsVars
  <2> QED
    BY <1>4, <2>2, <2>3 DEF Receive, request
<1> QED
  BY <1>2, <1>3, <1>4 DEF Receive, request

LEMMA NextHeadroom ==
  IInv /\ Headroom /\ CallsAreApproved /\ [SystemNext]_systemVars => Headroom'
<1> SUFFICES ASSUME IInv, Headroom, CallsAreApproved, [SystemNext]_systemVars
             PROVE  Headroom'
  OBVIOUS
<1>1. CASE UNCHANGED <<orders, positions, brokerOrders>>
  BY <1>1, LostReplyHeadroom
<1>2. CASE Decision
  <2>1. PICK request \in OrderRequest :
          \E allowed \in Decisions(request) : Handled(request, allowed)
    BY <1>2 DEF Decision
  <2>2. PICK allowed \in Decisions(request) : Handled(request, allowed)
    BY <2>1
  <2>3. CASE StoreRejected(request)
    BY <2>3, RejectedHeadroom
  <2>4. CASE UNCHANGED vars
    BY <1>1, <2>4 DEF vars
  <2> QED
    BY <2>2, <2>3, <2>4, HandledDecides
<1>3. CASE \E id \in OrderIds : PassOnCancel(id)
  <2>1. PICK id \in OrderIds : CancelOrder(id) \/ CancelReplyLost(id)
    BY <1>3 DEF PassOnCancel
  <2>2. CASE CancelOrder(id)
    BY <2>2, CancelHeadroom
  <2>3. CASE CancelReplyLost(id)
    BY <2>3, LostReplyHeadroom DEF CancelReplyLost, BrokerCancel, omsVars
  <2> QED
    BY <2>1, <2>2, <2>3
<1>4. CASE HandleFills
  <2>1. CASE AddFill \/ PollFills
    BY <1>1, <2>1 DEF AddFill, PollFills, omsVars
  <2>2. CASE ProcessPolledFill
    <3>1. Head(batch) \in TradeFill
      BY <2>2, FillIsTyped DEF ProcessPolledFill
    <3> QED
      BY <1>1, <2>2, <3>1, BookFillHeadroom
         DEF ProcessPolledFill, RefuseFill, brokerVars
  <2>3. CASE \E fill \in executions : ProcessFill(fill)
    <3>1. PICK fill \in executions : ProcessFill(fill)
      BY <2>3
    <3>2. fill \in TradeFill
      BY DEF IInv, TypeOK
    <3> QED
      BY <1>1, <3>1, <3>2, BookFillHeadroom DEF ProcessFill, RefuseFill, brokerVars
  <2> QED
    BY <1>4, <2>1, <2>2, <2>3 DEF HandleFills
<1>5. CASE RequestReceived
  BY <1>5, ReceiveHeadroom DEF RequestReceived
<1>6. CASE RequestNotReceived \/ ReportPnl \/ Stop \/ Tick \/ UNCHANGED systemVars
  BY <1>1, <1>6 DEF RequestNotReceived, ReportPnl, Stop, Tick, systemVars, vars
<1> QED
  BY <1>2, <1>3, <1>4, <1>5, <1>6, SystemSteps DEF OtherOperation

(* While the broker has seen a single order, with all its replaces, lost   *)
(* replies and partial fills, no position passes the limit.                *)
THEOREM SingleOrderIsLimited == SystemSpec => []SingleOrderKeepsLimit
<1>1. SystemInit => Headroom
  <2> SUFFICES ASSUME SystemInit PROVE Headroom
    OBVIOUS
  <2>1. DOMAIN orders = {} /\ \A i \in Instruments : positions[i] = 0
    BY DEF SystemInit, Init, NoOrders
  <2> QED
    BY <2>1, RiskManagerAssumption DEF Headroom, ReachedIds, Within
<1>2. IInv /\ Headroom => SingleOrderKeepsLimit
  <2> SUFFICES ASSUME IInv, Headroom, SingleOrder, NEW i \in Instruments
               PROVE  Abs(positions[i]) =< MaxPositionSize
    BY DEF SingleOrderKeepsLimit, SingleOrder
  <2>1. positions[i] \in Int /\ MaxPositionSize \in Nat
    BY RiskManagerAssumption DEF IInv, TypeOK
  <2> QED
    BY <2>1 DEF Headroom, Within, Abs
<1> QED
  BY <1>1, <1>2, NextHeadroom, OrderPathIsOrderManager, Invariance,
     CallsStayApproved, PTL DEF SystemSpec
=============================================================================
