----------------------------- MODULE Accounting -----------------------------
(* Backtest portfolio accounting (backtest/accounting.py): cash, realized  *)
(* profit and where it was made, and positions with average prices.        *)
EXTENDS PositionBook

AssetClasses == {"EQUITY", "OPTION"}

(* contract says whether the option's contract is attached to the position.*)
Position == [quantity: Int, average: Fractions, contract: BOOLEAN]

Account(symbols) ==
    [cash: Int, realized: Fractions, peak: Int, positions: [symbols -> Position],
     by_instrument: [symbols -> Fractions], by_asset_class: [AssetClasses -> Fractions]]

EquityPoint == [equity: Int, unrealized: Fractions, drawdown: Fractions, peak: Int]

NoPosition == [quantity |-> 0, average |-> Whole(0), contract |-> FALSE]

NewAccount(symbols, cash) ==
    [cash |-> cash, realized |-> Whole(0), peak |-> cash,
     positions |-> [s \in symbols |-> NoPosition],
     by_instrument |-> [s \in symbols |-> Whole(0)],
     by_asset_class |-> [c \in AssetClasses |-> Whole(0)]]

Opens(position, signed) ==
    position.quantity = 0 \/ SameDirection(position.quantity, signed)

(* Profit realized on the part of the position a fill closes.              *)
RealizedBy(position, signed, price) ==
    LET closed == Min({Magnitude(signed), Magnitude(position.quantity)})
        perUnit == Minus(Whole(price), position.average)
    IN  IF Opens(position, signed) THEN Whole(0)
        ELSE Scale(IF position.quantity > 0 THEN closed ELSE -closed, perUnit)

(* Changed form: a fill through zero keeps the old average.                *)
PositionKeepsAverage(position, signed, price) ==
    LET held == position.quantity + signed IN
      [position EXCEPT
         !.quantity = held,
         !.average = IF Opens(position, signed) THEN Blended(position, signed, price)
                     ELSE IF held = 0 THEN Whole(0) ELSE @]

(* A fill through zero starts the new position at its own price.           *)
PositionAfter(position, signed, price) ==
    LET held == position.quantity + signed IN
      [position EXCEPT
         !.quantity = held,
         !.average = IF Opens(position, signed) THEN Blended(position, signed, price)
                     ELSE IF held = 0 THEN Whole(0)
                     ELSE IF SameDirection(position.quantity, held) THEN @
                     ELSE Whole(price)]

(* Changed form: only the latest profit of a class is kept.                *)
AttributionOverwritten(bucket, profit) == profit

Attribution(bucket, profit) == Plus(bucket, profit)

(* apply_fill, costs being commission and fees.                            *)
BookTrade(account, symbol, class, signed, price, costs) ==
    LET profit == RealizedBy(account.positions[symbol], signed, price)
    IN  [account EXCEPT
           !.cash = @ - signed * price - costs,
           !.realized = Plus(@, profit),
           !.positions[symbol] = PositionAfter(@, signed, price),
           !.by_instrument[symbol] = Attribution(@, profit),
           !.by_asset_class[class] = Attribution(@, profit)]

(* snapshot: the account at the latest marks, with the equity's distance   *)
(* from its peak; a position without a mark does not count.                *)
Snapshot(account, marks) ==
    LET marked == {s \in DOMAIN marks : account.positions[s].quantity # 0}
        worth == [s \in marked |-> account.positions[s].quantity * marks[s]]
        gain == [s \in marked |-> Scale(account.positions[s].quantity,
                                    Minus(Whole(marks[s]), account.positions[s].average))]
        equity == account.cash + SumFunctionOnSet(worth, marked)
        peak == Max({account.peak, equity})
    IN  [equity |-> equity,
         unrealized |-> SumOver(gain, marked),
         drawdown |-> IF peak =< 0 THEN Whole(0)
                      ELSE Fraction(peak - equity, peak),
         peak |-> peak]
=============================================================================
