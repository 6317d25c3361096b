---------------------------- MODULE PositionBook ----------------------------
(* The live position book (portfolio/updater.py), for one instrument: the  *)
(* effect of a fill on quantity and weighted average price.  Averages are  *)
(* exact fractions where the code has floats.                              *)
EXTENDS Rational

Flat == [quantity |-> 0, average |-> Whole(0)]

SignedFill(side, quantity) == IF side = "BUY" THEN quantity ELSE -quantity

SameDirection(a, b) == (a > 0 /\ b > 0) \/ (a < 0 /\ b < 0)

(* Cost-weighted average after adding signed at price to position.         *)
Blended(position, signed, price) ==
    Over(Plus(Scale(Magnitude(position.quantity), position.average),
              Whole(price * Magnitude(signed))),
         Magnitude(position.quantity + signed))

(* Changed form: every fill is averaged in, reducing ones too.             *)
BlendAlways(position, side, quantity, price) ==
    LET signed == SignedFill(side, quantity)
        held == position.quantity + signed
    IN  IF held = 0 THEN Flat
        ELSE [quantity |-> held, average |-> Blended(position, signed, price)]

(* apply_fill: a fill against the position keeps its average, even when it *)
(* carries the position through zero.                                      *)
ApplyFill(position, side, quantity, price) ==
    LET signed == SignedFill(side, quantity)
        held == position.quantity + signed
        opens == position.quantity = 0 \/ SameDirection(position.quantity, signed)
    IN  IF held = 0 THEN Flat
        ELSE [quantity |-> held,
              average |-> IF opens THEN Blended(position, signed, price)
                          ELSE position.average]
=============================================================================
