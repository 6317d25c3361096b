------------------------------ MODULE Rational ------------------------------
(* Exact fractions, for the averages the code keeps as floats: a pair      *)
(* <<n, d>> in lowest terms with d > 0, so that equality is =.             *)
EXTENDS Integers, FiniteSetsExt, Functions

Fractions == Int \X (Nat \ {0})

Magnitude(n) == IF n < 0 THEN -n ELSE n

(* The least denominator n/d can be written with.                          *)
Denominator(n, d) ==
    CHOOSE k \in 1..d : (n * k) % d = 0 /\ \A j \in 1..(k - 1) : (n * j) % d # 0

Fraction(n, d) ==
    LET k == Denominator(n, d) IN <<(n * k) \div d, k>>

Whole(n) == <<n, 1>>

Plus(a, b) == Fraction(a[1] * b[2] + b[1] * a[2], a[2] * b[2])

Minus(a, b) == Fraction(a[1] * b[2] - b[1] * a[2], a[2] * b[2])

Scale(k, a) == Fraction(k * a[1], a[2])

Over(a, k) == Fraction(a[1], a[2] * k)

Ratio(a, b) == Fraction(a[1] * b[2], a[2] * b[1])  \* for b > 0

Absolute(a) == <<Magnitude(a[1]), a[2]>>

(* The sum of the fractions w[x] over the members x of a set.              *)
SumOver(w, S) == FoldFunctionOnSet(Plus, Whole(0), w, S)

AtMost(a, b) == a[1] * b[2] =< b[1] * a[2]

Less(a, b) == ~AtMost(b, a)
=============================================================================
