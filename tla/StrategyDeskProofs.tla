-------------------------- MODULE StrategyDeskProofs --------------------------
(* Proofs about StrategyDesk: what the four strategies answer is a         *)
(* function of the whole past (SignalsFollow, BreakoutsCompare) although   *)
(* the code keeps bounded deques of it; and what the targets do to the     *)
(* positions is bounded by what was signalled (PositionsStayWithin) and,   *)
(* for calls, by what construction makes of the shares that triggers found *)
(* (SoldCallsAreBounded), however late a consumer executes them.  The      *)
(* fractions of the means, deviations and baselines are dealt with by what *)
(* they denote, DataTheorems; whatever is folded in the model is dealt     *)
(* with by the induction FoldInduction of that module.                     *)
EXTENDS StrategyDesk, DataTheorems

(* What of a history a window of bounded length keeps.                     *)
IsLatest(window, history, lookback) ==
    /\ Len(window) = IF Len(history) < lookback THEN Len(history) ELSE lookback
    /\ \A k \in 1..Len(window) : window[k] = history[Len(history) - Len(window) + k]

-----------------------------------------------------------------------------
(* Windows.                                                                *)

LEMMA AppendedIsLatest ==
  ASSUME NEW S, NEW window \in Seq(S), NEW history \in Seq(S), NEW value \in S,
         NEW lookback \in Nat \ {0}, IsLatest(window, history, lookback)
  PROVE  LET longer == Appended(window, value, lookback) IN
         /\ longer \in Seq(S) /\ longer # <<>> /\ Len(longer) =< lookback
         /\ longer[Len(longer)] = value
         /\ IsLatest(longer, Append(history, value), lookback)
<1> DEFINE longer == Append(window, value)
           all == Append(history, value)
           w == Len(window)
           h == Len(history)
<1>1. /\ w \in Nat /\ longer \in Seq(S) /\ Len(longer) = w + 1
      /\ \A k \in 1..w : longer[k] = window[k]
      /\ longer[w + 1] = value
  OBVIOUS
<1>2. /\ h \in Nat /\ all \in Seq(S) /\ Len(all) = h + 1
      /\ \A k \in 1..h : all[k] = history[k]
      /\ all[h + 1] = value
  OBVIOUS
<1>3. /\ w = IF h < lookback THEN h ELSE lookback
      /\ \A k \in 1..w : window[k] = history[h - w + k]
  BY DEF IsLatest
<1>4. Appended(window, value, lookback) =
        IF Len(longer) > lookback THEN Tail(longer) ELSE longer
  BY DEF Appended
<1> HIDE DEF longer, all, w, h
<1>5. CASE Len(longer) > lookback
  <2> DEFINE kept == Tail(longer)
  <2>1. w = lookback /\ h >= lookback
    BY <1>1, <1>2, <1>3, <1>5
  <2>2. /\ kept \in Seq(S) /\ Len(kept) = lookback
        /\ \A k \in 1..lookback : kept[k] = longer[k + 1]
    BY <1>1, <2>1
  <2>3. Appended(window, value, lookback) = kept
    BY <1>4, <1>5
  <2> HIDE DEF kept
  <2>4. kept[lookback] = value
    BY <1>1, <2>1, <2>2
  <2>5. ASSUME NEW k \in 1..lookback, k # lookback
        PROVE  kept[k] = all[(h + 1) - lookback + k]
    <3>1. k + 1 \in 1..w /\ h - w + (k + 1) \in 1..h
      BY <1>2, <2>1, <2>5
    <3>2. kept[k] = window[k + 1]
      BY <1>1, <2>2, <3>1
    <3>4. window[k + 1] = history[h - w + (k + 1)]
      BY <1>3, <3>1
    <3>5. history[h - w + (k + 1)] = all[h - w + (k + 1)]
      BY <1>2, <3>1
    <3>3. h - w + (k + 1) = (h + 1) - lookback + k
      BY <1>2, <2>1
    <3> QED
      BY <3>2, <3>3, <3>4, <3>5
  <2>6. (h + 1) - lookback + lookback = h + 1
    BY <1>2
  <2>7. \A k \in 1..Len(kept) : kept[k] = all[Len(all) - Len(kept) + k]
    BY <1>2, <2>2, <2>4, <2>5, <2>6
  <2>8. Len(kept) = IF Len(all) < lookback THEN Len(all) ELSE lookback
    BY <1>2, <2>1, <2>2
  <2>9. kept # <<>>
    BY <2>2
  <2>10. IsLatest(kept, all, lookback)
    BY <2>7, <2>8 DEF IsLatest
  <2> QED
    BY <2>2, <2>3, <2>4, <2>9, <2>10 DEF all
<1>6. CASE ~(Len(longer) > lookback)
  <2>1. w = h /\ h + 1 =< lookback /\ Len(longer) = h + 1
    BY <1>1, <1>2, <1>3, <1>6
  <2>2. Appended(window, value, lookback) = longer
    BY <1>4, <1>6
  <2>3. ASSUME NEW k \in 1..(h + 1)
        PROVE  longer[k] = all[k]
    <3>1. CASE k = h + 1
      BY <1>1, <1>2, <2>1, <3>1
    <3>2. CASE k # h + 1
      <4>1. k \in 1..h /\ h - w + k = k
        BY <1>2, <2>1, <3>2
      <4> QED
        BY <1>1, <1>2, <1>3, <2>1, <4>1
    <3> QED
      BY <3>1, <3>2
  <2>4. \A k \in 1..Len(longer) : longer[k] = all[Len(all) - Len(longer) + k]
    <3>1. ASSUME NEW k \in 1..(h + 1) PROVE (h + 1) - (h + 1) + k = k
      BY <1>2
    <3> QED
      BY <1>2, <2>1, <2>3, <3>1
  <2>5. Len(longer) = IF Len(all) < lookback THEN Len(all) ELSE lookback
    BY <1>2, <2>1
  <2>6. longer # <<>>
    BY <1>1
  <2>7. longer[Len(longer)] = value
    BY <1>1, <2>1
  <2>8. IsLatest(longer, all, lookback)
    BY <2>4, <2>5 DEF IsLatest
  <2> QED
    BY <1>1, <1>6, <2>1, <2>2, <2>6, <2>7, <2>8 DEF all
<1> QED
  BY <1>5, <1>6

LEMMA FullWindow ==
  ASSUME NEW S, NEW window \in Seq(S), NEW history \in Seq(S),
         NEW lookback \in Nat \ {0}, IsLatest(window, history, lookback),
         Len(history) >= lookback
  PROVE  /\ window = Latest(history, lookback)
         /\ Len(window) = lookback
         /\ window[1] = history[Len(history) - lookback + 1]
         /\ window[Len(window)] = history[Len(history)]
<1>1. /\ Len(window) = lookback
      /\ \A k \in 1..lookback : window[k] = history[Len(history) - lookback + k]
  <2>1. Len(window) = lookback
    <3>1. Len(history) \in Nat /\ Len(window) = IF Len(history) < lookback THEN Len(history)
                                                ELSE lookback
      BY DEF IsLatest
    <3> QED
      BY <3>1
  <2> QED
    BY <2>1 DEF IsLatest
<1>2. /\ Latest(history, lookback) \in Seq(S)
      /\ Len(Latest(history, lookback)) = lookback
      /\ \A k \in 1..lookback :
           Latest(history, lookback)[k] = history[Len(history) - lookback + k]
  BY DEF Latest
<1>3. window = Latest(history, lookback)
  BY <1>1, <1>2
<1> QED
  BY <1>1, <1>3

-----------------------------------------------------------------------------
(* Means, strengths and signals.                                           *)

LEMMA MeanNotNegative ==
  ASSUME NEW q \in Seq(NotNegative), q # <<>>
  PROVE  /\ Mean(q) \in NotNegative
         /\ (\A i \in DOMAIN q : q[i][1] > 0) => Mean(q)[1] > 0
<1> DEFINE sum == FoldLeft(Plus, Whole(0), q)
<1>1. /\ sum \in NotNegative
      /\ (\A i \in DOMAIN q : q[i][1] > 0) => sum[1] > 0
  BY FoldedSum
<1>2. Len(q) \in Nat /\ Len(q) > 0
  OBVIOUS
<1>3. Mean(q) = Over(sum, Len(q))
  BY DEF Mean
<1> HIDE DEF sum
<1>4. sum \in Fractions /\ sum[1] \in Nat
  BY <1>1 DEF NotNegative, Fractions
<1>5. Denotes(Mean(q), sum[1], sum[2] * Len(q))
  BY <1>2, <1>3, <1>4, SelfDenotes, DenotedMultiples
<1>6. /\ Mean(q) \in Fractions /\ ~(Mean(q)[1] < 0)
      /\ sum[1] > 0 => Mean(q)[1] > 0
  BY <1>4, <1>5, DenotedSign
<1> QED
  BY <1>1, <1>6 DEF NotNegative, Fractions

LEMMA CappedIsStrength ==
  ASSUME NEW f \in NotNegative
  PROVE  Capped(f) \in Strengths /\ AtMost(Capped(f), f)
<1>1. CASE Less(f, Whole(1))
  BY <1>1 DEF Capped, Less, AtMost, Whole, NotNegative, Strengths
<1>2. CASE ~Less(f, Whole(1))
  BY <1>2 DEF Capped, Less, AtMost, Whole, NotNegative, Strengths
<1> QED
  BY <1>1, <1>2

SignalsFor(instrument) == {s \in StrategySignal : s.instrument_id = instrument}

LEMMA SignalType ==
  ASSUME NEW strategy \in Strategies, NEW instrument \in Instruments,
         NEW class \in {"EQUITY", "OPTION"}, NEW side \in {"BUY", "SELL"},
         NEW strength \in NotNegative
  PROVE  /\ Signal(strategy, instrument, class, side, strength) \in SignalsFor(instrument)
         /\ Signal(strategy, instrument, class, side, strength).strategy_id = strategy
         /\ Signal(strategy, instrument, class, side, strength).side = side
         /\ Signal(strategy, instrument, class, side, strength).strength = Capped(strength)
BY CappedIsStrength DEF Signal, SignalsFor, StrategySignal

LEMMA PricesArePositive ==
  ASSUME NEW window \in Seq(Prices)
  PROVE  window \in Seq(NotNegative) /\ \A i \in DOMAIN window : window[i][1] > 0
BY DEF Prices, NotNegative

(* The answer of momentum: none, or one signal on the side the window has  *)
(* moved to.                                                               *)
LEMMA MomentumAnswer ==
  ASSUME NEW instrument \in Instruments, NEW window \in Seq(Prices), window # <<>>
  PROVE  LET answer == MomentumSignals(instrument, window)
             first == window[1]
             last == window[Len(window)]
         IN \/ /\ Len(window) < MomentumLookback \/ last = first
               /\ answer = <<>>
            \/ /\ ~(Len(window) < MomentumLookback \/ last = first)
               /\ \E s \in SignalsFor(instrument) :
                    /\ answer = <<s>>
                    /\ s.strategy_id = "us_equity_momentum"
                    /\ s.side = IF Less(first, last) THEN "BUY" ELSE "SELL"
<1> DEFINE first == window[1]
           last == window[Len(window)]
           move == Ratio(Absolute(Minus(last, first)), first)
           side == IF Less(first, last) THEN "BUY" ELSE "SELL"
           s == Signal("us_equity_momentum", instrument, "EQUITY", side, move)
<1>1. first \in Prices /\ last \in Prices
  OBVIOUS
<1>2. MomentumSignals(instrument, window) =
        IF Len(window) < MomentumLookback \/ last = first THEN <<>> ELSE <<s>>
  BY DEF MomentumSignals
<1>3. first \in Fractions /\ first[1] > 0 /\ last \in Fractions
  BY <1>1 DEF Prices, Fractions
<1> HIDE DEF first, last
<1>4. move \in NotNegative
  <2> DEFINE n == last[1] * first[2] - first[1] * last[2]
             d == last[2] * first[2]
  <2>1. Denotes(Minus(last, first), n, d)
    BY <1>3, SelfDenotes, DenotedSums
  <2>2. Denotes(Absolute(Minus(last, first)), Magnitude(n), d)
    BY <2>1, DenotedMagnitudes
  <2>3. Denotes(move, Magnitude(n) * first[2], d * first[1])
    BY <1>3, <2>2, SelfDenotes, DenotedRatios
  <2>4. n \in Int /\ first[2] \in Nat
    BY <1>3 DEF Fractions
  <2> HIDE DEF n, move
  <2>5. Magnitude(n) * first[2] \in Nat
    BY <2>4 DEF Magnitude
  <2>6. move \in Fractions /\ ~(move[1] < 0)
    BY <2>3, <2>5, DenotedSign
  <2> QED
    BY <2>6 DEF NotNegative, Fractions
<1>5. side \in {"BUY", "SELL"}
  OBVIOUS
<1> HIDE DEF move, side
<1>6. s \in SignalsFor(instrument) /\ s.strategy_id = "us_equity_momentum" /\ s.side = side
  <2>1. "us_equity_momentum" \in Strategies /\ "EQUITY" \in {"EQUITY", "OPTION"}
    BY DEF Strategies
  <2> QED
    BY <1>4, <1>5, <2>1, SignalType
<1> HIDE DEF s
<1> QED
  BY <1>2, <1>6 DEF side, first, last

LEMMA Constants ==
  /\ MomentumLookback \in Nat \ {0} /\ ReversionLookback \in Nat \ {0}
  /\ BreakoutLookback \in Nat \ {0} /\ BaseLotSize \in Nat \ {0}
  /\ ReversionThreshold \in Fractions /\ ReversionThreshold[1] > 0
  /\ ReversionThreshold[2] \in Nat \ {0}
  /\ BreakoutMultiplier \in Fractions /\ BreakoutMultiplier[1] >= BreakoutMultiplier[2]
  /\ BreakoutMultiplier[2] \in Nat \ {0}
<1>1. /\ {MomentumLookback, ReversionLookback, BreakoutLookback, BaseLotSize} \subseteq Nat \ {0}
      /\ {ReversionThreshold, BreakoutMultiplier, MinStrength} \subseteq Fractions
      /\ Less(Whole(0), ReversionThreshold)
      /\ AtMost(Whole(1), BreakoutMultiplier)
  BY StrategyDeskAssumption
<1>2. /\ ReversionThreshold[1] \in Int /\ ReversionThreshold[2] \in Nat \ {0}
      /\ BreakoutMultiplier[1] \in Int /\ BreakoutMultiplier[2] \in Nat \ {0}
  BY <1>1 DEF Fractions
<1> QED
  BY <1>1, <1>2 DEF Less, AtMost, Whole

(* What mean reversion compares: a price deviates far enough from the mean *)
(* exactly if it is that far below or that far above.                      *)
LEMMA DeviationSides ==
  ASSUME NEW price \in Prices, NEW average \in NotNegative, average[1] > 0
  PROVE  LET gap == Minus(price, average)
             deviation == Ratio(Absolute(gap), average)
             far == Scale(ReversionThreshold[1], Over(average, ReversionThreshold[2]))
         IN /\ Ratio(deviation, Scale(2, ReversionThreshold)) \in NotNegative
            /\ AtMost(price, Minus(average, far)) <=>
                 ~Less(deviation, ReversionThreshold) /\ Less(gap, Whole(0))
            /\ AtMost(Plus(average, far), price) <=>
                 ~Less(deviation, ReversionThreshold) /\ ~Less(gap, Whole(0))
<1> DEFINE gap == Minus(price, average)
           deviation == Ratio(Absolute(gap), average)
           over == Over(average, ReversionThreshold[2])
           far == Scale(ReversionThreshold[1], over)
           below == Minus(average, far)
           above == Plus(average, far)
           scaled == Ratio(deviation, Scale(2, ReversionThreshold))
           p == price[1]
           a == average[1]
           b == average[2]
           t == ReversionThreshold[1]
           u == ReversionThreshold[2]
           g == p * b - a * 1
<1>1. /\ Denotes(price, p, 1) /\ Denotes(average, a, b) /\ Denotes(ReversionThreshold, t, u)
      /\ p \in Int /\ a \in Nat \ {0} /\ b \in Nat \ {0} /\ t \in Nat \ {0} /\ u \in Nat \ {0}
  <2>1. /\ price \in Fractions /\ average \in Fractions /\ ReversionThreshold \in Fractions
        /\ price[2] = 1 /\ t > 0
    BY Constants DEF Prices, NotNegative, Fractions
  <2> QED
    BY <2>1, SelfDenotes DEF NotNegative, Fractions
<1>2. Denotes(gap, g, 1 * b)
  BY <1>1, DenotedSums
<1>3. Denotes(deviation, Magnitude(g) * b, (1 * b) * a)
  BY <1>1, <1>2, DenotedMagnitudes, DenotedRatios
<1>4. Denotes(far, t * a, b * u)
  <2>1. u \in Int /\ u > 0 /\ t \in Int
    BY <1>1
  <2>2. Denotes(over, a, b * u)
    BY <1>1, <2>1, DenotedMultiples
  <2> HIDE DEF over
  <2> QED
    BY <2>1, <2>2, DenotedMultiples
<1>5. /\ Denotes(below, a * (b * u) - (t * a) * b, b * (b * u))
      /\ Denotes(above, a * (b * u) + (t * a) * b, b * (b * u))
  BY <1>1, <1>4, DenotedSums
<1>6. Denotes(scaled, (Magnitude(g) * b) * u, ((1 * b) * a) * (2 * t))
  <2>1. Denotes(Scale(2, ReversionThreshold), 2 * t, u) /\ 2 * t > 0
    <3> DEFINE two == 2
    <3>1. two \in Int /\ two * t > 0
      BY <1>1
    <3> HIDE DEF two
    <3>2. Denotes(Scale(two, ReversionThreshold), two * t, u)
      BY <1>1, <3>1, DenotedMultiples
    <3> QED
      BY <3>1, <3>2 DEF two
  <2> QED
    BY <1>3, <2>1, DenotedRatios
<1>7. /\ Less(deviation, ReversionThreshold) <=> (Magnitude(g) * b) * u < t * ((1 * b) * a)
      /\ AtMost(price, below) <=> p * (b * (b * u)) =< (a * (b * u) - (t * a) * b) * 1
      /\ AtMost(above, price) <=> (a * (b * u) + (t * a) * b) * 1 =< p * (b * (b * u))
      /\ Less(gap, Whole(0)) <=> g * 1 < 0 * (1 * b)
  BY <1>1, <1>2, <1>3, <1>5, DenotedOrder, WholeDenotes
<1> HIDE DEF gap, deviation, far, below, above, scaled, p, a, b, t, u
<1> DEFINE x == t * a
           y == g * u
<1>8. x \in Int /\ x > 0 /\ y \in Int /\ g \in Int /\ (g < 0 <=> y < 0)
      /\ Magnitude(g) * u = Magnitude(y)
  <2>1. g \in Int
    BY <1>1
  <2> HIDE DEF g
  <2>2. (-g) * u = -(g * u)
    BY <1>1, <2>1
  <2>3. g < 0 <=> y < 0
    BY <1>1, <2>1
  <2> QED
    BY <1>1, <2>1, <2>2, <2>3 DEF Magnitude
<1>9. scaled \in NotNegative
  <2>1. Magnitude(g) \in Nat
    BY <1>8 DEF Magnitude
  <2>2. (Magnitude(g) * b) * u \in Nat
    BY <1>1, <2>1
  <2>3. scaled \in Fractions /\ ~(scaled[1] < 0)
    BY <1>6, <2>2, DenotedSign
  <2> QED
    BY <2>3 DEF NotNegative, Fractions
<1>10. y = (p * b) * u - a * u
  BY <1>1
<1>11. Less(deviation, ReversionThreshold) <=> Magnitude(y) < x
  <2>1. (Magnitude(g) * b) * u = b * Magnitude(y) /\ t * ((1 * b) * a) = b * x
    <3>1. Magnitude(g) \in Int /\ (Magnitude(g) * b) * u = b * (Magnitude(g) * u)
      BY <1>1, <1>8 DEF Magnitude
    <3> QED
      BY <1>1, <1>8, <3>1
  <2>2. Magnitude(y) \in Int
    BY <1>8 DEF Magnitude
  <2> HIDE DEF x, y
  <2>3. b * x =< b * Magnitude(y) <=> x =< Magnitude(y)
    BY <1>1, <1>8, <2>2, Cancel
  <2>4. b * x \in Int /\ b * Magnitude(y) \in Int
    BY <1>1, <1>8, <2>2
  <2> QED
    BY <1>7, <1>8, <2>1, <2>2, <2>3, <2>4
<1>12. AtMost(price, below) <=> x =< -y
  <2>1. /\ p * (b * (b * u)) = b * ((p * b) * u)
        /\ (a * (b * u) - (t * a) * b) * 1 = b * (a * u - x)
    BY <1>1
  <2>2. b * ((p * b) * u) =< b * (a * u - x) <=> (p * b) * u =< a * u - x
    BY <1>1, <1>8, Cancel
  <2>3. (p * b) * u \in Int /\ a * u \in Int
    BY <1>1
  <2> HIDE DEF x, y
  <2> QED
    BY <1>7, <1>8, <1>10, <2>1, <2>2, <2>3
<1>13. AtMost(above, price) <=> x =< y
  <2>1. /\ p * (b * (b * u)) = b * ((p * b) * u)
        /\ (a * (b * u) + (t * a) * b) * 1 = b * (a * u + x)
    BY <1>1
  <2>2. b * (a * u + x) =< b * ((p * b) * u) <=> a * u + x =< (p * b) * u
    BY <1>1, <1>8, Cancel
  <2>3. (p * b) * u \in Int /\ a * u \in Int
    BY <1>1
  <2> HIDE DEF x, y
  <2> QED
    BY <1>7, <1>8, <1>10, <2>1, <2>2, <2>3
<1>14. Less(gap, Whole(0)) <=> y < 0
  BY <1>1, <1>7, <1>8
<1> HIDE DEF x, y, g
<1>15. /\ AtMost(price, below) <=> ~Less(deviation, ReversionThreshold) /\ Less(gap, Whole(0))
       /\ AtMost(above, price) <=> ~Less(deviation, ReversionThreshold) /\ ~Less(gap, Whole(0))
  BY <1>8, <1>11, <1>12, <1>13, <1>14 DEF Magnitude
<1> QED
  BY <1>9, <1>15 DEF gap, deviation, far, below, above, scaled

(* The answer of mean reversion.                                           *)
LEMMA ReversionAnswer ==
  ASSUME NEW instrument \in Instruments, NEW window \in Seq(Prices), window # <<>>
  PROVE  LET answer == ReversionSignals(instrument, window)
             gap == Minus(window[Len(window)], Mean(window))
             deviation == Ratio(Absolute(gap), Mean(window))
         IN \/ /\ Len(window) < ReversionLookback \/ Less(deviation, ReversionThreshold)
               /\ answer = <<>>
            \/ /\ ~(Len(window) < ReversionLookback \/ Less(deviation, ReversionThreshold))
               /\ \E s \in SignalsFor(instrument) :
                    /\ answer = <<s>>
                    /\ s.strategy_id = "hk_equity_mean_reversion"
                    /\ s.side = IF Less(gap, Whole(0)) THEN "BUY" ELSE "SELL"
<1> DEFINE average == Mean(window)
           gap == Minus(window[Len(window)], average)
           deviation == Ratio(Absolute(gap), average)
           side == IF Less(gap, Whole(0)) THEN "BUY" ELSE "SELL"
           strength == Ratio(deviation, Scale(2, ReversionThreshold))
           s == Signal("hk_equity_mean_reversion", instrument, "EQUITY", side, strength)
<1>1. ReversionSignals(instrument, window) =
        IF Len(window) < ReversionLookback \/ Less(deviation, ReversionThreshold)
          THEN <<>> ELSE <<s>>
  BY DEF ReversionSignals
<1>2. window[Len(window)] \in Prices /\ average \in NotNegative /\ average[1] > 0
  BY PricesArePositive, MeanNotNegative
<1>3. strength \in NotNegative
  <2> HIDE DEF average
  <2> QED
    BY <1>2, DeviationSides
<1>4. side \in {"BUY", "SELL"} /\ "EQUITY" \in {"EQUITY", "OPTION"}
      /\ "hk_equity_mean_reversion" \in Strategies
  BY DEF Strategies
<1> HIDE DEF strength, side
<1>5. s \in SignalsFor(instrument) /\ s.strategy_id = "hk_equity_mean_reversion"
      /\ s.side = side
  BY <1>3, <1>4, SignalType
<1> HIDE DEF s
<1> QED
  BY <1>1, <1>5 DEF side

-----------------------------------------------------------------------------
(* What the two folds of the model give: the volatilities of a chain, and  *)
(* targets each of which is the target of a signal.                        *)

LEMMA VolatilityTypes ==
  ASSUME NEW chain \in Seq(ChainEntry)
  PROVE  /\ Volatilities(chain) \in Seq(NotNegative)
         /\ Len(Volatilities(chain)) =< Len(chain)
<1> DEFINE n == Len(chain)
           Value(a, e) == IF e.implied_volatility = NoVolatility THEN a
                          ELSE Append(a, Whole(e.implied_volatility))
           Acc == Seq(NotNegative)
           op == [i \in 1..n |-> [a \in Acc |-> Value(a, chain[i])]]
           Eq(g) == g = [s \in SUBSET (1..n) |->
                           IF s = {} THEN <<>> ELSE Value(g[s \ {Max(s)}], chain[Max(s)])]
           f == CHOOSE g : Eq(g)
           A == [i \in 0..n |-> {a \in Acc : Len(a) =< i}]
<1>1. n \in Nat /\ DOMAIN chain = 1..n /\ <<>> \in Acc
  OBVIOUS
<1>2. ASSUME NEW a \in Acc, NEW i \in 1..n
      PROVE  Value(a, chain[i]) \in Acc /\ Len(Value(a, chain[i])) =< Len(a) + 1
  <2>e. chain[i] \in ChainEntry
    BY <1>1
  <2>1. chain[i].implied_volatility \in Nat \cup {NoVolatility}
    BY <2>e DEF ChainEntry
  <2>2. CASE chain[i].implied_volatility = NoVolatility
    BY <2>2
  <2>3. CASE chain[i].implied_volatility # NoVolatility
    <3>1. Whole(chain[i].implied_volatility) \in NotNegative
      BY <2>1, <2>3 DEF Whole, NotNegative
    <3>2. Value(a, chain[i]) = Append(a, Whole(chain[i].implied_volatility))
      BY <2>3
    <3> QED
      BY <3>1, <3>2
  <2> QED
    BY <2>2, <2>3
<1>3. \E g : Eq(g)
  <2>1. op \in [1..n -> [Acc -> Acc]]
    BY <1>2
  <2>2. \A s \in SUBSET (1..n) : s # {} => Max(s) \in 1..n
    BY <1>1, MaxIsGreatest
  <2>3. \A i \in 1..n, a \in Acc : op[i][a] = Value(a, chain[i])
    OBVIOUS
  <2> HIDE DEF op, n, Acc, Value
  <2>4. HasFold(Acc, <<>>, n, op)
    BY <1>1, <2>1, FoldExists
  <2>5. PICK g \in [SUBSET (1..n) -> Acc] :
          \A s \in SUBSET (1..n) : g[s] = FoldStep(op, <<>>, g, s)
    BY <2>4 DEF HasFold
  <2>6. \A s \in SUBSET (1..n) :
          g[s] = IF s = {} THEN <<>> ELSE Value(g[s \ {Max(s)}], chain[Max(s)])
    BY <2>2, <2>3, <2>5 DEF FoldStep
  <2>7. Eq(g)
    BY <2>5, <2>6
  <2> QED
    BY <2>7
<1>4. Volatilities(chain) = f[1..n]
  BY <1>1 DEF Volatilities, FoldLeft, MapThenFoldSet
<1>5. Eq(f)
  BY <1>3
<1> HIDE DEF f
<1>6. f[{}] \in A[0]
  <2>1. f[{}] = <<>>
    BY <1>5
  <2> QED
    BY <1>1, <2>1
<1>7. ASSUME NEW i \in 1..n, f[1..(i - 1)] \in A[i - 1] PROVE f[1..i] \in A[i]
  <2>1. f[1..i] = Value(f[1..(i - 1)], chain[i])
    <3> HIDE DEF n, Acc, Value
    <3>1. /\ 1..i # {} /\ 1..i \in SUBSET (1..n) /\ Max(1..i) = i
          /\ (1..i) \ {Max(1..i)} = 1..(i - 1)
      BY <1>1, PrefixMax
    <3> QED
      BY <1>5, <3>1
  <2>2. f[1..(i - 1)] \in Acc /\ Len(f[1..(i - 1)]) =< i - 1 /\ i \in 0..n
    BY <1>1, <1>7
  <2>3. Value(f[1..(i - 1)], chain[i]) \in Acc
        /\ Len(Value(f[1..(i - 1)], chain[i])) =< Len(f[1..(i - 1)]) + 1
    BY <1>2, <2>2
  <2> HIDE DEF n, Value
  <2> QED
    BY <1>1, <2>1, <2>2, <2>3
<1> HIDE DEF A
<1>8. f[1..n] \in A[n]
  BY <1>1, <1>6, <1>7, FoldInduction
<1> QED
  BY <1>1, <1>4, <1>8 DEF A

LEMMA TargetsOfSignals ==
  ASSUME NEW signals \in Seq(StrategySignal)
  PROVE  BuildTargets(signals) \in Seq({TargetOf(signals[k]) : k \in DOMAIN signals})
<1> DEFINE n == Len(signals)
           Value(a, s) == IF Less(s.strength, MinStrength) THEN a ELSE Append(a, TargetOf(s))
           Acc == Seq({TargetOf(signals[k]) : k \in DOMAIN signals})
           op == [i \in 1..n |-> [a \in Acc |-> Value(a, signals[i])]]
           Eq(g) == g = [s \in SUBSET (1..n) |->
                           IF s = {} THEN <<>> ELSE Value(g[s \ {Max(s)}], signals[Max(s)])]
           f == CHOOSE g : Eq(g)
           A == [i \in 0..n |-> Acc]
<1>1. n \in Nat /\ DOMAIN signals = 1..n /\ <<>> \in Acc
  OBVIOUS
<1>2. ASSUME NEW a \in Acc, NEW i \in 1..n PROVE Value(a, signals[i]) \in Acc
  <2>1. TargetOf(signals[i]) \in {TargetOf(signals[k]) : k \in DOMAIN signals}
    BY <1>1
  <2>2. Append(a, TargetOf(signals[i])) \in Acc
    BY <2>1
  <2> QED
    BY <2>2
<1>3. \E g : Eq(g)
  <2>1. op \in [1..n -> [Acc -> Acc]]
    BY <1>2
  <2>2. \A s \in SUBSET (1..n) : s # {} => Max(s) \in 1..n
    BY <1>1, MaxIsGreatest
  <2>3. \A i \in 1..n, a \in Acc : op[i][a] = Value(a, signals[i])
    OBVIOUS
  <2> HIDE DEF op, n, Acc, Value
  <2>4. HasFold(Acc, <<>>, n, op)
    BY <1>1, <2>1, FoldExists
  <2>5. PICK g \in [SUBSET (1..n) -> Acc] :
          \A s \in SUBSET (1..n) : g[s] = FoldStep(op, <<>>, g, s)
    BY <2>4 DEF HasFold
  <2>6. \A s \in SUBSET (1..n) :
          g[s] = IF s = {} THEN <<>> ELSE Value(g[s \ {Max(s)}], signals[Max(s)])
    BY <2>2, <2>3, <2>5 DEF FoldStep
  <2>7. Eq(g)
    BY <2>5, <2>6
  <2> QED
    BY <2>7
<1>4. BuildTargets(signals) = f[1..n]
  BY <1>1 DEF BuildTargets, FoldLeft, MapThenFoldSet
<1>5. Eq(f)
  BY <1>3
<1> HIDE DEF f
<1>6. f[{}] \in A[0]
  <2>1. f[{}] = <<>>
    BY <1>5
  <2> QED
    BY <1>1, <2>1
<1>7. ASSUME NEW i \in 1..n, f[1..(i - 1)] \in A[i - 1] PROVE f[1..i] \in A[i]
  <2>1. f[1..i] = Value(f[1..(i - 1)], signals[i])
    <3> HIDE DEF n, Acc, Value
    <3>1. /\ 1..i # {} /\ 1..i \in SUBSET (1..n) /\ Max(1..i) = i
          /\ (1..i) \ {Max(1..i)} = 1..(i - 1)
      BY <1>1, PrefixMax
    <3> QED
      BY <1>5, <3>1
  <2>2. f[1..(i - 1)] \in Acc /\ i \in 0..n
    BY <1>1, <1>7
  <2> HIDE DEF Acc, Value
  <2> QED
    BY <1>2, <2>1, <2>2
<1> HIDE DEF A
<1>8. f[1..n] \in A[n]
  BY <1>1, <1>6, <1>7, FoldInduction
<1> QED
  BY <1>1, <1>4, <1>8 DEF A

-----------------------------------------------------------------------------
(* The answers of the two option strategies.                               *)

(* The covered call strategy sells calls of the first call of the chain,   *)
(* with a strength of at most a tenth per hundred shares.                  *)
LEMMA CoveredCallAnswer ==
  ASSUME NEW chain \in Seq(ChainEntry), positions[Underlying] \in Int
  PROVE  \/ CoveredCallSignals(chain) = <<>>
         \/ \E s \in StrategySignal :
              /\ CoveredCallSignals(chain) = <<s>>
              /\ s.strategy_id = "covered_call" /\ s.side = "SELL"
              /\ positions[Underlying] >= 100
              /\ 10 * s.strength[1] =< (positions[Underlying] \div 100) * s.strength[2]
<1> DEFINE shares == positions[Underlying]
           calls == {n \in DOMAIN chain : chain[n].right = "CALL"}
           contract == chain[Min(calls)].contract
           strength == Fraction(ContractsFor(shares), 10)
           s == Signal("covered_call", contract, "OPTION", "SELL", strength)
<1>1. CoveredCallSignals(chain) = IF shares < 100 \/ calls = {} THEN <<>> ELSE <<s>>
  BY DEF CoveredCallSignals
<1>2. ASSUME ~(shares < 100 \/ calls = {})
      PROVE  /\ s \in StrategySignal /\ s.strategy_id = "covered_call" /\ s.side = "SELL"
             /\ shares >= 100
             /\ 10 * s.strength[1] =< (shares \div 100) * s.strength[2]
  <2>1. Min(calls) \in calls
    <3>1. calls \in SUBSET Nat /\ calls # {}
      BY <1>2
    <3> HIDE DEF calls
    <3> QED
      BY <3>1, MinIsLeast
  <2>2. contract \in Instruments
    <3> DEFINE m == Min(calls)
    <3>1. m \in DOMAIN chain
      BY <2>1
    <3> HIDE DEF m
    <3>2. chain[m] \in ChainEntry
      BY <3>1
    <3>3. chain[m].contract \in Instruments
      BY <3>2 DEF ChainEntry
    <3> QED
      BY <3>3 DEF m
  <2>3. shares \div 100 \in Nat /\ shares >= 100
    BY <1>2
  <2> HIDE DEF shares, contract
  <2> DEFINE ten == 10
             k == shares \div 100
  <2>4. ten \in Nat \ {0} /\ k \in Int /\ strength = Fraction(k, ten)
    BY <2>3 DEF ContractsFor
  <2> HIDE DEF ten, strength
  <2>5. Denotes(strength, k, ten)
    BY <2>4, FractionDenotes
  <2>6. strength \in NotNegative
    <3>1. strength \in Fractions /\ ~(strength[1] < 0)
      BY <2>3, <2>5, DenotedSign
    <3> QED
      BY <3>1 DEF NotNegative, Fractions
  <2>7. "covered_call" \in Strategies /\ "OPTION" \in {"EQUITY", "OPTION"}
        /\ "SELL" \in {"BUY", "SELL"}
    BY DEF Strategies
  <2>8. /\ s \in SignalsFor(contract) /\ s.strategy_id = "covered_call" /\ s.side = "SELL"
        /\ s.strength = Capped(strength)
    BY <2>2, <2>6, <2>7, SignalType
  <2> DEFINE c == Capped(strength)
  <2>9. c \in Strengths /\ AtMost(c, strength)
    BY <2>6, CappedIsStrength
  <2> HIDE DEF c, s
  <2>10. 10 * c[1] =< k * c[2]
    <3>1. c \in Fractions
      BY <2>9 DEF Strengths, Fractions
    <3>2. Denotes(c, c[1], c[2])
      BY <3>1, SelfDenotes
    <3>3. c[1] * ten =< k * c[2]
      BY <2>5, <2>9, <3>2, DenotedOrder
    <3> QED
      BY <3>1, <3>3 DEF ten, Fractions
  <2> QED
    BY <2>3, <2>8, <2>10 DEF c, SignalsFor
<1> HIDE DEF s
<1>3. CASE shares < 100 \/ calls = {}
  BY <1>1, <1>3
<1>4. CASE ~(shares < 100 \/ calls = {})
  BY <1>1, <1>2, <1>4
<1> QED
  BY <1>3, <1>4

(* The volatility breakout buys if the measurement is far enough above the *)
(* mean of those kept, which do not include it.                            *)
BreaksOut(chain, history) ==
    /\ Volatilities(chain) # <<>>
    /\ Len(history) >= BreakoutLookback
    /\ Less(Whole(0), Mean(history))
    /\ LET needed == Scale(BreakoutMultiplier[1], Over(Mean(history), BreakoutMultiplier[2]))
       IN AtMost(needed, Mean(Volatilities(chain)))

LEMMA BreakoutAnswer ==
  ASSUME NEW chain \in Seq(ChainEntry), ivHistory \in Seq(NotNegative)
  PROVE  \/ BreakoutSignals(chain) = <<>> /\ ~BreaksOut(chain, ivHistory)
         \/ /\ BreaksOut(chain, ivHistory)
            /\ \E s \in StrategySignal :
                 /\ BreakoutSignals(chain) = <<s>>
                 /\ s.strategy_id = "options_vol_breakout" /\ s.side = "BUY"
<1> DEFINE vols == Volatilities(chain)
           current == Mean(vols)
           baseline == Mean(ivHistory)
           ratio == Ratio(current, baseline)
           needed == Scale(BreakoutMultiplier[1], Over(baseline, BreakoutMultiplier[2]))
           strength == Minus(ratio, Whole(1))
           quiet == \/ vols = <<>> \/ Len(ivHistory) < BreakoutLookback
                    \/ ~Less(Whole(0), baseline) \/ Less(ratio, BreakoutMultiplier)
           s == Signal("options_vol_breakout", chain[1].contract, "OPTION", "BUY", strength)
<1>1. BreakoutSignals(chain) = IF quiet THEN <<>> ELSE <<s>>
  BY DEF BreakoutSignals, Baseline
<1>2. ASSUME vols # <<>>, Len(ivHistory) >= BreakoutLookback, Less(Whole(0), baseline)
      PROVE  /\ Less(ratio, BreakoutMultiplier) <=> ~AtMost(needed, current)
             /\ ~Less(ratio, BreakoutMultiplier) => strength \in NotNegative
  <2>1. current \in NotNegative
    BY <1>2, VolatilityTypes, MeanNotNegative
  <2>2. baseline \in NotNegative /\ baseline[1] > 0
    <3>1. ivHistory # <<>>
      BY <1>2, Constants
    <3>2. baseline \in NotNegative
      BY <3>1, MeanNotNegative
    <3> HIDE DEF baseline
    <3> QED
      BY <1>2, <3>2 DEF Less, AtMost, Whole, NotNegative
  <2> DEFINE c == current[1]
             d == current[2]
             a == baseline[1]
             b == baseline[2]
             m == BreakoutMultiplier[1]
             e == BreakoutMultiplier[2]
  <2>3. /\ c \in Nat /\ d \in Nat \ {0} /\ a \in Nat \ {0} /\ b \in Nat \ {0}
        /\ m \in Int /\ e \in Nat \ {0} /\ m >= e
        /\ Denotes(current, c, d) /\ Denotes(baseline, a, b) /\ Denotes(BreakoutMultiplier, m, e)
    <3>1. current \in Fractions /\ baseline \in Fractions /\ BreakoutMultiplier \in Fractions
      BY <2>1, <2>2, Constants DEF NotNegative, Fractions
    <3> HIDE DEF current, baseline
    <3>2. Denotes(current, c, d) /\ Denotes(baseline, a, b) /\ Denotes(BreakoutMultiplier, m, e)
      BY <3>1, SelfDenotes
    <3> QED
      BY <2>1, <2>2, <3>1, <3>2, Constants DEF NotNegative, Fractions
  <2> DEFINE over == Over(baseline, e)
             one == Whole(1)
  <2> HIDE DEF current, baseline, c, d, a, b, m, e, one
  <2>4. Denotes(ratio, c * b, d * a)
    <3>1. a > 0
      BY <2>3
    <3> QED
      BY <2>3, <3>1, DenotedRatios
  <2>5. Denotes(needed, m * a, b * e)
    <3>1. e \in Int /\ e > 0
      BY <2>3
    <3>2. Denotes(over, a, b * e)
      BY <2>3, <3>1, DenotedMultiples
    <3> HIDE DEF over
    <3>3. Denotes(Scale(m, over), m * a, b * e)
      BY <2>3, <3>2, DenotedMultiples
    <3> QED
      BY <3>3 DEF m, e, over
  <2>6. Denotes(one, 1, 1)
    BY WholeDenotes DEF one
  <2>7. Denotes(strength, (c * b) * 1 - 1 * (d * a), (d * a) * 1)
    BY <2>4, <2>6, DenotedSums DEF one
  <2>8. /\ Less(ratio, BreakoutMultiplier) <=> (c * b) * e < m * (d * a)
        /\ AtMost(needed, current) <=> (m * a) * d =< c * (b * e)
    BY <2>3, <2>4, <2>5, DenotedOrder
  <2> HIDE DEF ratio, needed, strength
  <2>9. /\ (c * b) * e = c * (b * e) /\ (m * a) * d = m * (d * a)
        /\ (c * b) * e \in Int /\ m * (d * a) \in Int
    BY <2>3
  <2>10. Less(ratio, BreakoutMultiplier) <=> ~AtMost(needed, current)
    BY <2>8, <2>9
  <2>11. ASSUME ~Less(ratio, BreakoutMultiplier) PROVE strength \in NotNegative
    <3> DEFINE x == d * a
               y == c * b
    <3>1. m * x =< y * e /\ x \in Nat /\ y \in Int
      BY <2>3, <2>8, <2>9, <2>11
    <3> HIDE DEF x, y
    <3>2. e * x =< m * x
      BY <2>3, <3>1
    <3>3. y * e = e * y
      BY <2>3, <3>1
    <3>4. e * x =< e * y
      <4>1. e * x \in Int /\ m * x \in Int /\ e * y \in Int
        BY <2>3, <3>1
      <4> QED
        BY <3>1, <3>2, <3>3, <4>1
    <3>5. x =< y
      BY <2>3, <3>1, <3>4, Cancel
    <3> USE DEF x, y
    <3>6. ~((c * b) * 1 - 1 * (d * a) < 0)
      BY <3>1, <3>5
    <3>7. strength \in Fractions /\ ~(strength[1] < 0)
      BY <2>7, <3>6, DenotedSign
    <3> QED
      BY <3>7 DEF NotNegative, Fractions
  <2> QED
    BY <2>10, <2>11
<1>3. ASSUME ~quiet
      PROVE  s \in StrategySignal /\ s.strategy_id = "options_vol_breakout" /\ s.side = "BUY"
  <2>1. strength \in NotNegative
    <3>1. vols # <<>> /\ Len(ivHistory) >= BreakoutLookback /\ Less(Whole(0), baseline)
      BY <1>3, Constants
    <3> QED
      BY <1>2, <1>3, <3>1
  <2>2. chain[1].contract \in Instruments
    <3>1. vols # <<>>
      BY <1>3
    <3> HIDE DEF vols
    <3>2. Len(vols) > 0 /\ Len(vols) =< Len(chain)
      BY <3>1, VolatilityTypes DEF vols
    <3>3. chain[1] \in ChainEntry
      BY <3>2
    <3> QED
      BY <3>3 DEF ChainEntry
  <2>3. "options_vol_breakout" \in Strategies /\ "OPTION" \in {"EQUITY", "OPTION"}
        /\ "BUY" \in {"BUY", "SELL"}
    BY DEF Strategies
  <2> HIDE DEF strength
  <2>4. /\ s \in SignalsFor(chain[1].contract) /\ s.strategy_id = "options_vol_breakout"
        /\ s.side = "BUY"
    BY <2>1, <2>2, <2>3, SignalType
  <2> QED
    BY <2>4 DEF SignalsFor
<1>4. BreaksOut(chain, ivHistory) <=>
        vols # <<>> /\ Len(ivHistory) >= BreakoutLookback /\ Less(Whole(0), baseline)
          /\ AtMost(needed, current)
  BY DEF BreaksOut
<1> HIDE DEF s, vols, current, baseline, ratio, needed, strength
<1>5. quiet <=> ~BreaksOut(chain, ivHistory)
  BY <1>2, <1>4, Constants
<1> HIDE DEF quiet
<1> QED
  BY <1>1, <1>3, <1>5

-----------------------------------------------------------------------------
(* The invariant.  The windows are the latest of the histories the         *)
(* properties speak of; and the targets handed off keep what               *)
(* CallsSoldAreBounded asks of positions, since targets become positions.  *)

WindowsAreLatest ==
    /\ \A i \in Instruments :
         /\ IsLatest(momentum[i], seen[i], MomentumLookback)
         /\ IsLatest(reversion[i], seen[i], ReversionLookback)
    /\ IsLatest(ivHistory, ivs, BreakoutLookback)

BoundedAt(instrument, quantity) ==
    seen[instrument] = <<>> => 10 * (Opening[instrument] - quantity) =< inventory

CallsStayBounded ==
    \A i \in Instruments :
      /\ BoundedAt(i, positions[i])
      /\ \A n \in DOMAIN handedOff :
           handedOff[n].instrument_id = i => BoundedAt(i, handedOff[n].target_quantity)

DeskInv == TypeOK /\ WindowsAreLatest /\ PositionsWithinSignals /\ CallsStayBounded

(* What a target adds to the position shown: at most the lot, and for a    *)
(* signal of strength at most q/10 a tenth of the lot times q.             *)
LEMMA DeltaBounds ==
  ASSUME NEW s \in StrategySignal
  PROVE  /\ Delta(s) \in Int /\ Delta(s) =< BaseLotSize /\ -BaseLotSize =< Delta(s)
         /\ s.side = "BUY" => Delta(s) >= 0
         /\ \A q \in Nat : 10 * s.strength[1] =< q * s.strength[2]
                           => -(10 * Delta(s)) =< BaseLotSize * q
<1> DEFINE u == s.strength[1]
           v == s.strength[2]
           quantity == (BaseLotSize * u) \div v
<1>1. u \in Nat /\ v \in Nat \ {0} /\ u =< v
  BY DEF StrategySignal, Strengths
<1>2. Delta(s) = IF s.side = "BUY" THEN quantity ELSE -quantity
  BY DEF Delta
<1>3. BaseLotSize \in Nat \ {0}
  BY Constants
<1> HIDE DEF u, v
<1>4. quantity \in Nat /\ v * quantity =< BaseLotSize * u
  <2> DEFINE a == BaseLotSize * u
  <2>1. a \in Nat
    BY <1>1, <1>3
  <2> HIDE DEF a
  <2>2. a \div v \in Nat /\ v * (a \div v) =< a
    BY <1>1, <2>1
  <2> QED
    BY <2>2 DEF a
<1> HIDE DEF quantity
<1>5. quantity =< BaseLotSize
  <2>1. BaseLotSize * u =< v * BaseLotSize
    BY <1>1, <1>3
  <2>2. v * quantity =< v * BaseLotSize
    BY <1>1, <1>3, <1>4, <2>1
  <2> QED
    BY <1>1, <1>3, <1>4, <2>2, Cancel
<1>6. ASSUME NEW q \in Nat, 10 * u =< q * v PROVE 10 * quantity =< BaseLotSize * q
  <2>1. v * (10 * quantity) =< BaseLotSize * (10 * u)
    BY <1>1, <1>3, <1>4
  <2>2. BaseLotSize * (10 * u) =< BaseLotSize * (q * v)
    BY <1>1, <1>3, <1>6
  <2>3. BaseLotSize * (q * v) = v * (BaseLotSize * q)
    BY <1>1, <1>3
  <2>4. v * (10 * quantity) =< v * (BaseLotSize * q)
    BY <1>1, <1>3, <1>4, <2>1, <2>2, <2>3
  <2>5. 10 * quantity \in Int /\ BaseLotSize * q \in Int
    BY <1>3, <1>4
  <2> QED
    BY <1>1, <2>4, <2>5, Cancel
<1>7. ASSUME NEW q \in Nat, 10 * s.strength[1] =< q * s.strength[2]
      PROVE  -(10 * Delta(s)) =< BaseLotSize * q
  <2>1. 10 * quantity =< BaseLotSize * q
    BY <1>6, <1>7 DEF u, v
  <2> QED
    BY <1>2, <1>3, <1>4, <2>1
<1> QED
  BY <1>2, <1>3, <1>4, <1>5, <1>7

(* What every result of the engine does, whatever the strategies           *)
(* answered.                                                               *)
LEMMA ResultKeeps ==
  ASSUME TypeOK, NEW signals \in Seq(StrategySignal), BuildResult(signals)
  PROVE  LET targets == BuildTargets(signals) IN
         /\ targets \in Seq(PositionTarget)
         /\ \A n \in DOMAIN targets : \E k \in DOMAIN signals : targets[n] = TargetOf(signals[k])
         /\ result'.signals = signals /\ result'.targets = targets
         /\ handedOff' = handedOff \o targets
         /\ signalled' \in [Instruments -> Nat]
         /\ \A i \in Instruments : signalled[i] =< signalled'[i]
         /\ \A k \in DOMAIN signals :
              LET i == signals[k].instrument_id IN signalled[i] + 1 =< signalled'[i]
<1> DEFINE targets == BuildTargets(signals)
           Mine(i) == {n \in DOMAIN signals : signals[n].instrument_id = i}
           T == {TargetOf(signals[k]) : k \in DOMAIN signals}
<1>1. targets \in Seq(T)
  BY TargetsOfSignals
<1>2. \A k \in DOMAIN signals : signals[k] \in StrategySignal
  OBVIOUS
<1>3. positions \in [Instruments -> Int] /\ signalled \in [Instruments -> Nat]
  BY DEF TypeOK
<1>4. T \subseteq PositionTarget
  <2>1. ASSUME NEW k \in DOMAIN signals PROVE TargetOf(signals[k]) \in PositionTarget
    <3> DEFINE s == signals[k]
    <3>1. s \in StrategySignal
      BY <1>2
    <3> HIDE DEF s
    <3>2. Delta(s) \in Int
      BY <3>1, DeltaBounds
    <3>3. /\ s.instrument_id \in Instruments /\ s.strategy_id \in Strategies
          /\ s.asset_class \in {"EQUITY", "OPTION"}
      BY <3>1 DEF StrategySignal
    <3>4. positions[s.instrument_id] + Delta(s) \in Int
      BY <1>3, <3>2, <3>3
    <3>5. TargetOf(s) \in PositionTarget
      BY <3>3, <3>4 DEF TargetOf, PositionTarget
    <3> QED
      BY <3>5 DEF s
  <2> QED
    BY <2>1
<1>5. /\ result' = [signals |-> signals, targets |-> targets]
      /\ handedOff' = handedOff \o targets
      /\ signalled' = [i \in Instruments |-> signalled[i] + Cardinality(Mine(i))]
  BY DEF BuildResult
<1> HIDE DEF targets
<1>6. targets \in Seq(PositionTarget) /\ \A n \in DOMAIN targets : targets[n] \in T
  BY <1>1, <1>4
<1>7. ASSUME NEW i PROVE Cardinality(Mine(i)) \in Nat /\ (Mine(i) # {} => Cardinality(Mine(i)) >= 1)
  <2>1. IsFiniteSet(1..Len(signals)) /\ Mine(i) \subseteq 1..Len(signals)
    <3>1. Len(signals) \in Nat /\ DOMAIN signals = 1..Len(signals)
      OBVIOUS
    <3> QED
      BY <3>1, FS_Interval
  <2> HIDE DEF Mine
  <2>2. IsFiniteSet(Mine(i))
    BY <2>1, FS_Subset
  <2>3. Cardinality(Mine(i)) \in Nat /\ (Cardinality(Mine(i)) = 0 <=> Mine(i) = {})
    BY <2>2, FS_CardinalityType, FS_EmptySet
  <2> QED
    BY <2>3
<1>8. \A k \in DOMAIN signals : k \in Mine(signals[k].instrument_id)
                                /\ signals[k].instrument_id \in Instruments
  BY <1>2 DEF StrategySignal
<1> HIDE DEF Mine
<1>9. /\ signalled' \in [Instruments -> Nat]
      /\ \A i \in Instruments : signalled[i] =< signalled'[i]
  BY <1>3, <1>5, <1>7
<1>10. ASSUME NEW k \in DOMAIN signals
       PROVE  signalled[signals[k].instrument_id] + 1 =< signalled'[signals[k].instrument_id]
  <2> DEFINE i == signals[k].instrument_id
  <2>1. i \in Instruments /\ Cardinality(Mine(i)) >= 1 /\ Cardinality(Mine(i)) \in Nat
    BY <1>7, <1>8
  <2> HIDE DEF i
  <2>2. signalled[i] + 1 =< signalled'[i]
    BY <1>3, <1>5, <2>1
  <2> QED
    BY <2>2 DEF i
<1>11. \A n \in DOMAIN targets : \E k \in DOMAIN signals : targets[n] = TargetOf(signals[k])
  BY <1>6
<1>12. result'.signals = signals /\ result'.targets = targets
  BY <1>5
<1> QED
  BY <1>5, <1>6, <1>9, <1>10, <1>11, <1>12 DEF targets

(* A position or target within its signals stays so as signals are         *)
(* counted, and one lot further for every signal more.                     *)
WithinSignals(instrument, quantity) ==
    quantity - Opening[instrument] \in
      -(BaseLotSize * signalled[instrument])..(BaseLotSize * signalled[instrument])

LEMMA WithinSignalsGrows ==
  ASSUME NEW o \in Int, NEW q \in Int, NEW n \in Nat, NEW m \in Nat, NEW d \in Int,
         q - o \in -(BaseLotSize * n)..(BaseLotSize * n),
         \/ n =< m /\ d = 0
         \/ n + 1 =< m /\ d =< BaseLotSize /\ -BaseLotSize =< d
  PROVE  (q + d) - o \in -(BaseLotSize * m)..(BaseLotSize * m)
<1>1. BaseLotSize \in Nat \ {0}
  BY Constants
<1>2. CASE n =< m /\ d = 0
  <2>1. BaseLotSize * n =< BaseLotSize * m
    BY <1>1, <1>2
  <2> QED
    BY <1>1, <1>2, <2>1
<1>3. CASE n + 1 =< m /\ d =< BaseLotSize /\ -BaseLotSize =< d
  <2>1. BaseLotSize * n + BaseLotSize =< BaseLotSize * m
    <3>1. BaseLotSize * (n + 1) =< BaseLotSize * m
      BY <1>1, <1>3
    <3> QED
      BY <1>1, <3>1
  <2> DEFINE x == BaseLotSize * n
             y == BaseLotSize * m
  <2>2. x \in Int /\ y \in Int
    BY <1>1
  <2>3. x + BaseLotSize =< y
    BY <2>1
  <2> HIDE DEF x, y
  <2>4. q - o \in -x..x
    BY DEF x
  <2>5. (q + d) - o \in -y..y
    BY <1>1, <1>3, <2>2, <2>3, <2>4
  <2> QED
    BY <2>5 DEF y
<1> QED
  BY <1>2, <1>3

(* What of the invariant speaks of targets survives the hand-off of a      *)
(* result's targets.                                                       *)
LEMMA HandOffKeeps ==
  ASSUME TypeOK, TypeOK', PositionsWithinSignals, CallsStayBounded, UNCHANGED positions,
         NEW signals \in Seq(StrategySignal), BuildResult(signals),
         inventory =< inventory',
         \A i \in Instruments : seen'[i] = <<>> => seen[i] = <<>>,
         \A k \in DOMAIN signals :
           seen'[signals[k].instrument_id] = <<>> =>
             inventory - 10 * Delta(signals[k]) =< inventory'
  PROVE  PositionsWithinSignals' /\ CallsStayBounded'
<1> DEFINE targets == BuildTargets(signals)
<1>1. /\ targets \in Seq(PositionTarget)
      /\ \A n \in DOMAIN targets : \E k \in DOMAIN signals : targets[n] = TargetOf(signals[k])
      /\ handedOff' = handedOff \o targets
      /\ \A i \in Instruments : signalled[i] =< signalled'[i]
      /\ \A k \in DOMAIN signals :
           LET i == signals[k].instrument_id IN signalled[i] + 1 =< signalled'[i]
  BY ResultKeeps
<1> HIDE DEF targets
<1>2. /\ \A i \in Instruments : /\ positions[i] \in Int /\ positions'[i] = positions[i]
                                 /\ Opening[i] \in Int
                                 /\ signalled[i] \in Nat /\ signalled'[i] \in Nat
      /\ inventory \in Nat /\ inventory' \in Nat
      /\ handedOff \in Seq(PositionTarget)
  BY StrategyDeskAssumption DEF TypeOK
<1>3. \A k \in DOMAIN signals : signals[k] \in StrategySignal
  OBVIOUS
(* Every target handed off afterwards: an old one or a signal's.           *)
<1>4. ASSUME NEW n \in DOMAIN handedOff'
      PROVE  \/ n \in DOMAIN handedOff /\ handedOff'[n] = handedOff[n]
             \/ \E k \in DOMAIN signals : handedOff'[n] = TargetOf(signals[k])
  <2>1. CASE n \in DOMAIN handedOff
    BY <1>1, <1>2, <2>1
  <2>2. CASE n \notin DOMAIN handedOff
    <3> DEFINE j == n - Len(handedOff)
    <3>1. j \in DOMAIN targets /\ handedOff'[n] = targets[j]
      BY <1>1, <1>2, <2>2
    <3> HIDE DEF j
    <3> QED
      BY <1>1, <3>1
  <2> QED
    BY <2>1, <2>2
<1>5. ASSUME NEW i \in Instruments, NEW q \in Int, WithinSignals(i, q)
      PROVE  q - Opening[i] \in -(BaseLotSize * signalled'[i])..(BaseLotSize * signalled'[i])
  <2> DEFINE d == 0
  <2>1. q + d = q /\ d \in Int /\ d = 0
    OBVIOUS
  <2> HIDE DEF d
  <2>2. (q + d) - Opening[i] \in -(BaseLotSize * signalled'[i])..(BaseLotSize * signalled'[i])
    BY <1>1, <1>2, <1>5, <2>1, WithinSignalsGrows DEF WithinSignals
  <2> QED
    BY <2>1, <2>2
<1>6. ASSUME NEW i \in Instruments, NEW q \in Int, BoundedAt(i, q)
      PROVE  seen'[i] = <<>> => 10 * (Opening[i] - q) =< inventory'
  BY <1>2, <1>6 DEF BoundedAt
<1>7. ASSUME NEW k \in DOMAIN signals
      PROVE  LET i == signals[k].instrument_id
                 q == TargetOf(signals[k]).target_quantity
             IN /\ TargetOf(signals[k]).instrument_id = i
                /\ q - Opening[i] \in -(BaseLotSize * signalled'[i])..(BaseLotSize * signalled'[i])
                /\ seen'[i] = <<>> => 10 * (Opening[i] - q) =< inventory'
  <2> DEFINE s == signals[k]
             i == s.instrument_id
             q == positions[i] + Delta(s)
  <2>1. s \in StrategySignal /\ i \in Instruments
    BY <1>3 DEF StrategySignal
  <2>2. /\ TargetOf(s).instrument_id = i
        /\ TargetOf(s).target_quantity = q
    BY DEF TargetOf
  <2>3. signalled[i] + 1 =< signalled'[i]
    BY <1>1
  <2>4. seen'[i] = <<>> => inventory - 10 * Delta(s) =< inventory'
    OBVIOUS
  <2> HIDE DEF s
  <2>5. Delta(s) \in Int /\ Delta(s) =< BaseLotSize /\ -BaseLotSize =< Delta(s)
    BY <2>1, DeltaBounds
  <2> HIDE DEF i
  <2>6. q - Opening[i] \in -(BaseLotSize * signalled'[i])..(BaseLotSize * signalled'[i])
    <3>1. positions[i] - Opening[i] \in -(BaseLotSize * signalled[i])..(BaseLotSize * signalled[i])
      BY <2>1 DEF PositionsWithinSignals
    <3> QED
      BY <1>2, <2>1, <2>3, <2>5, <3>1, WithinSignalsGrows
  <2>7. ASSUME seen'[i] = <<>> PROVE 10 * (Opening[i] - q) =< inventory'
    <3>1. 10 * (Opening[i] - positions[i]) =< inventory
      BY <2>1, <2>7 DEF CallsStayBounded, BoundedAt
    <3> QED
      BY <1>2, <2>1, <2>4, <2>5, <2>7, <3>1
  <2> QED
    BY <2>2, <2>6, <2>7 DEF s, i
<1>8. ASSUME NEW i \in Instruments, NEW n \in DOMAIN handedOff', handedOff'[n].instrument_id = i
      PROVE  LET q == handedOff'[n].target_quantity
             IN /\ q - Opening[i] \in -(BaseLotSize * signalled'[i])..(BaseLotSize * signalled'[i])
                /\ seen'[i] = <<>> => 10 * (Opening[i] - q) =< inventory'
  <2>1. CASE n \in DOMAIN handedOff /\ handedOff'[n] = handedOff[n]
    <3> DEFINE q == handedOff[n].target_quantity
    <3>1. q \in Int
      <4>1. handedOff[n] \in PositionTarget
        BY <1>2, <2>1
      <4> QED
        BY <4>1 DEF PositionTarget
    <3>2. WithinSignals(i, q) /\ BoundedAt(i, q)
      BY <1>8, <2>1 DEF PositionsWithinSignals, CallsStayBounded, WithinSignals
    <3>3. q = handedOff'[n].target_quantity
      BY <2>1
    <3> HIDE DEF q
    <3> QED
      BY <1>5, <1>6, <3>1, <3>2, <3>3
  <2>2. CASE \E k \in DOMAIN signals : handedOff'[n] = TargetOf(signals[k])
    <3>1. PICK k \in DOMAIN signals : handedOff'[n] = TargetOf(signals[k])
      BY <2>2
    <3>2. signals[k].instrument_id = i
      BY <1>7, <1>8, <3>1
    <3> QED
      BY <1>7, <3>1, <3>2
  <2> QED
    BY <1>4, <2>1, <2>2
<1>9. ASSUME NEW i \in Instruments
      PROVE  /\ positions'[i] - Opening[i] \in
                  -(BaseLotSize * signalled'[i])..(BaseLotSize * signalled'[i])
             /\ seen'[i] = <<>> => 10 * (Opening[i] - positions'[i]) =< inventory'
  <2>1. WithinSignals(i, positions[i]) /\ BoundedAt(i, positions[i])
    BY DEF PositionsWithinSignals, CallsStayBounded, WithinSignals
  <2> QED
    BY <1>2, <1>5, <1>6, <2>1
<1>10. PositionsWithinSignals'
  BY <1>8, <1>9 DEF PositionsWithinSignals
<1>11. CallsStayBounded'
  BY <1>8, <1>9 DEF CallsStayBounded, BoundedAt
<1> QED
  BY <1>10, <1>11

-----------------------------------------------------------------------------
(* Price events.                                                           *)

LEMMA NoneOrOne ==
  ASSUME NEW S, NEW q, q = <<>> \/ \E s \in S : q = <<s>>
  PROVE  q \in Seq(S)
<1>1. \A s \in S : <<s>> \in Seq(S)
  OBVIOUS
<1>2. <<>> \in Seq(S)
  OBVIOUS
<1> QED
  BY <1>1, <1>2

LEMMA JoinedAnswers ==
  ASSUME NEW S, NEW q \in Seq(S), NEW r \in Seq(S)
  PROVE  /\ q \o r \in Seq(S)
         /\ \A k \in DOMAIN (q \o r) : (q \o r)[k] \in S
OBVIOUS

(* The windows after an event, and what is answered from them.             *)
LEMMA EventAnswers ==
  ASSUME TypeOK, WindowsAreLatest, NEW event \in Events, ProcessEvent(event)
  PROVE  LET i == event.instrument_id
             price == Whole(event.price)
             followed == MomentumWindow(momentum[i], price)
             faded == ReversionWindow(reversion[i], price)
             signals == MomentumSignals(i, followed) \o ReversionSignals(i, faded)
         IN /\ i \in Instruments /\ price \in Prices
            /\ \A w \in {followed, faded} :
                 w \in Seq(Prices) /\ w # <<>> /\ w[Len(w)] = price
            /\ Len(followed) =< MomentumLookback /\ Len(faded) =< ReversionLookback
            /\ IsLatest(followed, Append(seen[i], price), MomentumLookback)
            /\ IsLatest(faded, Append(seen[i], price), ReversionLookback)
            /\ signals \in Seq(SignalsFor(i))
            /\ BuildResult(signals)
<1> DEFINE i == event.instrument_id
           price == Whole(event.price)
           followed == MomentumWindow(momentum[i], price)
           faded == ReversionWindow(reversion[i], price)
           M == MomentumSignals(i, followed)
           R == ReversionSignals(i, faded)
<1>1. i \in Instruments /\ price \in Prices
  <2>1. event \in StrategyEvent
    BY StrategyDeskAssumption
  <2> QED
    BY <2>1 DEF StrategyEvent, Whole, Prices
<1>2. BuildResult(M \o R)
  BY DEF ProcessEvent
<1> HIDE DEF i, price
<1>3. /\ momentum[i] \in Seq(Prices) /\ reversion[i] \in Seq(Prices) /\ seen[i] \in Seq(Prices)
      /\ IsLatest(momentum[i], seen[i], MomentumLookback)
      /\ IsLatest(reversion[i], seen[i], ReversionLookback)
  BY <1>1 DEF TypeOK, WindowsAreLatest
<1>4. /\ followed \in Seq(Prices) /\ followed # <<>> /\ followed[Len(followed)] = price
      /\ Len(followed) =< MomentumLookback
      /\ IsLatest(followed, Append(seen[i], price), MomentumLookback)
  BY <1>1, <1>3, Constants, AppendedIsLatest DEF MomentumWindow
<1>5. /\ faded \in Seq(Prices) /\ faded # <<>> /\ faded[Len(faded)] = price
      /\ Len(faded) =< ReversionLookback
      /\ IsLatest(faded, Append(seen[i], price), ReversionLookback)
  BY <1>1, <1>3, Constants, AppendedIsLatest DEF ReversionWindow
<1> HIDE DEF followed, faded
<1>6. M \in Seq(SignalsFor(i))
  <2>1. M = <<>> \/ \E s \in SignalsFor(i) : M = <<s>>
    BY <1>1, <1>4, MomentumAnswer
  <2> HIDE DEF M
  <2> QED
    BY <2>1, NoneOrOne
<1>7. R \in Seq(SignalsFor(i))
  <2>1. R = <<>> \/ \E s \in SignalsFor(i) : R = <<s>>
    BY <1>1, <1>5, ReversionAnswer
  <2> HIDE DEF R
  <2> QED
    BY <2>1, NoneOrOne
<1>8. M \o R \in Seq(SignalsFor(i))
  <2> HIDE DEF M, R
  <2> QED
    BY <1>6, <1>7, JoinedAnswers
<1> QED
  BY <1>1, <1>2, <1>4, <1>5, <1>8 DEF i, price, followed, faded

LEMMA SignalsForAreSignals ==
  ASSUME NEW i, NEW signals \in Seq(SignalsFor(i))
  PROVE  /\ signals \in Seq(StrategySignal)
         /\ \A k \in DOMAIN signals : signals[k].instrument_id = i
BY DEF SignalsFor

LEMMA EventKeeps ==
  ASSUME DeskInv, NEW event \in Events, ProcessEvent(event)
  PROVE  DeskInv'
<1> USE DEF DeskInv
<1> DEFINE i == event.instrument_id
           price == Whole(event.price)
           followed == MomentumWindow(momentum[i], price)
           faded == ReversionWindow(reversion[i], price)
           signals == MomentumSignals(i, followed) \o ReversionSignals(i, faded)
<1>1. /\ i \in Instruments /\ price \in Prices
      /\ followed \in Seq(Prices) /\ faded \in Seq(Prices)
      /\ Len(followed) =< MomentumLookback /\ Len(faded) =< ReversionLookback
      /\ IsLatest(followed, Append(seen[i], price), MomentumLookback)
      /\ IsLatest(faded, Append(seen[i], price), ReversionLookback)
      /\ signals \in Seq(SignalsFor(i))
      /\ BuildResult(signals)
  BY EventAnswers
<1>2. /\ momentum' = [momentum EXCEPT ![i] = followed]
      /\ reversion' = [reversion EXCEPT ![i] = faded]
      /\ seen' = [seen EXCEPT ![i] = Append(@, price)]
      /\ UNCHANGED <<ivHistory, positions, ivs, inventory, triggers>>
  BY DEF ProcessEvent
<1> HIDE DEF i, price, followed, faded, signals
<1>3. /\ signals \in Seq(StrategySignal)
      /\ \A k \in DOMAIN signals : signals[k].instrument_id = i
  BY <1>1, SignalsForAreSignals
<1>4. TypeOK'
  <2>1. /\ BuildTargets(signals) \in Seq(PositionTarget)
        /\ result'.signals = signals /\ result'.targets = BuildTargets(signals)
        /\ handedOff' = handedOff \o BuildTargets(signals)
        /\ signalled' \in [Instruments -> Nat]
    BY <1>1, <1>3, ResultKeeps
  <2> DEFINE targets == BuildTargets(signals)
  <2> HIDE DEF targets
  <2>2. handedOff' \in Seq(PositionTarget)
    BY <2>1 DEF TypeOK, targets
  <2>3. /\ momentum' \in [Instruments -> Seq(Prices)]
        /\ reversion' \in [Instruments -> Seq(Prices)]
        /\ \A j \in Instruments : /\ Len(momentum'[j]) =< MomentumLookback
                                   /\ Len(reversion'[j]) =< ReversionLookback
    BY <1>1, <1>2 DEF TypeOK
  <2>4. seen' \in [Instruments -> Seq(Prices)]
    <3>1. Append(seen[i], price) \in Seq(Prices) /\ seen \in [Instruments -> Seq(Prices)]
      BY <1>1 DEF TypeOK
    <3> QED
      BY <1>2, <3>1
  <2> QED
    BY <1>2, <1>3, <2>1, <2>2, <2>3, <2>4 DEF TypeOK
<1>5. WindowsAreLatest'
  <2>1. seen \in [Instruments -> Seq(Prices)] /\ momentum \in [Instruments -> Seq(Prices)]
        /\ reversion \in [Instruments -> Seq(Prices)]
    BY DEF TypeOK
  <2>2. ASSUME NEW j \in Instruments
        PROVE  /\ IsLatest(momentum'[j], seen'[j], MomentumLookback)
               /\ IsLatest(reversion'[j], seen'[j], ReversionLookback)
    <3>1. CASE j = i
      BY <1>1, <1>2, <2>1, <3>1
    <3>2. CASE j # i
      BY <1>1, <1>2, <2>1, <3>2 DEF WindowsAreLatest
    <3> QED
      BY <3>1, <3>2
  <2> QED
    BY <1>2, <2>2 DEF WindowsAreLatest
<1>6. \A j \in Instruments : seen'[j] = <<>> => seen[j] = <<>> /\ j # i
  <2>1. seen \in [Instruments -> Seq(Prices)] /\ Append(seen[i], price) # <<>>
    <3>1. seen \in [Instruments -> Seq(Prices)] /\ seen[i] \in Seq(Prices)
      BY <1>1 DEF TypeOK
    <3>2. ASSUME NEW h \in Seq(Prices) PROVE Append(h, price) # <<>>
      <4> DEFINE longer == Append(h, price)
      <4>1. longer \in Seq(Prices) /\ Len(longer) = Len(h) + 1 /\ Len(h) \in Nat
        BY <1>1
      <4> HIDE DEF longer
      <4>2. Len(longer) # 0
        BY <4>1
      <4>3. longer # <<>>
        BY <4>2
      <4> QED
        BY <4>3 DEF longer
    <3> QED
      BY <3>1, <3>2
  <2> QED
    BY <1>1, <1>2, <2>1
<1>7. \A k \in DOMAIN signals :
        seen'[signals[k].instrument_id] = <<>> => inventory - 10 * Delta(signals[k]) =< inventory'
  BY <1>1, <1>3, <1>6
<1>8. inventory =< inventory'
  BY <1>2 DEF TypeOK
<1> QED
  BY <1>1, <1>2, <1>3, <1>4, <1>5, <1>6, <1>7, <1>8, HandOffKeeps

-----------------------------------------------------------------------------
(* Triggers.                                                               *)

LEMMA MaxWithZero ==
  ASSUME NEW x \in Int PROVE Max({0, x}) = IF x > 0 THEN x ELSE 0
<1> DEFINE m == IF x > 0 THEN x ELSE 0
<1>1. m \in {0, x} /\ \A y \in {0, x} : m >= y
  OBVIOUS
<1>2. \A k \in {0, x} : (\A y \in {0, x} : k >= y) => k = m
  OBVIOUS
<1> HIDE DEF m
<1>3. Max({0, x}) = m
  BY <1>1, <1>2 DEF Max
<1> QED
  BY <1>3 DEF m

LEMMA TriggerAnswers ==
  ASSUME TypeOK, NEW chain \in Chains, ProcessSchedule(chain)
  PROVE  LET signals == CoveredCallSignals(chain) \o BreakoutSignals(chain)
             shares == positions[Underlying]
         IN /\ signals \in Seq(StrategySignal)
            /\ BuildResult(signals)
            /\ inventory' \in Nat /\ inventory =< inventory'
            /\ \A k \in DOMAIN signals : inventory - 10 * Delta(signals[k]) =< inventory'
<1> DEFINE C == CoveredCallSignals(chain)
           B == BreakoutSignals(chain)
           shares == positions[Underlying]
           lots == Max({0, shares \div 100})
<1>1. /\ chain \in Seq(ChainEntry) /\ Underlying \in Instruments
      /\ BaseLotSize \in Nat \ {0}
  BY StrategyDeskAssumption, Constants
<1>2. shares \in Int /\ inventory \in Nat /\ ivHistory \in Seq(NotNegative)
  BY <1>1 DEF TypeOK, NotNegative
<1>3. inventory' = inventory + BaseLotSize * lots /\ BuildResult(C \o B)
  BY DEF ProcessSchedule
<1>4. lots \in Nat /\ (shares >= 100 => lots = shares \div 100)
  <2>1. shares \div 100 \in Int /\ (shares >= 100 => shares \div 100 > 0)
    BY <1>2
  <2> QED
    BY <2>1, MaxWithZero
<1> HIDE DEF lots
<1>5. inventory' \in Nat /\ inventory =< inventory'
  BY <1>1, <1>2, <1>3, <1>4
<1>6. C = <<>> \/ \E s \in StrategySignal :
                   C = <<s>> /\ inventory - 10 * Delta(s) =< inventory'
  <2>1. CASE C = <<>>
    BY <2>1
  <2>2. ASSUME NEW s \in StrategySignal, C = <<s>>, shares >= 100,
               10 * s.strength[1] =< (shares \div 100) * s.strength[2]
        PROVE  inventory - 10 * Delta(s) =< inventory'
    <3>1. -(10 * Delta(s)) =< BaseLotSize * lots /\ Delta(s) \in Int
      BY <1>4, <2>2, DeltaBounds
    <3> QED
      BY <1>1, <1>2, <1>3, <1>4, <3>1
  <2> HIDE DEF C
  <2>3. C = <<>> \/ \E s \in StrategySignal :
          /\ C = <<s>> /\ shares >= 100
          /\ 10 * s.strength[1] =< (shares \div 100) * s.strength[2]
    BY <1>1, <1>2, CoveredCallAnswer DEF C
  <2> QED
    BY <2>2, <2>3
<1>7. B = <<>> \/ \E s \in StrategySignal :
                   B = <<s>> /\ inventory - 10 * Delta(s) =< inventory'
  <2>1. B = <<>> \/ \E s \in StrategySignal : B = <<s>> /\ s.side = "BUY"
    BY <1>1, <1>2, BreakoutAnswer
  <2>2. ASSUME NEW s \in StrategySignal, s.side = "BUY"
        PROVE  inventory - 10 * Delta(s) =< inventory'
    <3>1. Delta(s) \in Int /\ Delta(s) >= 0
      BY <2>2, DeltaBounds
    <3> QED
      BY <1>2, <1>5, <3>1
  <2> HIDE DEF B
  <2> QED
    BY <2>1, <2>2
<1> HIDE DEF C, B
<1>8. /\ C \o B \in Seq(StrategySignal)
      /\ \A k \in DOMAIN (C \o B) : inventory - 10 * Delta((C \o B)[k]) =< inventory'
  <2> DEFINE S == {s \in StrategySignal : inventory - 10 * Delta(s) =< inventory'}
  <2>1. /\ C = <<>> \/ \E s \in S : C = <<s>>
        /\ B = <<>> \/ \E s \in S : B = <<s>>
    BY <1>6, <1>7
  <2>2. S \subseteq StrategySignal
    OBVIOUS
  <2>3. \A s \in S : inventory - 10 * Delta(s) =< inventory'
    OBVIOUS
  <2> HIDE DEF S
  <2>4. C \in Seq(S) /\ B \in Seq(S)
    BY <2>1, NoneOrOne
  <2>5. C \o B \in Seq(S) /\ \A k \in DOMAIN (C \o B) : (C \o B)[k] \in S
    BY <2>4, JoinedAnswers
  <2> QED
    BY <2>2, <2>3, <2>5
<1> QED
  BY <1>3, <1>5, <1>8 DEF C, B

(* The measurement of a trigger.                                           *)
Measured(chain) ==
    IF Volatilities(chain) = <<>> THEN <<>> ELSE <<Mean(Volatilities(chain))>>

LEMMA TriggerMeasures ==
  ASSUME TypeOK, WindowsAreLatest, NEW chain \in Chains, ProcessSchedule(chain)
  PROVE  /\ {ivHistory', ivs'} \subseteq Seq(NotNegative)
         /\ Len(ivHistory') =< BreakoutLookback
         /\ IsLatest(ivHistory', ivs', BreakoutLookback)
         /\ ivs' = ivs \o Measured(chain)
         /\ Volatilities(chain) # <<>> =>
              ivs' = Append(ivs, Mean(Volatilities(chain)))
<1> DEFINE value == Mean(Volatilities(chain))
<1>1. chain \in Seq(ChainEntry) /\ BreakoutLookback \in Nat \ {0}
  BY StrategyDeskAssumption, Constants
<1>2. /\ ivHistory \in Seq(NotNegative) /\ ivs \in Seq(NotNegative)
      /\ Len(ivHistory) =< BreakoutLookback
      /\ IsLatest(ivHistory, ivs, BreakoutLookback)
  BY DEF TypeOK, NotNegative, WindowsAreLatest
<1>3. /\ ivs' = ivs \o Measured(chain)
      /\ ivHistory' = IF Measured(chain) = <<>> THEN ivHistory
                      ELSE Appended(ivHistory, Measured(chain)[1], BreakoutLookback)
  BY DEF ProcessSchedule, Measured
<1>4. CASE Volatilities(chain) = <<>>
  <2>1. Measured(chain) = <<>>
    BY <1>4 DEF Measured
  <2>2. ivs' = ivs /\ ivHistory' = ivHistory
    BY <1>2, <1>3, <2>1
  <2> QED
    BY <1>2, <1>3, <1>4, <2>2
<1>5. CASE Volatilities(chain) # <<>>
  <2>1. value \in NotNegative
    BY <1>1, <1>5, VolatilityTypes, MeanNotNegative
  <2>2. Measured(chain) = <<value>>
    BY <1>5 DEF Measured
  <2> HIDE DEF value
  <2>3. /\ ivs' = Append(ivs, value) /\ Append(ivs, value) \in Seq(NotNegative)
        /\ ivHistory' = Appended(ivHistory, value, BreakoutLookback)
    BY <1>2, <1>3, <2>1, <2>2
  <2>4. /\ ivHistory' \in Seq(NotNegative) /\ Len(ivHistory') =< BreakoutLookback
        /\ IsLatest(ivHistory', Append(ivs, value), BreakoutLookback)
    BY <1>1, <1>2, <2>1, <2>3, AppendedIsLatest
  <2> QED
    BY <1>3, <2>3, <2>4 DEF value
<1> QED
  BY <1>4, <1>5

LEMMA TriggerKeeps ==
  ASSUME DeskInv, NEW chain \in Chains, ProcessSchedule(chain)
  PROVE  DeskInv'
<1> USE DEF DeskInv
<1> DEFINE signals == CoveredCallSignals(chain) \o BreakoutSignals(chain)
           targets == BuildTargets(signals)
<1>1. /\ signals \in Seq(StrategySignal)
      /\ BuildResult(signals)
      /\ inventory' \in Nat /\ inventory =< inventory'
      /\ \A k \in DOMAIN signals : inventory - 10 * Delta(signals[k]) =< inventory'
  BY TriggerAnswers
<1>2. /\ triggers < MaxTriggers /\ triggers' = triggers + 1
      /\ UNCHANGED <<momentum, reversion, positions, seen>>
  BY DEF ProcessSchedule
<1> HIDE DEF signals
<1>3. /\ targets \in Seq(PositionTarget)
      /\ result'.signals = signals /\ result'.targets = targets
      /\ handedOff' = handedOff \o targets
      /\ signalled' \in [Instruments -> Nat]
  BY <1>1, ResultKeeps
<1> HIDE DEF targets
<1>4. handedOff' \in Seq(PositionTarget)
  BY <1>3 DEF TypeOK
<1>5. /\ {ivHistory', ivs'} \subseteq Seq(NotNegative)
      /\ Len(ivHistory') =< BreakoutLookback
      /\ IsLatest(ivHistory', ivs', BreakoutLookback)
  BY TriggerMeasures
<1>6. triggers' \in 0..MaxTriggers
  BY <1>2, StrategyDeskAssumption DEF TypeOK
<1>7. TypeOK'
  BY <1>1, <1>2, <1>3, <1>4, <1>5, <1>6 DEF TypeOK, NotNegative
<1>8. WindowsAreLatest'
  BY <1>2, <1>5 DEF WindowsAreLatest
<1>9. /\ \A i \in Instruments : seen'[i] = <<>> => seen[i] = <<>>
      /\ UNCHANGED positions
  BY <1>2
<1> QED
  BY <1>1, <1>7, <1>8, <1>9, HandOffKeeps

-----------------------------------------------------------------------------
(* The consumer.                                                           *)

LEMMA ConsumerKeeps ==
  ASSUME DeskInv, ExecuteTarget \/ RefuseTarget
  PROVE  DeskInv'
<1> USE DEF DeskInv
<1> DEFINE first == Head(handedOff)
<1>1. /\ handedOff # <<>> /\ handedOff' = Tail(handedOff) /\ result' = NoResult
      /\ UNCHANGED <<momentum, reversion, ivHistory, seen, ivs, signalled, inventory, triggers>>
      /\ \/ positions' = positions
         \/ positions' = [positions EXCEPT ![first.instrument_id] = first.target_quantity]
  BY DEF ExecuteTarget, RefuseTarget, deque
<1>2. handedOff \in Seq(PositionTarget) /\ positions \in [Instruments -> Int]
  BY DEF TypeOK
<1>3. /\ first \in PositionTarget /\ 1 \in DOMAIN handedOff /\ first = handedOff[1]
      /\ handedOff' \in Seq(PositionTarget)
      /\ \A n \in DOMAIN handedOff' : n + 1 \in DOMAIN handedOff
                                     /\ handedOff'[n] = handedOff[n + 1]
  BY <1>1, <1>2
<1> HIDE DEF first
<1>4. first.instrument_id \in Instruments /\ first.target_quantity \in Int
  BY <1>3 DEF PositionTarget
<1>5. positions' \in [Instruments -> Int]
  BY <1>1, <1>2, <1>4
<1>6. TypeOK'
  BY <1>1, <1>3, <1>5 DEF TypeOK, NoResult
<1>7. WindowsAreLatest'
  BY <1>1 DEF WindowsAreLatest
<1>8. ASSUME NEW i \in Instruments
      PROVE  \/ positions'[i] = positions[i]
             \/ /\ first.instrument_id = i
                /\ positions'[i] = first.target_quantity
  BY <1>1, <1>2, <1>8
<1>9. PositionsWithinSignals'
  BY <1>1, <1>3, <1>8 DEF PositionsWithinSignals
<1>10. CallsStayBounded'
  BY <1>1, <1>3, <1>8 DEF CallsStayBounded, BoundedAt
<1> QED
  BY <1>6, <1>7, <1>9, <1>10

-----------------------------------------------------------------------------
(* The invariant holds.                                                    *)

LEMMA InitIsInvariant == Init => DeskInv
<1> SUFFICES ASSUME Init PROVE DeskInv
  OBVIOUS
<1> USE DEF Init
<1>1. TypeOK
  BY StrategyDeskAssumption, Constants DEF TypeOK, NoResult
<1>2. WindowsAreLatest
  BY Constants DEF WindowsAreLatest, IsLatest
<1>3. PositionsWithinSignals
  <2>1. \A i \in Instruments : Opening[i] \in Int
    BY StrategyDeskAssumption
  <2> QED
    BY <2>1, Constants DEF PositionsWithinSignals
<1>4. CallsStayBounded
  <2>1. \A i \in Instruments : Opening[i] \in Int
    BY StrategyDeskAssumption
  <2> QED
    BY <2>1 DEF CallsStayBounded, BoundedAt
<1> QED
  BY <1>1, <1>2, <1>3, <1>4 DEF DeskInv

LEMMA StutterKeeps == DeskInv /\ UNCHANGED vars => DeskInv'
<1> SUFFICES ASSUME DeskInv, UNCHANGED vars PROVE DeskInv'
  OBVIOUS
<1> USE DEF vars, deque
<1>1. TypeOK'
  BY DEF DeskInv, TypeOK
<1>2. WindowsAreLatest'
  BY DEF DeskInv, WindowsAreLatest
<1>3. PositionsWithinSignals'
  BY DEF DeskInv, PositionsWithinSignals
<1>4. CallsStayBounded'
  BY DEF DeskInv, CallsStayBounded, BoundedAt
<1> QED
  BY <1>1, <1>2, <1>3, <1>4 DEF DeskInv

LEMMA NextKeeps == DeskInv /\ [Next]_vars => DeskInv'
<1> SUFFICES ASSUME DeskInv, [Next]_vars PROVE DeskInv'
  OBVIOUS
<1>1. CASE \E event \in Events : ProcessEvent(event)
  BY <1>1, EventKeeps
<1>2. CASE \E chain \in Chains : ProcessSchedule(chain)
  BY <1>2, TriggerKeeps
<1>3. CASE ExecuteTarget \/ RefuseTarget
  BY <1>3, ConsumerKeeps
<1>4. CASE UNCHANGED vars
  BY <1>4, StutterKeeps
<1> QED
  BY <1>1, <1>2, <1>3, <1>4 DEF Next

LEMMA Invariance == Spec => []DeskInv
BY InitIsInvariant, NextKeeps, PTL DEF Spec

(* Every variable has its type; in particular no signal is stronger than 1 *)
(* and none is made of a division by 0.                                    *)
THEOREM TypeCorrect == Spec => []TypeOK
BY Invariance, PTL DEF DeskInv

(* Positions and the targets still to be executed stay within a lot for    *)
(* every signal, however late a consumer executes them.                    *)
THEOREM PositionsStayWithin == Spec => []PositionsWithinSignals
BY Invariance, PTL DEF DeskInv

(* What is asked of the contracts of the chains is kept of every position. *)
LEMMA CallsOfChains == DeskInv => CallsSoldAreBounded
<1> SUFFICES ASSUME DeskInv, NEW chain \in Chains, NEW entry \in Range(chain),
                    seen[entry.contract] = <<>>
             PROVE  10 * (Opening[entry.contract] - positions[entry.contract]) =< inventory
  BY DEF CallsSoldAreBounded
<1>1. chain \in Seq(ChainEntry)
  BY StrategyDeskAssumption
<1>2. PICK k \in DOMAIN chain : entry = chain[k]
  BY DEF Range
<1>3. entry \in ChainEntry
  BY <1>1, <1>2
<1>4. entry.contract \in Instruments
  BY <1>3 DEF ChainEntry
<1> QED
  BY <1>4 DEF DeskInv, CallsStayBounded, BoundedAt

(* No more calls are sold short than a tenth of the lot for every hundred  *)
(* shares that each trigger found.                                         *)
THEOREM SoldCallsAreBounded == Spec => []CallsSoldAreBounded
BY Invariance, CallsOfChains, PTL

-----------------------------------------------------------------------------
(* What the strategies answer, in terms of the whole past.                 *)

Sides(signals, strategy) ==
    {s.side : s \in {x \in Range(signals) : x.strategy_id = strategy}}

LEMMA SidesOfOne ==
  ASSUME NEW strategy
  PROVE  /\ Sides(<<>>, strategy) = {}
         /\ \A s : Sides(<<s>>, strategy) = IF s.strategy_id = strategy THEN {s.side} ELSE {}
<1>1. Range(<<>>) = {}
  BY DEF Range
<1>2. ASSUME NEW s PROVE Range(<<s>>) = {s}
  BY DEF Range
<1> QED
  BY <1>1, <1>2 DEF Sides

LEMMA RangeOfJoined ==
  ASSUME NEW S, NEW q \in Seq(S), NEW r \in Seq(S)
  PROVE  Range(q \o r) = Range(q) \cup Range(r)
<1>1. /\ Len(q) \in Nat /\ Len(r) \in Nat
      /\ DOMAIN q = 1..Len(q) /\ DOMAIN r = 1..Len(r)
      /\ DOMAIN (q \o r) = 1..(Len(q) + Len(r))
      /\ \A k \in 1..Len(q) : (q \o r)[k] = q[k]
      /\ \A k \in 1..Len(r) : (q \o r)[Len(q) + k] = r[k]
  OBVIOUS
<1>2. ASSUME NEW x \in Range(q \o r) PROVE x \in Range(q) \cup Range(r)
  <2>1. PICK k \in 1..(Len(q) + Len(r)) : x = (q \o r)[k]
    BY <1>1, <1>2 DEF Range
  <2>2. CASE k =< Len(q)
    BY <1>1, <2>1, <2>2 DEF Range
  <2>3. CASE ~(k =< Len(q))
    <3>1. k - Len(q) \in 1..Len(r) /\ Len(q) + (k - Len(q)) = k
      BY <1>1, <2>1, <2>3
    <3>2. x = r[k - Len(q)]
      BY <1>1, <2>1, <3>1
    <3> QED
      BY <1>1, <3>1, <3>2 DEF Range
  <2> QED
    BY <2>2, <2>3
<1>3. ASSUME NEW x \in Range(q) PROVE x \in Range(q \o r)
  <2>1. PICK k \in 1..Len(q) : x = q[k]
    BY <1>1, <1>3 DEF Range
  <2>2. k \in 1..(Len(q) + Len(r)) /\ x = (q \o r)[k]
    BY <1>1, <2>1
  <2> QED
    BY <1>1, <2>2 DEF Range
<1>4. ASSUME NEW x \in Range(r) PROVE x \in Range(q \o r)
  <2>1. PICK k \in 1..Len(r) : x = r[k]
    BY <1>1, <1>4 DEF Range
  <2>2. Len(q) + k \in 1..(Len(q) + Len(r)) /\ x = (q \o r)[Len(q) + k]
    BY <1>1, <2>1
  <2> QED
    BY <1>1, <2>2 DEF Range
<1> QED
  BY <1>2, <1>3, <1>4

LEMMA SidesOfJoined ==
  ASSUME NEW S, NEW q \in Seq(S), NEW r \in Seq(S), NEW strategy
  PROVE  Sides(q \o r, strategy) = Sides(q, strategy) \cup Sides(r, strategy)
BY RangeOfJoined DEF Sides

(* A trigger's breakout.                                                   *)
LEMMA TriggerCompares ==
  ASSUME DeskInv, NEW chain \in Chains, ProcessSchedule(chain), ivs' # ivs
  PROVE  LET baseline == Mean(Latest(ivs, BreakoutLookback))
             needed == Scale(BreakoutMultiplier[1], Over(baseline, BreakoutMultiplier[2]))
         IN SignalsOf("options_vol_breakout")' # {} <=>
              /\ Len(ivs) >= BreakoutLookback
              /\ Less(Whole(0), baseline)
              /\ AtMost(needed, Last(ivs'))
<1> USE DEF DeskInv
<1> DEFINE C == CoveredCallSignals(chain)
           B == BreakoutSignals(chain)
           id == "options_vol_breakout"
           Needed(baseline) == Scale(BreakoutMultiplier[1], Over(baseline, BreakoutMultiplier[2]))
           value == Mean(Volatilities(chain))
<1>1. /\ chain \in Seq(ChainEntry) /\ positions[Underlying] \in Int
      /\ ivHistory \in Seq(NotNegative) /\ ivs \in Seq(NotNegative)
      /\ BreakoutLookback \in Nat \ {0}
      /\ IsLatest(ivHistory, ivs, BreakoutLookback)
  BY StrategyDeskAssumption, Constants DEF TypeOK, NotNegative, WindowsAreLatest
<1>2. Volatilities(chain) # <<>> /\ ivs' = Append(ivs, value) /\ value \in NotNegative
  <2>1. Volatilities(chain) # <<>>
    <3>1. ivs' = ivs \o Measured(chain)
      BY TriggerMeasures
    <3>2. ivs \o <<>> = ivs
      BY <1>1
    <3> QED
      BY <3>1, <3>2 DEF Measured
  <2> QED
    BY <1>1, <2>1, TriggerMeasures, VolatilityTypes, MeanNotNegative
<1>3. Last(ivs') = value
  <2> HIDE DEF value
  <2>1. Append(ivs, value)[Len(Append(ivs, value))] = value
    BY <1>1, <1>2
  <2> QED
    BY <1>2, <2>1 DEF Last
<1>4. C \in Seq(StrategySignal) /\ Sides(C, id) = {}
  <2>1. C = <<>> \/ \E s \in StrategySignal : C = <<s>> /\ s.strategy_id = "covered_call"
    BY <1>1, CoveredCallAnswer
  <2> HIDE DEF C
  <2>2. C \in Seq(StrategySignal)
    BY <2>1, NoneOrOne
  <2>3. "covered_call" # id
    OBVIOUS
  <2> HIDE DEF id
  <2> QED
    BY <2>1, <2>2, <2>3, SidesOfOne
<1>5. /\ B \in Seq(StrategySignal)
      /\ Sides(B, id) # {} <=> BreaksOut(chain, ivHistory)
  <2>1. \/ B = <<>> /\ ~BreaksOut(chain, ivHistory)
        \/ /\ BreaksOut(chain, ivHistory)
           /\ \E s \in StrategySignal : B = <<s>> /\ s.strategy_id = id
    BY <1>1, BreakoutAnswer
  <2> HIDE DEF B, id
  <2>2. B \in Seq(StrategySignal)
    BY <2>1, NoneOrOne
  <2>3. B = <<>> => Sides(B, id) = {}
    BY SidesOfOne
  <2>4. ASSUME NEW s, B = <<s>>, s.strategy_id = id PROVE Sides(B, id) # {}
    BY <2>4, SidesOfOne
  <2> QED
    BY <2>1, <2>2, <2>3, <2>4
<1>6. result'.signals = C \o B
  BY TriggerAnswers, ResultKeeps
<1>7. SignalsOf(id)' # {} <=> BreaksOut(chain, ivHistory)
  <2>1. Sides(C \o B, id) = Sides(C, id) \cup Sides(B, id)
    BY <1>4, <1>5, SidesOfJoined
  <2>2. SignalsOf(id)' = {s \in Range(C \o B) : s.strategy_id = id}
    BY <1>6 DEF SignalsOf
  <2> HIDE DEF C, B, id
  <2>3. SignalsOf(id)' # {} <=> Sides(C \o B, id) # {}
    BY <2>2 DEF Sides
  <2> QED
    BY <1>4, <1>5, <2>1, <2>3
<1>8. Len(ivHistory) >= BreakoutLookback <=> Len(ivs) >= BreakoutLookback
  BY <1>1 DEF IsLatest
<1>9. Len(ivs) >= BreakoutLookback => ivHistory = Latest(ivs, BreakoutLookback)
  BY <1>1, FullWindow
<1>10. BreaksOut(chain, ivHistory) <=>
         /\ Len(ivHistory) >= BreakoutLookback
         /\ Less(Whole(0), Mean(ivHistory))
         /\ AtMost(Needed(Mean(ivHistory)), value)
  BY <1>2 DEF BreaksOut
<1> HIDE DEF Needed, value
<1>11. BreaksOut(chain, ivHistory) <=>
         /\ Len(ivs) >= BreakoutLookback
         /\ Less(Whole(0), Mean(Latest(ivs, BreakoutLookback)))
         /\ AtMost(Needed(Mean(Latest(ivs, BreakoutLookback))), value)
  BY <1>8, <1>9, <1>10
<1> QED
  BY <1>3, <1>7, <1>11 DEF Needed

LEMMA OthersMeasureNothing ==
  ASSUME [Next]_vars, ivs' # ivs
  PROVE  \E chain \in Chains : ProcessSchedule(chain)
BY DEF Next, vars, deque, ProcessEvent, ExecuteTarget, RefuseTarget

(* A volatility breaks out exactly if it exceeds the mean of those before  *)
(* it by the multiplier, itself and empty triggers left out.               *)
THEOREM BreakoutsCompare == Spec => BreakoutComparesWithPast
<1>1. DeskInv /\ [Next]_vars =>
        (ivs' # ivs =>
           LET baseline == Mean(Latest(ivs, BreakoutLookback))
               needed == Scale(BreakoutMultiplier[1], Over(baseline, BreakoutMultiplier[2]))
           IN SignalsOf("options_vol_breakout")' # {} <=>
                /\ Len(ivs) >= BreakoutLookback
                /\ Less(Whole(0), baseline)
                /\ AtMost(needed, Last(ivs')))
  BY OthersMeasureNothing, TriggerCompares
<1> QED
  BY <1>1, Invariance, PTL DEF Spec, BreakoutComparesWithPast

(* The sides the two event strategies answer a window with.                *)
LEMMA MomentumSides ==
  ASSUME NEW instrument \in Instruments, NEW window \in Seq(Prices), window # <<>>
  PROVE  LET answer == MomentumSignals(instrument, window)
             first == window[1]
             last == window[Len(window)]
         IN /\ answer \in Seq(SignalsFor(instrument))
            /\ Sides(answer, "hk_equity_mean_reversion") = {}
            /\ Sides(answer, "us_equity_momentum") =
                 IF Len(window) < MomentumLookback THEN {}
                 ELSE {side \in {"BUY", "SELL"} :
                         IF side = "BUY" THEN Less(first, last) ELSE Less(last, first)}
<1> DEFINE answer == MomentumSignals(instrument, window)
           first == window[1]
           last == window[Len(window)]
           short == Len(window) < MomentumLookback
           own == "us_equity_momentum"
           other == "hk_equity_mean_reversion"
           buy == "BUY"
           sell == "SELL"
           moved == {side \in {buy, sell} :
                       IF side = buy THEN Less(first, last) ELSE Less(last, first)}
<1>1. \/ (short \/ last = first) /\ answer = <<>>
      \/ /\ ~(short \/ last = first)
         /\ \E s \in SignalsFor(instrument) :
              /\ answer = <<s>> /\ s.strategy_id = own
              /\ s.side = IF Less(first, last) THEN buy ELSE sell
  BY MomentumAnswer
<1>2. first \in Prices /\ last \in Prices /\ own # other /\ buy # sell
  OBVIOUS
<1> HIDE DEF answer, first, last, short, own, other, buy, sell
<1>3. answer \in Seq(SignalsFor(instrument))
  BY <1>1, NoneOrOne
<1>4. /\ last = first => ~Less(first, last) /\ ~Less(last, first)
      /\ last # first => (Less(first, last) <=> ~Less(last, first))
  BY <1>2 DEF Prices, Less, AtMost
<1>5. /\ last = first => moved = {}
      /\ last # first => moved = {IF Less(first, last) THEN buy ELSE sell}
  BY <1>2, <1>4
<1>6. CASE answer = <<>> /\ (short \/ last = first)
  <2>1. Sides(answer, own) = {} /\ Sides(answer, other) = {}
    BY <1>6, SidesOfOne
  <2> QED
    BY <1>3, <1>5, <1>6, <2>1 DEF answer, first, last, short, own, other, buy, sell
<1>7. ASSUME ~(short \/ last = first), NEW s, answer = <<s>>, s.strategy_id = own,
             s.side = IF Less(first, last) THEN buy ELSE sell
      PROVE  /\ Sides(answer, own) = moved
             /\ Sides(answer, other) = {}
  <2>1. Sides(answer, own) = {s.side}
    BY <1>7, SidesOfOne
  <2>2. Sides(answer, other) = {}
    BY <1>2, <1>7, SidesOfOne
  <2> HIDE DEF moved
  <2> QED
    BY <1>5, <1>7, <2>1, <2>2
<1>8. CASE ~(answer = <<>> /\ (short \/ last = first))
  <2>1. ~short /\ Sides(answer, own) = moved /\ Sides(answer, other) = {}
    BY <1>1, <1>7, <1>8
  <2> QED
    BY <1>3, <2>1 DEF answer, first, last, short, own, other, buy, sell
<1> QED
  BY <1>6, <1>8

LEMMA ReversionSides ==
  ASSUME NEW instrument \in Instruments, NEW window \in Seq(Prices), window # <<>>
  PROVE  LET answer == ReversionSignals(instrument, window)
             price == window[Len(window)]
             average == Mean(window)
             far == Scale(ReversionThreshold[1], Over(average, ReversionThreshold[2]))
         IN /\ answer \in Seq(SignalsFor(instrument))
            /\ Sides(answer, "us_equity_momentum") = {}
            /\ Sides(answer, "hk_equity_mean_reversion") =
                 IF Len(window) < ReversionLookback THEN {}
                 ELSE {side \in {"BUY", "SELL"} :
                         IF side = "BUY" THEN AtMost(price, Minus(average, far))
                                         ELSE AtMost(Plus(average, far), price)}
<1> DEFINE answer == ReversionSignals(instrument, window)
           price == window[Len(window)]
           average == Mean(window)
           far == Scale(ReversionThreshold[1], Over(average, ReversionThreshold[2]))
           near == Less(Ratio(Absolute(Minus(price, average)), average), ReversionThreshold)
           below == Less(Minus(price, average), Whole(0))
           short == Len(window) < ReversionLookback
           own == "hk_equity_mean_reversion"
           other == "us_equity_momentum"
           buy == "BUY"
           sell == "SELL"
           low == AtMost(price, Minus(average, far))
           high == AtMost(Plus(average, far), price)
           faded == {side \in {buy, sell} : IF side = buy THEN low ELSE high}
<1>1. \/ (short \/ near) /\ answer = <<>>
      \/ /\ ~(short \/ near)
         /\ \E s \in SignalsFor(instrument) :
              /\ answer = <<s>> /\ s.strategy_id = own
              /\ s.side = IF below THEN buy ELSE sell
  BY ReversionAnswer
<1>2. price \in Prices /\ average \in NotNegative /\ average[1] > 0
  BY PricesArePositive, MeanNotNegative
<1>3. own # other /\ buy # sell
  OBVIOUS
<1> HIDE DEF answer, price, average, short, own, other, buy, sell
<1>4. (low <=> ~near /\ below) /\ (high <=> ~near /\ ~below)
  BY <1>2, DeviationSides
<1> HIDE DEF near, below, low, high
<1>5. answer \in Seq(SignalsFor(instrument))
  BY <1>1, NoneOrOne
<1>6. /\ near => faded = {}
      /\ ~near => faded = {IF below THEN buy ELSE sell}
  BY <1>3, <1>4
<1>7. CASE answer = <<>> /\ (short \/ near)
  <2>1. Sides(answer, own) = {} /\ Sides(answer, other) = {}
    BY <1>7, SidesOfOne
  <2> QED
    BY <1>5, <1>6, <1>7, <2>1
       DEF answer, price, average, short, own, other, buy, sell, low, high
<1>8. ASSUME ~(short \/ near), NEW s, answer = <<s>>, s.strategy_id = own,
             s.side = IF below THEN buy ELSE sell
      PROVE  /\ Sides(answer, own) = faded
             /\ Sides(answer, other) = {}
  <2>1. Sides(answer, own) = {s.side}
    BY <1>8, SidesOfOne
  <2>2. Sides(answer, other) = {}
    BY <1>3, <1>8, SidesOfOne
  <2> HIDE DEF faded
  <2> QED
    BY <1>6, <1>8, <2>1, <2>2
<1>9. CASE ~(answer = <<>> /\ (short \/ near))
  <2>1. ~short /\ Sides(answer, own) = faded /\ Sides(answer, other) = {}
    BY <1>1, <1>8, <1>9
  <2> QED
    BY <1>5, <2>1 DEF answer, price, average, short, own, other, buy, sell, low, high
<1> QED
  BY <1>7, <1>9

(* A window answers from the history: it is as full as the history is      *)
(* long, and when full it is the history's end.                            *)
LEMMA WindowStandsForHistory ==
  ASSUME NEW S, NEW window \in Seq(S), NEW history \in Seq(S),
         NEW lookback \in Nat \ {0}, IsLatest(window, history, lookback)
  PROVE  /\ Len(window) < lookback <=> Len(history) < lookback
         /\ ~(Len(history) < lookback) =>
              /\ window = Latest(history, lookback)
              /\ window[1] = history[Len(history) - lookback + 1]
<1>1. Len(window) < lookback <=> Len(history) < lookback
  BY DEF IsLatest
<1>2. ~(Len(history) < lookback) => Len(history) >= lookback
  OBVIOUS
<1> QED
  BY <1>1, <1>2, FullWindow

LEMMA EventFollows ==
  ASSUME DeskInv, NEW event \in Events, ProcessEvent(event),
         NEW i \in Instruments, seen'[i] # seen[i]
  PROVE  LET history == seen'[i]
             price == Last(history)
             before == history[Len(history) - MomentumLookback + 1]
             average == Mean(Latest(history, ReversionLookback))
             far == Scale(ReversionThreshold[1], Over(average, ReversionThreshold[2]))
         IN /\ \A s \in Range(result'.signals) : s.instrument_id = i
            /\ Sides(result'.signals, "us_equity_momentum") =
                 IF Len(history) < MomentumLookback THEN {}
                 ELSE {side \in {"BUY", "SELL"} :
                         IF side = "BUY" THEN Less(before, price) ELSE Less(price, before)}
            /\ Sides(result'.signals, "hk_equity_mean_reversion") =
                 IF Len(history) < ReversionLookback THEN {}
                 ELSE {side \in {"BUY", "SELL"} :
                         IF side = "BUY" THEN AtMost(price, Minus(average, far))
                                         ELSE AtMost(Plus(average, far), price)}
<1> USE DEF DeskInv
<1> DEFINE price == Whole(event.price)
           followed == MomentumWindow(momentum[i], price)
           faded == ReversionWindow(reversion[i], price)
           M == MomentumSignals(i, followed)
           R == ReversionSignals(i, faded)
           history == Append(seen[i], price)
           m == "us_equity_momentum"
           r == "hk_equity_mean_reversion"
<1>1. event.instrument_id = i
  <2>1. seen \in [Instruments -> Seq(Prices)]
    BY DEF TypeOK
  <2>2. seen' = [seen EXCEPT ![event.instrument_id] = Append(@, Whole(event.price))]
    BY DEF ProcessEvent
  <2> QED
    BY <2>1, <2>2
<1>2. /\ price \in Prices
      /\ followed \in Seq(Prices) /\ followed # <<>> /\ followed[Len(followed)] = price
      /\ faded \in Seq(Prices) /\ faded # <<>> /\ faded[Len(faded)] = price
      /\ IsLatest(followed, history, MomentumLookback)
      /\ IsLatest(faded, history, ReversionLookback)
      /\ M \o R \in Seq(SignalsFor(i))
      /\ BuildResult(M \o R)
  BY <1>1, EventAnswers
<1>3. seen'[i] = history /\ history \in Seq(Prices) /\ Last(history) = price
  <2>1. seen \in [Instruments -> Seq(Prices)] /\ seen[i] \in Seq(Prices)
    BY DEF TypeOK
  <2>2. seen' = [seen EXCEPT ![i] = Append(@, price)]
    BY <1>1 DEF ProcessEvent
  <2> HIDE DEF price
  <2>3. ASSUME NEW h \in Seq(Prices)
        PROVE  Append(h, price) \in Seq(Prices) /\ Last(Append(h, price)) = price
    <3>1. Append(h, price)[Len(Append(h, price))] = price
      BY <1>2
    <3> QED
      BY <1>2, <3>1 DEF Last
  <2> QED
    BY <2>1, <2>2, <2>3
<1> HIDE DEF price, followed, faded, history
<1>4. result'.signals = M \o R
  <2> DEFINE signals == M \o R
  <2> HIDE DEF signals, M, R
  <2>1. signals \in Seq(StrategySignal)
    BY <1>2, SignalsForAreSignals DEF signals
  <2> QED
    BY <1>2, <2>1, ResultKeeps DEF signals
<1>5. \A s \in Range(result'.signals) : s.instrument_id = i
  <2> DEFINE signals == M \o R
  <2> HIDE DEF signals, M, R
  <2>1. \A k \in DOMAIN signals : signals[k].instrument_id = i
    BY <1>2, SignalsForAreSignals DEF signals
  <2> QED
    BY <1>4, <2>1 DEF Range, signals
<1> DEFINE before == history[Len(history) - MomentumLookback + 1]
           average == Mean(Latest(history, ReversionLookback))
           far == Scale(ReversionThreshold[1], Over(average, ReversionThreshold[2]))
           moved == IF Len(history) < MomentumLookback THEN {}
                    ELSE {side \in {"BUY", "SELL"} :
                            IF side = "BUY" THEN Less(before, price) ELSE Less(price, before)}
           away == IF Len(history) < ReversionLookback THEN {}
                   ELSE {side \in {"BUY", "SELL"} :
                           IF side = "BUY" THEN AtMost(price, Minus(average, far))
                                           ELSE AtMost(Plus(average, far), price)}
<1>6. M \in Seq(SignalsFor(i)) /\ Sides(M, r) = {} /\ Sides(M, m) = moved
  <2>1. /\ Len(followed) < MomentumLookback <=> Len(history) < MomentumLookback
        /\ ~(Len(history) < MomentumLookback) => followed[1] = before
    <3> HIDE DEF M, R
    <3> QED
      BY <1>2, <1>3, Constants, WindowStandsForHistory
  <2>2. /\ M \in Seq(SignalsFor(i)) /\ Sides(M, r) = {}
        /\ Sides(M, m) =
             IF Len(followed) < MomentumLookback THEN {}
             ELSE {side \in {"BUY", "SELL"} :
                     IF side = "BUY" THEN Less(followed[1], price)
                                     ELSE Less(price, followed[1])}
    BY <1>2, MomentumSides
  <2> HIDE DEF M, R, before
  <2> QED
    BY <2>1, <2>2
<1>7. R \in Seq(SignalsFor(i)) /\ Sides(R, m) = {} /\ Sides(R, r) = away
  <2>1. /\ Len(faded) < ReversionLookback <=> Len(history) < ReversionLookback
        /\ ~(Len(history) < ReversionLookback) => Mean(faded) = average
    <3> HIDE DEF M, R
    <3> QED
      BY <1>2, <1>3, Constants, WindowStandsForHistory
  <2> DEFINE Far(a) == Scale(ReversionThreshold[1], Over(a, ReversionThreshold[2]))
  <2>2. /\ R \in Seq(SignalsFor(i)) /\ Sides(R, m) = {}
        /\ Sides(R, r) =
             IF Len(faded) < ReversionLookback THEN {}
             ELSE {side \in {"BUY", "SELL"} :
                     IF side = "BUY" THEN AtMost(price, Minus(Mean(faded), Far(Mean(faded))))
                                     ELSE AtMost(Plus(Mean(faded), Far(Mean(faded))), price)}
    BY <1>2, ReversionSides
  <2>3. far = Far(average)
    OBVIOUS
  <2> HIDE DEF M, R, average, far, Far
  <2> QED
    BY <2>1, <2>2, <2>3
<1>8. Sides(M \o R, m) = moved /\ Sides(M \o R, r) = away
  <2> HIDE DEF M, R, moved, away, m, r
  <2>1. \A strategy :
          Sides(M \o R, strategy) = Sides(M, strategy) \cup Sides(R, strategy)
    <3> DEFINE S == SignalsFor(i)
    <3>1. M \in Seq(S) /\ R \in Seq(S)
      BY <1>6, <1>7
    <3> HIDE DEF S
    <3> QED
      BY <3>1, SidesOfJoined
  <2> QED
    BY <1>6, <1>7, <2>1
<1> HIDE DEF M, R
<1> QED
  BY <1>3, <1>4, <1>5, <1>8

(* However events and triggers are interleaved, a price event is answered  *)
(* from the whole history of its instrument and from nothing else.         *)
THEOREM SignalsFollow == Spec => SignalsFollowPrices
<1>1. ASSUME DeskInv, [Next]_vars, NEW i \in Instruments, seen'[i] # seen[i]
      PROVE  \E event \in Events : ProcessEvent(event)
  BY <1>1 DEF Next, vars, ProcessSchedule, ExecuteTarget, RefuseTarget
<1>2. \A strategy : {s.side : s \in SignalsOf(strategy)'} = Sides(result'.signals, strategy)
  BY DEF SignalsOf, Sides
<1>3. DeskInv /\ [Next]_vars =>
        \A i \in Instruments : seen'[i] # seen[i] =>
         LET history == seen'[i]
             price == Last(history)
             sides(strategy) == {s.side : s \in SignalsOf(strategy)'}
             before == history[Len(history) - MomentumLookback + 1]
             average == Mean(Latest(history, ReversionLookback))
             far == Scale(ReversionThreshold[1], Over(average, ReversionThreshold[2]))
         IN /\ \A s \in Range(result'.signals) : s.instrument_id = i
            /\ sides("us_equity_momentum") =
                 IF Len(history) < MomentumLookback THEN {}
                 ELSE {side \in {"BUY", "SELL"} :
                         IF side = "BUY" THEN Less(before, price) ELSE Less(price, before)}
            /\ sides("hk_equity_mean_reversion") =
                 IF Len(history) < ReversionLookback THEN {}
                 ELSE {side \in {"BUY", "SELL"} :
                         IF side = "BUY" THEN AtMost(price, Minus(average, far))
                                         ELSE AtMost(Plus(average, far), price)}
  BY <1>1, <1>2, EventFollows
<1> QED
  BY <1>3, Invariance, PTL DEF Spec, SignalsFollowPrices
====
