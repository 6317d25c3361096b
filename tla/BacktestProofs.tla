--------------------------- MODULE BacktestProofs ---------------------------
(***************************************************************************)
(* Theorems about the backtest, for any histories, contracts, signals and  *)
(* costs.                                                                  *)
(*                                                                         *)
(* The first half says what the parts of a bar do: the timeline, one fill  *)
(* in the account, one trade, the execution of all that is pending, marks  *)
(* and snapshots, expirations, the targets queued.  BookInv puts them      *)
(* together.  The second half has the properties, each with the invariant  *)
(* it needs beside BookInv: NextOpenInv for the bar a target waits for,    *)
(* MoneyInv for the money, which steps preserve at cost while the property *)
(* is about market values, and Related for the two position books.  Each   *)
(* is kept by the two bars there are: one handled to its end, and one that *)
(* raises after its fills.                                                 *)
(***************************************************************************)
EXTENDS Backtest, DataTheorems

-----------------------------------------------------------------------------
(* Numbers.                                                                *)

LEMMA MaxOfTwo ==
  ASSUME NEW a \in Int, NEW b \in Int
  PROVE  Max({a, b}) = IF a >= b THEN a ELSE b
<1> DEFINE m == IF a >= b THEN a ELSE b
<1>1. m \in {a, b} /\ \A y \in {a, b} : m >= y
  OBVIOUS
<1>2. \A x \in {a, b} : (\A y \in {a, b} : x >= y) => x = m
  OBVIOUS
<1> HIDE DEF m
<1>3. Max({a, b}) = m
  BY <1>1, <1>2 DEF Max
<1> QED
  BY <1>3 DEF m

LEMMA MinOfTwo ==
  ASSUME NEW a \in Int, NEW b \in Int
  PROVE  Min({a, b}) = IF a =< b THEN a ELSE b
<1> DEFINE m == IF a =< b THEN a ELSE b
<1>1. m \in {a, b} /\ \A y \in {a, b} : m =< y
  OBVIOUS
<1>2. \A x \in {a, b} : (\A y \in {a, b} : x =< y) => x = m
  OBVIOUS
<1> HIDE DEF m
<1>3. Min({a, b}) = m
  BY <1>1, <1>2 DEF Min
<1> QED
  BY <1>3 DEF m

LEMMA RangeOfAppend ==
  ASSUME NEW T, NEW q \in Seq(T), NEW e \in T
  PROVE  Range(Append(q, e)) = Range(q) \cup {e}
<1> DEFINE n == Len(q)
           r == Append(q, e)
<1>1. n \in Nat /\ DOMAIN q = 1..n /\ DOMAIN r = 1..(n + 1)
  OBVIOUS
<1>2. r[n + 1] = e /\ \A i \in 1..n : r[i] = q[i]
  OBVIOUS
<1> HIDE DEF r, n
<1>3. \A x : x \in Range(r) <=> \E i \in 1..(n + 1) : x = r[i]
  BY <1>1 DEF Range
<1>4. \A x : x \in Range(q) <=> \E i \in 1..n : x = q[i]
  BY <1>1 DEF Range
<1>5. \A i : i \in 1..(n + 1) <=> i \in 1..n \/ i = n + 1
  BY <1>1
<1>6. \A x : x \in Range(r) <=> x \in Range(q) \/ x = e
  BY <1>2, <1>3, <1>4, <1>5
<1>7. Range(r) = Range(q) \cup {e}
  BY <1>6
<1> QED
  BY <1>7 DEF r

-----------------------------------------------------------------------------
(* The timeline.                                                           *)

GoodBar(bar) ==
    /\ bar \in Bar
    /\ bar.open # 0 /\ (bar.open * SlippageBps) % 10000 = 0

(* The bars of a history are ordered by time, and by rank within a time.   *)
LEMMA BarsAreOrdered ==
  ASSUME NEW h \in Histories
  PROVE  /\ IsFiniteSet(h) /\ \A b \in h : GoodBar(b)
         /\ \A a, b \in h : a # b => Before(a, b) \/ Before(b, a)
         /\ \A a, b, c \in h : Before(a, b) /\ Before(b, c) => Before(a, c)
         /\ \A a \in h : ~Before(a, a)
<1>1. IsFiniteSet(h) /\ \A b \in h : GoodBar(b)
  BY BarsAssumption DEF GoodBar
<1>2. \A b \in h : b.timestamp \in Int /\ b.rank \in Int
  BY <1>1 DEF GoodBar, Bar
<1>3. ASSUME NEW a \in h, NEW b \in h, a # b PROVE Before(a, b) \/ Before(b, a)
  <2>1. a.timestamp = b.timestamp => a.rank # b.rank
    BY <1>3, BarsAssumption
  <2> QED
    BY <1>2, <2>1 DEF Before
<1>4. ASSUME NEW a \in h, NEW b \in h, NEW c \in h, Before(a, b), Before(b, c)
      PROVE  Before(a, c)
  BY <1>2, <1>4 DEF Before
<1>5. \A a \in h : ~Before(a, a)
  BY <1>2 DEF Before
<1> QED
  BY <1>1, <1>3, <1>4, <1>5

Earlier(h, b) == {a \in h : Before(a, b)}

LEMMA EarlierCounts ==
  ASSUME NEW h \in Histories
  PROVE  /\ Cardinality(h) \in Nat
         /\ \A b \in h : Cardinality(Earlier(h, b)) \in 0..(Cardinality(h) - 1)
         /\ \A a, b \in h :
              Before(a, b) => Cardinality(Earlier(h, a)) < Cardinality(Earlier(h, b))
<1>1. /\ IsFiniteSet(h)
      /\ \A a, b, c \in h : Before(a, b) /\ Before(b, c) => Before(a, c)
      /\ \A a \in h : ~Before(a, a)
  BY BarsAreOrdered
<1>2. /\ Cardinality(h) \in Nat
      /\ \A b \in h : IsFiniteSet(Earlier(h, b)) /\ Cardinality(Earlier(h, b)) \in Nat
  <2>1. \A b \in h : Earlier(h, b) \in SUBSET h
    BY DEF Earlier
  <2>2. \A s \in SUBSET h : IsFiniteSet(s)
    BY <1>1, FS_Subset
  <2>3. \A s : IsFiniteSet(s) => Cardinality(s) \in Nat
    BY FS_CardinalityType
  <2> QED
    BY <1>1, <2>1, <2>2, <2>3
<1>3. ASSUME NEW S, IsFiniteSet(S), NEW T \in SUBSET S, T # S
      PROVE  Cardinality(T) < Cardinality(S)
  <2>1. Cardinality(T) =< Cardinality(S) /\ Cardinality(S) # Cardinality(T)
    BY <1>3, FS_Subset
  <2>2. Cardinality(S) \in Nat /\ Cardinality(T) \in Nat
    BY <1>3, FS_Subset, FS_CardinalityType
  <2> QED
    BY <2>1, <2>2
<1>4. ASSUME NEW b \in h PROVE Cardinality(Earlier(h, b)) < Cardinality(h)
  <2>1. Earlier(h, b) \in SUBSET h /\ Earlier(h, b) # h
    BY <1>1 DEF Earlier
  <2> QED
    BY <1>1, <1>3, <2>1
<1>5. ASSUME NEW a \in h, NEW b \in h, Before(a, b)
      PROVE  Cardinality(Earlier(h, a)) < Cardinality(Earlier(h, b))
  <2>1. Earlier(h, a) \in SUBSET Earlier(h, b) /\ Earlier(h, a) # Earlier(h, b)
    BY <1>1, <1>5 DEF Earlier
  <2> QED
    BY <1>2, <1>3, <2>1
<1> QED
  BY <1>2, <1>4, <1>5

(* The merged timeline consists of bars of the history, in order of time.  *)
LEMMA TimelineFacts ==
  ASSUME NEW h \in Histories
  PROVE  LET t == MergeTimeline(h) IN
         /\ t \in Seq(Bar) /\ \A n \in DOMAIN t : t[n] \in h /\ GoodBar(t[n])
         /\ \A m, n \in DOMAIN t : m < n => t[m].timestamp =< t[n].timestamp
<1> DEFINE N == Cardinality(h)
           t == MergeTimeline(h)
           count == [b \in h |-> Cardinality(Earlier(h, b))]
           place == [b \in h |-> count[b] + 1]
<1>0. /\ IsFiniteSet(h) /\ \A b \in h : GoodBar(b)
      /\ \A a, b \in h : a # b => Before(a, b) \/ Before(b, a)
  BY BarsAreOrdered
<1>1. /\ N \in Nat
      /\ \A b \in h : count[b] \in 0..(N - 1)
      /\ \A a, b \in h : Before(a, b) => count[a] < count[b]
  BY EarlierCounts
<1>c. \A b \in h : count[b] = Cardinality(Earlier(h, b))
  OBVIOUS
<1>t. t = [n \in 1..N |-> CHOOSE b \in h : Cardinality(Earlier(h, b)) = n - 1]
  BY DEF MergeTimeline, Earlier
<1> HIDE DEF N, count, t
<1>2. ASSUME NEW n \in 1..N PROVE \E b \in h : count[b] = n - 1
  <2>1. place \in [h -> 1..N]
    BY <1>1
  <2>2. ASSUME NEW a \in h, NEW b \in h, place[a] = place[b] PROVE a = b
    <3>1. ~Before(a, b) /\ ~Before(b, a)
      BY <1>1, <2>2
    <3> QED
      BY <1>0, <3>1
  <2>3. place \in Injection(h, 1..N)
    BY <2>1, <2>2 DEF Injection, IsInjective
  <2>4. IsFiniteSet(1..N) /\ Cardinality(1..N) = N
    <3>1. Cardinality(1..N) = IF 1 > N THEN 0 ELSE N - 1 + 1
      BY <1>1, FS_Interval
    <3> QED
      BY <1>1, <3>1, FS_Interval
  <2>5. place \in Surjection(h, 1..N)
    BY <2>3, <2>4, FS_Injection DEF N
  <2>6. PICK b \in h : place[b] = n
    BY <2>5 DEF Surjection
  <2> QED
    BY <1>1, <2>6
<1>3. \A n \in 1..N : t[n] \in h /\ count[t[n]] = n - 1
  BY <1>2, <1>c, <1>t
<1>4. DOMAIN t = 1..N
  BY <1>t
<1>5. t \in Seq(Bar)
  <2>1. t \in [1..N -> Bar]
    BY <1>0, <1>3, <1>t DEF GoodBar
  <2> QED
    BY <1>1, <2>1
<1>6. ASSUME NEW m \in 1..N, NEW n \in 1..N, m < n PROVE t[m].timestamp =< t[n].timestamp
  <2>1. ~Before(t[n], t[m]) /\ t[m] # t[n]
    BY <1>1, <1>3, <1>6
  <2>2. Before(t[m], t[n])
    BY <1>0, <1>3, <2>1
  <2>3. t[m].timestamp \in Int /\ t[n].timestamp \in Int
    BY <1>0, <1>3 DEF GoodBar, Bar
  <2> QED
    BY <2>2, <2>3 DEF Before
<1> QED
  BY <1>0, <1>3, <1>4, <1>5, <1>6 DEF t

-----------------------------------------------------------------------------
(* The account.  Its fractions are in lowest terms, so that sums of them   *)
(* can be compared.                                                        *)

LowestPosition == [quantity: Int, average: Lowest, contract: BOOLEAN]

LowestAccount ==
    [cash: Int, realized: Lowest, peak: Int, positions: [Symbols -> LowestPosition],
     by_instrument: [Symbols -> Lowest], by_asset_class: [AssetClasses -> Lowest]]

LEMMA LowestIsAccount ==
  /\ LowestAccount \subseteq Account(Symbols) /\ LowestPosition \subseteq Position
  /\ Lowest \subseteq Fractions
<1>1. Lowest \subseteq Fractions
  BY DEF Lowest
<1>2. LowestPosition \subseteq Position
  BY <1>1 DEF LowestPosition, Position
<1>3. ASSUME NEW a \in LowestAccount PROVE a \in Account(Symbols)
  BY <1>1, <1>2, <1>3 DEF LowestAccount, Account
<1> QED
  BY <1>1, <1>2, <1>3

LEMMA ZeroDenotes == ASSUME NEW D \in Nat \ {0} PROVE Denotes(Whole(0), 0, D)
<1> DEFINE none == 0
<1>1. none \in Int /\ none * D = 0
  OBVIOUS
<1> HIDE DEF none
<1>2. Denotes(Whole(none), none * D, D)
  BY <1>1, CommonWhole
<1>3. Denotes(Whole(none), 0, D)
  BY <1>1, <1>2
<1> QED
  BY <1>3 DEF none

(* The cost of a position, its quantity times its average, grows with a    *)
(* fill by what the fill is worth and what it realizes.                    *)
Cost(position) == Scale(position.quantity, position.average)

(* A fill that opens: the average is blended.                              *)
LEMMA BlendedCost ==
  ASSUME NEW p \in LowestPosition, NEW signed \in Int, signed # 0, NEW price \in Int,
         Opens(p, signed)
  PROVE  LET average == Blended(p, signed, price)
             held == p.quantity + signed
         IN  /\ held # 0 /\ average \in Lowest
             /\ Scale(held, average) = Plus(Cost(p), Whole(signed * price))
<1> DEFINE q == p.quantity
           held == q + signed
           a == p.average
           average == Blended(p, signed, price)
           mq == Magnitude(q)
           ms == Magnitude(signed)
           mh == Magnitude(held)
           w == price * ms
           top == Plus(Scale(mq, a), Whole(w))
<1>1. q \in Int /\ a \in Lowest /\ a \in Fractions /\ held \in Int
  BY DEF LowestPosition, Lowest
<1>2. \/ q >= 0 /\ signed > 0 /\ held > 0 /\ mq = q /\ ms = signed /\ mh = held
      \/ q =< 0 /\ signed < 0 /\ held < 0 /\ mq = -q /\ ms = -signed /\ mh = -held
  BY <1>1 DEF Opens, SameDirection, Magnitude
<1>3. average = Over(top, mh)
  BY DEF Blended
<1>c. Cost(p) = Scale(q, a)
  BY DEF Cost
<1> HIDE DEF average, top, mq, ms, mh, q, a
<1>4. mq \in Int /\ ms \in Int /\ mh \in Nat \ {0} /\ mh \in Int /\ mh > 0 /\ w \in Int
  BY <1>1, <1>2
<1> HIDE DEF w, held
<1>5. PICK D \in Nat \ {0}, i \in Int : Denotes(a, i, D)
  BY <1>1, CommonDenominator
<1> DEFINE m == mq * i + w * D
           n == q * i + (signed * price) * D
<1>6. Denotes(top, m, D) /\ top \in Lowest
  <2>1. Denotes(Scale(mq, a), mq * i, D) /\ Denotes(Whole(w), w * D, D)
    BY <1>4, <1>5, DenotedMultiples, CommonWhole
  <2>2. Scale(mq, a) \in Fractions /\ Whole(w) \in Fractions
    BY <2>1 DEF Denotes
  <2>3. Denotes(Plus(Scale(mq, a), Whole(w)), mq * i + w * D, D)
    BY <2>1, CommonSums
  <2> QED
    BY <1>1, <2>2, <2>3, LowestClosed DEF top
<1>7. average \in Lowest /\ Denotes(average, m, D * mh)
  <2>1. top \in Fractions
    BY <1>6 DEF Lowest
  <2> QED
    BY <1>1, <1>3, <1>4, <1>6, <2>1, LowestClosed, DenotedMultiples
<1>8. Denotes(Scale(held, average), held * m, D * mh)
  BY <1>1, <1>7, DenotedMultiples DEF held
<1>9. Denotes(Plus(Cost(p), Whole(signed * price)), n * mh, D * mh)
  <2>1. signed * price \in Int
    OBVIOUS
  <2>2. Denotes(Scale(q, a), q * i, D)
    BY <1>1, <1>5, DenotedMultiples
  <2>3. Denotes(Whole(signed * price), (signed * price) * D, D)
    BY <2>1, CommonWhole
  <2>4. Denotes(Plus(Cost(p), Whole(signed * price)), n, D)
    BY <1>c, <2>2, <2>3, CommonSums
  <2> HIDE DEF n
  <2> QED
    BY <1>4, <2>4, Widens
<1>10. held * m = n * mh
  <2>1. CASE mq = q /\ ms = signed /\ mh = held
    <3>1. m = q * i + (price * signed) * D
      BY <2>1 DEF w
    <3>2. m = n
      BY <3>1
    <3>3. m \in Int /\ held \in Int
      BY <1>1, <1>4 DEF held
    <3> HIDE DEF m, n
    <3> QED
      BY <2>1, <3>2, <3>3
  <2>2. CASE mq = -q /\ ms = -signed /\ mh = -held
    <3>1. m = (-q) * i + (price * (-signed)) * D
      BY <2>2 DEF w
    <3>2. (-q) * i = -(q * i) /\ (price * (-signed)) * D = -((signed * price) * D)
      BY <1>1
    <3>3. n \in Int /\ held \in Int /\ m = -n
      <4>1. q * i \in Int /\ (signed * price) * D \in Int
        BY <1>1
      <4> QED
        BY <1>1, <3>1, <3>2, <4>1 DEF held
    <3> HIDE DEF m, n
    <3>4. held * (-n) = n * (-held)
      BY <3>3
    <3> QED
      BY <2>2, <3>3, <3>4
  <2> QED
    BY <1>2, <2>1, <2>2
<1>11. Scale(held, average) \in Lowest /\ Plus(Cost(p), Whole(signed * price)) \in Lowest
  <2>1. average \in Fractions /\ held \in Int
    BY <1>1, <1>7 DEF Lowest, held
  <2>2. signed * price \in Int /\ Cost(p) \in Lowest
    BY <1>1, <1>c, LowestClosed
  <2>3. Whole(signed * price) \in Fractions /\ Cost(p) \in Fractions
    BY <2>2, WholeIsLowest DEF Lowest
  <2> QED
    BY <2>1, <2>3, LowestClosed
<1> HIDE DEF m, n
<1>12. Scale(held, average) = Plus(Cost(p), Whole(signed * price))
  BY <1>8, <1>9, <1>10, <1>11, SameValue
<1> QED
  BY <1>2, <1>7, <1>12 DEF average, held, q

(* A fill that does not open: the profit of what it closes.                *)
LEMMA ClosedCost ==
  ASSUME NEW p \in LowestPosition, NEW signed \in Int, signed # 0, NEW price \in Int,
         ~Opens(p, signed)
  PROVE  LET after == PositionAfter(p, signed, price)
             profit == RealizedBy(p, signed, price)
             held == p.quantity + signed
         IN  /\ after.average \in Lowest /\ profit \in Lowest
             /\ Scale(held, after.average) = Plus(Cost(p), Plus(Whole(signed * price), profit))
<1> DEFINE q == p.quantity
           held == q + signed
           a == p.average
           closed == Min({Magnitude(signed), Magnitude(q)})
           k == IF q > 0 THEN closed ELSE -closed
           profit == RealizedBy(p, signed, price)
           average == PositionAfter(p, signed, price).average
           w == signed * price
           perUnit == Minus(Whole(price), a)
<1>1. q \in Int /\ a \in Lowest /\ a \in Fractions /\ q # 0
  BY DEF LowestPosition, Lowest, Opens
<1>2. held \in Int /\ w \in Int
  BY <1>1
<1>3. \/ held = 0 /\ k = q
      \/ held # 0 /\ SameDirection(q, held) /\ k = -signed
      \/ held # 0 /\ ~SameDirection(q, held) /\ k = q
  <2>1. Magnitude(signed) \in Int /\ Magnitude(q) \in Int
    BY <1>1 DEF Magnitude
  <2>2. closed = IF Magnitude(signed) =< Magnitude(q) THEN Magnitude(signed) ELSE Magnitude(q)
    BY <2>1, MinOfTwo
  <2> HIDE DEF closed
  <2>3. CASE q > 0
    <3>1. Magnitude(q) = q /\ signed < 0 /\ Magnitude(signed) = -signed /\ k = closed
      BY <1>1, <2>3 DEF Magnitude, Opens, SameDirection
    <3>2. SameDirection(q, held) <=> held > 0
      BY <1>1, <2>3 DEF SameDirection
    <3> QED
      BY <1>1, <2>2, <3>1, <3>2
  <2>4. CASE q < 0
    <3>1. Magnitude(q) = -q /\ signed > 0 /\ Magnitude(signed) = signed /\ k = -closed
      BY <1>1, <2>4 DEF Magnitude, Opens, SameDirection
    <3>2. SameDirection(q, held) <=> held < 0
      BY <1>1, <2>4 DEF SameDirection
    <3> QED
      BY <1>1, <2>2, <3>1, <3>2
  <2> QED
    BY <1>1, <2>3, <2>4
<1>4. k \in Int
  BY <1>1, <1>3
<1>5. /\ profit = Scale(k, perUnit)
      /\ average = IF held = 0 THEN Whole(0) ELSE IF SameDirection(q, held) THEN a ELSE Whole(price)
      /\ Cost(p) = Scale(q, a)
  <2>1. profit = Scale(k, perUnit)
    BY DEF RealizedBy
  <2>2. average = IF held = 0 THEN Whole(0)
                  ELSE IF SameDirection(q, held) THEN a ELSE Whole(price)
    BY DEF PositionAfter, LowestPosition
  <2> QED
    BY <2>1, <2>2 DEF Cost
<1> HIDE DEF q, a, closed, k, profit, average, w, held
<1>6. PICK D \in Nat \ {0}, i \in Int : Denotes(a, i, D)
  BY <1>1, CommonDenominator
<1>7. /\ Whole(price) \in Lowest /\ Whole(w) \in Lowest /\ Whole(0) \in Lowest
      /\ Whole(price) \in Fractions /\ Whole(w) \in Fractions
  BY <1>2, WholeIsLowest DEF Lowest
<1>8. perUnit \in Fractions /\ Denotes(perUnit, price * D - i, D)
  <2>1. Denotes(Whole(price), price * D, D)
    BY CommonWhole
  <2>2. Denotes(perUnit, price * D - i, D)
    BY <1>6, <2>1, CommonSums
  <2> QED
    BY <2>2 DEF Denotes
<1> HIDE DEF perUnit
<1>9. /\ profit \in Lowest /\ profit \in Fractions /\ average \in Lowest /\ average \in Fractions
      /\ Cost(p) \in Lowest /\ Cost(p) \in Fractions
  <2>1. profit \in Lowest /\ Cost(p) \in Lowest
    BY <1>1, <1>4, <1>5, <1>8, LowestClosed
  <2>2. average \in Lowest
    BY <1>1, <1>5, <1>7
  <2> QED
    BY <2>1, <2>2 DEF Lowest
<1> DEFINE x == k * (price * D - i)
           y == w * D
           z == q * i
<1>10. /\ Denotes(profit, x, D) /\ Denotes(Whole(w), y, D) /\ Denotes(Cost(p), z, D)
  BY <1>1, <1>2, <1>4, <1>5, <1>6, <1>8, DenotedMultiples, CommonWhole
<1>11. \E j \in Int : Denotes(average, j, D) /\ held * j = z + (y + x)
  <2>1. CASE held = 0
    <3>1. Denotes(average, 0, D)
      BY <1>5, <2>1, ZeroDenotes
    <3>2. k = q /\ signed = -q
      BY <1>1, <1>3, <2>1 DEF held, SameDirection
    <3>3. z + (y + x) = 0
      <4>1. x = q * (price * D) - q * i
        BY <1>1, <3>2
      <4>2. y = -(q * (price * D))
        BY <1>1, <3>2 DEF w
      <4> QED
        BY <1>1, <4>1, <4>2
    <3> QED
      BY <2>1, <3>1, <3>3
  <2>2. CASE held # 0 /\ SameDirection(q, held)
    <3>1. average = a /\ k = -signed
      BY <1>3, <1>5, <2>2
    <3>2. x = signed * i - signed * (price * D)
      BY <3>1
    <3>3. y = signed * (price * D)
      BY DEF w
    <3>4. held * i = q * i + signed * i
      BY <1>1 DEF held
    <3>5. q * i \in Int /\ signed * i \in Int /\ signed * (price * D) \in Int
      BY <1>1
    <3>6. held * i = z + (y + x)
      BY <3>2, <3>3, <3>4, <3>5
    <3> HIDE DEF x, y, z
    <3> QED
      BY <1>6, <3>1, <3>6
  <2>3. CASE held # 0 /\ ~SameDirection(q, held)
    <3>1. average = Whole(price) /\ k = q
      BY <1>3, <1>5, <2>3
    <3>2. Denotes(average, price * D, D)
      BY <3>1, CommonWhole
    <3>3. x = q * (price * D) - q * i
      BY <1>1, <3>1
    <3>4. y = signed * (price * D)
      BY DEF w
    <3>5. held * (price * D) = q * (price * D) + signed * (price * D)
      BY <1>1 DEF held
    <3>6. q * i \in Int /\ q * (price * D) \in Int /\ signed * (price * D) \in Int
      BY <1>1
    <3>7. held * (price * D) = z + (y + x)
      BY <3>3, <3>4, <3>5, <3>6
    <3>8. price * D \in Int
      OBVIOUS
    <3> HIDE DEF x, y, z
    <3> QED
      BY <3>2, <3>7, <3>8
  <2> QED
    BY <2>1, <2>2, <2>3
<1> HIDE DEF x, y, z
<1>12. PICK j \in Int : Denotes(average, j, D) /\ held * j = z + (y + x)
  BY <1>11
<1>13. Denotes(Scale(held, average), held * j, D)
  BY <1>2, <1>12, DenotedMultiples
<1> DEFINE gain == Plus(Whole(w), profit)
<1>14. Denotes(gain, y + x, D) /\ gain \in Lowest /\ gain \in Fractions
  BY <1>7, <1>9, <1>10, CommonSums, LowestClosed DEF Lowest
<1> HIDE DEF gain
<1>15. Denotes(Plus(Cost(p), gain), z + (y + x), D) /\ Plus(Cost(p), gain) \in Lowest
  BY <1>9, <1>10, <1>14, CommonSums, LowestClosed
<1>16. Scale(held, average) \in Lowest
  BY <1>2, <1>9, LowestClosed
<1>17. Scale(held, average) = Plus(Cost(p), gain)
  BY <1>12, <1>13, <1>15, <1>16, SameValue
<1> QED
  BY <1>9, <1>17 DEF held, average, profit, gain, w, q

(* What booking a fill does to a position.                                 *)
LEMMA PositionBooked ==
  ASSUME NEW p \in LowestPosition, NEW signed \in Int, signed # 0, NEW price \in Int
  PROVE  LET after == PositionAfter(p, signed, price)
             profit == RealizedBy(p, signed, price)
         IN  /\ after \in LowestPosition /\ profit \in Lowest
             /\ after.quantity = p.quantity + signed /\ after.contract = p.contract
             /\ Cost(after) = Plus(Cost(p), Plus(Whole(signed * price), profit))
<1> DEFINE after == PositionAfter(p, signed, price)
           profit == RealizedBy(p, signed, price)
           held == p.quantity + signed
           w == signed * price
<1>1. p.quantity \in Int /\ held \in Int /\ w \in Int
  BY DEF LowestPosition
<1>2. /\ after.quantity = held /\ after.contract = p.contract
      /\ after = [quantity |-> held, average |-> after.average, contract |-> p.contract]
  <2> DEFINE v == IF Opens(p, signed) THEN Blended(p, signed, price)
                  ELSE IF held = 0 THEN Whole(0)
                  ELSE IF SameDirection(p.quantity, held) THEN p.average
                  ELSE Whole(price)
  <2>1. after = [p EXCEPT !.quantity = held, !.average = v]
    BY DEF PositionAfter, LowestPosition
  <2> HIDE DEF after, v, held
  <2>2. p = [quantity |-> p.quantity, average |-> p.average, contract |-> p.contract]
    BY DEF LowestPosition
  <2>3. after = [quantity |-> held, average |-> v, contract |-> p.contract]
    BY <2>1, <2>2
  <2> QED
    BY <2>3
<1>3. /\ after.average \in Lowest /\ profit \in Lowest
      /\ Scale(held, after.average) = Plus(Cost(p), Plus(Whole(w), profit))
  <2>1. CASE Opens(p, signed)
    <3>1. after.average = Blended(p, signed, price) /\ profit = Whole(0)
      BY <2>1 DEF PositionAfter, RealizedBy, LowestPosition
    <3>2. /\ after.average \in Lowest
          /\ Scale(held, after.average) = Plus(Cost(p), Whole(w))
      BY <2>1, <3>1, BlendedCost
    <3>3. profit \in Lowest
      BY <3>1, WholeIsLowest
    <3>4. Plus(Whole(w), Whole(0)) = Whole(w)
      <4> DEFINE zero == Whole(0)
                 u == Whole(w)
      <4>1. zero \in Lowest /\ u \in Lowest
        BY <1>1, WholeIsLowest
      <4>2. FractionPlus[zero][u] = u /\ FractionPlus[zero][u] = FractionPlus[u][zero]
        BY <4>1, FractionsAreSummable DEF Summable
      <4> HIDE DEF zero, u
      <4>3. FractionPlus[u][zero] = Plus(u, zero)
        BY <4>1 DEF FractionPlus
      <4> QED
        BY <4>2, <4>3 DEF zero, u
    <3> HIDE DEF after, profit, held, w
    <3> QED
      BY <3>1, <3>2, <3>3, <3>4
  <2>2. CASE ~Opens(p, signed)
    BY <2>2, ClosedCost
  <2> QED
    BY <2>1, <2>2
<1> HIDE DEF after, profit, held, w
<1>4. after \in LowestPosition
  <2>1. p.contract \in BOOLEAN
    BY DEF LowestPosition
  <2> QED
    BY <1>1, <1>2, <1>3, <2>1 DEF LowestPosition
<1>5. Cost(after) = Plus(Cost(p), Plus(Whole(w), profit))
  BY <1>2, <1>3 DEF Cost
<1> QED
  BY <1>2, <1>3, <1>4, <1>5 DEF after, profit, held, w

TotalCost(acct) == SumOver([s \in Symbols |-> Cost(acct.positions[s])], Symbols)

Attributed(acct) ==
    /\ SumOver(acct.by_instrument, Symbols) = acct.realized
    /\ SumOver(acct.by_asset_class, AssetClasses) = acct.realized

LEMMA FinitelyMany == IsFiniteSet(Symbols) /\ IsFiniteSet(AssetClasses)
<1>1. IsFiniteSet({} \cup {"EQUITY"})
  BY FS_EmptySet, FS_AddElement
<1>2. IsFiniteSet(({} \cup {"EQUITY"}) \cup {"OPTION"})
  BY <1>1, FS_AddElement
<1>3. AssetClasses = ({} \cup {"EQUITY"}) \cup {"OPTION"}
  BY DEF AssetClasses
<1> QED
  BY <1>2, <1>3, BarsAssumption

LEMMA TradeBooked ==
  ASSUME NEW acct \in LowestAccount, NEW symbol \in Symbols, NEW class \in AssetClasses,
         NEW signed \in Int, signed # 0, NEW price \in Int, NEW costs \in Int
  PROVE  LET booked == BookTrade(acct, symbol, class, signed, price, costs)
             profit == RealizedBy(acct.positions[symbol], signed, price)
         IN  /\ booked \in LowestAccount /\ profit \in Lowest
             /\ booked.cash = acct.cash - signed * price - costs
             /\ booked.realized = Plus(acct.realized, profit)
             /\ booked.positions = [acct.positions EXCEPT ![symbol] =
                                      PositionAfter(acct.positions[symbol], signed, price)]
             /\ TotalCost(booked) = Plus(TotalCost(acct), Plus(Whole(signed * price), profit))
             /\ Attributed(acct) => Attributed(booked)
<1> DEFINE booked == BookTrade(acct, symbol, class, signed, price, costs)
           before == acct.positions[symbol]
           after == PositionAfter(before, signed, price)
           profit == RealizedBy(before, signed, price)
           w == signed * price
<1>1. /\ acct.cash \in Int /\ acct.realized \in Lowest /\ acct.peak \in Int
      /\ acct.positions \in [Symbols -> LowestPosition] /\ before \in LowestPosition
      /\ acct.by_instrument \in [Symbols -> Lowest]
      /\ acct.by_asset_class \in [AssetClasses -> Lowest]
      /\ acct = [cash |-> acct.cash, realized |-> acct.realized, peak |-> acct.peak,
                 positions |-> acct.positions, by_instrument |-> acct.by_instrument,
                 by_asset_class |-> acct.by_asset_class]
  BY DEF LowestAccount
<1>2. /\ after \in LowestPosition /\ profit \in Lowest
      /\ Cost(after) = Plus(Cost(before), Plus(Whole(w), profit))
  BY <1>1, PositionBooked
<1>3. /\ booked.cash = acct.cash - w - costs
      /\ booked.realized = Plus(acct.realized, profit)
      /\ booked.peak = acct.peak
      /\ booked.positions = [acct.positions EXCEPT ![symbol] = after]
      /\ booked.by_instrument = [acct.by_instrument EXCEPT ![symbol] = Plus(@, profit)]
      /\ booked.by_asset_class = [acct.by_asset_class EXCEPT ![class] = Plus(@, profit)]
      /\ booked = [cash |-> booked.cash, realized |-> booked.realized, peak |-> booked.peak,
                   positions |-> booked.positions, by_instrument |-> booked.by_instrument,
                   by_asset_class |-> booked.by_asset_class]
  <2> DEFINE c == acct.cash - w - costs
             r == Plus(acct.realized, profit)
             p == [acct.positions EXCEPT ![symbol] = after]
             i == [acct.by_instrument EXCEPT ![symbol] = Plus(@, profit)]
             a == [acct.by_asset_class EXCEPT ![class] = Plus(@, profit)]
  <2>1. booked = [acct EXCEPT !.cash = c, !.realized = r, !.positions = p,
                              !.by_instrument = i, !.by_asset_class = a]
    BY <1>1 DEF BookTrade, Attribution
  <2> HIDE DEF booked, c, r, p, i, a
  <2>2. booked = [cash |-> c, realized |-> r, peak |-> acct.peak, positions |-> p,
                  by_instrument |-> i, by_asset_class |-> a]
    BY <1>1, <2>1
  <2> QED
    BY <2>2 DEF c, r, p, i, a
<1>4. \A x, y \in Lowest : Plus(x, y) \in Lowest
  BY LowestClosed DEF Lowest
<1>w. w \in Int
  OBVIOUS
<1> HIDE DEF booked, after, profit, w, before
<1>5. booked \in LowestAccount
  <2>1. booked.cash \in Int /\ booked.realized \in Lowest /\ booked.peak \in Int
    BY <1>1, <1>2, <1>3, <1>4, <1>w
  <2>2. booked.positions \in [Symbols -> LowestPosition]
    BY <1>1, <1>2, <1>3
  <2>3. /\ booked.by_instrument \in [Symbols -> Lowest]
        /\ booked.by_asset_class \in [AssetClasses -> Lowest]
    BY <1>1, <1>2, <1>3, <1>4
  <2> QED
    BY <1>3, <2>1, <2>2, <2>3 DEF LowestAccount
<1>f. IsFiniteSet(Symbols) /\ IsFiniteSet(AssetClasses)
  BY FinitelyMany
<1>6. TotalCost(booked) = Plus(TotalCost(acct), Plus(Whole(w), profit))
  <2> DEFINE u == [s \in Symbols |-> Cost(acct.positions[s])]
             v == [s \in Symbols |-> Cost(booked.positions[s])]
             b == Plus(Whole(w), profit)
  <2>1. \A s \in Symbols : u[s] \in Lowest
    <3>1. ASSUME NEW p \in LowestPosition PROVE Cost(p) \in Lowest
      <4>1. p.average \in Fractions /\ p.quantity \in Int
        BY DEF LowestPosition, Lowest
      <4> QED
        BY <4>1, LowestClosed DEF Cost
    <3> QED
      BY <1>1, <3>1
  <2>2. b \in Lowest
    BY <1>2, <1>4, <1>w, WholeIsLowest
  <2>3. v[symbol] = Plus(u[symbol], b) /\ \A s \in Symbols \ {symbol} : v[s] = u[s]
    <3>1. v[symbol] = Cost(after) /\ u[symbol] = Cost(before)
      BY <1>1, <1>3 DEF before
    <3>2. \A s \in Symbols \ {symbol} : booked.positions[s] = acct.positions[s]
      BY <1>1, <1>3
    <3> QED
      BY <1>2, <3>1, <3>2
  <2>4. TotalCost(booked) = SumOver(v, Symbols) /\ TotalCost(acct) = SumOver(u, Symbols)
    BY DEF TotalCost
  <2> HIDE DEF u, v, b
  <2>5. SumOver(v, Symbols) = Plus(SumOver(u, Symbols), b)
    BY <1>f, <2>1, <2>2, <2>3, SumOverChanges
  <2> QED
    BY <2>4, <2>5 DEF b
<1>7. ASSUME Attributed(acct) PROVE Attributed(booked)
  <2> DEFINE u == acct.by_instrument
             v == booked.by_instrument
  <2>1. /\ \A s \in Symbols : u[s] \in Lowest
        /\ v[symbol] = Plus(u[symbol], profit) /\ \A s \in Symbols \ {symbol} : v[s] = u[s]
    BY <1>1, <1>3
  <2> HIDE DEF u, v
  <2>2. SumOver(v, Symbols) = Plus(SumOver(u, Symbols), profit)
    BY <1>2, <1>f, <2>1, SumOverChanges
  <2> DEFINE x == acct.by_asset_class
             y == booked.by_asset_class
  <2>3. /\ \A s \in AssetClasses : x[s] \in Lowest
        /\ y[class] = Plus(x[class], profit) /\ \A s \in AssetClasses \ {class} : y[s] = x[s]
    BY <1>1, <1>3
  <2> HIDE DEF x, y
  <2>4. SumOver(y, AssetClasses) = Plus(SumOver(x, AssetClasses), profit)
    BY <1>2, <1>f, <2>3, SumOverChanges
  <2> QED
    BY <1>3, <1>7, <2>2, <2>4 DEF Attributed, u, v, x, y
<1> QED
  BY <1>2, <1>3, <1>5, <1>6, <1>7 DEF booked, after, profit, w, before

-----------------------------------------------------------------------------
(* A trade.                                                                *)

State == [account: LowestAccount, fills: Seq(BacktestFill)]

LEMMA SlippedPriceType ==
  ASSUME NEW bar, GoodBar(bar), NEW side PROVE SlippedPrice(bar.open, side) \in Nat \ {0}
<1> DEFINE ten == 10000
           open == bar.open
           a == open * SlippageBps
           slippage == a \div ten
<1>1. /\ open \in Nat \ {0} /\ SlippageBps \in Nat /\ SlippageBps < ten
      /\ ten \in Nat \ {0} /\ a % ten = 0
  BY BarsAssumption DEF GoodBar, Bar
<1>2. a \in Nat
  BY <1>1
<1>3. SlippedPrice(open, side) = IF side = "BUY" THEN open + slippage ELSE open - slippage
  BY DEF SlippedPrice
<1>4. a < open * ten
  <2> HIDE DEF ten, open
  <2>1. open * SlippageBps < open * ten
    BY <1>1
  <2> QED
    BY <2>1
<1> HIDE DEF ten, open, a
<1>5. slippage \in Nat /\ a = ten * slippage
  <2>0. a \in Int
    BY <1>2
  <2>p. PICK x \in Int : a = ten * x
    BY <1>1, <2>0, Divides
  <2>1. a \div ten = x /\ a = ten * x
    BY <1>1, <2>0, <2>p, Divides
  <2>2. x >= 0
    BY <1>1, <1>2, <2>1
  <2> QED
    BY <2>1, <2>2
<1> HIDE DEF slippage
<1>6. slippage < open
  <2>1. ~(open =< slippage)
    <3>1. open =< slippage => ten * open =< ten * slippage
      BY <1>1, <1>5
    <3>2. ten * open = open * ten /\ ten * open \in Int /\ ten * slippage \in Int
      BY <1>1, <1>5
    <3> QED
      BY <1>4, <1>5, <3>1, <3>2
  <2> QED
    BY <1>1, <1>5, <2>1
<1>7. SlippedPrice(open, side) \in Nat \ {0}
  BY <1>1, <1>3, <1>5, <1>6
<1> QED
  BY <1>7 DEF open

LEMMA CostsType ==
  ASSUME NEW class \in AssetClasses, NEW quantity \in Nat, NEW notional \in Nat
  PROVE  Commission(class, quantity) \in Nat /\ Fees(notional) \in Nat
<1>1. MinimumTicket \in Nat /\ SecFee \in Nat /\ PerUnit[class] \in Nat
  BY BarsAssumption
<1> DEFINE unit == PerUnit[class]
           u == unit * quantity
<1>2. u \in Nat /\ notional * SecFee \in Nat
  BY <1>1
<1> HIDE DEF u
<1>3. Max({MinimumTicket, u}) \in Nat
  BY <1>1, <1>2, MaxOfTwo
<1> QED
  BY <1>2, <1>3 DEF Commission, Fees, u

(* A target away from the position is one fill, and the position is what   *)
(* the target asked for; cash, cost, realized profit and commission move   *)
(* together.                                                               *)
LEMMA TradeFacts ==
  ASSUME NEW st \in State, NEW target \in PendingTarget, NEW bar, GoodBar(bar), step \in Nat,
         target.target_quantity # st.account.positions[bar.symbol].quantity
  PROVE  LET next == Trade(st, target, bar)
             symbol == bar.symbol
             before == st.account.positions[symbol]
             after == next.account.positions[symbol]
             delta == target.target_quantity - before.quantity
         IN  \E fill \in BacktestFill :
             /\ next \in State /\ next.fills = Append(st.fills, fill)
             /\ fill.timestamp = step + 1 /\ fill.instrument_id = symbol
             /\ fill.signalled = target.timestamp
             /\ fill.price = SlippedPrice(bar.open, fill.side)
             /\ fill.asset_class = target.asset_class
             /\ SignedFill(fill.side, fill.quantity) = delta
             /\ delta # 0 /\ delta \in Int
             /\ \A s \in Symbols \ {symbol} :
                  next.account.positions[s] = st.account.positions[s]
             /\ LET booked == PositionAfter(before, delta, fill.price) IN
                  /\ after.quantity = target.target_quantity
                  /\ after.quantity = booked.quantity /\ after.average = booked.average
             /\ after.contract = IF fill.asset_class = "OPTION" THEN symbol \in DOMAIN Contracts
                                                                ELSE before.contract
             /\ next.account.cash =
                  st.account.cash - delta * fill.price - (fill.commission + fill.fees)
             /\ \E profit \in Lowest :
                  /\ next.account.realized = Plus(st.account.realized, profit)
                  /\ TotalCost(next.account) =
                       Plus(TotalCost(st.account), Plus(Whole(delta * fill.price), profit))
             /\ Attributed(st.account) => Attributed(next.account)
<1> DEFINE next == Trade(st, target, bar)
           symbol == bar.symbol
           class == target.asset_class
           acct == st.account
           before == acct.positions[symbol]
           delta == target.target_quantity - before.quantity
           side == IF delta > 0 THEN "BUY" ELSE "SELL"
           quantity == IF delta > 0 THEN delta ELSE -delta
           price == SlippedPrice(bar.open, side)
           commission == Commission(class, quantity)
           fees == Fees(price * quantity)
           booked == BookTrade(acct, symbol, class, delta, price, commission + fees)
           fill == [timestamp |-> step + 1, instrument_id |-> symbol, side |-> side,
                    quantity |-> quantity, price |-> price, commission |-> commission,
                    fees |-> fees, asset_class |-> class, signalled |-> target.timestamp]
           attached == [booked EXCEPT !.positions[symbol].contract = symbol \in DOMAIN Contracts]
           final == IF class = "OPTION" THEN attached ELSE booked
<1>1. /\ acct \in LowestAccount /\ st.fills \in Seq(BacktestFill)
      /\ symbol \in Symbols /\ class \in AssetClasses /\ target.timestamp \in Nat
      /\ target.target_quantity \in Int
  BY DEF State, PendingTarget, GoodBar, Bar
<1>2. acct.positions \in [Symbols -> LowestPosition] /\ before \in LowestPosition
  BY <1>1 DEF LowestAccount
<1>3. /\ delta \in Int /\ delta # 0 /\ quantity \in Nat \ {0} /\ side \in {"BUY", "SELL"}
      /\ SignedFill(side, quantity) = delta
  <2>1. delta \in Int /\ delta # 0
    BY <1>1, <1>2 DEF LowestPosition
  <2> HIDE DEF delta
  <2> QED
    BY <2>1 DEF SignedFill
<1>4. next = [account |-> final, fills |-> Append(st.fills, fill)]
  BY <1>3 DEF Trade
<1>5. price \in Nat \ {0}
  BY SlippedPriceType
<1> HIDE DEF price, quantity, side
<1>6. commission \in Nat /\ fees \in Nat
  <2>1. price * quantity \in Nat /\ quantity \in Nat
    BY <1>3, <1>5
  <2> QED
    BY <1>1, <2>1, CostsType
<1> HIDE DEF commission, fees
<1>7. fill \in BacktestFill
  BY <1>1, <1>3, <1>5, <1>6 DEF BacktestFill
<1>f. /\ fill.timestamp = step + 1 /\ fill.instrument_id = symbol
      /\ fill.signalled = target.timestamp /\ fill.side = side /\ fill.price = price
      /\ fill.asset_class = class /\ fill.quantity = quantity
      /\ fill.commission = commission /\ fill.fees = fees
  OBVIOUS
<1>p. price = SlippedPrice(bar.open, side)
  BY DEF price
<1> HIDE DEF fill, next, final
<1>n. next.account = final /\ next.fills = Append(st.fills, fill)
  BY <1>4
<1> DEFINE w == delta * price
           profit == RealizedBy(before, delta, price)
           held == PositionAfter(before, delta, price)
<1>8. /\ booked \in LowestAccount /\ profit \in Lowest
      /\ booked.cash = acct.cash - w - (commission + fees)
      /\ booked.realized = Plus(acct.realized, profit)
      /\ booked.positions = [acct.positions EXCEPT ![symbol] = held]
      /\ TotalCost(booked) = Plus(TotalCost(acct), Plus(Whole(w), profit))
      /\ Attributed(acct) => Attributed(booked)
  <2>1. commission + fees \in Int /\ price \in Int
    BY <1>5, <1>6
  <2>2. /\ acct \in LowestAccount /\ symbol \in Symbols /\ class \in AssetClasses
        /\ delta \in Int /\ delta # 0
    BY <1>1, <1>3
  <2> HIDE DEF delta, class, symbol, acct
  <2> QED
    BY <2>1, <2>2, TradeBooked, SMTT(20)
<1>9. held \in LowestPosition /\ held.quantity = target.target_quantity
  <2>1. price \in Int
    BY <1>5
  <2>2. held \in LowestPosition /\ held.quantity = before.quantity + delta
    BY <1>2, <1>3, <2>1, PositionBooked
  <2>3. before.quantity \in Int
    BY <1>2 DEF LowestPosition
  <2> QED
    BY <1>1, <2>2, <2>3
<1>i. held.contract = before.contract
  <2>1. price \in Int
    BY <1>5
  <2> QED
    BY <1>2, <1>3, <2>1, PositionBooked
<1> HIDE DEF booked, profit, w, held, delta
<1>10. /\ final \in LowestAccount /\ final.cash = booked.cash
       /\ final.realized = booked.realized
       /\ final.by_instrument = booked.by_instrument
       /\ final.by_asset_class = booked.by_asset_class
       /\ \A s \in Symbols \ {symbol} : final.positions[s] = booked.positions[s]
       /\ final.positions[symbol].quantity = held.quantity
       /\ final.positions[symbol].average = held.average
       /\ final.positions[symbol].contract = IF class = "OPTION" THEN symbol \in DOMAIN Contracts
                                                                 ELSE held.contract
  <2>1. /\ booked.positions \in [Symbols -> LowestPosition] /\ booked.positions[symbol] = held
    BY <1>1, <1>2, <1>8, <1>9
  <2>2. CASE class = "OPTION"
    <3> DEFINE c == symbol \in DOMAIN Contracts
               p == [booked.positions EXCEPT ![symbol].contract = c]
    <3>1. final = [booked EXCEPT !.positions = p]
      BY <1>8, <2>2 DEF LowestAccount, final
    <3>2. c \in BOOLEAN
      OBVIOUS
    <3> HIDE DEF c
    <3>3. [held EXCEPT !.contract = c] \in LowestPosition
      BY <1>9, <3>2 DEF LowestPosition
    <3>4. /\ p \in [Symbols -> LowestPosition]
          /\ p[symbol] = [held EXCEPT !.contract = c]
          /\ \A s \in Symbols \ {symbol} : p[s] = booked.positions[s]
      BY <1>1, <2>1, <3>3
    <3>5. /\ p[symbol].quantity = held.quantity /\ p[symbol].average = held.average
          /\ p[symbol].contract = c
      BY <1>9, <3>4 DEF LowestPosition
    <3> HIDE DEF p
    <3>6. /\ final \in LowestAccount /\ final.cash = booked.cash
          /\ final.realized = booked.realized
          /\ final.by_instrument = booked.by_instrument
          /\ final.by_asset_class = booked.by_asset_class
          /\ final.positions = p
      BY <1>8, <3>1, <3>4 DEF LowestAccount
    <3> QED
      BY <2>2, <3>4, <3>5, <3>6 DEF c
  <2>3. CASE class # "OPTION"
    BY <1>8, <2>1, <2>3 DEF final
  <2> QED
    BY <2>2, <2>3
<1> HIDE DEF symbol, class, acct, before
<1>11. next \in State
  <2>1. Append(st.fills, fill) \in Seq(BacktestFill)
    BY <1>1, <1>7
  <2>2. next = [account |-> final, fills |-> Append(st.fills, fill)]
    BY <1>4
  <2> QED
    BY <1>10, <2>1, <2>2 DEF State
<1>12. /\ TotalCost(final) = TotalCost(booked)
       /\ Attributed(booked) => Attributed(final)
  <2>1. \A s \in Symbols : Cost(final.positions[s]) = Cost(booked.positions[s])
    BY <1>1, <1>2, <1>8, <1>9, <1>10 DEF Cost
  <2>2. [s \in Symbols |-> Cost(final.positions[s])] = [s \in Symbols |-> Cost(booked.positions[s])]
    BY <2>1
  <2> QED
    BY <1>10, <2>2 DEF TotalCost, Attributed
<1>13. \A s \in Symbols \ {symbol} : final.positions[s] = acct.positions[s]
  BY <1>1, <1>2, <1>8, <1>10
<1>14. /\ \E x \in Lowest : /\ next.account.realized = Plus(acct.realized, x)
                            /\ TotalCost(next.account) =
                                 Plus(TotalCost(acct), Plus(Whole(delta * fill.price), x))
       /\ next.account.cash = acct.cash - delta * fill.price - (fill.commission + fill.fees)
       /\ Attributed(acct) => Attributed(next.account)
  BY <1>8, <1>10, <1>12, <1>n, <1>f DEF w
<1>15. /\ next.account.positions[symbol].quantity = target.target_quantity
       /\ next.account.positions[symbol].quantity = held.quantity
       /\ next.account.positions[symbol].average = held.average
       /\ next.account.positions[symbol].contract =
            IF fill.asset_class = "OPTION" THEN symbol \in DOMAIN Contracts ELSE before.contract
       /\ held = PositionAfter(before, delta, fill.price)
  BY <1>9, <1>10, <1>i, <1>n, <1>f DEF held
<1> HIDE DEF held
<1>16. /\ fill.timestamp = step + 1 /\ fill.instrument_id = symbol
       /\ fill.signalled = target.timestamp
       /\ fill.price = SlippedPrice(bar.open, fill.side)
       /\ fill.asset_class = target.asset_class
       /\ SignedFill(fill.side, fill.quantity) = delta
  BY <1>3, <1>f, <1>p DEF class
<1>17. \A s \in Symbols \ {symbol} : next.account.positions[s] = acct.positions[s]
  BY <1>13, <1>n
<1> QED
  BY <1>3, <1>7, <1>11, <1>n, <1>14, <1>15, <1>16, <1>17
  DEF symbol, acct, before, delta, next

LEMMA TradeType ==
  ASSUME NEW st \in State, NEW target \in PendingTarget, NEW bar, GoodBar(bar), step \in Nat
  PROVE  Trade(st, target, bar) \in State
<1> DEFINE held == st.account.positions[bar.symbol].quantity
<1>1. CASE target.target_quantity = held
  <2>1. target.target_quantity \in Int
    BY DEF PendingTarget
  <2>2. target.target_quantity - held = 0
    BY <1>1, <2>1
  <2> QED
    BY <2>2 DEF Trade
<1>2. CASE target.target_quantity # held
  <2> DEFINE next == Trade(st, target, bar)
  <2>1. \E fill \in BacktestFill : next \in State
    BY <1>2, TradeFacts
  <2> QED
    BY <2>1
<1> QED
  BY <1>1, <1>2

TradeWith(bar) == [st \in State |-> [target \in PendingTarget |-> Trade(st, target, bar)]]

(* Executing what is pending is trading one target after the other.        *)
LEMMA ExecutionFolds ==
  ASSUME NEW queue \in Seq(PendingTarget), NEW bar, GoodBar(bar), NEW st \in State, step \in Nat
  PROVE  Folded(TradeWith(bar), st, queue, ExecutePending(queue, bar, st))
<1> DEFINE n == Len(queue)
           op == TradeWith(bar)
           Eq(g) == g = [s \in SUBSET (1..n) |->
                           IF s = {} THEN st
                           ELSE Trade(g[s \ {Max(s)}], queue[Max(s)], bar)]
           f == CHOOSE g : Eq(g)
<1>1. n \in Nat /\ DOMAIN queue = 1..n
  OBVIOUS
<1>2. op \in [State -> [PendingTarget -> State]]
  <2>1. \A s \in State, t \in PendingTarget : Trade(s, t, bar) \in State
    BY TradeType
  <2> QED
    BY <2>1 DEF TradeWith
<1>3. \A s \in State, t \in PendingTarget : op[s][t] = Trade(s, t, bar)
  BY DEF TradeWith
<1> HIDE DEF op
<1>4. \E g : Eq(g)
  <2>1. PICK g : FoldSolution(State, PendingTarget, op, st, queue, g)
    BY <1>2, FoldEquation
  <2>2. \A s \in SUBSET (1..n) :
          g[s] = IF s = {} THEN st ELSE Trade(g[s \ {Max(s)}], queue[Max(s)], bar)
    BY <1>3, <2>1 DEF FoldSolution
  <2>3. Eq(g)
    BY <2>1, <2>2 DEF FoldSolution
  <2> QED
    BY <2>3
<1>5. ExecutePending(queue, bar, st) = f[1..n]
  BY <1>1 DEF ExecutePending, FoldLeft, MapThenFoldSet
<1>6. Eq(f)
  BY <1>4
<1> HIDE DEF f
<1>7. f[{}] = st
  BY <1>6
<1>8. ASSUME NEW i \in 1..n, f[1..(i - 1)] \in State
      PROVE  f[1..i] = op[f[1..(i - 1)]][queue[i]]
  <2>1. /\ 1..i # {} /\ 1..i \in SUBSET (1..n) /\ Max(1..i) = i
        /\ (1..i) \ {Max(1..i)} = 1..(i - 1)
    BY <1>1, PrefixMax
  <2>2. f[1..i] = Trade(f[1..(i - 1)], queue[i], bar)
    BY <1>6, <2>1
  <2>3. queue[i] \in PendingTarget
    OBVIOUS
  <2> QED
    BY <1>3, <1>8, <2>2, <2>3
<1>9. Folded(op, st, queue, f[1..n])
  BY <1>2, <1>7, <1>8, FoldIsFolded
<1> QED
  BY <1>5, <1>9 DEF op

(* What every trade keeps the execution of all that is pending keeps.      *)
LEMMA ExecutionHolds ==
  ASSUME NEW queue \in Seq(PendingTarget), NEW bar, GoodBar(bar), NEW st \in State, step \in Nat,
         NEW A, st \in A[0], \A i \in 0..Len(queue) : A[i] \subseteq State,
         \A i \in 1..Len(queue) : \A s \in A[i - 1] : Trade(s, queue[i], bar) \in A[i]
  PROVE  ExecutePending(queue, bar, st) \in A[Len(queue)]
<1>1. Folded(TradeWith(bar), st, queue, ExecutePending(queue, bar, st))
  BY ExecutionFolds
<1>2. ASSUME NEW i \in 1..Len(queue), NEW s \in A[i - 1]
      PROVE  TradeWith(bar)[s][queue[i]] \in A[i]
  <2>1. i - 1 \in 0..Len(queue) /\ queue[i] \in PendingTarget
    OBVIOUS
  <2>2. s \in State
    BY <2>1
  <2>3. TradeWith(bar)[s][queue[i]] = Trade(s, queue[i], bar)
    BY <2>1, <2>2 DEF TradeWith
  <2> QED
    BY <2>3
<1> QED
  BY <1>1, <1>2, FoldedHolds

(* The same for what does not depend on how many targets there were.       *)
LEMMA ExecutionKeeps ==
  ASSUME NEW queue \in Seq(PendingTarget), NEW bar, GoodBar(bar), NEW st \in State, step \in Nat,
         NEW B \in SUBSET State, st \in B,
         \A i \in 1..Len(queue) : \A s \in B : Trade(s, queue[i], bar) \in B
  PROVE  ExecutePending(queue, bar, st) \in B
<1> DEFINE n == Len(queue)
           A == [i \in 0..n |-> B]
<1>1. n \in Nat /\ \A i \in 0..n : A[i] = B
  OBVIOUS
<1>2. 0 \in 0..n /\ n \in 0..n /\ \A i \in 1..n : i \in 0..n /\ i - 1 \in 0..n
  BY <1>1
<1> HIDE DEF A
<1>3. ExecutePending(queue, bar, st) \in A[n]
  <2>1. st \in A[0] /\ \A i \in 0..n : A[i] \subseteq State
    BY <1>1, <1>2
  <2>2. \A i \in 1..n : \A s \in A[i - 1] : Trade(s, queue[i], bar) \in A[i]
    BY <1>1, <1>2
  <2> QED
    BY <2>1, <2>2, ExecutionHolds
<1> QED
  BY <1>1, <1>2, <1>3

LEMMA ExecutionType ==
  ASSUME NEW queue \in Seq(PendingTarget), NEW bar, GoodBar(bar), NEW st \in State, step \in Nat
  PROVE  ExecutePending(queue, bar, st) \in State
<1> DEFINE B == State
<1>1. \A i \in 1..Len(queue) : \A s \in B : Trade(s, queue[i], bar) \in B
  BY TradeType
<1> QED
  BY <1>1, ExecutionKeeps

(* After the execution the position is what the last target asked for.     *)
LEMMA ExecutionReaches ==
  ASSUME NEW queue \in Seq(PendingTarget), NEW bar, GoodBar(bar), NEW st \in State, step \in Nat,
         queue # <<>>
  PROVE  ExecutePending(queue, bar, st).account.positions[bar.symbol].quantity
           = Last(queue).target_quantity
<1> DEFINE n == Len(queue)
           Quantity(s) == s.account.positions[bar.symbol].quantity
           A == [i \in 0..n |-> {s \in State : i > 0 => Quantity(s) = queue[i].target_quantity}]
<1>1. n \in Nat \ {0} /\ \A i \in 1..n : queue[i] \in PendingTarget
  OBVIOUS
<1>2. st \in A[0] /\ \A i \in 0..n : A[i] \subseteq State
  BY <1>1
<1>3. ASSUME NEW i \in 1..n, NEW s \in A[i - 1] PROVE Trade(s, queue[i], bar) \in A[i]
  <2>1. i \in 0..n /\ i - 1 \in 0..n /\ s \in State /\ queue[i] \in PendingTarget
    BY <1>1
  <2>2. Trade(s, queue[i], bar) \in State
    BY <2>1, TradeType
  <2>3. Quantity(Trade(s, queue[i], bar)) = queue[i].target_quantity
    <3>1. CASE queue[i].target_quantity = Quantity(s)
      <4>1. queue[i].target_quantity \in Int
        BY <2>1 DEF PendingTarget
      <4>2. queue[i].target_quantity - Quantity(s) = 0
        BY <3>1, <4>1
      <4>3. Trade(s, queue[i], bar) = s
        BY <4>2 DEF Trade
      <4> QED
        BY <3>1, <4>3
    <3>2. CASE queue[i].target_quantity # Quantity(s)
      <4> DEFINE t == queue[i]
      <4>0. t \in PendingTarget /\ t.target_quantity # Quantity(s)
        BY <2>1, <3>2
      <4> HIDE DEF t
      <4>1. \E fill \in BacktestFill :
              Trade(s, t, bar).account.positions[bar.symbol].quantity = t.target_quantity
        BY <2>1, <4>0, TradeFacts
      <4> QED
        BY <4>1 DEF t
    <3> QED
      BY <3>1, <3>2
  <2> HIDE DEF Quantity
  <2> QED
    BY <2>1, <2>2, <2>3
<1>4. ASSUME NEW s \in A[n] PROVE Quantity(s) = queue[n].target_quantity
  BY <1>1
<1>5. Last(queue) = queue[n]
  BY DEF Last
<1> HIDE DEF A, Quantity
<1>6. ExecutePending(queue, bar, st) \in A[n]
  BY <1>2, <1>3, ExecutionHolds
<1>7. Quantity(ExecutePending(queue, bar, st)) = queue[n].target_quantity
  BY <1>4, <1>6
<1> QED
  BY <1>5, <1>7 DEF Quantity

-----------------------------------------------------------------------------
(* Gains.                                                                  *)

LEMMA CostType ==
  ASSUME NEW p \in LowestPosition
  PROVE  Cost(p) \in Lowest /\ (p.quantity = 0 => Cost(p) = Whole(0))
<1>1. p.average \in Fractions /\ p.quantity \in Int
  BY DEF LowestPosition, Lowest
<1>2. Cost(p) \in Lowest
  BY <1>1, LowestClosed DEF Cost
<1>3. ASSUME p.quantity = 0 PROVE Cost(p) = Whole(0)
  <2>1. PICK D \in Nat \ {0}, i \in Int : Denotes(p.average, i, D)
    BY <1>1, CommonDenominator
  <2> DEFINE q == p.quantity
  <2>2. q \in Int /\ q * i = 0
    BY <1>3
  <2>3. Cost(p) = Scale(q, p.average)
    BY DEF Cost
  <2> HIDE DEF q
  <2>4. Denotes(Cost(p), q * i, D)
    BY <2>1, <2>2, <2>3, DenotedMultiples
  <2>5. Denotes(Whole(0), 0, D)
    BY ZeroDenotes
  <2>6. Whole(0) \in Lowest
    BY WholeIsLowest
  <2> QED
    BY <1>2, <2>2, <2>4, <2>5, <2>6, SameValue
<1> QED
  BY <1>2, <1>3

(* A position at some value is worth its cost and its gain.                *)
LEMMA GainAndCost ==
  ASSUME NEW p \in LowestPosition, NEW value \in Int
  PROVE  LET gain == Scale(p.quantity, Minus(Whole(value), p.average)) IN
         gain \in Lowest /\ Whole(p.quantity * value) = Plus(gain, Cost(p))
<1> DEFINE q == p.quantity
           a == p.average
           w == q * value
           gain == Scale(q, Minus(Whole(value), a))
<1>1. a \in Fractions /\ q \in Int /\ w \in Int /\ Whole(value) \in Fractions
  <2>1. a \in Fractions /\ q \in Int
    BY DEF LowestPosition, Lowest
  <2>2. Whole(value) \in Fractions
    BY WholeIsLowest DEF Lowest
  <2> HIDE DEF q, a
  <2> QED
    BY <2>1, <2>2
<1>2. Cost(p) = Scale(q, a)
  BY DEF Cost
<1> HIDE DEF q, a
<1>3. PICK D \in Nat \ {0}, i \in Int : Denotes(a, i, D)
  BY <1>1, CommonDenominator
<1> DEFINE v == value * D - i
<1>4. Denotes(Minus(Whole(value), a), v, D) /\ v \in Int
  <2> DEFINE m == value * D
  <2>1. m \in Int /\ m - i \in Int
    BY <1>3
  <2>2. Denotes(Whole(value), m, D)
    BY CommonWhole
  <2>3. v = m - i
    OBVIOUS
  <2> HIDE DEF m, v
  <2>4. Denotes(Minus(Whole(value), a), m - i, D)
    BY <1>3, <2>1, <2>2, CommonSums
  <2> QED
    BY <2>1, <2>3, <2>4
<1>5. Denotes(gain, q * v, D) /\ Denotes(Cost(p), q * i, D)
  <2> HIDE DEF v
  <2> QED
    BY <1>1, <1>2, <1>3, <1>4, DenotedMultiples
<1>6. gain \in Lowest /\ Cost(p) \in Lowest
  <2>1. Minus(Whole(value), a) \in Fractions
    BY <1>4 DEF Denotes
  <2> QED
    BY <1>1, <1>2, <2>1, LowestClosed
<1>7. q * v + q * i = w * D
  <2>1. q * v = q * (value * D) - q * i
    BY <1>1
  <2>2. w * D = q * (value * D)
    BY <1>1
  <2>3. q * (value * D) \in Int /\ q * i \in Int
    BY <1>1
  <2> HIDE DEF v, w
  <2> QED
    BY <2>1, <2>2, <2>3
<1> HIDE DEF v, gain, w
<1>8. Denotes(Plus(gain, Cost(p)), q * v + q * i, D)
  BY <1>5, CommonSums
<1>9. Denotes(Whole(w), w * D, D) /\ Whole(w) \in Lowest
  BY <1>1, CommonWhole, WholeIsLowest
<1>10. Plus(gain, Cost(p)) \in Lowest
  BY <1>6, LowestClosed DEF Lowest
<1>11. Whole(w) = Plus(gain, Cost(p))
  BY <1>7, <1>8, <1>9, <1>10, SameValue
<1> QED
  BY <1>6, <1>11 DEF w, gain, q, a

(* The same of the positions in S, together.                               *)
LEMMA GainsAndCosts ==
  ASSUME NEW S, IsFiniteSet(S), NEW held, \A s \in S : held[s] \in LowestPosition,
         NEW value, \A s \in S : value[s] \in Int,
         NEW w, \A s \in S : w[s] = held[s].quantity * value[s],
         NEW g, \A s \in S : g[s] = Scale(held[s].quantity, Minus(Whole(value[s]), held[s].average)),
         NEW c, \A s \in S : c[s] = Cost(held[s])
  PROVE  /\ SumFunctionOnSet(w, S) \in Int
         /\ SumOver(g, S) \in Lowest /\ SumOver(c, S) \in Lowest
         /\ Whole(SumFunctionOnSet(w, S)) = Plus(SumOver(g, S), SumOver(c, S))
<1> DEFINE v == [s \in S |-> Whole(w[s])]
<1>1. ASSUME NEW s \in S
      PROVE  /\ w[s] \in Int /\ v[s] = Whole(w[s])
             /\ v[s] \in Lowest /\ g[s] \in Lowest /\ c[s] \in Lowest
             /\ v[s] = Plus(g[s], c[s])
  <2> DEFINE p == held[s]
             x == value[s]
  <2>1. p \in LowestPosition /\ x \in Int /\ p.quantity \in Int
    BY DEF LowestPosition
  <2>2. w[s] = p.quantity * x /\ g[s] = Scale(p.quantity, Minus(Whole(x), p.average))
    OBVIOUS
  <2>3. c[s] = Cost(p)
    OBVIOUS
  <2>4. v[s] = Whole(w[s])
    OBVIOUS
  <2> HIDE DEF p, x, v
  <2>5. w[s] \in Int
    BY <2>1, <2>2
  <2>6. g[s] \in Lowest /\ Whole(w[s]) = Plus(g[s], c[s])
    BY <2>1, <2>2, <2>3, GainAndCost
  <2> QED
    BY <2>1, <2>3, <2>4, <2>5, <2>6, CostType, WholeIsLowest
<1> HIDE DEF v
<1>2. SumFunctionOnSet(w, S) \in Int /\ SumOver(v, S) = Whole(SumFunctionOnSet(w, S))
  BY <1>1, WholeSum
<1>3. SumOver(g, S) \in Lowest /\ SumOver(c, S) \in Lowest
  BY <1>1, SumOverType
<1>4. SumOver(v, S) = Plus(SumOver(g, S), SumOver(c, S))
  BY <1>1, SumsOfSums
<1> QED
  BY <1>2, <1>3, <1>4

(* A snapshot whose marks cover what is held: the equity is cash, cost and *)
(* unrealized gain.                                                        *)
LEMMA SnapshotFacts ==
  ASSUME NEW acct \in LowestAccount, NEW marks, DOMAIN marks \subseteq Symbols,
         \A s \in DOMAIN marks : marks[s] \in Int
  PROVE  LET point == Snapshot(acct, marks) IN
         /\ point \in EquityPoint /\ point.unrealized \in Lowest
         /\ TotalCost(acct) \in Lowest
         /\ (\A s \in Symbols : acct.positions[s].quantity # 0 => s \in DOMAIN marks) =>
              Whole(point.equity)
                = Plus(Whole(acct.cash), Plus(point.unrealized, TotalCost(acct)))
<1> DEFINE point == Snapshot(acct, marks)
           held == acct.positions
           marked == {s \in DOMAIN marks : held[s].quantity # 0}
           w == [s \in marked |-> held[s].quantity * marks[s]]
           g == [s \in marked |-> Scale(held[s].quantity,
                                    Minus(Whole(marks[s]), held[s].average))]
           c == [s \in Symbols |-> Cost(held[s])]
           worth == SumFunctionOnSet(w, marked)
           gain == SumOver(g, marked)
           equity == acct.cash + worth
           peak == Max({acct.peak, equity})
           drawdown == IF peak =< 0 THEN Whole(0) ELSE Fraction(peak - equity, peak)
<1>1. /\ acct.cash \in Int /\ acct.peak \in Int
      /\ held \in [Symbols -> LowestPosition] /\ IsFiniteSet(Symbols)
  BY BarsAssumption DEF LowestAccount
<1>2. marked \in SUBSET Symbols /\ IsFiniteSet(marked)
  <2>1. marked \in SUBSET Symbols
    OBVIOUS
  <2> HIDE DEF marked
  <2> QED
    BY <1>1, <2>1, FS_Subset
<1>3. /\ point.equity = equity /\ point.unrealized = gain
      /\ point = [equity |-> equity, unrealized |-> gain, drawdown |-> drawdown, peak |-> peak]
  BY DEF Snapshot
<1>w. /\ \A s \in marked : w[s] = held[s].quantity * marks[s]
      /\ \A s \in marked : g[s] = Scale(held[s].quantity, Minus(Whole(marks[s]), held[s].average))
      /\ \A s \in marked : c[s] = Cost(held[s])
      /\ \A s \in marked : held[s] \in LowestPosition /\ marks[s] \in Int
      /\ TotalCost(acct) = SumOver(c, Symbols)
      /\ \A s \in Symbols : c[s] = Cost(held[s])
  BY <1>1, <1>2 DEF TotalCost
<1>m. \A s \in Symbols : s \notin marked =>
         s \notin DOMAIN marks \/ held[s].quantity = 0
  OBVIOUS
<1> HIDE DEF w, g, c, marked, point
<1>4. /\ worth \in Int /\ gain \in Lowest
      /\ Whole(worth) = Plus(gain, SumOver(c, marked)) /\ SumOver(c, marked) \in Lowest
  <2> HIDE DEF held
  <2> QED
    BY <1>2, <1>w, GainsAndCosts, SMTT(20)
<1>5. equity \in Int /\ peak \in Int
  <2>1. equity \in Int
    BY <1>1, <1>4
  <2>2. acct.peak \in Int
    BY <1>1
  <2> HIDE DEF equity
  <2> QED
    BY <2>1, <2>2, MaxOfTwo
<1>6. point \in EquityPoint
  <2>1. gain \in Fractions
    BY <1>4 DEF Lowest
  <2>2. drawdown \in Fractions
    <3>1. CASE peak =< 0
      BY <3>1 DEF Whole, Fractions
    <3>2. CASE ~(peak =< 0)
      <4> DEFINE d == peak
                 n == peak - equity
      <4>1. d \in Nat \ {0} /\ n \in Int
        BY <1>5, <3>2
      <4> HIDE DEF d, n
      <4>2. Fraction(n, d) \in Fractions
        BY <4>1, FractionValue
      <4> QED
        BY <3>2, <4>2 DEF n, d
    <3> QED
      BY <3>1, <3>2
  <2> HIDE DEF gain, drawdown, peak, equity
  <2> QED
    BY <1>3, <1>5, <2>1, <2>2 DEF EquityPoint
<1> HIDE DEF worth, gain, peak, drawdown
<1>7. \A s \in Symbols : c[s] \in Lowest /\ (held[s].quantity = 0 => c[s] = Whole(0))
  BY <1>1, <1>w, CostType
<1>8. TotalCost(acct) \in Lowest
  BY <1>1, <1>7, <1>w, SumOverType
<1>9. ASSUME \A s \in Symbols : held[s].quantity # 0 => s \in DOMAIN marks
      PROVE  Whole(equity) = Plus(Whole(acct.cash), Plus(gain, TotalCost(acct)))
  <2>1. \A s \in Symbols \ marked : c[s] = Whole(0)
    BY <1>7, <1>9, <1>m
  <2>2. SumOver(c, Symbols) = SumOver(c, marked)
    BY <1>1, <1>2, <1>7, <2>1, SumOverRest
  <2>3. Whole(worth) = Plus(gain, TotalCost(acct))
    BY <1>4, <1>w, <2>2
  <2> DEFINE one == 1
             cash == acct.cash
  <2>4. cash \in Int /\ worth \in Int /\ equity = cash + worth /\ one \in Nat \ {0}
    BY <1>1, <1>4
  <2> HIDE DEF one, cash, equity
  <2>5. /\ Denotes(Whole(cash), cash * one, one) /\ Denotes(Whole(worth), worth * one, one)
        /\ Denotes(Whole(equity), equity * one, one)
    BY <1>5, <2>4, CommonWhole
  <2>6. Denotes(Plus(Whole(cash), Whole(worth)), cash * one + worth * one, one)
    BY <2>5, CommonSums
  <2>7. cash * one + worth * one = equity * one
    BY <2>4 DEF one
  <2>8. Whole(equity) \in Lowest /\ Whole(cash) \in Lowest /\ Whole(worth) \in Lowest
    BY <1>5, <2>4, WholeIsLowest
  <2>9. Plus(Whole(cash), Whole(worth)) \in Lowest
    BY <2>8, LowestClosed DEF Lowest
  <2>10. Whole(equity) = Plus(Whole(cash), Whole(worth))
    BY <2>5, <2>6, <2>7, <2>8, <2>9, SameValue
  <2> QED
    BY <2>3, <2>10 DEF cash
<1> QED
  BY <1>3, <1>4, <1>6, <1>8, <1>9 DEF point, held, gain

-----------------------------------------------------------------------------
(* Marks and expirations.                                                  *)

TimelineInv ==
    /\ timeline \in Seq(Bar)
    /\ \A n \in DOMAIN timeline : GoodBar(timeline[n])
    /\ \A m, n \in DOMAIN timeline :
         m < n => timeline[m].timestamp =< timeline[n].timestamp

(* Every bar up to the time has given its symbol a mark.                   *)
LEMMA MarksFacts ==
  ASSUME TimelineInv, NEW time \in Int
  PROVE  LET marks == LatestMarks(time) IN
         /\ DOMAIN marks \subseteq Symbols /\ \A s \in DOMAIN marks : marks[s] \in Int
         /\ \A n \in DOMAIN timeline :
              timeline[n].timestamp =< time => timeline[n].symbol \in DOMAIN marks
<1> DEFINE past == {b \in Range(timeline) : b.timestamp =< time}
           marks == LatestMarks(time)
           IsLatest(s, b) == b.symbol = s /\ \A c \in past : c.symbol = s => c.timestamp =< b.timestamp
<1>1. /\ timeline \in Seq(Bar) /\ Range(timeline) = {timeline[n] : n \in DOMAIN timeline}
      /\ DOMAIN timeline = 1..Len(timeline)
  BY DEF TimelineInv, Range
<1>2. past \subseteq Bar /\ IsFiniteSet(past)
  <2>1. Range(timeline) \subseteq Bar
    BY <1>1
  <2>2. timeline \in Surjection(DOMAIN timeline, Range(timeline))
    BY <1>1 DEF Surjection
  <2>3. IsFiniteSet(1..Len(timeline))
    BY <1>1, FS_Interval
  <2>4. IsFiniteSet(Range(timeline))
    BY <1>1, <2>2, <2>3, FS_Surjection
  <2>5. past \subseteq Range(timeline)
    OBVIOUS
  <2> QED
    BY <2>1, <2>4, <2>5, FS_Subset
<1>3. /\ marks = [s \in {b.symbol : b \in past} |-> (CHOOSE b \in past : IsLatest(s, b)).close]
      /\ DOMAIN marks = {b.symbol : b \in past}
  BY DEF LatestMarks
<1>4. ASSUME NEW n \in DOMAIN timeline, timeline[n].timestamp =< time
      PROVE  timeline[n].symbol \in DOMAIN marks
  BY <1>1, <1>3, <1>4
<1> HIDE DEF past, marks
<1>5. ASSUME NEW s \in DOMAIN marks PROVE marks[s] \in Int
  <2> DEFINE same == {b \in past : b.symbol = s}
             key == [b \in Bar |-> b.timestamp]
  <2>1. same \subseteq past /\ same # {} /\ \A b \in same : key[b] \in Int
    BY <1>2, <1>3 DEF Bar
  <2>2. IsFiniteSet(same)
    BY <1>2, <2>1, FS_Subset
  <2>k. \A b \in same : key[b] = b.timestamp
    BY <1>2
  <2>s. \A b \in past : b \in same <=> b.symbol = s
    OBVIOUS
  <2> HIDE DEF same, key
  <2>3. \E b \in same : \A c \in same : key[c] =< key[b]
    BY <2>1, <2>2, SomeGreatest
  <2>4. \E b \in past : IsLatest(s, b)
    BY <2>1, <2>3, <2>k, <2>s
  <2>5. (CHOOSE b \in past : IsLatest(s, b)) \in past
    BY <2>4
  <2> HIDE DEF IsLatest
  <2>6. (CHOOSE b \in past : IsLatest(s, b)).close \in Int
    BY <1>2, <2>5 DEF Bar
  <2> QED
    BY <1>3, <2>6
<1>6. DOMAIN marks \subseteq Symbols
  BY <1>2, <1>3 DEF Bar
<1> QED
  BY <1>4, <1>5, <1>6 DEF marks

Gone(position) == [position EXCEPT !.quantity = 0, !.average = Whole(0)]

LEMMA GoneFacts ==
  ASSUME NEW p \in LowestPosition
  PROVE  /\ Gone(p) \in LowestPosition /\ Gone(p).quantity = 0
         /\ Gone(p).contract = p.contract
<1> DEFINE zero == Whole(0)
           none == 0
           empty == [p EXCEPT !.quantity = none]
           gone == [empty EXCEPT !.average = zero]
<1>1. zero \in Lowest
  BY WholeIsLowest
<1>g. Gone(p) = gone
  BY DEF Gone
<1>n. none = 0 /\ none \in Int
  OBVIOUS
<1> HIDE DEF zero, none
<1>2. /\ empty \in LowestPosition /\ empty.quantity = none /\ empty.contract = p.contract
  BY <1>n DEF LowestPosition
<1> HIDE DEF empty
<1>3. /\ gone \in LowestPosition /\ gone.quantity = none /\ gone.contract = p.contract
  BY <1>1, <1>2 DEF LowestPosition
<1> HIDE DEF gone
<1> QED
  BY <1>3, <1>n, <1>g

(* What one contract pays is an integer, and intrinsic value is that of a  *)
(* contract in the money.                                                  *)
LEMMA SettlementType ==
  ASSUME NEW s \in DOMAIN Contracts, NEW p \in LowestPosition,
         NEW marks, \A x \in DOMAIN marks : marks[x] \in Int
  PROVE  Settlement(s, p, marks) \in Int
<1> DEFINE contract == Contracts[s]
           spot == marks[contract.underlying_symbol]
           value == Intrinsic(contract, spot)
           q == p.quantity
           multiplier == contract.multiplier
<1>1. /\ contract.strike \in Int /\ multiplier \in Int /\ q \in Int
  BY BarsAssumption DEF OptionContract, LowestPosition
<1>2. ASSUME spot \in Int PROVE value \in Int
  <2> DEFINE gain == IF contract.right = "CALL" THEN spot - contract.strike
                                                ELSE contract.strike - spot
  <2>1. gain \in Int /\ value = Max({0, gain})
    BY <1>1, <1>2 DEF Intrinsic
  <2> HIDE DEF gain
  <2> QED
    BY <2>1, MaxOfTwo
<1>3. CASE p.contract /\ contract.underlying_symbol \in DOMAIN marks
  <2>1. value \in Int /\ Settlement(s, p, marks) = value * q * multiplier
    BY <1>2, <1>3 DEF Settlement
  <2> HIDE DEF value, q, multiplier
  <2> QED
    BY <1>1, <2>1
<1>4. CASE ~(p.contract /\ contract.underlying_symbol \in DOMAIN marks)
  BY <1>4 DEF Settlement
<1> QED
  BY <1>3, <1>4

(* An expiration pays in cash, closes what has expired and leaves realized *)
(* profit and its attribution alone.                                       *)
LEMMA ExpiryFacts ==
  ASSUME NEW acct \in LowestAccount, TimelineInv, NEW time \in Int
  PROVE  LET after == Expire(acct, time)
             gone == Expired(acct.positions, time)
             marks == LatestMarks(time)
             payments == [s \in gone |-> Settlement(s, acct.positions[s], marks)]
         IN  /\ after \in LowestAccount
             /\ gone \subseteq Symbols /\ IsFiniteSet(gone)
             /\ \A s \in gone : payments[s] \in Int
             /\ after.cash = acct.cash + SumFunctionOnSet(payments, gone)
             /\ after.realized = acct.realized /\ after.peak = acct.peak
             /\ after.by_instrument = acct.by_instrument
             /\ after.by_asset_class = acct.by_asset_class
             /\ \A s \in Symbols :
                  after.positions[s] = IF s \in gone THEN Gone(acct.positions[s])
                                                     ELSE acct.positions[s]
<1> DEFINE after == Expire(acct, time)
           held == acct.positions
           gone == Expired(held, time)
           marks == LatestMarks(time)
           payments == [s \in gone |-> Settlement(s, held[s], marks)]
           paid == SumFunctionOnSet(payments, gone)
           cash == acct.cash + paid
           p == [s \in Symbols |-> IF s \in gone THEN Gone(held[s]) ELSE held[s]]
<1>1. held \in [Symbols -> LowestPosition] /\ acct.cash \in Int /\ IsFiniteSet(Symbols)
  BY BarsAssumption DEF LowestAccount
<1>2. gone \subseteq DOMAIN Contracts /\ gone \subseteq Symbols
  BY BarsAssumption DEF Expired
<1>3. \A x \in DOMAIN marks : marks[x] \in Int
  BY MarksFacts
<1>4. after = [acct EXCEPT !.cash = cash, !.positions = p]
  BY DEF Expire, Gone
<1>q. /\ \A s \in gone : payments[s] = Settlement(s, held[s], marks)
      /\ \A s \in Symbols : p[s] = IF s \in gone THEN Gone(held[s]) ELSE held[s]
  OBVIOUS
<1>p. p \in [Symbols -> LowestPosition]
  <2>1. \A s \in Symbols : (IF s \in gone THEN Gone(held[s]) ELSE held[s]) \in LowestPosition
    BY <1>1, GoneFacts
  <2> QED
    BY <2>1
<1> HIDE DEF payments, marks, gone, p, after
<1>5. IsFiniteSet(gone)
  BY <1>1, <1>2, FS_Subset
<1>6. \A s \in gone : payments[s] \in Int
  BY <1>1, <1>2, <1>3, <1>q, SettlementType
<1>7. paid \in Int
  <2> DEFINE v == [s \in gone |-> Whole(payments[s])]
  <2>1. \A s \in gone : v[s] = Whole(payments[s])
    OBVIOUS
  <2> HIDE DEF v
  <2> QED
    BY <1>5, <1>6, <2>1, WholeSum
<1>8. cash \in Int
  BY <1>1, <1>7
<1> HIDE DEF cash
<1>9. /\ after \in LowestAccount /\ after.cash = cash /\ after.positions = p
      /\ after.realized = acct.realized /\ after.peak = acct.peak
      /\ after.by_instrument = acct.by_instrument
      /\ after.by_asset_class = acct.by_asset_class
  BY <1>4, <1>8, <1>p DEF LowestAccount
<1> QED
  BY <1>2, <1>5, <1>6, <1>9, <1>q DEF after, gone, marks, payments, cash

(* The contract is attached to a position as soon as some fill of the      *)
(* symbol was a trade in options.                                          *)
TradedAsOption(s, executed) ==
    \E f \in Range(executed) : f.instrument_id = s /\ f.asset_class = "OPTION"

Contracted(acct, executed) ==
    \A s \in Symbols :
      acct.positions[s].contract <=> s \in DOMAIN Contracts /\ TradedAsOption(s, executed)

(* What a unit of the contract pays.                                       *)
Payoff(s, marks, executed) ==
    LET spot == marks[Contracts[s].underlying_symbol]
        value == IF Contracts[s].right = "CALL" THEN spot - Contracts[s].strike
                                                ELSE Contracts[s].strike - spot
    IN  IF Contracts[s].underlying_symbol \in DOMAIN marks /\ value > 0
             /\ TradedAsOption(s, executed)
          THEN value * Contracts[s].multiplier ELSE 0

LEMMA SettlementPaysOff ==
  ASSUME NEW s \in DOMAIN Contracts, NEW p \in LowestPosition, NEW executed,
         NEW marks, \A x \in DOMAIN marks : marks[x] \in Int,
         p.contract <=> TradedAsOption(s, executed)
  PROVE  /\ Payoff(s, marks, executed) \in Int
         /\ Settlement(s, p, marks) = p.quantity * Payoff(s, marks, executed)
<1> DEFINE contract == Contracts[s]
           marked == contract.underlying_symbol \in DOMAIN marks
           spot == marks[contract.underlying_symbol]
           value == IF contract.right = "CALL" THEN spot - contract.strike
                                               ELSE contract.strike - spot
           m == contract.multiplier
           q == p.quantity
           payoff == Payoff(s, marks, executed)
           option == TradedAsOption(s, executed)
           settlement == Settlement(s, p, marks)
           intrinsic == Max({0, value})
<1>1. m \in Int /\ q \in Int /\ (marked => value \in Int)
  BY BarsAssumption DEF OptionContract, LowestPosition
<1>2. /\ payoff = IF marked /\ value > 0 /\ option THEN value * m ELSE 0
      /\ settlement = IF option /\ marked THEN intrinsic * q * m ELSE 0
  BY DEF Payoff, Settlement, Intrinsic
<1> HIDE DEF marked, value, m, q, payoff, option, settlement
<1>3. marked => intrinsic = IF value > 0 THEN value ELSE 0
  BY <1>1, MaxOfTwo
<1> HIDE DEF intrinsic
<1>4. CASE marked /\ value > 0 /\ option
  <2>1. payoff = value * m /\ settlement = value * q * m /\ value \in Int
    BY <1>1, <1>2, <1>3, <1>4
  <2>2. value * m \in Int /\ value * q * m = q * (value * m)
    BY <1>1, <2>1
  <2> QED
    BY <2>1, <2>2 DEF payoff, settlement, q
<1>5. CASE ~(marked /\ value > 0 /\ option)
  <2>1. payoff = 0 /\ settlement = 0
    <3>1. CASE option /\ marked
      <4>1. settlement = 0 * q * m
        BY <1>2, <1>3, <1>5, <3>1
      <4> QED
        BY <1>1, <1>2, <1>5, <4>1
    <3>2. CASE ~(option /\ marked)
      BY <1>2, <1>5, <3>2
    <3> QED
      BY <3>1, <3>2
  <2>2. settlement = q * payoff
    BY <1>1, <2>1
  <2> QED
    BY <2>1, <2>2 DEF payoff, settlement, q
<1> QED
  BY <1>4, <1>5

LEMMA PaidIsGained ==
  ASSUME NEW a \in Int, NEW paid \in Int, NEW k \in Lowest, NEW x \in Lowest, NEW e \in Lowest,
         Whole(paid) = Plus(e, x)
  PROVE  Plus(Whole(a + paid), k) = Plus(Plus(Whole(a), Plus(k, x)), e)
<1>1. k \in Fractions /\ x \in Fractions /\ e \in Fractions
  BY DEF Lowest
<1>2. PICK D \in Nat \ {0} : \E i, j, l \in Int :
        Denotes(k, i, D) /\ Denotes(x, j, D) /\ Denotes(e, l, D)
  BY <1>1, CommonDenominator
<1>3. PICK i \in Int, j \in Int, l \in Int :
        Denotes(k, i, D) /\ Denotes(x, j, D) /\ Denotes(e, l, D)
  BY <1>2
<1> DEFINE A == a * D
           P == paid * D
           sum == a + paid
           S == sum * D
<1>4. A \in Int /\ P \in Int /\ sum \in Int /\ S = A + P /\ S \in Int
  BY <1>2
<1>5. Denotes(Whole(a), A, D) /\ Denotes(Whole(paid), P, D) /\ Denotes(Whole(sum), S, D)
  BY <1>2, <1>4, CommonWhole
<1> HIDE DEF A, P, S, sum
<1>6. Denotes(Plus(e, x), l + j, D)
  BY <1>3, CommonSums
<1>7. P = l + j
  <2>1. Whole(paid) \in Lowest /\ Plus(e, x) \in Lowest
    BY <1>1, WholeIsLowest, LowestClosed
  <2> QED
    BY <1>5, <1>6, <2>1, SameValue
<1>8. Denotes(Plus(Whole(sum), k), S + i, D)
  BY <1>3, <1>5, CommonSums
<1>9. Denotes(Plus(Whole(a), Plus(k, x)), A + (i + j), D)
  BY <1>3, <1>5, CommonSums
<1>10. Denotes(Plus(Plus(Whole(a), Plus(k, x)), e), (A + (i + j)) + l, D)
  BY <1>3, <1>9, CommonSums
<1>11. S + i = (A + (i + j)) + l
  BY <1>3, <1>4, <1>7
<1>12. /\ Plus(Whole(sum), k) \in Lowest
       /\ Plus(Plus(Whole(a), Plus(k, x)), e) \in Lowest
  <2>1. Whole(sum) \in Fractions /\ Plus(Whole(a), Plus(k, x)) \in Fractions
    BY <1>5, <1>9 DEF Denotes
  <2> QED
    BY <1>1, <2>1, LowestClosed
<1> QED
  BY <1>8, <1>10, <1>11, <1>12, SameValue DEF sum

(* An expiration moves cash and cost by its result, in all.                *)
LEMMA ExpirySettles ==
  ASSUME NEW acct \in LowestAccount, TimelineInv, NEW time \in Int,
         NEW executed, Contracted(acct, executed)
  PROVE  LET after == Expire(acct, time)
             result == ExpiryResult(acct.positions, time, executed)
         IN  /\ result \in Lowest /\ Contracted(after, executed)
             /\ TotalCost(acct) \in Lowest /\ TotalCost(after) \in Lowest
             /\ Plus(Whole(after.cash), TotalCost(after))
                  = Plus(Plus(Whole(acct.cash), TotalCost(acct)), result)
<1> DEFINE after == Expire(acct, time)
           held == acct.positions
           gone == Expired(held, time)
           marks == LatestMarks(time)
           payments == [s \in gone |-> Settlement(s, held[s], marks)]
           paid == SumFunctionOnSet(payments, gone)
           value == [s \in gone |-> Payoff(s, marks, executed)]
           g == [s \in gone |-> Scale(held[s].quantity, Minus(Whole(value[s]), held[s].average))]
           c == [s \in Symbols |-> Cost(held[s])]
           kept == [s \in Symbols |-> Cost(after.positions[s])]
           lost == [s \in Symbols |-> IF s \in gone THEN Cost(held[s]) ELSE Whole(0)]
           result == ExpiryResult(held, time, executed)
<1>1. held \in [Symbols -> LowestPosition] /\ acct.cash \in Int /\ IsFiniteSet(Symbols)
  BY BarsAssumption DEF LowestAccount
<1>2. /\ after \in LowestAccount /\ after.cash = acct.cash + paid
      /\ gone \subseteq Symbols /\ IsFiniteSet(gone)
      /\ \A s \in Symbols : after.positions[s] = IF s \in gone THEN Gone(held[s]) ELSE held[s]
  BY ExpiryFacts
<1>3. gone \subseteq DOMAIN Contracts
  BY DEF Expired
<1>4. \A x \in DOMAIN marks : marks[x] \in Int
  BY MarksFacts
<1>5. result = SumOver(g, gone)
  <2>1. \A s \in gone : g[s] = Scale(held[s].quantity,
                               Minus(Whole(Payoff(s, marks, executed)), held[s].average))
    OBVIOUS
  <2>2. g = [s \in gone |-> Scale(held[s].quantity,
                               Minus(Whole(Payoff(s, marks, executed)), held[s].average))]
    BY <2>1
  <2> QED
    BY <2>2 DEF ExpiryResult, Payoff, TradedAsOption
<1>6. \A s \in gone : /\ value[s] = Payoff(s, marks, executed)
                      /\ payments[s] = Settlement(s, held[s], marks)
                      /\ g[s] = Scale(held[s].quantity, Minus(Whole(value[s]), held[s].average))
  OBVIOUS
<1>7. \A s \in Symbols : /\ c[s] = Cost(held[s]) /\ kept[s] = Cost(after.positions[s])
                         /\ lost[s] = IF s \in gone THEN Cost(held[s]) ELSE Whole(0)
  OBVIOUS
<1>8. TotalCost(acct) = SumOver(c, Symbols) /\ TotalCost(after) = SumOver(kept, Symbols)
  BY DEF TotalCost
<1> HIDE DEF after, gone, marks, payments, value, g, c, kept, lost, result
<1>9. ASSUME NEW s \in gone
      PROVE  /\ value[s] \in Int /\ payments[s] = held[s].quantity * value[s]
             /\ held[s] \in LowestPosition /\ c[s] = Cost(held[s])
  <2>1. s \in DOMAIN Contracts /\ s \in Symbols /\ held[s] \in LowestPosition
    BY <1>1, <1>2, <1>3
  <2>2. held[s].contract <=> TradedAsOption(s, executed)
    BY <2>1 DEF Contracted
  <2> QED
    BY <1>4, <1>6, <1>7, <2>1, <2>2, SettlementPaysOff
<1>10. /\ paid \in Int /\ SumOver(g, gone) \in Lowest /\ SumOver(c, gone) \in Lowest
       /\ Whole(paid) = Plus(SumOver(g, gone), SumOver(c, gone))
  <2>1. /\ \A s \in gone : held[s] \in LowestPosition
        /\ \A s \in gone : value[s] \in Int
        /\ \A s \in gone : payments[s] = held[s].quantity * value[s]
        /\ \A s \in gone : g[s] = Scale(held[s].quantity, Minus(Whole(value[s]), held[s].average))
        /\ \A s \in gone : c[s] = Cost(held[s])
    BY <1>6, <1>9
  <2> HIDE DEF held
  <2> QED
    BY <1>2, <2>1, GainsAndCosts
<1>11. ASSUME NEW s \in Symbols
       PROVE  /\ c[s] \in Lowest /\ kept[s] \in Lowest /\ lost[s] \in Lowest
              /\ c[s] = Plus(kept[s], lost[s])
  <2>1. held[s] \in LowestPosition
    BY <1>1
  <2>2. Cost(held[s]) \in Lowest /\ Whole(0) \in Lowest
    BY <2>1, CostType, WholeIsLowest
  <2>3. /\ \A a \in Lowest : Plus(Whole(0), a) = a
        /\ \A a \in Lowest : Plus(a, Whole(0)) = a
    BY <2>2, FractionsAreSummable DEF Summable, FractionPlus
  <2>4. CASE s \in gone
    <3>1. kept[s] = Cost(Gone(held[s])) /\ lost[s] = Cost(held[s])
      BY <1>2, <1>7, <2>4
    <3>2. Gone(held[s]) \in LowestPosition /\ Gone(held[s]).quantity = 0
      BY <2>1, GoneFacts
    <3>3. kept[s] = Whole(0)
      BY <3>1, <3>2, CostType
    <3> QED
      BY <1>7, <2>2, <2>3, <3>1, <3>3
  <2>5. CASE s \notin gone
    <3>1. kept[s] = Cost(held[s]) /\ lost[s] = Whole(0)
      BY <1>2, <1>7, <2>5
    <3> QED
      BY <1>7, <2>2, <2>3, <3>1
  <2> QED
    BY <2>4, <2>5
<1>12. SumOver(lost, Symbols) = SumOver(c, gone)
  <2>1. \A s \in Symbols \ gone : lost[s] = Whole(0)
    BY <1>7
  <2>2. SumOver(lost, Symbols) = SumOver(lost, gone)
    BY <1>1, <1>2, <1>11, <2>1, SumOverRest
  <2>3. \A s \in gone : lost[s] = c[s] /\ c[s] \in Lowest
    BY <1>2, <1>7, <1>11
  <2>4. SumOver(lost, gone) = SumOver(c, gone)
    BY <1>2, <2>3, SumsOverAgree
  <2> QED
    BY <2>2, <2>4
<1>13. SumOver(c, Symbols) = Plus(SumOver(kept, Symbols), SumOver(c, gone))
  <2>1. SumOver(c, Symbols) = Plus(SumOver(kept, Symbols), SumOver(lost, Symbols))
    BY <1>1, <1>11, SumsOfSums
  <2> QED
    BY <1>12, <2>1
<1>14. SumOver(c, Symbols) \in Lowest /\ SumOver(kept, Symbols) \in Lowest
  BY <1>1, <1>11, SumOverType
<1>15. Plus(Whole(acct.cash + paid), SumOver(kept, Symbols))
         = Plus(Plus(Whole(acct.cash), SumOver(c, Symbols)), SumOver(g, gone))
  <2> DEFINE a == acct.cash
             k == SumOver(kept, Symbols)
             x == SumOver(c, gone)
             e == SumOver(g, gone)
  <2>1. /\ a \in Int /\ paid \in Int /\ k \in Lowest /\ x \in Lowest /\ e \in Lowest
        /\ Whole(paid) = Plus(e, x)
    BY <1>1, <1>10, <1>14
  <2> HIDE DEF a, k, x, e, paid
  <2>2. Plus(Whole(a + paid), k) = Plus(Plus(Whole(a), Plus(k, x)), e)
    BY <2>1, PaidIsGained
  <2> QED
    BY <1>13, <2>2 DEF a, k, x, e, paid
<1>16. Contracted(after, executed)
  <2>1. ASSUME NEW s \in Symbols PROVE after.positions[s].contract = held[s].contract
    <3>1. held[s] \in LowestPosition
      BY <1>1
    <3> QED
      BY <1>2, <3>1, GoneFacts
  <2> QED
    BY <2>1 DEF Contracted
<1> QED
  BY <1>2, <1>5, <1>8, <1>10, <1>14, <1>15, <1>16 DEF after, result

-----------------------------------------------------------------------------
(* The targets of a batch of signals.                                      *)

Queues == [Symbols -> Seq(PendingTarget)]

Held == [Symbols -> LowestPosition]

QueueOne(q, g, positions) == [q EXCEPT ![g.instrument_id] = Append(@, Target(g, positions))]

LEMMA TargetType ==
  ASSUME NEW g \in StrategySignal, NEW positions \in Held, step \in Nat
  PROVE  Target(g, positions) \in PendingTarget /\ Target(g, positions).timestamp = step + 1
<1> DEFINE held == positions[g.instrument_id].quantity
           signed == SignedFill(g.side, g.lot)
<1>1. held \in Int /\ signed \in Int /\ g.asset_class \in AssetClasses
  BY DEF StrategySignal, Held, LowestPosition, SignedFill
<1>2. Target(g, positions) = [target_quantity |-> held + signed,
                              asset_class |-> g.asset_class, timestamp |-> step + 1]
  BY DEF Target
<1> HIDE DEF held, signed
<1> QED
  BY <1>1, <1>2 DEF PendingTarget

LEMMA QueueOneFacts ==
  ASSUME NEW q \in Queues, NEW g \in StrategySignal, NEW positions \in Held, step \in Nat
  PROVE  LET after == QueueOne(q, g, positions) IN
         /\ after \in Queues
         /\ \A s \in Symbols : \A n \in DOMAIN after[s] :
              \/ n \in DOMAIN q[s] /\ after[s][n] = q[s][n]
              \/ after[s][n].timestamp = step + 1
<1> DEFINE after == QueueOne(q, g, positions)
           x == g.instrument_id
           t == Target(g, positions)
<1>1. x \in Symbols /\ t \in PendingTarget /\ t.timestamp = step + 1
  BY TargetType DEF StrategySignal
<1>2. after = [q EXCEPT ![x] = Append(q[x], t)]
  BY DEF QueueOne
<1> HIDE DEF after, t, x
<1>3. Append(q[x], t) \in Seq(PendingTarget)
  BY <1>1 DEF Queues
<1>4. after \in Queues
  BY <1>1, <1>2, <1>3 DEF Queues
<1>5. ASSUME NEW s \in Symbols, NEW n \in DOMAIN after[s]
      PROVE  (n \in DOMAIN q[s] /\ after[s][n] = q[s][n]) \/ after[s][n].timestamp = step + 1
  <2>1. CASE s # x
    BY <1>2, <1>5, <2>1 DEF Queues
  <2>2. CASE s = x
    <3>1. after[s] = Append(q[s], t) /\ q[s] \in Seq(PendingTarget)
      BY <1>1, <1>2, <2>2 DEF Queues
    <3> QED
      BY <1>1, <1>5, <3>1
  <2> QED
    BY <2>1, <2>2
<1> QED
  BY <1>4, <1>5 DEF after

QueueWith(positions) ==
    [q \in Queues |-> [g \in StrategySignal |-> QueueOne(q, g, positions)]]

(* Queueing a batch is queueing one signal after the other.                *)
LEMMA EnqueueFolds ==
  ASSUME NEW queues \in Queues, NEW batch \in Seq(StrategySignal), NEW positions \in Held,
         step \in Nat
  PROVE  Folded(QueueWith(positions), queues, batch, Enqueue(queues, batch, positions))
<1> DEFINE n == Len(batch)
           op == QueueWith(positions)
           Eq(g) == g = [s \in SUBSET (1..n) |->
                           IF s = {} THEN queues
                           ELSE QueueOne(g[s \ {Max(s)}], batch[Max(s)], positions)]
           f == CHOOSE g : Eq(g)
<1>1. n \in Nat /\ DOMAIN batch = 1..n
  OBVIOUS
<1>2. op \in [Queues -> [StrategySignal -> Queues]]
  <2>1. \A q \in Queues, g \in StrategySignal : QueueOne(q, g, positions) \in Queues
    BY QueueOneFacts
  <2> QED
    BY <2>1 DEF QueueWith
<1>3. \A q \in Queues, g \in StrategySignal : op[q][g] = QueueOne(q, g, positions)
  BY DEF QueueWith
<1> HIDE DEF op
<1>4. \E g : Eq(g)
  <2>1. PICK g : FoldSolution(Queues, StrategySignal, op, queues, batch, g)
    BY <1>2, FoldEquation
  <2>2. \A s \in SUBSET (1..n) :
          g[s] = IF s = {} THEN queues
                 ELSE QueueOne(g[s \ {Max(s)}], batch[Max(s)], positions)
    BY <1>3, <2>1 DEF FoldSolution
  <2>3. Eq(g)
    BY <2>1, <2>2 DEF FoldSolution
  <2> QED
    BY <2>3
<1>5. Enqueue(queues, batch, positions) = f[1..n]
  BY <1>1 DEF Enqueue, FoldLeft, MapThenFoldSet, QueueOne
<1>6. Eq(f)
  BY <1>4
<1> HIDE DEF f
<1>7. f[{}] = queues
  BY <1>6
<1>8. ASSUME NEW i \in 1..n, f[1..(i - 1)] \in Queues
      PROVE  f[1..i] = op[f[1..(i - 1)]][batch[i]]
  <2>1. /\ 1..i # {} /\ 1..i \in SUBSET (1..n) /\ Max(1..i) = i
        /\ (1..i) \ {Max(1..i)} = 1..(i - 1)
    BY <1>1, PrefixMax
  <2>2. f[1..i] = QueueOne(f[1..(i - 1)], batch[i], positions)
    BY <1>6, <2>1
  <2>3. batch[i] \in StrategySignal
    OBVIOUS
  <2> QED
    BY <1>3, <1>8, <2>2, <2>3
<1>9. Folded(op, queues, batch, f[1..n])
  BY <1>2, <1>7, <1>8, FoldIsFolded
<1> QED
  BY <1>5, <1>9 DEF op

(* What was queued stays where it was, and all that follows is of this     *)
(* bar.                                                                    *)
LEMMA EnqueueFacts ==
  ASSUME NEW queues \in Queues, NEW batch \in Seq(StrategySignal), NEW positions \in Held,
         step \in Nat
  PROVE  LET after == Enqueue(queues, batch, positions) IN
         /\ after \in Queues
         /\ \A s \in Symbols : \A n \in DOMAIN after[s] :
              \/ n \in DOMAIN queues[s] /\ after[s][n] = queues[s][n]
              \/ after[s][n].timestamp = step + 1
<1> DEFINE Fine(q) == \A s \in Symbols : \A n \in DOMAIN q[s] :
                        \/ n \in DOMAIN queues[s] /\ q[s][n] = queues[s][n]
                        \/ q[s][n].timestamp = step + 1
           B == {q \in Queues : Fine(q)}
           m == Len(batch)
           A == [i \in 0..m |-> B]
<1>1. m \in Nat /\ queues \in B
  OBVIOUS
<1>2. ASSUME NEW i \in 1..m, NEW q \in B PROVE QueueWith(positions)[q][batch[i]] \in B
  <2> DEFINE g == batch[i]
             after == QueueOne(q, g, positions)
  <2>1. g \in StrategySignal /\ q \in Queues /\ Fine(q)
    OBVIOUS
  <2>2. QueueWith(positions)[q][g] = after
    BY <2>1 DEF QueueWith
  <2> HIDE DEF g
  <2>3. /\ after \in Queues
        /\ \A s \in Symbols : \A n \in DOMAIN after[s] :
             \/ n \in DOMAIN q[s] /\ after[s][n] = q[s][n]
             \/ after[s][n].timestamp = step + 1
    BY <2>1, QueueOneFacts
  <2> HIDE DEF after
  <2>4. Fine(after)
    BY <2>1, <2>3
  <2> QED
    BY <2>2, <2>3, <2>4 DEF g
<1>3. /\ \A i \in 0..m : A[i] = B /\ 0 \in 0..m /\ m \in 0..m
      /\ \A i \in 1..m : i \in 0..m /\ i - 1 \in 0..m
  BY <1>1
<1> HIDE DEF A, Fine
<1>4. Folded(QueueWith(positions), queues, batch, Enqueue(queues, batch, positions))
  BY EnqueueFolds
<1>5. Enqueue(queues, batch, positions) \in A[m]
  <2>1. queues \in A[0]
    BY <1>1, <1>3
  <2>2. \A i \in 1..m : \A a \in A[i - 1] : QueueWith(positions)[a][batch[i]] \in A[i]
    BY <1>2, <1>3
  <2> QED
    BY <1>4, <2>1, <2>2, FoldedHolds
<1> QED
  BY <1>1, <1>3, <1>5 DEF Fine

-----------------------------------------------------------------------------
(* What the execution of a queue does to the books.                        *)

LEMMA TradeIdle ==
  ASSUME NEW st, NEW target \in PendingTarget, NEW bar,
         target.target_quantity = st.account.positions[bar.symbol].quantity
  PROVE  Trade(st, target, bar) = st
<1>1. target.target_quantity \in Int
  BY DEF PendingTarget
<1>2. target.target_quantity - st.account.positions[bar.symbol].quantity = 0
  BY <1>1
<1> QED
  BY <1>2 DEF Trade

LEMMA ExecutionContracts ==
  ASSUME NEW queue \in Seq(PendingTarget), NEW bar, GoodBar(bar), NEW st \in State, step \in Nat,
         Contracted(st.account, st.fills)
  PROVE  LET after == ExecutePending(queue, bar, st) IN Contracted(after.account, after.fills)
<1> DEFINE B == {s \in State : Contracted(s.account, s.fills)}
<1>1. ASSUME NEW i \in 1..Len(queue), NEW s \in B PROVE Trade(s, queue[i], bar) \in B
  <2> DEFINE target == queue[i]
             next == Trade(s, target, bar)
  <2>1. target \in PendingTarget /\ s \in State /\ Contracted(s.account, s.fills)
    OBVIOUS
  <2>2. next \in State
    BY <2>1, TradeType
  <2>3. bar.symbol \in Symbols
    BY DEF GoodBar, Bar
  <2> HIDE DEF target
  <2>4. CASE target.target_quantity = s.account.positions[bar.symbol].quantity
    BY <2>1, <2>4, TradeIdle DEF target
  <2>5. CASE target.target_quantity # s.account.positions[bar.symbol].quantity
    <3>1. \E fill \in BacktestFill :
            /\ next.fills = Append(s.fills, fill) /\ fill.instrument_id = bar.symbol
            /\ \A x \in Symbols \ {bar.symbol} :
                 next.account.positions[x] = s.account.positions[x]
            /\ next.account.positions[bar.symbol].contract =
                 IF fill.asset_class = "OPTION" THEN bar.symbol \in DOMAIN Contracts
                                                ELSE s.account.positions[bar.symbol].contract
      BY <2>1, <2>5, TradeFacts, SMTT(40)
    <3>2. PICK fill \in BacktestFill :
            /\ next.fills = Append(s.fills, fill) /\ fill.instrument_id = bar.symbol
            /\ \A x \in Symbols \ {bar.symbol} :
                 next.account.positions[x] = s.account.positions[x]
            /\ next.account.positions[bar.symbol].contract =
                 IF fill.asset_class = "OPTION" THEN bar.symbol \in DOMAIN Contracts
                                                ELSE s.account.positions[bar.symbol].contract
      BY <3>1
    <3>3. Range(next.fills) = Range(s.fills) \cup {fill}
      BY <2>1, <3>2, RangeOfAppend DEF State
    <3>4. ASSUME NEW x \in Symbols
          PROVE  TradedAsOption(x, next.fills) <=>
                   TradedAsOption(x, s.fills) \/ (x = bar.symbol /\ fill.asset_class = "OPTION")
      BY <3>2, <3>3 DEF TradedAsOption
    <3>5. Contracted(next.account, next.fills)
      BY <2>1, <2>3, <3>2, <3>4 DEF Contracted
    <3> QED
      BY <2>2, <3>5 DEF target
  <2> QED
    BY <2>4, <2>5
<1>2. B \in SUBSET State /\ st \in B
  OBVIOUS
<1>3. \A x \in B : Contracted(x.account, x.fills)
  OBVIOUS
<1> HIDE DEF B
<1>4. ExecutePending(queue, bar, st) \in B
  BY <1>1, <1>2, ExecutionKeeps
<1> QED
  BY <1>3, <1>4

LEMMA ExecutionAttributes ==
  ASSUME NEW queue \in Seq(PendingTarget), NEW bar, GoodBar(bar), NEW st \in State, step \in Nat,
         Attributed(st.account)
  PROVE  Attributed(ExecutePending(queue, bar, st).account)
<1> DEFINE B == {s \in State : Attributed(s.account)}
<1>1. ASSUME NEW i \in 1..Len(queue), NEW s \in B PROVE Trade(s, queue[i], bar) \in B
  <2> DEFINE target == queue[i]
             next == Trade(s, target, bar)
  <2>1. target \in PendingTarget /\ s \in State /\ Attributed(s.account)
    OBVIOUS
  <2>2. next \in State
    BY <2>1, TradeType
  <2> HIDE DEF target
  <2>3. CASE target.target_quantity = s.account.positions[bar.symbol].quantity
    BY <2>1, <2>3, TradeIdle DEF target
  <2>4. CASE target.target_quantity # s.account.positions[bar.symbol].quantity
    <3>1. \E fill \in BacktestFill : Attributed(s.account) => Attributed(next.account)
      BY <2>1, <2>4, TradeFacts
    <3> QED
      BY <2>1, <2>2, <3>1 DEF target
  <2> QED
    BY <2>3, <2>4
<1>2. B \in SUBSET State /\ st \in B
  OBVIOUS
<1>3. \A x \in B : Attributed(x.account)
  OBVIOUS
<1> HIDE DEF B
<1>4. ExecutePending(queue, bar, st) \in B
  BY <1>1, <1>2, ExecutionKeeps
<1> QED
  BY <1>3, <1>4

(* Only the position of the bar's symbol moves.                            *)
LEMMA ExecutionIsLocal ==
  ASSUME NEW queue \in Seq(PendingTarget), NEW bar, GoodBar(bar), NEW st \in State, step \in Nat
  PROVE  \A s \in Symbols \ {bar.symbol} :
           ExecutePending(queue, bar, st).account.positions[s] = st.account.positions[s]
<1> DEFINE Same(x) == \A s \in Symbols \ {bar.symbol} :
                        x.account.positions[s] = st.account.positions[s]
           B == {x \in State : Same(x)}
<1>1. ASSUME NEW i \in 1..Len(queue), NEW x \in B PROVE Trade(x, queue[i], bar) \in B
  <2> DEFINE target == queue[i]
             next == Trade(x, target, bar)
  <2>1. target \in PendingTarget /\ x \in State /\ Same(x)
    OBVIOUS
  <2>2. next \in State
    BY <2>1, TradeType
  <2> HIDE DEF target
  <2>3. CASE target.target_quantity = x.account.positions[bar.symbol].quantity
    <3>1. next = x
      BY <2>1, <2>3, TradeIdle
    <3> HIDE DEF Same
    <3> QED
      BY <2>1, <3>1 DEF target
  <2>4. CASE target.target_quantity # x.account.positions[bar.symbol].quantity
    <3>1. \E fill \in BacktestFill : \A s \in Symbols \ {bar.symbol} :
            next.account.positions[s] = x.account.positions[s]
      BY <2>1, <2>4, TradeFacts
    <3>2. Same(next)
      BY <2>1, <3>1
    <3> QED
      BY <2>2, <3>2 DEF target
  <2> QED
    BY <2>3, <2>4
<1>2. B \in SUBSET State /\ st \in B
  OBVIOUS
<1>3. \A x \in B : Same(x)
  OBVIOUS
<1> HIDE DEF B
<1>4. ExecutePending(queue, bar, st) \in B
  BY <1>1, <1>2, ExecutionKeeps
<1> QED
  BY <1>3, <1>4

(* A new fill is of this bar, at its slipped open, and comes from a target *)
(* of the queue.                                                           *)
FillOf(f, queue, bar) ==
    /\ f \in BacktestFill
    /\ f.timestamp = step + 1 /\ f.instrument_id = bar.symbol
    /\ f.price = SlippedPrice(bar.open, f.side)
    /\ \E n \in DOMAIN queue : f.signalled = queue[n].timestamp

LEMMA ExecutionFills ==
  ASSUME NEW queue \in Seq(PendingTarget), NEW bar, GoodBar(bar), NEW st \in State, step \in Nat
  PROVE  \A f \in Range(ExecutePending(queue, bar, st).fills) :
           f \in Range(st.fills) \/ FillOf(f, queue, bar)
<1> DEFINE Fine(x) == \A f \in Range(x.fills) : f \in Range(st.fills) \/ FillOf(f, queue, bar)
           B == {x \in State : Fine(x)}
<1>1. ASSUME NEW i \in 1..Len(queue), NEW x \in B PROVE Trade(x, queue[i], bar) \in B
  <2> DEFINE target == queue[i]
             next == Trade(x, target, bar)
  <2>1. target \in PendingTarget /\ x \in State /\ Fine(x) /\ i \in DOMAIN queue
    OBVIOUS
  <2>2. next \in State
    BY <2>1, TradeType
  <2>t. target = queue[i]
    OBVIOUS
  <2> HIDE DEF target
  <2>3. CASE target.target_quantity = x.account.positions[bar.symbol].quantity
    <3>1. next = x
      BY <2>1, <2>3, TradeIdle
    <3> HIDE DEF Fine
    <3> QED
      BY <2>1, <3>1 DEF target
  <2>4. CASE target.target_quantity # x.account.positions[bar.symbol].quantity
    <3>1. \E fill \in BacktestFill :
            /\ next.fills = Append(x.fills, fill)
            /\ fill.timestamp = step + 1 /\ fill.instrument_id = bar.symbol
            /\ fill.signalled = target.timestamp
            /\ fill.price = SlippedPrice(bar.open, fill.side)
      BY <2>1, <2>4, TradeFacts
    <3>2. PICK fill \in BacktestFill :
            /\ next.fills = Append(x.fills, fill)
            /\ fill.timestamp = step + 1 /\ fill.instrument_id = bar.symbol
            /\ fill.signalled = target.timestamp
            /\ fill.price = SlippedPrice(bar.open, fill.side)
      BY <3>1
    <3>3. FillOf(fill, queue, bar)
      BY <2>1, <2>t, <3>2 DEF FillOf
    <3>4. Range(next.fills) = Range(x.fills) \cup {fill}
      BY <2>1, <3>2, RangeOfAppend DEF State
    <3>5. Fine(next)
      BY <2>1, <3>3, <3>4
    <3> QED
      BY <2>2, <3>5 DEF target
  <2> QED
    BY <2>3, <2>4
<1>2. B \in SUBSET State /\ st \in B
  OBVIOUS
<1>3. \A x \in B : Fine(x)
  OBVIOUS
<1> HIDE DEF B, Fine
<1>4. ExecutePending(queue, bar, st) \in B
  BY <1>1, <1>2, ExecutionKeeps
<1> QED
  BY <1>3, <1>4 DEF Fine

-----------------------------------------------------------------------------
(* The invariant that the others rest on: types, with every fraction in    *)
(* lowest terms, the timeline in order, and the contracts attached.        *)

BookInv ==
    /\ TimelineInv
    /\ step \in 0..Len(timeline)
    /\ raised \in BOOLEAN
    /\ pending \in Queues
    /\ account \in LowestAccount
    /\ fills \in Seq(BacktestFill)
    /\ snapshot \in EquityPoint
    /\ settled \in Lowest
    /\ emitted \in 0..MaxSignals
    /\ Contracted(account, fills)

ThisBar == timeline[step + 1]

Books == [account |-> account, fills |-> fills]

Executed == ExecutePending(pending[ThisBar.symbol], ThisBar, Books)

Closed == Expire(Executed.account, ThisBar.timestamp)

LEMMA TypesHold == ASSUME BookInv PROVE TypeOK
<1>1. account \in Account(Symbols) /\ settled \in Fractions
  BY LowestIsAccount DEF BookInv
<1> QED
  BY <1>1 DEF BookInv, TypeOK, TimelineInv, Queues

LEMMA StepsAreNat == ASSUME BookInv PROVE step \in Nat /\ Len(timeline) \in Nat
  BY DEF BookInv, TimelineInv

LEMMA BarFacts ==
  ASSUME BookInv, step < Len(timeline)
  PROVE  /\ step \in Nat /\ step + 1 \in DOMAIN timeline /\ step + 1 \in 0..Len(timeline)
         /\ GoodBar(ThisBar) /\ ThisBar.symbol \in Symbols /\ ThisBar.timestamp \in Int
         /\ pending[ThisBar.symbol] \in Seq(PendingTarget)
         /\ Books \in State /\ Books.account = account /\ Books.fills = fills
<1>1. timeline \in Seq(Bar) /\ Len(timeline) \in Nat /\ step \in 0..Len(timeline)
  BY DEF BookInv, TimelineInv
<1>2. step \in Nat /\ step + 1 \in DOMAIN timeline /\ step + 1 \in 0..Len(timeline)
  BY <1>1
<1>3. GoodBar(ThisBar)
  BY <1>2 DEF BookInv, TimelineInv, ThisBar
<1>4. ThisBar.symbol \in Symbols /\ ThisBar.timestamp \in Int
  BY <1>3 DEF GoodBar, Bar
<1>5. pending[ThisBar.symbol] \in Seq(PendingTarget)
  BY <1>4 DEF BookInv, Queues
<1>6. Books \in State
  BY DEF BookInv, Books, State
<1> QED
  BY <1>2, <1>3, <1>4, <1>5, <1>6 DEF Books

LEMMA BatchesAreSignals == ASSUME NEW batch \in Batches PROVE batch \in Seq(StrategySignal)
<1>1. Signals \subseteq StrategySignal
  BY BarsAssumption
<1>2. <<>> \in Seq(StrategySignal)
  OBVIOUS
<1>3. \A g \in Signals : <<g>> \in Seq(StrategySignal)
  BY <1>1
<1>4. \A g, h \in Signals : <<g, h>> \in Seq(StrategySignal)
  BY <1>1
<1>5. \/ batch = <<>>
      \/ \E g \in Signals : batch = <<g>>
      \/ \E g, h \in Signals : batch = <<g, h>>
  BY DEF Batches
<1> QED
  BY <1>2, <1>3, <1>4, <1>5, Zenon

(* One handled bar, from the parts above.                                  *)
LEMMA BarHandled ==
  ASSUME BookInv, NEW batch \in Batches, HandleBar(batch)
  PROVE  /\ step < Len(timeline) /\ step' = step + 1 /\ UNCHANGED <<timeline, raised>>
         /\ TradingDay(ThisBar)
         /\ Executed \in State /\ fills' = Executed.fills
         /\ Contracted(Executed.account, Executed.fills)
         /\ Closed \in LowestAccount /\ account' \in LowestAccount
         /\ account'.positions = Closed.positions /\ account'.cash = Closed.cash
         /\ account'.realized = Closed.realized
         /\ account'.by_instrument = Closed.by_instrument
         /\ account'.by_asset_class = Closed.by_asset_class
         /\ snapshot' = Snapshot(Closed, LatestMarks(ThisBar.timestamp))
         /\ settled' = Plus(settled, ExpiryResult(Executed.account.positions,
                                       ThisBar.timestamp, Executed.fills))
         /\ pending' = Enqueue([pending EXCEPT ![ThisBar.symbol] = <<>>], batch,
                               Executed.account.positions)
         /\ emitted' = emitted + Len(batch) /\ emitted' =< MaxSignals
<1> DEFINE point == Snapshot(Closed, LatestMarks(ThisBar.timestamp))
<1>1. /\ step < Len(timeline) /\ step' = step + 1 /\ UNCHANGED <<timeline, raised>>
      /\ TradingDay(ThisBar) /\ fills' = Executed.fills
      /\ account' = [Closed EXCEPT !.peak = point.peak]
      /\ snapshot' = point
      /\ settled' = Plus(settled, ExpiryResult(Executed.account.positions,
                                       ThisBar.timestamp, Executed.fills))
      /\ pending' = Enqueue([pending EXCEPT ![ThisBar.symbol] = <<>>], batch,
                               Executed.account.positions)
      /\ emitted' = emitted + Len(batch) /\ emitted + Len(batch) =< MaxSignals
  BY DEF HandleBar, CloseBar, ThisBar, Executed, Closed, Books
<1>2. /\ step \in Nat /\ GoodBar(ThisBar) /\ ThisBar.timestamp \in Int
      /\ pending[ThisBar.symbol] \in Seq(PendingTarget)
      /\ Books \in State /\ Books.account = account /\ Books.fills = fills
  BY <1>1, BarFacts
<1>3. Executed \in State
  BY <1>2, ExecutionType DEF Executed
<1>4. Contracted(Executed.account, Executed.fills)
  BY <1>2, ExecutionContracts DEF Executed, BookInv
<1>5. Closed \in LowestAccount
  <2>1. Executed.account \in LowestAccount
    BY <1>3 DEF State
  <2> QED
    BY <1>2, <2>1, ExpiryFacts DEF BookInv, Closed
<1>6. point.peak \in Int
  <2>1. point \in EquityPoint
    BY <1>2, <1>5, MarksFacts, SnapshotFacts DEF BookInv
  <2> QED
    BY <2>1 DEF EquityPoint
<1> HIDE DEF point
<1>7. /\ account' \in LowestAccount
      /\ account'.positions = Closed.positions /\ account'.cash = Closed.cash
      /\ account'.realized = Closed.realized
      /\ account'.by_instrument = Closed.by_instrument
      /\ account'.by_asset_class = Closed.by_asset_class
  <2> DEFINE peak == point.peak
             a == account'
             c == Closed
  <2>1. a = [c EXCEPT !.peak = peak] /\ peak \in Int /\ c \in LowestAccount
    BY <1>1, <1>5, <1>6
  <2> HIDE DEF peak, a, c
  <2>2. /\ a \in LowestAccount /\ a.positions = c.positions /\ a.cash = c.cash
        /\ a.realized = c.realized /\ a.by_instrument = c.by_instrument
        /\ a.by_asset_class = c.by_asset_class
    BY <2>1 DEF LowestAccount
  <2> QED
    BY <2>2 DEF a, c
<1> QED
  BY <1>1, <1>3, <1>4, <1>5, <1>7 DEF point

(* One bar that closes at nothing: its fills, and nothing after them.      *)
LEMMA BarRaised ==
  ASSUME BookInv, RaiseAtClose
  PROVE  /\ step < Len(timeline) /\ step' = step + 1 /\ TradingDay(ThisBar)
         /\ ThisBar.close = 0 /\ raised' = TRUE
         /\ UNCHANGED <<timeline, snapshot, settled, emitted>>
         /\ Executed \in State /\ account' = Executed.account /\ fills' = Executed.fills
         /\ Contracted(Executed.account, Executed.fills)
         /\ pending' = [pending EXCEPT ![ThisBar.symbol] = <<>>]
<1>1. /\ step < Len(timeline) /\ step' = step + 1 /\ TradingDay(ThisBar)
      /\ ThisBar.close = 0 /\ raised' = TRUE
      /\ UNCHANGED <<timeline, snapshot, settled, emitted>>
      /\ account' = Executed.account /\ fills' = Executed.fills
      /\ pending' = [pending EXCEPT ![ThisBar.symbol] = <<>>]
  BY DEF RaiseAtClose, ThisBar, Executed, Books
<1>2. /\ step \in Nat /\ GoodBar(ThisBar)
      /\ pending[ThisBar.symbol] \in Seq(PendingTarget)
      /\ Books \in State /\ Books.account = account /\ Books.fills = fills
  BY <1>1, BarFacts
<1>3. Executed \in State
  BY <1>2, ExecutionType DEF Executed
<1>4. Contracted(Executed.account, Executed.fills)
  BY <1>2, ExecutionContracts DEF Executed, BookInv
<1> QED
  BY <1>1, <1>3, <1>4

(* The bar's targets leave the queues, those of other symbols stay.        *)
LEMMA QueueEmptied ==
  ASSUME BookInv, ThisBar.symbol \in Symbols
  PROVE  LET left == [pending EXCEPT ![ThisBar.symbol] = <<>>] IN
         /\ left \in Queues
         /\ \A s \in Symbols : \A n \in DOMAIN left[s] :
              s # ThisBar.symbol /\ n \in DOMAIN pending[s] /\ left[s][n] = pending[s][n]
<1> DEFINE none == <<>>
           left == [pending EXCEPT ![ThisBar.symbol] = none]
<1>1. none \in Seq(PendingTarget) /\ DOMAIN none = {} /\ pending \in Queues
  BY DEF BookInv
<1> HIDE DEF none
<1>2. left \in Queues
  BY <1>1 DEF Queues
<1>3. \A s \in Symbols : \A n \in DOMAIN left[s] :
        s # ThisBar.symbol /\ n \in DOMAIN pending[s] /\ left[s][n] = pending[s][n]
  BY <1>1 DEF Queues
<1> QED
  BY <1>2, <1>3 DEF none

LEMMA NewAccountFacts ==
  LET new == NewAccount(Symbols, InitialCash) IN
  /\ new \in LowestAccount /\ new.cash = InitialCash /\ InitialCash \in Nat
  /\ new.realized = Whole(0)
  /\ \A s \in Symbols : /\ new.positions[s] \in LowestPosition
                        /\ new.positions[s].quantity = 0
                        /\ ~new.positions[s].contract
                        /\ new.by_instrument[s] = Whole(0)
  /\ \A c \in AssetClasses : new.by_asset_class[c] = Whole(0)
<1> DEFINE new == NewAccount(Symbols, InitialCash)
           zero == Whole(0)
           none == NoPosition
<1>1. InitialCash \in Nat /\ zero \in Lowest
  BY BarsAssumption, WholeIsLowest
<1>2. none \in LowestPosition /\ none.quantity = 0 /\ ~none.contract
  BY <1>1 DEF NoPosition, LowestPosition
<1>3. new = [cash |-> InitialCash, realized |-> zero, peak |-> InitialCash,
             positions |-> [s \in Symbols |-> none],
             by_instrument |-> [s \in Symbols |-> zero],
             by_asset_class |-> [c \in AssetClasses |-> zero]]
  BY DEF NewAccount
<1> HIDE DEF new, zero, none
<1>4. new \in LowestAccount
  BY <1>1, <1>2, <1>3 DEF LowestAccount
<1>5. /\ new.cash = InitialCash /\ new.realized = zero
      /\ \A s \in Symbols : new.positions[s] = none /\ new.by_instrument[s] = zero
      /\ \A c \in AssetClasses : new.by_asset_class[c] = zero
  BY <1>3
<1> QED
  BY <1>1, <1>2, <1>4, <1>5 DEF new, zero

LEMMA BookInvInit == Init => BookInv
<1> SUFFICES ASSUME Init PROVE BookInv
  OBVIOUS
<1>1. PICK h \in Histories : timeline = MergeTimeline(h)
  BY DEF Init
<1>2. TimelineInv
  BY <1>1, TimelineFacts DEF TimelineInv
<1>3. step = 0 /\ step \in 0..Len(timeline)
  BY <1>2 DEF Init, TimelineInv
<1>4. pending \in Queues
  BY DEF Init, Queues
<1>5. account \in LowestAccount /\ \A s \in Symbols : ~account.positions[s].contract
  BY NewAccountFacts DEF Init
<1>6. fills \in Seq(BacktestFill) /\ Range(fills) = {}
  BY DEF Init, Range
<1>7. snapshot \in EquityPoint
  <2> DEFINE marks == <<>>
  <2>1. DOMAIN marks = {}
    OBVIOUS
  <2>2. snapshot = Snapshot(account, marks)
    BY DEF Init
  <2> HIDE DEF marks
  <2>3. Snapshot(account, marks) \in EquityPoint
    BY <1>5, <2>1, SnapshotFacts
  <2> QED
    BY <2>2, <2>3
<1>8. settled \in Lowest /\ emitted \in 0..MaxSignals
  BY WholeIsLowest, BarsAssumption DEF Init
<1>r. raised \in BOOLEAN
  BY DEF Init
<1>9. Contracted(account, fills)
  BY <1>5, <1>6 DEF Contracted, TradedAsOption
<1> QED
  BY <1>2, <1>3, <1>r, <1>4, <1>5, <1>6, <1>7, <1>8, <1>9 DEF BookInv

LEMMA BookInvStep == BookInv /\ [Next]_vars => BookInv'
<1> SUFFICES ASSUME BookInv, [Next]_vars PROVE BookInv'
  OBVIOUS
<1>1. CASE SkipBar
  <2>1. /\ step < Len(timeline) /\ step' = step + 1
        /\ UNCHANGED <<timeline, raised, pending, account, fills, snapshot, settled,
                       emitted>>
    BY <1>1 DEF SkipBar
  <2>2. step + 1 \in 0..Len(timeline)
    BY <2>1, BarFacts
  <2> QED
    BY <2>1, <2>2 DEF BookInv, TimelineInv, Contracted, TradedAsOption, GoodBar
<1>2. ASSUME NEW batch \in Batches, HandleBar(batch) PROVE BookInv'
  <2>1. /\ step < Len(timeline) /\ step' = step + 1 /\ UNCHANGED <<timeline, raised>>
        /\ Executed \in State /\ fills' = Executed.fills
        /\ Contracted(Executed.account, Executed.fills)
        /\ Closed \in LowestAccount /\ account' \in LowestAccount
        /\ account'.positions = Closed.positions
        /\ snapshot' = Snapshot(Closed, LatestMarks(ThisBar.timestamp))
        /\ settled' = Plus(settled, ExpiryResult(Executed.account.positions,
                                       ThisBar.timestamp, Executed.fills))
        /\ pending' = Enqueue([pending EXCEPT ![ThisBar.symbol] = <<>>], batch,
                               Executed.account.positions)
        /\ emitted' = emitted + Len(batch) /\ emitted' =< MaxSignals
    BY <1>2, BarHandled
  <2>2. /\ step \in Nat /\ step + 1 \in 0..Len(timeline)
        /\ ThisBar.symbol \in Symbols /\ ThisBar.timestamp \in Int
    BY <2>1, BarFacts
  <2>3. /\ Executed.account \in LowestAccount /\ Executed.fills \in Seq(BacktestFill)
        /\ Executed.account.positions \in Held
    BY <2>1 DEF State, LowestAccount, Held
  <2>4. batch \in Seq(StrategySignal)
    BY BatchesAreSignals
  <2>5. TimelineInv /\ TimelineInv'
    BY <2>1 DEF BookInv, TimelineInv, GoodBar
  <2>6. pending' \in Queues
    <3>1. [pending EXCEPT ![ThisBar.symbol] = <<>>] \in Queues
      BY <2>2, QueueEmptied
    <3> QED
      BY <2>1, <2>2, <2>3, <2>4, <3>1, EnqueueFacts
  <2>7. snapshot' \in EquityPoint
    BY <2>1, <2>2, <2>5, MarksFacts, SnapshotFacts
  <2>8. settled' \in Lowest /\ Contracted(Closed, Executed.fills)
    <3> DEFINE result == ExpiryResult(Executed.account.positions, ThisBar.timestamp,
                                      Executed.fills)
    <3>1. result \in Lowest /\ Contracted(Closed, Executed.fills)
      BY <2>1, <2>2, <2>3, <2>5, ExpirySettles DEF Closed
    <3>2. settled \in Fractions /\ result \in Fractions
      BY <3>1 DEF BookInv, Lowest
    <3>3. settled' = Plus(settled, result)
      BY <2>1
    <3> HIDE DEF result
    <3> QED
      BY <3>1, <3>2, <3>3, LowestClosed
  <2>9. Contracted(account, fills)'
    BY <2>1, <2>8 DEF Contracted, TradedAsOption
  <2>10. emitted' \in 0..MaxSignals
    BY <2>1, <2>4, BarsAssumption DEF BookInv
  <2>11. (step \in 0..Len(timeline))'
    BY <2>1, <2>2
  <2>12. fills' \in Seq(BacktestFill)
    BY <2>1, <2>3
  <2>13. raised' \in BOOLEAN
    BY <2>1 DEF BookInv
  <2> QED
    BY <2>1, <2>5, <2>6, <2>7, <2>8, <2>9, <2>10, <2>11, <2>12, <2>13 DEF BookInv
<1>3. CASE RaiseAtClose
  <2>1. /\ step < Len(timeline) /\ step' = step + 1 /\ raised' = TRUE
        /\ UNCHANGED <<timeline, snapshot, settled, emitted>>
        /\ Executed \in State /\ account' = Executed.account /\ fills' = Executed.fills
        /\ Contracted(Executed.account, Executed.fills)
        /\ pending' = [pending EXCEPT ![ThisBar.symbol] = <<>>]
    BY <1>3, BarRaised
  <2>2. step + 1 \in 0..Len(timeline) /\ ThisBar.symbol \in Symbols
    BY <2>1, BarFacts
  <2>3. account' \in LowestAccount /\ fills' \in Seq(BacktestFill)
    BY <2>1 DEF State
  <2>4. pending' \in Queues
    BY <2>1, <2>2, QueueEmptied
  <2>5. TimelineInv'
    BY <2>1 DEF BookInv, TimelineInv, GoodBar
  <2>6. Contracted(account, fills)'
    BY <2>1 DEF Contracted, TradedAsOption
  <2>7. (step \in 0..Len(timeline))' /\ raised' \in BOOLEAN
    BY <2>1, <2>2
  <2>8. snapshot' \in EquityPoint /\ settled' \in Lowest /\ (emitted \in 0..MaxSignals)'
    BY <2>1 DEF BookInv
  <2> QED
    BY <2>3, <2>4, <2>5, <2>6, <2>7, <2>8 DEF BookInv
<1>4. CASE UNCHANGED vars
  BY <1>4 DEF vars, BookInv, TimelineInv, Contracted, TradedAsOption, GoodBar
<1> QED
  BY <1>1, <1>2, <1>3, <1>4 DEF Next

LEMMA BookInvHolds == Spec => []BookInv
<1> QED
  BY BookInvInit, BookInvStep, PTL DEF Spec

(* Every state of the backtest has its types: queues, account, equity      *)
(* point and fills of backtest/models.py, prices and fractions that are    *)
(* positive where the code divides by them.                                *)
THEOREM TypeCorrect == Spec => []TypeOK
<1> QED
  BY BookInvHolds, TypesHold, PTL

-----------------------------------------------------------------------------
(* Targets and fills.                                                      *)

(* A fill of the first trading bar of its symbol after its signal.         *)
OnItsBar(f) ==
    /\ f.timestamp \in TradingBars(f.instrument_id) /\ f.signalled < f.timestamp
    /\ \A m \in TradingBars(f.instrument_id) : m > f.signalled => f.timestamp =< m
    /\ f.price = SlippedPrice(timeline[f.timestamp].open, f.side)

Waiting(s, target, now) ==
    /\ target.timestamp =< now
    /\ \A m \in TradingBars(s) : m =< now => m =< target.timestamp

NextOpenInv ==
    /\ \A f \in Range(fills) : OnItsBar(f)
    /\ \A s \in Symbols : \A n \in DOMAIN pending[s] : Waiting(s, pending[s][n], step)

LEMMA NextOpenSuffices == ASSUME BookInv, NextOpenInv PROVE ExecutesAtNextOpen
<1>1. ASSUME NEW f \in Range(fills)
      PROVE  f.timestamp = Min({n \in TradingBars(f.instrument_id) : n > f.signalled})
  <2> DEFINE later == {n \in TradingBars(f.instrument_id) : n > f.signalled}
  <2>1. TradingBars(f.instrument_id) \subseteq Nat
    BY DEF TradingBars, BookInv, TimelineInv
  <2>2. OnItsBar(f)
    BY DEF NextOpenInv
  <2>3. later \in SUBSET Nat /\ f.timestamp \in later /\ \A m \in later : f.timestamp =< m
    <3>1. f \in BacktestFill
      BY DEF BookInv, Range
    <3>2. f.signalled \in Int /\ f.timestamp \in Int
      BY <3>1 DEF BacktestFill
    <3> QED
      BY <2>1, <2>2, <3>2 DEF OnItsBar
  <2> HIDE DEF later
  <2>4. Min(later) \in later /\ \A y \in later : Min(later) =< y
    BY <2>3, MinIsLeast
  <2>5. Min(later) =< f.timestamp /\ f.timestamp =< Min(later)
    BY <2>3, <2>4
  <2>6. Min(later) \in Nat /\ f.timestamp \in Nat
    BY <2>3, <2>4
  <2> QED
    BY <2>5, <2>6 DEF later
<1> QED
  BY <1>1 DEF ExecutesAtNextOpen, NextOpenInv, OnItsBar, Waiting

LEMMA NextOpenInit == Init => NextOpenInv
<1> SUFFICES ASSUME Init PROVE NextOpenInv
  OBVIOUS
<1>1. Range(fills) = {} /\ \A s \in Symbols : DOMAIN pending[s] = {}
  BY DEF Init, Range
<1> QED
  BY <1>1 DEF NextOpenInv

(* Time going by on a bar that is not one of the symbol's.                 *)
LEMMA WaitsOn ==
  ASSUME BookInv, NEW s \in Symbols,
         NEW target \in PendingTarget, Waiting(s, target, step),
         ThisBar.symbol # s \/ ~TradingDay(ThisBar)
  PROVE  Waiting(s, target, step + 1)
<1>1. step \in Nat /\ target.timestamp \in Nat
  BY StepsAreNat DEF PendingTarget
<1>2. TradingBars(s) \subseteq Nat
  BY DEF TradingBars, BookInv, TimelineInv
<1>3. step + 1 \notin TradingBars(s)
  BY DEF TradingBars, ThisBar
<1>4. \A m \in TradingBars(s) : m =< step + 1 => m =< step
  BY <1>1, <1>2, <1>3
<1>5. target.timestamp =< step + 1
  BY <1>1 DEF Waiting
<1>6. \A m \in TradingBars(s) : m =< step + 1 => m =< target.timestamp
  BY <1>4 DEF Waiting
<1> QED
  BY <1>5, <1>6 DEF Waiting

(* What a bar executes it executes for targets that waited for it.         *)
LEMMA ExecutedOnTheirBar ==
  ASSUME BookInv, NextOpenInv, step < Len(timeline), TradingDay(ThisBar),
         NEW f \in Range(Executed.fills)
  PROVE  OnItsBar(f)
<1> DEFINE symbol == ThisBar.symbol
           queue == pending[symbol]
<1>1. /\ step \in Nat /\ step + 1 \in DOMAIN timeline /\ GoodBar(ThisBar)
      /\ symbol \in Symbols /\ queue \in Seq(PendingTarget)
      /\ Books \in State /\ Books.fills = fills
  BY BarFacts
<1>2. step + 1 \in TradingBars(symbol)
  BY <1>1 DEF TradingBars, ThisBar
<1>3. f \in Range(fills) \/ FillOf(f, queue, ThisBar)
  BY <1>1, ExecutionFills DEF Executed
<1>4. CASE f \in Range(fills)
  BY <1>4 DEF NextOpenInv
<1>5. CASE FillOf(f, queue, ThisBar)
  <2>1. PICK n \in DOMAIN queue : f.signalled = queue[n].timestamp
    BY <1>5 DEF FillOf
  <2>2. /\ queue[n] \in PendingTarget /\ queue[n].timestamp =< step
        /\ \A m \in TradingBars(symbol) : m =< step => m =< queue[n].timestamp
    BY <1>1 DEF Waiting, NextOpenInv
  <2>3. f.signalled \in Nat
    BY <2>1, <2>2 DEF PendingTarget
  <2>4. f.timestamp = step + 1 /\ f.instrument_id = symbol
    BY <1>5 DEF FillOf
  <2>5. \A m \in TradingBars(symbol) : m > f.signalled => step + 1 =< m
    <3>1. TradingBars(symbol) \subseteq Nat
      BY DEF TradingBars, BookInv, TimelineInv
    <3> QED
      BY <1>1, <2>1, <2>2, <2>3, <3>1
  <2>6. f.price = SlippedPrice(timeline[f.timestamp].open, f.side)
    BY <1>5, <2>4 DEF FillOf, ThisBar
  <2>7. f.signalled < f.timestamp
    BY <1>1, <2>1, <2>2, <2>3, <2>4
  <2> QED
    BY <1>2, <2>4, <2>5, <2>6, <2>7 DEF OnItsBar
<1> QED
  BY <1>3, <1>4, <1>5

LEMMA NextOpenStep == BookInv /\ NextOpenInv /\ [Next]_vars => NextOpenInv'
<1> SUFFICES ASSUME BookInv, NextOpenInv, [Next]_vars PROVE NextOpenInv'
  OBVIOUS
<1>u. ASSUME UNCHANGED timeline
      PROVE  /\ \A s : TradingBars(s)' = TradingBars(s)
             /\ \A f : OnItsBar(f) => OnItsBar(f)'
  BY <1>u DEF TradingBars, OnItsBar
<1>t. ASSUME NEW s \in Symbols, NEW n \in DOMAIN pending[s]
      PROVE  pending[s][n] \in PendingTarget /\ Waiting(s, pending[s][n], step)
  BY DEF BookInv, Queues, NextOpenInv
<1>1. CASE SkipBar
  <2>1. /\ step' = step + 1 /\ ~TradingDay(ThisBar)
        /\ UNCHANGED <<timeline, pending, fills>>
    BY <1>1 DEF SkipBar, ThisBar
  <2>2. \A s \in Symbols : \A n \in DOMAIN pending[s] : Waiting(s, pending[s][n], step + 1)
    BY <1>t, <2>1, WaitsOn
  <2>3. \A f \in Range(fills) : OnItsBar(f)'
    BY <1>u, <2>1 DEF NextOpenInv
  <2> QED
    BY <1>u, <2>1, <2>2, <2>3 DEF NextOpenInv, Waiting
<1>2. ASSUME NEW batch \in Batches, HandleBar(batch) PROVE NextOpenInv'
  <2> DEFINE symbol == ThisBar.symbol
             queue == pending[symbol]
             queues == [pending EXCEPT ![symbol] = <<>>]
  <2>1. /\ step < Len(timeline) /\ step' = step + 1 /\ UNCHANGED timeline
        /\ TradingDay(ThisBar) /\ Executed \in State /\ fills' = Executed.fills
        /\ pending' = Enqueue(queues, batch, Executed.account.positions)
    BY <1>2, BarHandled
  <2>2. /\ step \in Nat /\ step + 1 \in DOMAIN timeline /\ GoodBar(ThisBar)
        /\ symbol \in Symbols /\ queue \in Seq(PendingTarget)
        /\ Books \in State /\ Books.fills = fills
    BY <2>1, BarFacts
  <2>3. step + 1 \in TradingBars(symbol)
    BY <2>1, <2>2 DEF TradingBars, ThisBar
  <2>4. ASSUME NEW f \in Range(fills') PROVE OnItsBar(f)
    BY <2>1, ExecutedOnTheirBar
  <2>5. ASSUME NEW s \in Symbols, NEW n \in DOMAIN pending'[s]
        PROVE  Waiting(s, pending'[s][n], step + 1)
    <3> DEFINE target == pending'[s][n]
    <3>0. queues \in Queues
      BY <2>2, QueueEmptied
    <3>1. \/ n \in DOMAIN queues[s] /\ target = queues[s][n]
          \/ target.timestamp = step + 1
      <4>1. batch \in Seq(StrategySignal) /\ Executed.account.positions \in Held
        BY <2>1, BatchesAreSignals DEF State, LowestAccount, Held
      <4> HIDE DEF queues
      <4> QED
        BY <2>1, <2>2, <3>0, <4>1, EnqueueFacts
    <3>2. CASE n \in DOMAIN queues[s] /\ target = queues[s][n]
      <4>1. s # symbol /\ n \in DOMAIN pending[s] /\ target = pending[s][n]
        BY <2>2, <3>2, QueueEmptied
      <4>3. target \in PendingTarget /\ Waiting(s, target, step)
        BY <1>t, <4>1
      <4> HIDE DEF target
      <4>4. Waiting(s, target, step + 1)
        BY <4>1, <4>3, WaitsOn
      <4> QED
        BY <4>4 DEF target
    <3>3. CASE target.timestamp = step + 1
      <4> HIDE DEF target
      <4>1. step + 1 \in Nat
        BY <2>2
      <4>2. Waiting(s, target, step + 1)
        BY <4>1, <3>3 DEF Waiting
      <4> QED
        BY <4>2 DEF target
    <3> QED
      BY <3>1, <3>2, <3>3
  <2>6. \A f \in Range(fills') : OnItsBar(f)'
    BY <1>u, <2>1, <2>4
  <2> QED
    BY <1>u, <2>1, <2>5, <2>6 DEF NextOpenInv, Waiting
<1>3. CASE RaiseAtClose
  <2>1. /\ step < Len(timeline) /\ step' = step + 1 /\ TradingDay(ThisBar)
        /\ UNCHANGED timeline /\ fills' = Executed.fills
        /\ pending' = [pending EXCEPT ![ThisBar.symbol] = <<>>]
    BY <1>3, BarRaised
  <2>2. ThisBar.symbol \in Symbols
    BY <2>1, BarFacts
  <2>3. \A f \in Range(fills') : OnItsBar(f)'
    BY <1>u, <2>1, ExecutedOnTheirBar
  <2>4. ASSUME NEW s \in Symbols, NEW n \in DOMAIN pending'[s]
        PROVE  Waiting(s, pending'[s][n], step + 1)
    <3>1. s # ThisBar.symbol /\ n \in DOMAIN pending[s] /\ pending'[s][n] = pending[s][n]
      BY <2>1, <2>2, QueueEmptied
    <3>2. Waiting(s, pending[s][n], step + 1)
      BY <1>t, <3>1, WaitsOn
    <3> QED
      BY <3>1, <3>2
  <2> QED
    BY <1>u, <2>1, <2>3, <2>4 DEF NextOpenInv, Waiting
<1>4. CASE UNCHANGED vars
  <2>1. UNCHANGED <<timeline, step, fills, pending>>
    BY <1>4 DEF vars
  <2> QED
    BY <2>1 DEF NextOpenInv, OnItsBar, Waiting, TradingBars
<1> QED
  BY <1>1, <1>2, <1>3, <1>4 DEF Next

(* A target is executed at the open of the first trading bar of its symbol *)
(* after the bar that produced it, and waits until then.                   *)
THEOREM NextOpen == Spec => []ExecutesAtNextOpen
<1>1. Init => NextOpenInv
  BY NextOpenInit
<1>2. BookInv /\ NextOpenInv /\ [Next]_vars => NextOpenInv'
  BY NextOpenStep
<1>3. BookInv /\ NextOpenInv => ExecutesAtNextOpen
  BY NextOpenSuffices
<1> QED
  BY <1>1, <1>2, <1>3, BookInvHolds, PTL DEF Spec

-----------------------------------------------------------------------------
(* Positions and attributions.                                             *)

(* What a handled bar leaves of a position.                                *)
LEMMA ClosedPositions ==
  ASSUME BookInv, Executed \in State, ThisBar.timestamp \in Int
  PROVE  \A s \in Symbols :
           LET held == Executed.account.positions[s]
               left == Closed.positions[s]
           IN  IF s \in DOMAIN Contracts /\ Contracts[s].expiry =< ThisBar.timestamp
                 THEN left.quantity = 0
                 ELSE left = held
<1> DEFINE gone == Expired(Executed.account.positions, ThisBar.timestamp)
<1>1. Executed.account \in LowestAccount
  BY DEF State
<1>2. \A s \in Symbols : Closed.positions[s] = IF s \in gone THEN Gone(Executed.account.positions[s])
                                                            ELSE Executed.account.positions[s]
  BY <1>1, ExpiryFacts DEF Closed, BookInv
<1>3. \A s \in Symbols : Gone(Executed.account.positions[s]).quantity = 0
  BY <1>1, GoneFacts DEF LowestAccount
<1> QED
  BY <1>2, <1>3 DEF Expired

LEMMA ExpiredStep == BookInv /\ ExpiredOptionsAreClosed /\ [Next]_vars => ExpiredOptionsAreClosed'
<1> SUFFICES ASSUME BookInv, ExpiredOptionsAreClosed, [Next]_vars
             PROVE  ExpiredOptionsAreClosed'
  OBVIOUS
<1>1. CASE SkipBar
  <2>1. step' = step + 1 /\ ~TradingDay(timeline[step + 1]) /\ UNCHANGED timeline
    BY <1>1 DEF SkipBar
  <2>2. ~TradingDay(timeline'[step'])
    BY <2>1
  <2> QED
    BY <2>2 DEF ExpiredOptionsAreClosed, TradingDay
<1>2. ASSUME NEW batch \in Batches, HandleBar(batch) PROVE ExpiredOptionsAreClosed'
  <2>1. /\ step < Len(timeline) /\ step' = step + 1 /\ UNCHANGED timeline
        /\ Executed \in State /\ account'.positions = Closed.positions
    BY <1>2, BarHandled
  <2>2. ThisBar.timestamp \in Int
    BY <2>1, BarFacts
  <2>3. timeline'[step'] = ThisBar
    BY <2>1 DEF ThisBar
  <2>4. ASSUME NEW s \in DOMAIN Contracts, Contracts[s].expiry =< ThisBar.timestamp
        PROVE  Closed.positions[s].quantity = 0
    BY <2>1, <2>2, <2>4, ClosedPositions, BarsAssumption
  <2> QED
    BY <2>1, <2>3, <2>4 DEF ExpiredOptionsAreClosed
<1>3. CASE RaiseAtClose
  <2>1. /\ step < Len(timeline) /\ step' = step + 1 /\ UNCHANGED timeline
        /\ ThisBar.close = 0 /\ raised' = TRUE
    BY <1>3, BarRaised
  <2>2. timeline'[step'].close = 0
    BY <2>1 DEF ThisBar
  <2> QED
    BY <2>1, <2>2 DEF ExpiredOptionsAreClosed
<1>4. CASE UNCHANGED vars
  BY <1>4 DEF vars, ExpiredOptionsAreClosed, TradingDay
<1> QED
  BY <1>1, <1>2, <1>3, <1>4 DEF Next

(* After a bar at or past a contract's expiry no position in it is left,   *)
(* unless the bar closed at nothing and ended the run.                     *)
THEOREM ExpiredAreClosed == Spec => []ExpiredOptionsAreClosed
<1>1. Init => ExpiredOptionsAreClosed
  BY DEF Init, ExpiredOptionsAreClosed
<1> QED
  BY <1>1, BookInvHolds, ExpiredStep, PTL DEF Spec

(* However many targets had queued up, the position after their bar is the *)
(* one asked for last, or none if the option expired on that bar.          *)
THEOREM LastTargetIsReached == Spec => ReachesLastTarget
<1> DEFINE Reached(bar) ==
             TradingDay(bar) /\ pending[bar.symbol] # <<>> =>
               account'.positions[bar.symbol].quantity \in
                 {Last(pending[bar.symbol]).target_quantity}
                   \cup (IF bar.symbol \in DOMAIN Contracts
                              /\ Contracts[bar.symbol].expiry =< bar.timestamp
                           THEN {0} ELSE {})
           A == step' = step + 1 => Reached(timeline[step'])
<1>1. ASSUME BookInv, Next PROVE A
  <2>1. CASE SkipBar
    BY <2>1 DEF SkipBar
  <2>2. ASSUME NEW batch \in Batches, HandleBar(batch) PROVE A
    <3> DEFINE bar == ThisBar
               queue == pending[bar.symbol]
               held == Executed.account.positions[bar.symbol]
    <3>1. /\ step < Len(timeline) /\ step' = step + 1
          /\ Executed \in State /\ account'.positions = Closed.positions
      BY <1>1, <2>2, BarHandled
    <3>2. /\ step \in Nat /\ GoodBar(bar) /\ bar.symbol \in Symbols /\ bar.timestamp \in Int
          /\ queue \in Seq(PendingTarget) /\ Books \in State
      BY <1>1, <3>1, BarFacts
    <3>3. queue # <<>> => held.quantity = Last(queue).target_quantity
      BY <3>2, ExecutionReaches DEF Executed
    <3>4. IF bar.symbol \in DOMAIN Contracts /\ Contracts[bar.symbol].expiry =< bar.timestamp
            THEN account'.positions[bar.symbol].quantity = 0
            ELSE account'.positions[bar.symbol] = held
      BY <1>1, <3>1, <3>2, ClosedPositions
    <3>5. timeline[step'] = bar
      BY <3>1 DEF ThisBar
    <3>6. Reached(bar)
      BY <3>3, <3>4
    <3> QED
      BY <3>5, <3>6
  <2>3. CASE RaiseAtClose
    <3> DEFINE bar == ThisBar
               queue == pending[bar.symbol]
    <3>1. step < Len(timeline) /\ step' = step + 1 /\ account' = Executed.account
      BY <1>1, <2>3, BarRaised
    <3>2. /\ step \in Nat /\ GoodBar(bar) /\ queue \in Seq(PendingTarget) /\ Books \in State
      BY <1>1, <3>1, BarFacts
    <3>3. queue # <<>> =>
            account'.positions[bar.symbol].quantity = Last(queue).target_quantity
      BY <3>1, <3>2, ExecutionReaches DEF Executed
    <3>4. timeline[step'] = bar
      BY <3>1 DEF ThisBar
    <3> QED
      BY <3>3, <3>4
  <2> QED
    BY <1>1, <2>1, <2>2, <2>3 DEF Next
<1>2. ASSUME BookInv, [Next]_vars PROVE [A]_vars
  BY <1>1, <1>2
<1>3. ReachesLastTarget <=> [][A]_vars
  BY DEF ReachesLastTarget
<1> HIDE DEF A
<1> QED
  BY <1>2, <1>3, BookInvHolds, PTL DEF Spec

LEMMA AttributedInit == Init => Attributed(account)
<1> SUFFICES ASSUME Init PROVE Attributed(account)
  OBVIOUS
<1>1. /\ account.realized = Whole(0)
      /\ \A s \in Symbols : account.by_instrument[s] = Whole(0)
      /\ \A c \in AssetClasses : account.by_asset_class[c] = Whole(0)
  BY NewAccountFacts DEF Init
<1>2. Whole(0) \in Lowest
  BY WholeIsLowest
<1>3. ASSUME NEW S, IsFiniteSet(S), NEW w, \A x \in S : w[x] = Whole(0)
      PROVE  SumOver(w, S) = Whole(0)
  <2>1. \A x \in S : w[x] \in Lowest
    BY <1>2, <1>3
  <2>2. SumOver(w, S) = SumOver(w, {})
    BY <1>3, <2>1, SumOverRest
  <2> QED
    BY <2>2, SumOverEmpty
<1>4. SumOver(account.by_instrument, Symbols) = Whole(0)
  BY <1>1, <1>3, FinitelyMany
<1>5. SumOver(account.by_asset_class, AssetClasses) = Whole(0)
  BY <1>1, <1>3, FinitelyMany
<1> QED
  BY <1>1, <1>4, <1>5 DEF Attributed

LEMMA AttributedStep == BookInv /\ Attributed(account) /\ [Next]_vars => Attributed(account)'
<1> SUFFICES ASSUME BookInv, Attributed(account), [Next]_vars PROVE Attributed(account)'
  OBVIOUS
<1>1. CASE SkipBar
  BY <1>1 DEF SkipBar, Attributed
<1>2. ASSUME NEW batch \in Batches, HandleBar(batch) PROVE Attributed(account)'
  <2>1. /\ step < Len(timeline) /\ Executed \in State
        /\ account'.realized = Closed.realized
        /\ account'.by_instrument = Closed.by_instrument
        /\ account'.by_asset_class = Closed.by_asset_class
    BY <1>2, BarHandled
  <2>2. /\ step \in Nat /\ GoodBar(ThisBar) /\ ThisBar.timestamp \in Int
        /\ pending[ThisBar.symbol] \in Seq(PendingTarget)
        /\ Books \in State /\ Books.account = account
    BY <2>1, BarFacts
  <2>3. Attributed(Executed.account)
    BY <2>2, ExecutionAttributes DEF Executed
  <2>4. /\ Closed.realized = Executed.account.realized
        /\ Closed.by_instrument = Executed.account.by_instrument
        /\ Closed.by_asset_class = Executed.account.by_asset_class
    <3>1. Executed.account \in LowestAccount /\ TimelineInv
      BY <2>1 DEF State, BookInv
    <3> QED
      BY <2>2, <3>1, ExpiryFacts DEF Closed
  <2> QED
    BY <2>1, <2>3, <2>4 DEF Attributed
<1>3. CASE RaiseAtClose
  <2>1. step < Len(timeline) /\ account' = Executed.account
    BY <1>3, BarRaised
  <2>2. /\ step \in Nat /\ GoodBar(ThisBar) /\ pending[ThisBar.symbol] \in Seq(PendingTarget)
        /\ Books \in State /\ Books.account = account
    BY <2>1, BarFacts
  <2>3. Attributed(Executed.account)
    BY <2>2, ExecutionAttributes DEF Executed
  <2> QED
    BY <2>1, <2>3 DEF Attributed
<1>4. CASE UNCHANGED vars
  BY <1>4 DEF vars, Attributed
<1> QED
  BY <1>1, <1>2, <1>3, <1>4 DEF Next

(* Both attributions add up to the realized profit, over trades of one     *)
(* instrument under both classes and over expirations.                     *)
THEOREM AttributionsAddUp == Spec => []AttributionExplainsRealized
<1>1. Attributed(account) => AttributionExplainsRealized
  BY DEF Attributed, AttributionExplainsRealized
<1> QED
  BY <1>1, AttributedInit, AttributedStep, BookInvHolds, PTL DEF Spec

-----------------------------------------------------------------------------
(* Money.                                                                  *)

PayWith == [sum \in Int |-> [f \in BacktestFill |-> sum + f.commission + f.fees]]

LEMMA PaidFolds ==
  ASSUME NEW executed \in Seq(BacktestFill)
  PROVE  Folded(PayWith, 0, executed, Paid(executed))
<1> DEFINE n == Len(executed)
           op == PayWith
           Eq(g) == g = [s \in SUBSET (1..n) |->
                           IF s = {} THEN 0
                           ELSE g[s \ {Max(s)}] + executed[Max(s)].commission
                                                + executed[Max(s)].fees]
           f == CHOOSE g : Eq(g)
<1>1. n \in Nat /\ DOMAIN executed = 1..n
  OBVIOUS
<1>2. op \in [Int -> [BacktestFill -> Int]]
  BY DEF PayWith, BacktestFill
<1>3. \A a \in Int, e \in BacktestFill : op[a][e] = a + e.commission + e.fees
  BY DEF PayWith
<1> HIDE DEF op
<1>4. \E g : Eq(g)
  <2> DEFINE zero == 0
  <2>z. zero \in Int /\ zero = 0
    OBVIOUS
  <2> HIDE DEF zero
  <2>1. PICK g : FoldSolution(Int, BacktestFill, op, zero, executed, g)
    BY <1>2, <2>z, FoldEquation
  <2>2. \A s \in SUBSET (1..n) :
          g[s] = IF s = {} THEN 0
                 ELSE g[s \ {Max(s)}] + executed[Max(s)].commission + executed[Max(s)].fees
    BY <1>3, <2>1, <2>z DEF FoldSolution
  <2>3. Eq(g)
    BY <2>1, <2>2 DEF FoldSolution
  <2> QED
    BY <2>3
<1>5. Paid(executed) = f[1..n]
  BY <1>1 DEF Paid, FoldLeft, MapThenFoldSet
<1>6. Eq(f)
  BY <1>4
<1> HIDE DEF f
<1>7. f[{}] = 0
  BY <1>6
<1>8. ASSUME NEW i \in 1..n, f[1..(i - 1)] \in Int
      PROVE  f[1..i] = op[f[1..(i - 1)]][executed[i]]
  <2>1. /\ 1..i # {} /\ 1..i \in SUBSET (1..n) /\ Max(1..i) = i
        /\ (1..i) \ {Max(1..i)} = 1..(i - 1)
    BY <1>1, PrefixMax
  <2>2. f[1..i] = f[1..(i - 1)] + executed[i].commission + executed[i].fees
    BY <1>6, <2>1
  <2>3. executed[i] \in BacktestFill
    OBVIOUS
  <2> QED
    BY <1>3, <1>8, <2>2, <2>3
<1>9. Folded(op, 0, executed, f[1..n])
  <2> DEFINE zero == 0
  <2>z. zero \in Int /\ f[{}] = zero
    BY <1>7
  <2> HIDE DEF zero
  <2>1. Folded(op, zero, executed, f[1..n])
    BY <1>2, <1>8, <2>z, FoldIsFolded
  <2> QED
    BY <2>1 DEF zero
<1> QED
  BY <1>5, <1>9 DEF op

LEMMA PaidType ==
  ASSUME NEW executed \in Seq(BacktestFill) PROVE Paid(executed) \in Int
<1> DEFINE n == Len(executed)
           A == [i \in 0..n |-> Int]
           zero == 0
<1>1. Folded(PayWith, zero, executed, Paid(executed))
  BY PaidFolds
<1>2. n \in Nat /\ 0 \in 0..n /\ n \in 0..n /\ \A i \in 0..n : A[i] = Int
  OBVIOUS
<1>3. \A i \in 1..n : i \in 0..n /\ i - 1 \in 0..n /\ executed[i] \in BacktestFill
  BY <1>2
<1> HIDE DEF A
<1>4. \A i \in 1..n : \A a \in A[i - 1] : PayWith[a][executed[i]] \in A[i]
  <2>1. \A a \in Int, f \in BacktestFill : PayWith[a][f] \in Int
    BY DEF PayWith, BacktestFill
  <2> QED
    BY <1>2, <1>3, <2>1
<1>5. zero \in A[0]
  BY <1>2
<1> HIDE DEF zero
<1>6. Paid(executed) \in A[n]
  BY <1>1, <1>4, <1>5, FoldedHolds
<1> QED
  BY <1>2, <1>6

LEMMA PaidAppend ==
  ASSUME NEW executed \in Seq(BacktestFill), NEW f \in BacktestFill
  PROVE  Paid(Append(executed, f)) = Paid(executed) + f.commission + f.fees
<1>1. Append(executed, f) \in Seq(BacktestFill)
  OBVIOUS
<1> DEFINE zero == 0
           before == Paid(executed)
           after == Paid(Append(executed, f))
<1>2. Folded(PayWith, zero, executed, before) /\ Folded(PayWith, zero, Append(executed, f), after)
  BY <1>1, PaidFolds
<1> HIDE DEF zero, before, after
<1>3. after = PayWith[before][f]
  BY <1>2, FoldedAppend
<1>4. before \in Int
  BY PaidType DEF before
<1>5. after = before + f.commission + f.fees
  BY <1>3, <1>4 DEF PayWith
<1> QED
  BY <1>5 DEF before, after

LEMMA NothingPaid == Paid(<<>>) = 0
<1> DEFINE zero == 0
           none == <<>>
<1>1. none \in Seq(BacktestFill)
  OBVIOUS
<1>2. Folded(PayWith, zero, <<>>, Paid(<<>>))
  BY <1>1, PaidFolds
<1> HIDE DEF zero
<1>3. Paid(<<>>) = zero
  BY <1>2, FoldedEmpty
<1> QED
  BY <1>3 DEF zero

(* An expiration and a snapshot in the identity: a is cash, t the cost of  *)
(* what is held, own the initial cash less what was paid, s the results of *)
(* expirations and r realized profit.                                      *)
LEMMA BalancedSums ==
  ASSUME NEW a \in Int, NEW own \in Int, NEW t \in Lowest, NEW s \in Lowest, NEW r \in Lowest,
         Plus(Whole(a), t) = Plus(Plus(Whole(own), s), r), NEW x \in Lowest
  PROVE  /\ Plus(Plus(Whole(a), t), x) = Plus(Plus(Whole(own), Plus(s, x)), r)
         /\ Plus(Whole(a), Plus(x, t)) = Plus(Plus(Whole(own), s), Plus(r, x))
<1>f. \A p \in Lowest : p \in Fractions
  BY DEF Lowest
<1>1. PICK D \in Nat \ {0} : \E i, j, k, l \in Int :
        Denotes(t, i, D) /\ Denotes(s, j, D) /\ Denotes(r, k, D) /\ Denotes(x, l, D)
  BY <1>f, CommonDenominator
<1>2. PICK i \in Int, j \in Int, k \in Int, l \in Int :
        Denotes(t, i, D) /\ Denotes(s, j, D) /\ Denotes(r, k, D) /\ Denotes(x, l, D)
  BY <1>1
<1> DEFINE A == a * D
           O == own * D
<1>4. A \in Int /\ O \in Int
  BY <1>1
<1>5. Denotes(Whole(a), A, D) /\ Denotes(Whole(own), O, D)
  BY <1>1, CommonWhole
<1> HIDE DEF A, O
<1>c. \A p, q, m, n : Denotes(p, m, D) /\ Denotes(q, n, D) => Denotes(Plus(p, q), m + n, D)
  BY CommonSums
<1>d. \A p, q, m : Denotes(p, m, D) /\ Denotes(q, m, D) /\ p \in Lowest /\ q \in Lowest => p = q
  BY SameValue
<1>e. \A p, q : p \in Fractions /\ q \in Fractions => Plus(p, q) \in Lowest
  <2>1. 0 \in Int
    OBVIOUS
  <2> QED
    BY <2>1, LowestClosed
<1>w. Whole(a) \in Fractions /\ Whole(own) \in Fractions
  BY <1>5 DEF Denotes
<1>6. A + i = (O + j) + k
  <2>1. Denotes(Plus(Whole(a), t), A + i, D)
    BY <1>2, <1>5, <1>c
  <2>2. Denotes(Plus(Plus(Whole(own), s), r), (O + j) + k, D)
    BY <1>2, <1>5, <1>c
  <2>3. Plus(Whole(a), t) \in Lowest
    BY <1>e, <1>f, <1>w
  <2> QED
    BY <2>1, <2>2, <2>3, SameValue
<1>7. Plus(Plus(Whole(a), t), x) = Plus(Plus(Whole(own), Plus(s, x)), r)
  <2> DEFINE p == Plus(Plus(Whole(a), t), x)
             q == Plus(Plus(Whole(own), Plus(s, x)), r)
  <2>1. Denotes(p, (A + i) + l, D) /\ Denotes(q, (O + (j + l)) + k, D)
    BY <1>2, <1>5, <1>c
  <2>2. p \in Lowest /\ q \in Lowest
    BY <1>e, <1>f, <1>w
  <2>3. (A + i) + l = (O + (j + l)) + k
    BY <1>2, <1>4, <1>6
  <2> QED
    BY <1>d, <2>1, <2>2, <2>3
<1>8. Plus(Whole(a), Plus(x, t)) = Plus(Plus(Whole(own), s), Plus(r, x))
  <2> DEFINE p == Plus(Whole(a), Plus(x, t))
             q == Plus(Plus(Whole(own), s), Plus(r, x))
  <2>1. Denotes(p, A + (l + i), D) /\ Denotes(q, (O + j) + (k + l), D)
    BY <1>2, <1>5, <1>c
  <2>2. p \in Lowest /\ q \in Lowest
    BY <1>e, <1>f, <1>w
  <2>3. A + (l + i) = (O + j) + (k + l)
    BY <1>2, <1>4, <1>6
  <2> QED
    BY <1>d, <2>1, <2>2, <2>3
<1> QED
  BY <1>7, <1>8

(* Cash and the cost of what is held are the initial cash, less what was   *)
(* paid, with the results of expirations and realized profit.              *)
Balanced(acct, executed, results) ==
    Plus(Whole(acct.cash), TotalCost(acct))
      = Plus(Plus(Whole(InitialCash - Paid(executed)), results), acct.realized)

LEMMA TotalCostType ==
  ASSUME NEW acct \in LowestAccount PROVE TotalCost(acct) \in Lowest
<1> DEFINE c == [s \in Symbols |-> Cost(acct.positions[s])]
<1>1. \A s \in Symbols : acct.positions[s] \in LowestPosition
  BY DEF LowestAccount
<1>2. \A s \in Symbols : c[s] \in Lowest
  BY <1>1, CostType
<1>3. TotalCost(acct) = SumOver(c, Symbols)
  BY DEF TotalCost
<1> HIDE DEF c
<1> QED
  BY <1>2, <1>3, FinitelyMany, SumOverType

LEMMA TradeBalances ==
  ASSUME NEW st \in State, NEW target \in PendingTarget, NEW bar, GoodBar(bar), step \in Nat,
         NEW results \in Lowest, Balanced(st.account, st.fills, results)
  PROVE  LET next == Trade(st, target, bar) IN Balanced(next.account, next.fills, results)
<1> DEFINE next == Trade(st, target, bar)
           held == st.account.positions[bar.symbol]
           delta == target.target_quantity - held.quantity
           acct == st.account
<1>1. CASE target.target_quantity = held.quantity
  BY <1>1, TradeIdle
<1>2. CASE target.target_quantity # held.quantity
  <2>1. \E fill \in BacktestFill :
          /\ next \in State /\ next.fills = Append(st.fills, fill)
          /\ delta \in Int
          /\ next.account.cash = acct.cash - delta * fill.price - (fill.commission + fill.fees)
          /\ \E profit \in Lowest :
               /\ next.account.realized = Plus(acct.realized, profit)
               /\ TotalCost(next.account) =
                    Plus(TotalCost(acct), Plus(Whole(delta * fill.price), profit))
    BY <1>2, TradeFacts, SMTT(60)
  <2>2. PICK fill \in BacktestFill, profit \in Lowest :
          /\ next \in State /\ next.fills = Append(st.fills, fill)
          /\ delta \in Int
          /\ next.account.cash = acct.cash - delta * fill.price - (fill.commission + fill.fees)
          /\ next.account.realized = Plus(acct.realized, profit)
          /\ TotalCost(next.account) =
               Plus(TotalCost(acct), Plus(Whole(delta * fill.price), profit))
    BY <2>1
  <2> DEFINE w == delta * fill.price
             costs == fill.commission + fill.fees
             own == InitialCash - Paid(st.fills)
             rest == InitialCash - Paid(next.fills)
             a == acct.cash
             b == next.account.cash
             t == TotalCost(acct)
             r == acct.realized
  <2>3. w \in Int /\ costs \in Int
    <3>1. fill.price \in Int /\ fill.commission \in Int /\ fill.fees \in Int
      BY DEF BacktestFill
    <3> HIDE DEF delta
    <3> QED
      BY <2>2, <3>1
  <2>4. /\ st.fills \in Seq(BacktestFill) /\ acct \in LowestAccount
        /\ a \in Int /\ r \in Lowest
    BY DEF State, LowestAccount
  <2>5. t \in Lowest
    BY <2>4, TotalCostType
  <2>6. own \in Int /\ rest = own - costs
    <3>1. InitialCash \in Int /\ Paid(st.fills) \in Int
      BY <2>4, PaidType, BarsAssumption
    <3>2. Paid(next.fills) = Paid(st.fills) + fill.commission + fill.fees
      BY <2>2, <2>4, PaidAppend
    <3>3. fill.commission \in Int /\ fill.fees \in Int
      BY DEF BacktestFill
    <3> QED
      BY <3>1, <3>2, <3>3
  <2>7. Plus(Whole(a), t) = Plus(Plus(Whole(own), results), r)
    BY DEF Balanced
  <2>8. /\ b = a - w - costs
        /\ next.account.realized = Plus(r, profit)
        /\ TotalCost(next.account) = Plus(t, Plus(Whole(w), profit))
    BY <2>2
  <2> HIDE DEF w, costs, own, rest, a, b, t, r, next, delta
  <2>9. Plus(Whole(b), Plus(t, Plus(Whole(w), profit)))
          = Plus(Plus(Whole(rest), results), Plus(r, profit))
    <3>f. \A p \in Lowest : p \in Fractions
      BY DEF Lowest
    <3>t. /\ own \in Int /\ a \in Int /\ w \in Int /\ costs \in Int
          /\ t \in Lowest /\ results \in Lowest /\ r \in Lowest /\ profit \in Lowest
          /\ b = a - w - costs /\ rest = own - costs
      BY <2>2, <2>3, <2>4, <2>5, <2>6, <2>8
    <3>1. PICK D \in Nat \ {0} : \E i, j, k, l \in Int :
            Denotes(t, i, D) /\ Denotes(results, j, D) /\ Denotes(r, k, D) /\ Denotes(profit, l, D)
      BY <3>f, <3>t, CommonDenominator
    <3>2. PICK i \in Int, j \in Int, k \in Int, l \in Int :
            Denotes(t, i, D) /\ Denotes(results, j, D) /\ Denotes(r, k, D) /\ Denotes(profit, l, D)
      BY <3>1
    <3> DEFINE A == a * D
               B == b * D
               W == w * D
               O == own * D
               P == rest * D
               C == costs * D
    <3>3. b \in Int /\ rest \in Int
      BY <3>t
    <3>4. /\ A \in Int /\ W \in Int /\ O \in Int /\ C \in Int
          /\ B = A - W - C /\ P = O - C /\ B \in Int /\ P \in Int
      BY <3>1, <3>t
    <3>5. /\ Denotes(Whole(a), A, D) /\ Denotes(Whole(b), B, D) /\ Denotes(Whole(w), W, D)
          /\ Denotes(Whole(own), O, D) /\ Denotes(Whole(rest), P, D)
      BY <3>1, <3>3, <3>t, CommonWhole
    <3> HIDE DEF A, B, W, O, P, C
    <3>c. \A p, q, m, n : Denotes(p, m, D) /\ Denotes(q, n, D) => Denotes(Plus(p, q), m + n, D)
      BY CommonSums
    <3>d. \A p, q, m : Denotes(p, m, D) /\ Denotes(q, m, D) /\ p \in Lowest /\ q \in Lowest => p = q
      BY SameValue
    <3>e. \A p, q : p \in Fractions /\ q \in Fractions => Plus(p, q) \in Lowest
      <4>1. 0 \in Int
        OBVIOUS
      <4> QED
        BY <4>1, LowestClosed
    <3>w. /\ Whole(a) \in Fractions /\ Whole(b) \in Fractions /\ Whole(w) \in Fractions
          /\ Whole(own) \in Fractions /\ Whole(rest) \in Fractions
      BY <3>5 DEF Denotes
    <3>6. A + i = (O + j) + k
      <4>1. Denotes(Plus(Whole(a), t), A + i, D)
        BY <3>2, <3>5, <3>c
      <4>2. Denotes(Plus(Plus(Whole(own), results), r), (O + j) + k, D)
        BY <3>2, <3>5, <3>c
      <4>3. Plus(Whole(a), t) \in Lowest
        BY <3>e, <3>f, <3>t, <3>w
      <4> QED
        BY <2>7, <4>1, <4>2, <4>3, SameValue
    <3>7. Plus(Whole(b), Plus(t, Plus(Whole(w), profit))) = Plus(Plus(Whole(rest), results), Plus(r, profit))
      <4> DEFINE p == Plus(Whole(b), Plus(t, Plus(Whole(w), profit)))
                 q == Plus(Plus(Whole(rest), results), Plus(r, profit))
      <4>1. Denotes(p, B + (i + (W + l)), D) /\ Denotes(q, (P + j) + (k + l), D)
        BY <3>2, <3>5, <3>c
      <4>2. p \in Lowest /\ q \in Lowest
        BY <3>e, <3>f, <3>t, <3>w
      <4>3. B + (i + (W + l)) = (P + j) + (k + l)
        BY <3>2, <3>4, <3>6
      <4> QED
        BY <3>d, <4>1, <4>2, <4>3
    <3> QED
      BY <3>7
  <2>10. Balanced(next.account, next.fills, results)
    BY <2>8, <2>9 DEF Balanced, b, rest
  <2> QED
    BY <2>10 DEF next
<1> QED
  BY <1>1, <1>2

LEMMA ExecutionBalances ==
  ASSUME NEW queue \in Seq(PendingTarget), NEW bar, GoodBar(bar), NEW st \in State, step \in Nat,
         NEW results \in Lowest, Balanced(st.account, st.fills, results)
  PROVE  LET after == ExecutePending(queue, bar, st) IN
           Balanced(after.account, after.fills, results)
<1> DEFINE B == {s \in State : Balanced(s.account, s.fills, results)}
<1>1. ASSUME NEW i \in 1..Len(queue), NEW s \in B PROVE Trade(s, queue[i], bar) \in B
  <2> DEFINE target == queue[i]
             next == Trade(s, target, bar)
  <2>1. target \in PendingTarget /\ s \in State /\ Balanced(s.account, s.fills, results)
    OBVIOUS
  <2> HIDE DEF target
  <2>2. next \in State
    BY <2>1, TradeType
  <2>3. Balanced(next.account, next.fills, results)
    BY <2>1, TradeBalances
  <2> HIDE DEF next
  <2>4. next \in B
    BY <2>2, <2>3
  <2> QED
    BY <2>4 DEF next, target
<1>2. B \in SUBSET State /\ st \in B
  OBVIOUS
<1>3. \A x \in B : Balanced(x.account, x.fills, results)
  OBVIOUS
<1> HIDE DEF B
<1>4. ExecutePending(queue, bar, st) \in B
  BY <1>1, <1>2, ExecutionKeeps
<1> QED
  BY <1>3, <1>4

(* What is held has had a bar, so it has a mark.                           *)
HeldHaveBars ==
    \A s \in Symbols : account.positions[s].quantity # 0 =>
      \E n \in 1..step : timeline[n].symbol = s

MoneyInv == Balanced(account, fills, settled) /\ HeldHaveBars /\ MoneyIdentity

LEMMA MoneyInit == Init => MoneyInv
<1> SUFFICES ASSUME Init PROVE MoneyInv
  OBVIOUS
<1> DEFINE zero == Whole(0)
           cash == InitialCash
           none == 0
<1>1. /\ account \in LowestAccount /\ account.cash = cash /\ cash \in Int
      /\ account.realized = zero
      /\ \A s \in Symbols : /\ account.positions[s] \in LowestPosition
                            /\ account.positions[s].quantity = 0
  BY NewAccountFacts DEF Init
<1>2. zero \in Lowest /\ Whole(cash) \in Lowest
  BY <1>1, WholeIsLowest
<1>3. Plus(Whole(cash), zero) = Whole(cash) /\ Plus(zero, zero) = zero
  BY <1>2, FractionsAreSummable DEF Summable, FractionPlus
<1>4. TotalCost(account) = zero
  <2> DEFINE c == [s \in Symbols |-> Cost(account.positions[s])]
  <2>1. \A s \in Symbols : c[s] = zero
    BY <1>1, CostType
  <2>2. TotalCost(account) = SumOver(c, Symbols)
    BY DEF TotalCost
  <2> HIDE DEF c, zero
  <2>3. SumOver(c, Symbols) = SumOver(c, {})
    BY <1>2, <2>1, FinitelyMany, SumOverRest DEF zero
  <2> QED
    BY <2>2, <2>3, SumOverEmpty DEF zero
<1>5. cash - Paid(fills) = cash
  <2>1. Paid(fills) = 0
    BY NothingPaid DEF Init
  <2> QED
    BY <1>1, <2>1
<1>6. settled = zero
  BY DEF Init
<1>7. Balanced(account, fills, settled)
  BY <1>1, <1>3, <1>4, <1>5, <1>6 DEF Balanced
<1>8. HeldHaveBars
  BY <1>1 DEF HeldHaveBars
<1>9. Whole(snapshot.equity) = Whole(cash) /\ snapshot.unrealized = zero
  <2> DEFINE marks == <<>>
             marked == {s \in DOMAIN marks : account.positions[s].quantity # 0}
             worth == [s \in marked |-> account.positions[s].quantity * marks[s]]
             gain == [s \in marked |-> Scale(account.positions[s].quantity,
                                         Minus(Whole(marks[s]), account.positions[s].average))]
  <2>1. marked = {}
    OBVIOUS
  <2>2. /\ snapshot.equity = account.cash + SumFunctionOnSet(worth, marked)
        /\ snapshot.unrealized = SumOver(gain, marked)
    BY DEF Init, Snapshot
  <2> HIDE DEF marked, worth, gain
  <2>3. SumFunctionOnSet(worth, marked) = 0 /\ SumOver(gain, marked) = zero
    BY <2>1, SumOfEmpty, SumOverEmpty
  <2>4. snapshot.equity = cash
    BY <1>1, <2>2, <2>3
  <2> QED
    BY <2>2, <2>3, <2>4
<1>10. MoneyIdentity
  BY <1>1, <1>3, <1>5, <1>6, <1>9 DEF MoneyIdentity
<1> QED
  BY <1>7, <1>8, <1>10 DEF MoneyInv

LEMMA TradedHaveBars ==
  ASSUME BookInv, HeldHaveBars, step < Len(timeline),
         NEW s \in Symbols, Executed.account.positions[s].quantity # 0
  PROVE  \E n \in 1..(step + 1) : timeline[n].symbol = s
<1>1. /\ step \in Nat /\ GoodBar(ThisBar) /\ pending[ThisBar.symbol] \in Seq(PendingTarget)
      /\ Books \in State /\ Books.account = account
  BY BarFacts
<1>2. CASE s = ThisBar.symbol
  BY <1>1, <1>2 DEF ThisBar
<1>3. CASE s # ThisBar.symbol
  <2>1. Executed.account.positions[s] = account.positions[s]
    BY <1>1, <1>3, ExecutionIsLocal DEF Executed
  <2>2. PICK n \in 1..step : timeline[n].symbol = s
    BY <2>1 DEF HeldHaveBars
  <2> QED
    BY <1>1, <2>2
<1> QED
  BY <1>2, <1>3

LEMMA MoneyStep == BookInv /\ MoneyInv /\ [Next]_vars => MoneyInv'
<1> SUFFICES ASSUME BookInv, MoneyInv, [Next]_vars PROVE MoneyInv'
  OBVIOUS
<1>1. CASE SkipBar
  <2>1. /\ step < Len(timeline) /\ step' = step + 1
        /\ UNCHANGED <<timeline, raised, account, fills, snapshot, settled>>
    BY <1>1 DEF SkipBar
  <2>2. step \in Nat
    BY StepsAreNat
  <2>3. HeldHaveBars'
    BY <2>1, <2>2 DEF MoneyInv, HeldHaveBars
  <2> QED
    BY <2>1, <2>3 DEF MoneyInv, Balanced, MoneyIdentity, TotalCost
<1>2. ASSUME NEW batch \in Batches, HandleBar(batch) PROVE MoneyInv'
  <2> DEFINE traded == Executed.account
             executed == Executed.fills
             time == ThisBar.timestamp
             e == ExpiryResult(traded.positions, time, executed)
             marks == LatestMarks(time)
  <2>1. /\ step < Len(timeline) /\ step' = step + 1 /\ UNCHANGED timeline
        /\ Executed \in State /\ fills' = executed
        /\ Contracted(traded, executed)
        /\ Closed \in LowestAccount /\ account' \in LowestAccount
        /\ account'.positions = Closed.positions /\ account'.cash = Closed.cash
        /\ account'.realized = Closed.realized
        /\ snapshot' = Snapshot(Closed, marks)
        /\ settled' = Plus(settled, e)
    BY <1>2, BarHandled
  <2>2. /\ step \in Nat /\ step + 1 \in DOMAIN timeline
        /\ GoodBar(ThisBar) /\ ThisBar.symbol \in Symbols /\ time \in Int
        /\ pending[ThisBar.symbol] \in Seq(PendingTarget)
        /\ Books \in State /\ Books.account = account /\ Books.fills = fills
    BY <2>1, BarFacts
  <2>3. /\ traded \in LowestAccount /\ executed \in Seq(BacktestFill)
        /\ settled \in Lowest /\ TimelineInv
    BY <2>1 DEF State, BookInv
  <2>4. Balanced(traded, executed, settled)
    BY <2>2, <2>3, ExecutionBalances DEF Executed, MoneyInv
  <2>5. /\ e \in Lowest /\ TotalCost(traded) \in Lowest /\ TotalCost(Closed) \in Lowest
        /\ Plus(Whole(Closed.cash), TotalCost(Closed))
             = Plus(Plus(Whole(traded.cash), TotalCost(traded)), e)
    BY <2>1, <2>2, <2>3, ExpirySettles DEF Closed
  <2>6. Closed.realized = traded.realized
    BY <2>2, <2>3, ExpiryFacts DEF Closed
  <2> DEFINE own == InitialCash - Paid(executed)
             a == traded.cash
             t == TotalCost(traded)
             r == traded.realized
             s1 == settled'
             b == Closed.cash
             t1 == TotalCost(Closed)
  <2>7. own \in Int /\ a \in Int /\ r \in Lowest /\ b \in Int
    <3>1. InitialCash \in Int /\ Paid(executed) \in Int
      BY <2>3, PaidType, BarsAssumption
    <3>2. a \in Int /\ r \in Lowest
      BY <2>3 DEF LowestAccount
    <3>3. b \in Int
      BY <2>1 DEF LowestAccount
    <3> QED
      BY <3>1, <3>2, <3>3
  <2>8. Plus(Whole(a), t) = Plus(Plus(Whole(own), settled), r)
    BY <2>4 DEF Balanced
  <2>9. Plus(Whole(b), t1) = Plus(Plus(Whole(own), s1), r)
    <3> HIDE DEF own, a, t, r, b, t1, e
    <3>1. Plus(Plus(Whole(a), t), e) = Plus(Plus(Whole(own), Plus(settled, e)), r)
      BY <2>3, <2>5, <2>7, <2>8, BalancedSums DEF t
    <3> QED
      BY <2>1, <2>5, <3>1 DEF a, t, b, t1
  <2>10. Balanced(account, fills, settled)'
    <3>1. TotalCost(account') = t1
      BY <2>1 DEF TotalCost
    <3>2. Balanced(account', fills', settled')
      BY <2>1, <2>6, <2>9, <3>1 DEF Balanced
    <3> QED
      BY <3>2 DEF Balanced, TotalCost
  <2>11. ASSUME NEW s \in Symbols, Closed.positions[s].quantity # 0
         PROVE  \E n \in 1..(step + 1) : timeline[n].symbol = s
    <3>1. traded.positions[s].quantity # 0
      BY <2>1, <2>2, <2>11, ClosedPositions
    <3> QED
      BY <2>1, <3>1, TradedHaveBars DEF MoneyInv
  <2>12. HeldHaveBars'
    BY <2>1, <2>11 DEF HeldHaveBars
  <2>13. \A s \in Symbols : Closed.positions[s].quantity # 0 => s \in DOMAIN marks
    <3>1. ASSUME NEW s \in Symbols, Closed.positions[s].quantity # 0 PROVE s \in DOMAIN marks
      <4>1. PICK n \in 1..(step + 1) : timeline[n].symbol = s
        BY <2>11, <3>1
      <4>2. n \in DOMAIN timeline /\ (n < step + 1 \/ n = step + 1)
        BY <2>2, <4>1 DEF BookInv, TimelineInv
      <4>3. timeline[n].timestamp =< time
        <5>1. CASE n < step + 1
          BY <2>2, <2>3, <4>2, <5>1 DEF TimelineInv, ThisBar
        <5>2. CASE n = step + 1
          BY <2>2, <5>2 DEF ThisBar
        <5> QED
          BY <4>2, <5>1, <5>2
      <4> QED
        BY <2>2, <2>3, <4>1, <4>2, <4>3, MarksFacts
    <3> QED
      BY <3>1
  <2>14. MoneyIdentity'
    <3> DEFINE point == Snapshot(Closed, marks)
               u == point.unrealized
               equity == point.equity
    <3>1. DOMAIN marks \subseteq Symbols /\ \A s \in DOMAIN marks : marks[s] \in Int
      BY <2>2, <2>3, MarksFacts
    <3>2. u \in Lowest /\ Whole(equity) = Plus(Whole(b), Plus(u, t1))
      <4> HIDE DEF marks
      <4> QED
        BY <2>1, <2>13, <3>1, SnapshotFacts
    <3>3. s1 \in Lowest
      <4>1. settled \in Fractions /\ e \in Fractions
        BY <2>3, <2>5 DEF Lowest
      <4> HIDE DEF e
      <4> QED
        BY <2>1, <4>1, LowestClosed
    <3>4. snapshot'.equity = equity /\ snapshot'.unrealized = u
      BY <2>1
    <3> HIDE DEF point, u, equity, own, a, t, r, s1, b, t1
    <3>5. Plus(Whole(b), Plus(u, t1)) = Plus(Plus(Whole(own), s1), Plus(r, u))
      BY <2>5, <2>7, <2>9, <3>2, <3>3, BalancedSums DEF t1
    <3> QED
      BY <2>1, <2>6, <3>2, <3>4, <3>5 DEF MoneyIdentity, own, r, s1
  <2> QED
    BY <2>10, <2>12, <2>14 DEF MoneyInv
<1>3. CASE RaiseAtClose
  <2>1. /\ step < Len(timeline) /\ step' = step + 1 /\ raised' = TRUE
        /\ UNCHANGED <<timeline, settled>> /\ Executed \in State
        /\ account' = Executed.account /\ fills' = Executed.fills
    BY <1>3, BarRaised
  <2>2. /\ step \in Nat /\ GoodBar(ThisBar) /\ pending[ThisBar.symbol] \in Seq(PendingTarget)
        /\ Books \in State /\ Books.account = account /\ Books.fills = fills
    BY <2>1, BarFacts
  <2>3. Balanced(Executed.account, Executed.fills, settled)
    BY <2>2, ExecutionBalances DEF Executed, MoneyInv, BookInv
  <2>4. Balanced(account, fills, settled)'
    BY <2>1, <2>3 DEF Balanced, TotalCost
  <2>5. \A s \in Symbols : Executed.account.positions[s].quantity # 0 =>
          \E n \in 1..(step + 1) : timeline[n].symbol = s
    BY <2>1, TradedHaveBars DEF MoneyInv
  <2>6. HeldHaveBars'
    BY <2>1, <2>5 DEF HeldHaveBars
  <2>7. MoneyIdentity'
    BY <2>1 DEF MoneyIdentity
  <2> QED
    BY <2>4, <2>6, <2>7 DEF MoneyInv
<1>4. CASE UNCHANGED vars
  BY <1>4 DEF vars, MoneyInv, HeldHaveBars, Balanced, MoneyIdentity, TotalCost
<1> QED
  BY <1>1, <1>2, <1>3, <1>4 DEF Next

(* No money is lost between fills, settlements and snapshots: every point  *)
(* of the equity curve is the initial cash, less what was paid, with       *)
(* realized and unrealized profit and the results of expirations.  A run   *)
(* that raised has no curve.                                               *)
THEOREM MoneyIsKept == Spec => []MoneyIdentity
<1>1. MoneyInv => MoneyIdentity
  BY DEF MoneyInv
<1> QED
  BY <1>1, MoneyInit, MoneyStep, BookInvHolds, PTL DEF Spec

-----------------------------------------------------------------------------
(* The two books of one stock.                                             *)

LivePosition == [quantity: Int, average: Lowest]

Lots == {o \in [held: Int, turned: BOOLEAN, prices: SUBSET Nat] : IsFiniteSet(o.prices)}

(* Some of the prices is not above the average and some not below it.      *)
Between(average, prices) ==
    \E low, high \in prices : AtMost(Whole(low), average) /\ AtMost(average, Whole(high))

(* The account's position, the live one and the lots are of one holding.   *)
Alike(p, b, o) ==
    /\ b.quantity = p.quantity /\ o.held = p.quantity
    /\ o.turned \/ b.average = p.average
    /\ p.quantity = 0 => ~o.turned
    /\ p.quantity # 0 => Between(p.average, o.prices)

LEMMA BetweenIsWithin ==
  ASSUME NEW average \in Fractions, NEW prices \in SUBSET Nat, IsFiniteSet(prices),
         Between(average, prices)
  PROVE  Within(average, prices)
<1>1. PICK low \in prices, high \in prices :
        AtMost(Whole(low), average) /\ AtMost(average, Whole(high))
  BY DEF Between
<1> DEFINE n == average[1]
           d == average[2]
           least == Min(prices)
           most == Max(prices)
<1>2. n \in Int /\ d \in Nat \ {0}
  BY DEF Fractions
<1>3. \A x : AtMost(Whole(x), average) <=> x * d =< n * 1
  BY DEF AtMost, Whole
<1>4. \A x : AtMost(average, Whole(x)) <=> n * 1 =< x * d
  BY DEF AtMost, Whole
<1>5. least \in prices /\ least =< low
  BY <1>1, MinIsLeast
<1>6. most \in prices /\ high =< most
  <2> DEFINE key == [x \in prices |-> x]
  <2>1. \A x \in prices : key[x] = x /\ key[x] \in Int
    OBVIOUS
  <2> HIDE DEF key
  <2>2. \E x \in prices : \A y \in prices : key[y] =< key[x]
    BY <1>1, <2>1, SomeGreatest
  <2>3. \E x \in prices : \A y \in prices : x >= y
    BY <2>1, <2>2
  <2>4. most \in prices /\ \A y \in prices : most >= y
    BY <2>3 DEF Max
  <2> HIDE DEF most
  <2>5. most \in Int /\ high \in Int
    BY <1>1, <2>4
  <2> QED
    BY <1>1, <2>4, <2>5
<1> HIDE DEF n, d, least, most
<1>7. least \in Int /\ most \in Int /\ low \in Int /\ high \in Int
  BY <1>1, <1>5, <1>6
<1>8. low * d =< n /\ n =< high * d
  BY <1>1, <1>2, <1>3, <1>4
<1>9. least * d =< low * d /\ high * d =< most * d
  <2>1. d * least =< d * low /\ d * high =< d * most
    BY <1>2, <1>5, <1>6, <1>7, Cancel
  <2>2. /\ d * least = least * d /\ d * low = low * d
        /\ d * high = high * d /\ d * most = most * d
    BY <1>2, <1>7
  <2> QED
    BY <2>1, <2>2
<1>10. /\ least * d \in Int /\ low * d \in Int /\ high * d \in Int /\ most * d \in Int
  BY <1>2, <1>7
<1>11. least * d =< n /\ n =< most * d
  BY <1>2, <1>8, <1>9, <1>10
<1>12. AtMost(Whole(least), average) /\ AtMost(average, Whole(most))
  BY <1>2, <1>3, <1>4, <1>11
<1> QED
  BY <1>12 DEF Within, least, most

(* A blended average lies between the old average and the new price.       *)
LEMMA BlendedIsBetween ==
  ASSUME NEW p \in LowestPosition, NEW signed \in Int, signed # 0, NEW price \in Nat,
         Opens(p, signed), NEW prices \in SUBSET Nat,
         p.quantity # 0 => Between(p.average, prices)
  PROVE  Between(Blended(p, signed, price), prices \cup {price})
<1> DEFINE q == p.quantity
           a == p.average
           held == q + signed
           average == Blended(p, signed, price)
           mq == Magnitude(q)
           ms == Magnitude(signed)
           mh == Magnitude(held)
           w == price * ms
           top == Plus(Scale(mq, a), Whole(w))
<1>1. q \in Int /\ a \in Lowest /\ a \in Fractions /\ held \in Int
  BY DEF LowestPosition, Lowest
<1>2. /\ mq \in Nat /\ ms \in Nat \ {0} /\ mh = mq + ms /\ mh \in Nat \ {0}
      /\ q = 0 => mq = 0
  BY <1>1 DEF Opens, SameDirection, Magnitude
<1>3. average = Over(top, mh)
  BY DEF Blended
<1>4. \E low, high \in prices \cup {price} :
        /\ low =< price /\ price =< high
        /\ q # 0 => AtMost(Whole(low), a) /\ AtMost(a, Whole(high))
  <2>1. CASE q = 0
    BY <2>1
  <2>2. CASE q # 0
    <3>1. PICK low \in prices, high \in prices :
            AtMost(Whole(low), a) /\ AtMost(a, Whole(high))
      BY <2>2 DEF Between
    <3> DEFINE x == IF low =< price THEN low ELSE price
               y == IF price =< high THEN high ELSE price
    <3>2. low \in Int /\ high \in Int /\ price \in Int
      BY <3>1
    <3>3. /\ x \in prices \cup {price} /\ y \in prices \cup {price}
          /\ x \in Int /\ y \in Int /\ x =< price /\ price =< y /\ x =< low /\ high =< y
      BY <3>1, <3>2
    <3>4. AtMost(Whole(x), a) /\ AtMost(a, Whole(y))
      <4> DEFINE n == a[1]
                 d == a[2]
      <4>1. n \in Int /\ d \in Nat \ {0}
        BY <1>1 DEF Fractions
      <4>2. \A z : /\ AtMost(Whole(z), a) <=> z * d =< n * 1
                   /\ AtMost(a, Whole(z)) <=> n * 1 =< z * d
        BY DEF AtMost, Whole
      <4> HIDE DEF n, d, x, y
      <4>3. low * d =< n /\ n =< high * d
        BY <3>1, <4>1, <4>2
      <4>4. d * x =< d * low /\ d * high =< d * y
        BY <3>2, <3>3, <4>1, Cancel
      <4>5. /\ d * x = x * d /\ d * low = low * d /\ d * high = high * d /\ d * y = y * d
            /\ x * d \in Int /\ low * d \in Int /\ high * d \in Int /\ y * d \in Int
        BY <3>2, <3>3, <4>1
      <4>6. x * d =< n * 1 /\ n * 1 =< y * d
        BY <4>1, <4>3, <4>4, <4>5
      <4> QED
        BY <4>2, <4>6
    <3> HIDE DEF x, y
    <3> QED
      BY <3>3, <3>4
  <2> QED
    BY <2>1, <2>2
<1>5. PICK low \in prices \cup {price}, high \in prices \cup {price} :
        /\ low =< price /\ price =< high
        /\ q # 0 => AtMost(Whole(low), a) /\ AtMost(a, Whole(high))
  BY <1>4
<1>i. low \in Int /\ high \in Int /\ price \in Int
  BY <1>5
<1> HIDE DEF average, top, mq, ms, mh, q, a, held
<1>6. PICK D \in Nat \ {0}, i \in Int : Denotes(a, i, D)
  BY <1>1, CommonDenominator
<1> DEFINE u == mq * i
           v == w * D
           m == u + v
           e == D * mh
<1>7. /\ w \in Int /\ u \in Int /\ v \in Int /\ m \in Int /\ e \in Nat \ {0}
  BY <1>2, <1>6
<1>8. Denotes(average, m, e)
  <2>1. mq \in Int /\ mh \in Int /\ mh > 0
    BY <1>2
  <2> HIDE DEF w
  <2>2. Denotes(Scale(mq, a), mq * i, D) /\ Denotes(Whole(w), w * D, D)
    BY <1>6, <1>7, <2>1, DenotedMultiples, CommonWhole
  <2>3. Denotes(top, m, D)
    BY <2>2, CommonSums DEF top
  <2> HIDE DEF m
  <2> QED
    BY <1>3, <2>1, <2>3, DenotedMultiples
<1>9. ASSUME NEW x \in Int
      PROVE  /\ x =< price /\ (q # 0 => AtMost(Whole(x), a)) => AtMost(Whole(x), average)
             /\ price =< x /\ (q # 0 => AtMost(a, Whole(x))) => AtMost(average, Whole(x))
  <2> DEFINE one == 1
             xD == x * D
             pD == price * D
  <2>1. xD \in Int /\ pD \in Int /\ one \in Nat \ {0}
    BY <1>6, <1>i
  <2>2. /\ x =< price => xD =< pD
        /\ price =< x => pD =< xD
    <3>1. D * x =< D * price <=> x =< price
      BY <1>6, <1>i, Cancel
    <3>2. D * price =< D * x <=> price =< x
      BY <1>6, <1>i, Cancel
    <3>3. D * x = xD /\ D * price = pD
      BY <1>6, <1>i
    <3> QED
      BY <3>1, <3>2, <3>3
  <2>3. Denotes(Whole(x), x, one)
    BY WholeDenotes
  <2>4. /\ AtMost(Whole(x), a) <=> x * D =< i * one
        /\ AtMost(a, Whole(x)) <=> i * one =< x * D
    <3> HIDE DEF one
    <3> QED
      BY <1>6, <2>3, DenotedOrder
  <2>5. /\ AtMost(Whole(x), average) <=> x * e =< m * one
        /\ AtMost(average, Whole(x)) <=> m * one =< x * e
    <3> HIDE DEF one, m, e
    <3> QED
      BY <1>8, <2>3, DenotedOrder
  <2>6. v = ms * pD /\ x * e = mq * xD + ms * xD
    <3>1. v = ms * pD
      BY <1>2, <1>6, <1>i DEF w
    <3>2. x * e = (x * D) * (mq + ms)
      BY <1>2, <1>6
    <3>3. xD * (mq + ms) = mq * xD + ms * xD
      <4> HIDE DEF xD
      <4> QED
        BY <1>2, <2>1
    <3> QED
      BY <3>1, <3>2, <3>3
  <2>7. i * one = i /\ m * one = u + v
    BY <1>6, <1>7
  <2> HIDE DEF one, xD, pD, u, v, e, w
  <2>8. ASSUME NEW k \in Nat, NEW y \in Int, NEW z \in Int, y =< z PROVE k * y =< k * z
    <3>1. CASE k = 0
      BY <3>1
    <3>2. CASE k # 0
      BY <2>8, <3>2, Cancel
    <3> QED
      BY <3>1, <3>2
  <2>9. ms * xD \in Int /\ ms * pD \in Int /\ mq * xD \in Int
    BY <1>2, <2>1
  <2>10. ASSUME x =< price, q # 0 => AtMost(Whole(x), a) PROVE AtMost(Whole(x), average)
    <3>1. mq * xD =< u
      <4>1. CASE q = 0
        <5>1. mq = 0
          BY <1>2, <4>1
        <5> QED
          BY <1>6, <2>1, <5>1 DEF u
      <4>2. CASE q # 0
        <5>1. xD =< i
          BY <2>4, <2>7, <2>10, <4>2 DEF xD
        <5> QED
          BY <1>2, <1>6, <2>1, <2>8, <5>1 DEF u
      <4> QED
        BY <4>1, <4>2
    <3>2. ms * xD =< ms * pD
      BY <1>2, <2>1, <2>2, <2>8, <2>10
    <3>3. x * e =< m * one
      BY <1>7, <2>6, <2>7, <2>9, <3>1, <3>2
    <3> QED
      BY <2>5, <3>3
  <2>11. ASSUME price =< x, q # 0 => AtMost(a, Whole(x)) PROVE AtMost(average, Whole(x))
    <3>1. u =< mq * xD
      <4>1. CASE q = 0
        <5>1. mq = 0
          BY <1>2, <4>1
        <5> QED
          BY <1>6, <2>1, <5>1 DEF u
      <4>2. CASE q # 0
        <5>1. i =< xD
          BY <2>4, <2>7, <2>11, <4>2 DEF xD
        <5> QED
          BY <1>2, <1>6, <2>1, <2>8, <5>1 DEF u
      <4> QED
        BY <4>1, <4>2
    <3>2. ms * pD =< ms * xD
      BY <1>2, <2>1, <2>2, <2>8, <2>11
    <3>3. m * one =< x * e
      BY <1>7, <2>6, <2>7, <2>9, <3>1, <3>2
    <3> QED
      BY <2>5, <3>3
  <2> QED
    BY <2>10, <2>11
<1>10. AtMost(Whole(low), average) /\ AtMost(average, Whole(high))
  BY <1>5, <1>9, <1>i
<1> QED
  BY <1>5, <1>10 DEF Between, average

(* Every fill takes a live position to one, and lots to lots.              *)
LEMMA ApplyFillType ==
  ASSUME NEW b \in LivePosition, NEW f \in BacktestFill
  PROVE  ApplyFill(b, f.side, f.quantity, f.price) \in LivePosition
<1> DEFINE signed == SignedFill(f.side, f.quantity)
           price == f.price
           held == b.quantity + signed
           mixed == Blended(b, signed, price)
           zero == Whole(0)
           live == ApplyFill(b, f.side, f.quantity, price)
           x == [quantity |-> b.quantity, average |-> b.average, contract |-> TRUE]
<1>1. /\ signed \in Int /\ signed # 0 /\ held \in Int /\ price \in Nat
      /\ b.quantity \in Int /\ b.average \in Lowest /\ zero \in Lowest
  BY WholeIsLowest DEF LivePosition, BacktestFill, SignedFill
<1>2. live = IF held = 0 THEN Flat
             ELSE [quantity |-> held, average |-> IF Opens(b, signed) THEN mixed ELSE b.average]
  BY DEF ApplyFill, Opens
<1>3. x \in LowestPosition /\ x.quantity = b.quantity /\ x.average = b.average
  BY <1>1 DEF LowestPosition
<1> HIDE DEF x
<1>4. Blended(x, signed, price) = mixed /\ (Opens(b, signed) => Opens(x, signed))
  BY <1>3 DEF Blended, Opens
<1> HIDE DEF mixed, live, signed, price
<1>5. Opens(b, signed) => mixed \in Lowest
  BY <1>1, <1>3, <1>4, BlendedCost
<1>6. Flat = [quantity |-> 0, average |-> zero]
  BY DEF Flat
<1> HIDE DEF zero, held
<1>7. live \in LivePosition
  BY <1>1, <1>2, <1>5, <1>6 DEF LivePosition
<1> QED
  BY <1>7 DEF live, price

LEMMA OpenedByType ==
  ASSUME NEW o \in Lots, NEW f \in BacktestFill
  PROVE  OpenedBy(o, f) \in Lots
<1> DEFINE signed == SignedFill(f.side, f.quantity)
           price == f.price
           q == o.held
           held == q + signed
           lots == OpenedBy(o, f)
           through == q # 0 /\ held # 0 /\ ~SameDirection(q, held)
           turned == held # 0 /\ (o.turned \/ through)
           prices == IF held = 0 THEN {}
                     ELSE IF through THEN {price}
                     ELSE IF q = 0 \/ SameDirection(q, held - q) THEN o.prices \cup {price}
                     ELSE o.prices
<1>1. /\ held \in Int /\ price \in Nat
      /\ o.prices \in SUBSET Nat /\ IsFiniteSet(o.prices)
  BY DEF Lots, BacktestFill, SignedFill
<1>2. lots = [held |-> held, turned |-> turned, prices |-> prices]
  BY DEF OpenedBy
<1>3. turned \in BOOLEAN
  OBVIOUS
<1>4. prices \in SUBSET Nat /\ IsFiniteSet(prices)
  <2>1. prices \in {{}, {price}, o.prices \cup {price}, o.prices}
    OBVIOUS
  <2>2. IsFiniteSet({}) /\ IsFiniteSet({} \cup {price}) /\ IsFiniteSet(o.prices \cup {price})
    BY <1>1, FS_EmptySet, FS_AddElement
  <2>3. {} \cup {price} = {price}
    OBVIOUS
  <2> HIDE DEF prices, price
  <2> QED
    BY <1>1, <2>1, <2>2, <2>3
<1> HIDE DEF lots, turned, prices, held
<1>5. lots \in Lots
  BY <1>1, <1>2, <1>3, <1>4 DEF Lots
<1> QED
  BY <1>5 DEF lots

(* A fill keeps the two positions and the lots of one holding.             *)
LEMMA FillKeepsAlike ==
  ASSUME NEW p \in LowestPosition, NEW b \in LivePosition, NEW o \in Lots, Alike(p, b, o),
         NEW f \in BacktestFill,
         NEW after, after = PositionAfter(p, SignedFill(f.side, f.quantity), f.price),
         NEW next, next.quantity = after.quantity, next.average = after.average
  PROVE  LET live == ApplyFill(b, f.side, f.quantity, f.price)
             lots == OpenedBy(o, f)
         IN  live \in LivePosition /\ lots \in Lots /\ Alike(next, live, lots)
<1> DEFINE signed == SignedFill(f.side, f.quantity)
           price == f.price
           q == p.quantity
           held == q + signed
           live == ApplyFill(b, f.side, f.quantity, price)
           lots == OpenedBy(o, f)
           through == q # 0 /\ held # 0 /\ ~SameDirection(q, held)
           blended == Blended(p, signed, price)
           mixed == Blended(b, signed, price)
           zero == Whole(0)
<1>1. /\ q \in Int /\ signed \in Int /\ signed # 0 /\ held \in Int
      /\ price \in Nat /\ price \in Int
      /\ p.average \in Lowest /\ b.average \in Lowest /\ zero \in Lowest
      /\ o.prices \in SUBSET Nat /\ IsFiniteSet(o.prices) /\ o.turned \in BOOLEAN
  BY WholeIsLowest DEF LowestPosition, LivePosition, Lots, BacktestFill, SignedFill
<1>2. b.quantity = q /\ o.held = q
  BY DEF Alike
<1>3. /\ after.quantity = held
      /\ after.average = IF Opens(p, signed) THEN blended
                         ELSE IF held = 0 THEN zero
                         ELSE IF SameDirection(q, held) THEN p.average ELSE Whole(price)
  BY DEF PositionAfter, LowestPosition
<1>4. live = IF held = 0 THEN Flat
             ELSE [quantity |-> held, average |-> IF Opens(p, signed) THEN mixed ELSE b.average]
  BY <1>2 DEF ApplyFill, Opens
<1>5. lots = [held |-> held, turned |-> held # 0 /\ (o.turned \/ through),
              prices |-> IF held = 0 THEN {}
                         ELSE IF through THEN {price}
                         ELSE IF q = 0 \/ SameDirection(q, held - q) THEN o.prices \cup {price}
                         ELSE o.prices]
  BY <1>2 DEF OpenedBy
<1>6. /\ Opens(p, signed) => held # 0 /\ ~through
      /\ Opens(p, signed) <=> (q = 0 \/ SameDirection(q, held - q))
      /\ ~Opens(p, signed) => q # 0
  BY <1>1 DEF Opens, SameDirection
<1>8. Opens(p, signed) /\ b.average = p.average => mixed = blended
  BY <1>2 DEF Blended
<1>9. live \in LivePosition /\ live.quantity = held
  <2>1. Flat.quantity = 0
    BY DEF Flat
  <2>2. live.quantity = held
    <3> HIDE DEF mixed, held
    <3> QED
      BY <1>4, <2>1
  <2>3. live \in LivePosition
    BY ApplyFillType
  <2> HIDE DEF live, held
  <2> QED
    BY <2>2, <2>3
<1>10. lots \in Lots /\ lots.held = held
  <2>1. lots \in Lots
    BY OpenedByType
  <2>2. lots.held = held
    BY <1>5
  <2> HIDE DEF lots, held
  <2> QED
    BY <2>1, <2>2
<1>t. lots.turned = (held # 0 /\ (o.turned \/ through))
  <2> DEFINE t == held # 0 /\ (o.turned \/ through)
             prices == IF held = 0 THEN {}
                       ELSE IF through THEN {price}
                       ELSE IF q = 0 \/ SameDirection(q, held - q) THEN o.prices \cup {price}
                       ELSE o.prices
  <2>1. lots = [held |-> held, turned |-> t, prices |-> prices]
    BY <1>5
  <2> HIDE DEF lots, t, prices
  <2>2. lots.turned = t
    BY <2>1
  <2> QED
    BY <2>2 DEF t
<1>11. CASE held = 0
  <2>1. ~Opens(p, signed) /\ after.average = zero /\ live = Flat
    BY <1>3, <1>4, <1>6, <1>11
  <2>2. live.average = zero
    BY <2>1 DEF Flat
  <2>4. ~lots.turned
    <3> HIDE DEF lots, through, held
    <3> QED
      BY <1>11, <1>t
  <2>3. Alike(next, live, lots)
    <3> HIDE DEF live, lots, held, zero
    <3> QED
      BY <1>3, <1>9, <1>10, <1>11, <2>1, <2>2, <2>4 DEF Alike
  <2> QED
    BY <1>9, <1>10, <2>3
<1>12. CASE held # 0
  <2>1. live.average = IF Opens(p, signed) THEN mixed ELSE b.average
    <3> DEFINE average == IF Opens(p, signed) THEN mixed ELSE b.average
    <3>1. live = [quantity |-> held, average |-> average]
      BY <1>4, <1>12
    <3> HIDE DEF live, held, average
    <3>2. live.average = average
      BY <3>1
    <3> QED
      BY <3>2 DEF average
  <2>5. lots.turned <=> o.turned \/ through
    <3> HIDE DEF lots, through, held
    <3> QED
      BY <1>12, <1>t
  <2>2. CASE Opens(p, signed)
    <3>1. lots.prices = o.prices \cup {price}
      BY <1>5, <1>6, <1>12, <2>2
    <3>2. q # 0 => Between(p.average, o.prices)
      BY DEF Alike
    <3>3. Between(blended, o.prices \cup {price})
      <4> HIDE DEF signed, price
      <4> QED
        BY <1>1, <2>2, <3>2, BlendedIsBetween
    <3>4. o.turned \/ b.average = p.average
      BY DEF Alike
    <3>5. lots.turned \/ live.average = blended
      BY <1>8, <2>1, <2>2, <2>5, <3>4
    <3>6. next.average = blended /\ next.quantity = held
      BY <1>3, <2>2
    <3> HIDE DEF live, lots, held, blended
    <3>7. Alike(next, live, lots)
      BY <1>9, <1>10, <1>12, <3>1, <3>3, <3>5, <3>6 DEF Alike
    <3> QED
      BY <1>9, <1>10, <3>7 DEF live, lots
  <2>3. CASE ~Opens(p, signed) /\ SameDirection(q, held)
    <3>1. lots.prices = o.prices /\ ~through
      BY <1>5, <1>6, <1>12, <2>3
    <3>2. Between(p.average, o.prices) /\ (o.turned \/ b.average = p.average)
      BY <1>6, <2>3 DEF Alike
    <3>3. next.average = p.average /\ next.quantity = held /\ live.average = b.average
      BY <1>3, <1>12, <2>1, <2>3
    <3> HIDE DEF live, lots, held
    <3>4. Alike(next, live, lots)
      BY <1>9, <1>10, <1>12, <2>1, <2>5, <3>1, <3>2, <3>3 DEF Alike
    <3> QED
      BY <1>9, <1>10, <3>4 DEF live, lots
  <2>4. CASE ~Opens(p, signed) /\ ~SameDirection(q, held)
    <3>1. lots.prices = {price} /\ through
      BY <1>5, <1>6, <1>12, <2>4
    <3>2. next.average = Whole(price) /\ next.quantity = held
      BY <1>3, <1>12, <2>4
    <3>3. Between(Whole(price), {price})
      BY <1>1 DEF Between, AtMost, Whole
    <3> HIDE DEF live, lots, held, price, through
    <3>4. Alike(next, live, lots)
      BY <1>9, <1>10, <1>12, <2>1, <2>5, <3>1, <3>2, <3>3 DEF Alike
    <3> QED
      BY <1>9, <1>10, <3>4 DEF live, lots, price
  <2> QED
    BY <2>2, <2>3, <2>4
<1> QED
  BY <1>11, <1>12

LiveOf(symbol, executed) ==
    FoldLeft(LAMBDA held, f : IF f.instrument_id = symbol
                                THEN ApplyFill(held, f.side, f.quantity, f.price)
                                ELSE held,
             Flat, executed)

OpenedOf(symbol, executed) ==
    FoldLeft(LAMBDA o, f : IF f.instrument_id = symbol THEN OpenedBy(o, f) ELSE o,
             NotHeld, executed)

HeardBy(s) ==
    [b \in LivePosition |-> [f \in BacktestFill |->
       IF f.instrument_id = s THEN ApplyFill(b, f.side, f.quantity, f.price) ELSE b]]

CountedFor(s) ==
    [o \in Lots |-> [f \in BacktestFill |-> IF f.instrument_id = s THEN OpenedBy(o, f) ELSE o]]

LEMMA NothingHeld ==
  /\ Flat \in LivePosition /\ Flat.quantity = 0 /\ Flat.average = Whole(0)
  /\ NotHeld \in Lots /\ NotHeld.held = 0 /\ ~NotHeld.turned
<1>1. Flat \in LivePosition /\ Flat.quantity = 0 /\ Flat.average = Whole(0)
  <2> DEFINE zero == Whole(0)
  <2>1. zero \in Lowest /\ Flat = [quantity |-> 0, average |-> zero]
    BY WholeIsLowest DEF Flat
  <2> HIDE DEF zero
  <2>2. Flat \in LivePosition /\ Flat.quantity = 0 /\ Flat.average = zero
    BY <2>1 DEF LivePosition
  <2> QED
    BY <2>2 DEF zero
<1>2. NotHeld \in Lots
  <2> DEFINE none == {}
  <2>1. none \in SUBSET Nat /\ IsFiniteSet(none)
    BY FS_EmptySet
  <2>2. NotHeld = [held |-> 0, turned |-> FALSE, prices |-> none]
    BY DEF NotHeld
  <2> HIDE DEF none
  <2> QED
    BY <2>1, <2>2 DEF Lots
<1>3. NotHeld.held = 0 /\ ~NotHeld.turned
  BY DEF NotHeld
<1> QED
  BY <1>1, <1>2, <1>3

LEMMA LiveFolds ==
  ASSUME NEW s, NEW executed \in Seq(BacktestFill)
  PROVE  Folded(HeardBy(s), Flat, executed, LiveOf(s, executed))
<1> DEFINE n == Len(executed)
           op == HeardBy(s)
           Step(b, f) == IF f.instrument_id = s
                           THEN ApplyFill(b, f.side, f.quantity, f.price) ELSE b
           Eq(g) == g = [S \in SUBSET (1..n) |->
                           IF S = {} THEN Flat ELSE Step(g[S \ {Max(S)}], executed[Max(S)])]
           f == CHOOSE g : Eq(g)
<1>1. n \in Nat /\ DOMAIN executed = 1..n /\ Flat \in LivePosition
  BY NothingHeld
<1>2. op \in [LivePosition -> [BacktestFill -> LivePosition]]
  BY ApplyFillType DEF HeardBy
<1>3. \A b \in LivePosition, e \in BacktestFill : op[b][e] = Step(b, e)
  BY DEF HeardBy
<1>5. LiveOf(s, executed) = f[1..n]
  BY <1>1 DEF LiveOf, FoldLeft, MapThenFoldSet
<1> HIDE DEF op, Step
<1>4. \E g : Eq(g)
  <2>1. PICK g : FoldSolution(LivePosition, BacktestFill, op, Flat, executed, g)
    BY <1>1, <1>2, FoldEquation
  <2>2. \A S \in SUBSET (1..n) :
          g[S] = IF S = {} THEN Flat ELSE Step(g[S \ {Max(S)}], executed[Max(S)])
    BY <1>3, <2>1 DEF FoldSolution
  <2>3. Eq(g)
    BY <2>1, <2>2 DEF FoldSolution
  <2> QED
    BY <2>3
<1>6. Eq(f)
  BY <1>4
<1> HIDE DEF f
<1>7. f[{}] = Flat
  BY <1>6
<1>8. ASSUME NEW i \in 1..n, f[1..(i - 1)] \in LivePosition
      PROVE  f[1..i] = op[f[1..(i - 1)]][executed[i]]
  <2>1. /\ 1..i # {} /\ 1..i \in SUBSET (1..n) /\ Max(1..i) = i
        /\ (1..i) \ {Max(1..i)} = 1..(i - 1)
    BY <1>1, PrefixMax
  <2>2. f[1..i] = Step(f[1..(i - 1)], executed[i])
    BY <1>6, <2>1
  <2>3. executed[i] \in BacktestFill
    OBVIOUS
  <2> QED
    BY <1>3, <1>8, <2>2, <2>3
<1>9. Folded(op, Flat, executed, f[1..n])
  BY <1>1, <1>2, <1>7, <1>8, FoldIsFolded
<1> QED
  BY <1>5, <1>9 DEF op

LEMMA OpenedFolds ==
  ASSUME NEW s, NEW executed \in Seq(BacktestFill)
  PROVE  Folded(CountedFor(s), NotHeld, executed, OpenedOf(s, executed))
<1> DEFINE n == Len(executed)
           op == CountedFor(s)
           Step(o, f) == IF f.instrument_id = s THEN OpenedBy(o, f) ELSE o
           Eq(g) == g = [S \in SUBSET (1..n) |->
                           IF S = {} THEN NotHeld ELSE Step(g[S \ {Max(S)}], executed[Max(S)])]
           f == CHOOSE g : Eq(g)
<1>1. n \in Nat /\ DOMAIN executed = 1..n /\ NotHeld \in Lots
  BY NothingHeld
<1>2. op \in [Lots -> [BacktestFill -> Lots]]
  BY OpenedByType DEF CountedFor
<1>3. \A o \in Lots, e \in BacktestFill : op[o][e] = Step(o, e)
  BY DEF CountedFor
<1>5. OpenedOf(s, executed) = f[1..n]
  BY <1>1 DEF OpenedOf, FoldLeft, MapThenFoldSet
<1> HIDE DEF op, Step
<1>4. \E g : Eq(g)
  <2>1. PICK g : FoldSolution(Lots, BacktestFill, op, NotHeld, executed, g)
    BY <1>1, <1>2, FoldEquation
  <2>2. \A S \in SUBSET (1..n) :
          g[S] = IF S = {} THEN NotHeld ELSE Step(g[S \ {Max(S)}], executed[Max(S)])
    BY <1>3, <2>1 DEF FoldSolution
  <2>3. Eq(g)
    BY <2>1, <2>2 DEF FoldSolution
  <2> QED
    BY <2>3
<1>6. Eq(f)
  BY <1>4
<1> HIDE DEF f
<1>7. f[{}] = NotHeld
  BY <1>6
<1>8. ASSUME NEW i \in 1..n, f[1..(i - 1)] \in Lots
      PROVE  f[1..i] = op[f[1..(i - 1)]][executed[i]]
  <2>1. /\ 1..i # {} /\ 1..i \in SUBSET (1..n) /\ Max(1..i) = i
        /\ (1..i) \ {Max(1..i)} = 1..(i - 1)
    BY <1>1, PrefixMax
  <2>2. f[1..i] = Step(f[1..(i - 1)], executed[i])
    BY <1>6, <2>1
  <2>3. executed[i] \in BacktestFill
    OBVIOUS
  <2> QED
    BY <1>3, <1>8, <2>2, <2>3
<1>9. Folded(op, NotHeld, executed, f[1..n])
  BY <1>1, <1>2, <1>7, <1>8, FoldIsFolded
<1> QED
  BY <1>5, <1>9 DEF op

(* One more fill, for its own stock and for the others.                    *)
LEMMA LiveOfType ==
  ASSUME NEW s, NEW executed \in Seq(BacktestFill)
  PROVE  LiveOf(s, executed) \in LivePosition
<1> DEFINE n == Len(executed)
           A == [i \in 0..n |-> LivePosition]
           op == HeardBy(s)
<1>1. Folded(op, Flat, executed, LiveOf(s, executed))
  BY LiveFolds
<1>2. \A o \in LivePosition, e \in BacktestFill : op[o][e] \in LivePosition
  BY ApplyFillType DEF HeardBy
<1> HIDE DEF op
<1>3. n \in Nat /\ 0 \in 0..n /\ n \in 0..n /\ \A i \in 0..n : A[i] = LivePosition
  OBVIOUS
<1>4. \A i \in 1..n : i \in 0..n /\ i - 1 \in 0..n /\ executed[i] \in BacktestFill
  BY <1>3
<1> HIDE DEF A
<1>5. \A i \in 1..n : \A a \in A[i - 1] : op[a][executed[i]] \in A[i]
  BY <1>2, <1>3, <1>4
<1>6. Flat \in A[0]
  BY <1>3, NothingHeld
<1>7. LiveOf(s, executed) \in A[n]
  BY <1>1, <1>5, <1>6, FoldedHolds
<1> QED
  BY <1>3, <1>7

LEMMA LiveAppend ==
  ASSUME NEW s, NEW executed \in Seq(BacktestFill), NEW f \in BacktestFill
  PROVE  LET before == LiveOf(s, executed)
             after == LiveOf(s, Append(executed, f))
         IN  /\ before \in LivePosition
             /\ f.instrument_id = s => after = ApplyFill(before, f.side, f.quantity, f.price)
             /\ f.instrument_id # s => after = before
<1> DEFINE before == LiveOf(s, executed)
           after == LiveOf(s, Append(executed, f))
           op == HeardBy(s)
<1>1. Append(executed, f) \in Seq(BacktestFill)
  OBVIOUS
<1>2. Folded(op, Flat, executed, before) /\ Folded(op, Flat, Append(executed, f), after)
  BY <1>1, LiveFolds
<1>3. \A o \in LivePosition, e \in BacktestFill :
        op[o][e] = IF e.instrument_id = s THEN ApplyFill(o, e.side, e.quantity, e.price) ELSE o
  BY DEF HeardBy
<1>5. before \in LivePosition
  BY LiveOfType
<1> HIDE DEF before, after, op
<1>4. after = op[before][f]
  BY <1>2, FoldedAppend
<1> QED
  BY <1>3, <1>4, <1>5 DEF before, after

LEMMA OpenedOfType ==
  ASSUME NEW s, NEW executed \in Seq(BacktestFill)
  PROVE  OpenedOf(s, executed) \in Lots
<1> DEFINE n == Len(executed)
           A == [i \in 0..n |-> Lots]
           op == CountedFor(s)
<1>1. Folded(op, NotHeld, executed, OpenedOf(s, executed))
  BY OpenedFolds
<1>2. \A o \in Lots, e \in BacktestFill : op[o][e] \in Lots
  BY OpenedByType DEF CountedFor
<1> HIDE DEF op
<1>3. n \in Nat /\ 0 \in 0..n /\ n \in 0..n /\ \A i \in 0..n : A[i] = Lots
  OBVIOUS
<1>4. \A i \in 1..n : i \in 0..n /\ i - 1 \in 0..n /\ executed[i] \in BacktestFill
  BY <1>3
<1> HIDE DEF A
<1>5. \A i \in 1..n : \A a \in A[i - 1] : op[a][executed[i]] \in A[i]
  BY <1>2, <1>3, <1>4
<1>6. NotHeld \in A[0]
  BY <1>3, NothingHeld
<1>7. OpenedOf(s, executed) \in A[n]
  BY <1>1, <1>5, <1>6, FoldedHolds
<1> QED
  BY <1>3, <1>7

LEMMA OpenedAppend ==
  ASSUME NEW s, NEW executed \in Seq(BacktestFill), NEW f \in BacktestFill
  PROVE  LET before == OpenedOf(s, executed)
             after == OpenedOf(s, Append(executed, f))
         IN  /\ before \in Lots
             /\ f.instrument_id = s => after = OpenedBy(before, f)
             /\ f.instrument_id # s => after = before
<1> DEFINE before == OpenedOf(s, executed)
           after == OpenedOf(s, Append(executed, f))
           op == CountedFor(s)
<1>1. Append(executed, f) \in Seq(BacktestFill)
  OBVIOUS
<1>2. Folded(op, NotHeld, executed, before) /\ Folded(op, NotHeld, Append(executed, f), after)
  BY <1>1, OpenedFolds
<1>3. \A o \in Lots, e \in BacktestFill :
        op[o][e] = IF e.instrument_id = s THEN OpenedBy(o, e) ELSE o
  BY DEF CountedFor
<1>5. before \in Lots
  BY OpenedOfType
<1> HIDE DEF before, after, op
<1>4. after = op[before][f]
  BY <1>2, FoldedAppend
<1> QED
  BY <1>3, <1>4, <1>5 DEF before, after

-----------------------------------------------------------------------------
(* The two books, of every stock.                                          *)

Related(acct, executed) ==
    \A s \in Stocks : Alike(acct.positions[s], LiveOf(s, executed), OpenedOf(s, executed))

LEMMA TradeRelates ==
  ASSUME NEW st \in State, NEW target \in PendingTarget, NEW bar, GoodBar(bar), step \in Nat,
         Related(st.account, st.fills)
  PROVE  LET next == Trade(st, target, bar) IN Related(next.account, next.fills)
<1> DEFINE next == Trade(st, target, bar)
           held == st.account.positions[bar.symbol].quantity
<1>1. CASE target.target_quantity = held
  <2>1. target.target_quantity \in Int
    BY DEF PendingTarget
  <2>2. target.target_quantity - held = 0
    BY <1>1, <2>1
  <2> QED
    BY <2>2 DEF Trade
<1>2. CASE target.target_quantity # held
  <2> DEFINE before == st.account.positions[bar.symbol]
             after == next.account.positions[bar.symbol]
             delta == target.target_quantity - before.quantity
             executed == st.fills
  <2>1. PICK f \in BacktestFill :
          /\ next.fills = Append(executed, f) /\ f.instrument_id = bar.symbol
          /\ SignedFill(f.side, f.quantity) = delta
          /\ \A s \in Symbols \ {bar.symbol} :
               next.account.positions[s] = st.account.positions[s]
          /\ LET booked == PositionAfter(before, delta, f.price) IN
               after.quantity = booked.quantity /\ after.average = booked.average
    BY <1>2, TradeFacts
  <2>2. executed \in Seq(BacktestFill) /\ \A s \in Stocks : s \in Symbols
    BY DEF State, Stocks
  <2>3. ASSUME NEW s \in Symbols PROVE st.account.positions[s] \in LowestPosition
    BY DEF State, LowestAccount
  <2> HIDE DEF next, executed, delta
  <2>4. ASSUME NEW s \in Stocks, s # bar.symbol
        PROVE  Alike(next.account.positions[s], LiveOf(s, next.fills), OpenedOf(s, next.fills))
    <3>1. LiveOf(s, next.fills) = LiveOf(s, executed)
      BY <2>1, <2>2, <2>4, LiveAppend
    <3>2. OpenedOf(s, next.fills) = OpenedOf(s, executed)
      BY <2>1, <2>2, <2>4, OpenedAppend
    <3>3. next.account.positions[s] = st.account.positions[s]
      BY <2>1, <2>2, <2>4
    <3> QED
      BY <3>1, <3>2, <3>3 DEF Related, executed
  <2>5. ASSUME NEW s \in Stocks, s = bar.symbol
        PROVE  Alike(next.account.positions[s], LiveOf(s, next.fills), OpenedOf(s, next.fills))
    <3> DEFINE b == LiveOf(s, executed)
               o == OpenedOf(s, executed)
               booked == PositionAfter(before, delta, f.price)
    <3>1. b \in LivePosition /\ LiveOf(s, next.fills) = ApplyFill(b, f.side, f.quantity, f.price)
      BY <2>1, <2>2, <2>5, LiveAppend
    <3>2. o \in Lots /\ OpenedOf(s, next.fills) = OpenedBy(o, f)
      BY <2>1, <2>2, <2>5, OpenedAppend
    <3>3. before \in LowestPosition /\ Alike(before, b, o)
      BY <2>2, <2>3, <2>5 DEF Related, executed
    <3>4. after.quantity = booked.quantity /\ after.average = booked.average
      BY <2>1
    <3>5. booked = PositionAfter(before, SignedFill(f.side, f.quantity), f.price)
      BY <2>1
    <3> HIDE DEF b, o, booked, before, after
    <3>6. Alike(after, ApplyFill(b, f.side, f.quantity, f.price), OpenedBy(o, f))
      BY <3>1, <3>2, <3>3, <3>4, <3>5, FillKeepsAlike
    <3> QED
      BY <2>5, <3>1, <3>2, <3>6 DEF after
  <2>6. Related(next.account, next.fills)
    BY <2>4, <2>5 DEF Related
  <2> QED
    BY <2>6 DEF next
<1> QED
  BY <1>1, <1>2

LEMMA ExecutionRelates ==
  ASSUME NEW queue \in Seq(PendingTarget), NEW bar, GoodBar(bar), NEW st \in State, step \in Nat,
         Related(st.account, st.fills)
  PROVE  LET after == ExecutePending(queue, bar, st) IN Related(after.account, after.fills)
<1> DEFINE B == {s \in State : Related(s.account, s.fills)}
<1>1. ASSUME NEW i \in 1..Len(queue), NEW s \in B PROVE Trade(s, queue[i], bar) \in B
  <2> DEFINE target == queue[i]
             next == Trade(s, target, bar)
  <2>1. target \in PendingTarget /\ s \in State /\ Related(s.account, s.fills)
    OBVIOUS
  <2> HIDE DEF target
  <2>2. next \in State
    BY <2>1, TradeType
  <2>3. Related(next.account, next.fills)
    BY <2>1, TradeRelates
  <2> HIDE DEF next
  <2>4. next \in B
    BY <2>2, <2>3
  <2> QED
    BY <2>4 DEF next, target
<1>2. B \in SUBSET State /\ st \in B
  OBVIOUS
<1>3. \A x \in B : Related(x.account, x.fills)
  OBVIOUS
<1> HIDE DEF B
<1>4. ExecutePending(queue, bar, st) \in B
  BY <1>1, <1>2, ExecutionKeeps
<1> QED
  BY <1>3, <1>4

LEMMA RelatedInit == Init => Related(account, fills)
<1> SUFFICES ASSUME Init PROVE Related(account, fills)
  OBVIOUS
<1>1. fills = <<>> /\ <<>> \in Seq(BacktestFill)
  BY DEF Init
<1>2. ASSUME NEW s \in Stocks PROVE Alike(account.positions[s], LiveOf(s, fills), OpenedOf(s, fills))
  <2>1. LiveOf(s, fills) = Flat
    BY <1>1, LiveFolds, FoldedEmpty
  <2>2. OpenedOf(s, fills) = NotHeld
    BY <1>1, OpenedFolds, FoldedEmpty
  <2>3. account.positions[s].quantity = 0 /\ account.positions[s].average = Whole(0)
    BY DEF Init, NewAccount, NoPosition, Stocks
  <2> QED
    BY <2>1, <2>2, <2>3, NothingHeld DEF Alike
<1> QED
  BY <1>2 DEF Related

LEMMA RelatedStep == BookInv /\ Related(account, fills) /\ [Next]_vars => Related(account, fills)'
<1> SUFFICES ASSUME BookInv, Related(account, fills), [Next]_vars PROVE Related(account, fills)'
  OBVIOUS
<1>1. CASE SkipBar
  BY <1>1 DEF SkipBar, Related
<1>2. ASSUME NEW batch \in Batches, HandleBar(batch) PROVE Related(account, fills)'
  <2>1. /\ step < Len(timeline) /\ Executed \in State /\ fills' = Executed.fills
        /\ account'.positions = Closed.positions
    BY <1>2, BarHandled
  <2>2. /\ step \in Nat /\ GoodBar(ThisBar) /\ ThisBar.timestamp \in Int
        /\ pending[ThisBar.symbol] \in Seq(PendingTarget)
        /\ Books \in State /\ Books.account = account /\ Books.fills = fills
    BY <2>1, BarFacts
  <2>3. Related(Executed.account, Executed.fills)
    BY <2>2, ExecutionRelates DEF Executed
  <2>4. ASSUME NEW s \in Stocks PROVE account'.positions[s] = Executed.account.positions[s]
    <3>1. s \in Symbols /\ s \notin DOMAIN Contracts
      BY DEF Stocks
    <3> QED
      BY <2>1, <2>2, <3>1, ClosedPositions
  <2> QED
    BY <2>1, <2>3, <2>4 DEF Related
<1>3. CASE RaiseAtClose
  <2>1. /\ step < Len(timeline) /\ account' = Executed.account /\ fills' = Executed.fills
    BY <1>3, BarRaised
  <2>2. /\ step \in Nat /\ GoodBar(ThisBar) /\ pending[ThisBar.symbol] \in Seq(PendingTarget)
        /\ Books \in State /\ Books.account = account /\ Books.fills = fills
    BY <2>1, BarFacts
  <2>3. Related(Executed.account, Executed.fills)
    BY <2>2, ExecutionRelates DEF Executed
  <2> QED
    BY <2>1, <2>3 DEF Related
<1>4. CASE UNCHANGED vars
  BY <1>4 DEF vars, Related
<1> QED
  BY <1>1, <1>2, <1>3, <1>4 DEF Next

LEMMA RelatedHolds == Spec => [](BookInv /\ Related(account, fills))
<1> QED
  BY BookInvHolds, RelatedInit, RelatedStep, PTL DEF Spec

(* The live position book and the account of the backtest, fed the same    *)
(* fills, agree on every quantity, and on the average price as long as no  *)
(* fill has carried the position through zero.                             *)
THEOREM BothBooksAgree == Spec => []BooksAgree
<1>1. \A s : LiveBook(s) = LiveOf(s, fills) /\ Opened(s) = OpenedOf(s, fills)
  BY DEF LiveBook, LiveOf, Opened, OpenedOf
<1>2. Related(account, fills) => BooksAgree
  BY <1>1 DEF Related, Alike, BooksAgree
<1> QED
  BY <1>2, RelatedHolds, PTL

(* The account's average price is between the lowest and the highest price *)
(* at which the position it holds was opened.                              *)
THEOREM AverageIsOfLots == Spec => []AccountAverageIsOfLots
<1>1. \A s : Opened(s) = OpenedOf(s, fills)
  BY DEF Opened, OpenedOf
<1>2. ASSUME BookInv, Related(account, fills), NEW s \in Stocks, account.positions[s].quantity # 0
      PROVE  Within(account.positions[s].average, Opened(s).prices)
  <2> DEFINE average == account.positions[s].average
             prices == Opened(s).prices
  <2>1. average \in Fractions
    <3>1. s \in Symbols
      BY DEF Stocks
    <3>2. account \in LowestAccount
      BY <1>2 DEF BookInv
    <3>3. account.positions[s] \in LowestPosition
      BY <3>1, <3>2 DEF LowestAccount
    <3>4. average \in Lowest
      BY <3>3 DEF LowestPosition
    <3> QED
      BY <3>4 DEF Lowest
  <2>2. Between(average, prices)
    BY <1>1, <1>2 DEF Related, Alike
  <2>3. prices \in SUBSET Nat /\ IsFiniteSet(prices)
    <3>1. OpenedOf(s, fills) \in Lots
      BY <1>2, OpenedOfType DEF BookInv
    <3> QED
      BY <1>1, <3>1 DEF Lots
  <2> HIDE DEF average, prices
  <2>4. Within(average, prices)
    BY <2>1, <2>2, <2>3, BetweenIsWithin
  <2> QED
    BY <2>4 DEF average, prices
<1>3. BookInv /\ Related(account, fills) => AccountAverageIsOfLots
  BY <1>2 DEF AccountAverageIsOfLots
<1> QED
  BY <1>3, RelatedHolds, PTL

=============================================================================
