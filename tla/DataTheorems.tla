----------------------------- MODULE DataTheorems -----------------------------
(***************************************************************************)
(* What the proofs of several components need of the data they share:      *)
(* induction, sums over finite sets, folds over sequences, fractions.      *)
(*                                                                         *)
(* The library's induction theorems take a predicate; the ones here take   *)
(* the set of what the predicate holds of, which the provers can handle.   *)
(***************************************************************************)
EXTENDS Rational, SequencesExt, FiniteSetTheorems, WellFoundedInduction, TLAPS

-----------------------------------------------------------------------------
(* Induction.                                                              *)

(* A set with 0 in it and with the successor of each of its naturals has   *)
(* them all.                                                               *)
LEMMA SetInduction ==
  ASSUME NEW A, 0 \in A, \A i \in Nat : i \in A => i + 1 \in A
  PROVE  Nat \subseteq A
<1> DEFINE R == OpToRel(<, Nat)
           T == Nat \ A
<1>1. IsWellFoundedOn(R, Nat)
  BY NatLessThanWellFounded
<1>2. SUFFICES ASSUME T # {} PROVE FALSE
  OBVIOUS
<1>r. \A x, y \in Nat : x < y => <<x, y>> \in R
  BY DEF OpToRel
<1> HIDE DEF R
<1>3. PICK n \in T : \A m \in T : ~(<<m, n>> \in R)
  BY <1>1, <1>2, WFMin
<1>4. n \in Nat /\ n # 0 /\ n - 1 \in Nat
  BY <1>3
<1>5. <<n - 1, n>> \in R
  <2>1. n - 1 < n
    BY <1>4
  <2> QED
    BY <1>r, <1>4, <2>1
<1>6. n - 1 \in A
  BY <1>3, <1>4, <1>5
<1> QED
  BY <1>3, <1>4, <1>6

(* A non-empty set of naturals has a least one.                            *)
LEMMA MinIsLeast ==
  ASSUME NEW s \in SUBSET Nat, s # {}
  PROVE  Min(s) \in s /\ \A y \in s : Min(s) =< y
<1> DEFINE A == {k \in Nat : (\E m \in s : m =< k) =>
                                \E m \in s : \A y \in s : m =< y}
<1>1. 0 \in A
  OBVIOUS
<1>2. ASSUME NEW k \in Nat, k \in A PROVE k + 1 \in A
  <2>1. CASE \E m \in s : m =< k
    BY <1>2, <2>1
  <2>2. CASE ~\E m \in s : m =< k
    <3>1. \A y \in s : y >= k + 1
      BY <2>2
    <3>2. k + 1 \in s => \E m \in s : \A y \in s : m =< y
      BY <3>1
    <3>3. (\E m \in s : m =< k + 1) => k + 1 \in s
      BY <3>1
    <3> QED
      BY <3>2, <3>3
  <2> QED
    BY <2>1, <2>2
<1> HIDE DEF A
<1>3. PICK k \in s : TRUE
  OBVIOUS
<1>4. k \in A
  BY <1>1, <1>2, SetInduction
<1>5. PICK m \in s : \A y \in s : m =< y
  BY <1>3, <1>4 DEF A
<1> QED
  BY <1>5 DEF Min

-----------------------------------------------------------------------------
(* Folds over sequences.  FoldLeft recurses on sets of positions, greatest *)
(* position first.  A fold whose operator, position by position, is a      *)
(* function from accumulated values to accumulated values exists, and on   *)
(* the prefixes of the positions it goes on by one position at a time.     *)

(* A non-empty set of numbers up to n has a greatest one.                  *)
LEMMA MaxIsGreatest ==
  ASSUME NEW n \in Nat, NEW s \in SUBSET (1..n), s # {}
  PROVE  Max(s) \in s /\ \A y \in s : y =< Max(s)
<1> DEFINE Has(k) == \A t \in SUBSET (1..k) :
                       t # {} => \E m \in t : \A y \in t : m >= y
           A == {k \in Nat : Has(k)}
<1>1. 0 \in A
  <2>1. Has(0)
    BY 1..0 = {}
  <2> QED
    BY <2>1
<1>2. ASSUME NEW k \in Nat, k \in A PROVE k + 1 \in A
  <2>1. ASSUME NEW t \in SUBSET (1..(k + 1)), t # {}
        PROVE  \E m \in t : \A y \in t : m >= y
    <3>1. CASE k + 1 \in t
      BY <3>1
    <3>2. CASE k + 1 \notin t
      <4>1. t \in SUBSET (1..k)
        BY <3>2
      <4> QED
        BY <1>2, <2>1, <4>1
    <3> QED
      BY <3>1, <3>2
  <2> QED
    BY <2>1
<1> HIDE DEF A
<1>3. n \in A
  BY <1>1, <1>2, SetInduction
<1>4. PICK m \in s : \A y \in s : m >= y
  BY <1>3 DEF A
<1>5. s \subseteq Int
  OBVIOUS
<1> QED
  BY <1>4, <1>5 DEF Max

FoldStep(op, base, g, s) ==
    IF s = {} THEN base ELSE op[Max(s)][g[s \ {Max(s)}]]

HasFold(Acc, base, n, op) ==
    \E g \in [SUBSET (1..n) -> Acc] :
      \A s \in SUBSET (1..n) : g[s] = FoldStep(op, base, g, s)

LEMMA FoldExists ==
  ASSUME NEW Acc, NEW base \in Acc, NEW n \in Nat,
         NEW op \in [1..n -> [Acc -> Acc]]
  PROVE  HasFold(Acc, base, n, op)
<1> DEFINE Good(g, k) ==
             \A s \in SUBSET (1..n) : s \subseteq 1..k => g[s] = FoldStep(op, base, g, s)
           A == {k \in Nat : \E g \in [SUBSET (1..n) -> Acc] : Good(g, k)}
<1>1. 0 \in A
  <2> DEFINE g0 == [s \in SUBSET (1..n) |-> base]
  <2>1. Good(g0, 0)
    BY DEF FoldStep
  <2>2. g0 \in [SUBSET (1..n) -> Acc]
    OBVIOUS
  <2> HIDE DEF g0
  <2> QED
    BY <2>1, <2>2
<1>2. ASSUME NEW k \in Nat, k \in A PROVE k + 1 \in A
  <2>1. PICK g \in [SUBSET (1..n) -> Acc] : Good(g, k)
    BY <1>2
  <2> DEFINE h == [s \in SUBSET (1..n) |-> FoldStep(op, base, g, s)]
  <2>m. ASSUME NEW s \in SUBSET (1..n), s # {}
        PROVE  Max(s) \in s /\ Max(s) \in 1..n /\ \A y \in s : y =< Max(s)
    BY <2>m, MaxIsGreatest
  <2>2. ASSUME NEW s \in SUBSET (1..n) PROVE FoldStep(op, base, g, s) \in Acc
    <3>1. CASE s = {}
      BY <3>1 DEF FoldStep
    <3>2. CASE s # {}
      <4>1. op[Max(s)] \in [Acc -> Acc] /\ g[s \ {Max(s)}] \in Acc
        BY <2>m, <3>2
      <4> QED
        BY <3>2, <4>1 DEF FoldStep
    <3> QED
      BY <3>1, <3>2
  <2>3. h \in [SUBSET (1..n) -> Acc]
    BY <2>2
  <2>4. ASSUME NEW s \in SUBSET (1..n), s \subseteq 1..(k + 1)
        PROVE  h[s] = FoldStep(op, base, h, s)
    <3>1. CASE s = {}
      BY <3>1 DEF FoldStep
    <3>2. CASE s # {}
      <4> DEFINE t == s \ {Max(s)}
      <4>1. t \in SUBSET (1..n) /\ t \subseteq 1..k
        <5>1. ASSUME NEW y \in t PROVE y \in 1..k
          <6>1. y \in 1..(k + 1) /\ Max(s) \in 1..(k + 1) /\ y =< Max(s) /\ y # Max(s)
            BY <2>m, <2>4, <3>2
          <6> QED
            BY <6>1
        <5> QED
          BY <5>1
      <4>2. h[t] = g[t]
        BY <2>1, <4>1
      <4> QED
        BY <3>2, <4>2 DEF FoldStep
    <3> QED
      BY <3>1, <3>2
  <2>5. Good(h, k + 1)
    BY <2>4
  <2> HIDE DEF h
  <2>6. \E f \in [SUBSET (1..n) -> Acc] : Good(f, k + 1)
    BY <2>3, <2>5
  <2> HIDE DEF Good
  <2> QED
    BY <2>6
<1> HIDE DEF A
<1>3. n \in A
  BY <1>1, <1>2, SetInduction
<1> QED
  BY <1>3 DEF A, HasFold

LEMMA PrefixMax ==
  ASSUME NEW n \in Nat, NEW i \in 1..n
  PROVE  /\ 1..i # {} /\ 1..i \in SUBSET (1..n)
         /\ Max(1..i) = i
         /\ (1..i) \ {Max(1..i)} = 1..(i - 1)
<1>1. 1..i # {} /\ 1..i \in SUBSET (1..n)
  OBVIOUS
<1>2. Max(1..i) \in 1..i /\ \A y \in 1..i : y =< Max(1..i)
  BY <1>1, MaxIsGreatest
<1>3. Max(1..i) = i
  BY <1>2
<1> QED
  BY <1>1, <1>3

(* What holds of the fold of nothing and goes from the fold of a prefix to *)
(* that of the next prefix holds of the fold: f has the folds of the       *)
(* prefixes, A what they are members of.                                   *)
LEMMA FoldInduction ==
  ASSUME NEW n \in Nat, NEW f, NEW A, f[{}] \in A[0],
         \A i \in 1..n : f[1..(i - 1)] \in A[i - 1] => f[1..i] \in A[i]
  PROVE  f[1..n] \in A[n]
<1> DEFINE P == {i \in Nat : i =< n => f[1..i] \in A[i]}
<1>1. 0 \in P
  BY 1..0 = {}
<1>2. ASSUME NEW i \in Nat, i \in P PROVE i + 1 \in P
  <2>1. CASE i + 1 =< n
    <3>1. i + 1 \in 1..n /\ (i + 1) - 1 = i
      BY <2>1
    <3>2. f[1..i] \in A[i]
      BY <1>2, <2>1
    <3>3. f[1..(i + 1)] \in A[i + 1]
      BY <3>1, <3>2
    <3> QED
      BY <3>3
  <2>2. CASE ~(i + 1 =< n)
    BY <2>2
  <2> QED
    BY <2>1, <2>2
<1> HIDE DEF P
<1>3. n \in P
  BY <1>1, <1>2, SetInduction
<1> QED
  BY <1>3 DEF P

(* The same, step by step: h has the values accumulated before the first   *)
(* element and after each.                                                 *)
Folded(op, base, q, x) ==
    \E h : /\ h[0] = base
           /\ \A i \in 1..Len(q) : h[i] = op[h[i - 1]][q[i]]
           /\ x = h[Len(q)]

LEMMA StepInduction ==
  ASSUME NEW n \in Nat, NEW h, NEW A, h[0] \in A[0],
         \A i \in 1..n : h[i - 1] \in A[i - 1] => h[i] \in A[i]
  PROVE  h[n] \in A[n]
<1> DEFINE P == {i \in Nat : i =< n => h[i] \in A[i]}
<1>1. 0 \in P
  OBVIOUS
<1>2. ASSUME NEW i \in Nat, i \in P PROVE i + 1 \in P
  <2>1. CASE i + 1 =< n
    <3>1. i + 1 \in 1..n /\ (i + 1) - 1 = i /\ h[i] \in A[i]
      BY <1>2, <2>1
    <3> QED
      BY <3>1
  <2>2. CASE ~(i + 1 =< n)
    BY <2>2
  <2> QED
    BY <2>1, <2>2
<1> HIDE DEF P
<1>3. n \in P
  BY <1>1, <1>2, SetInduction
<1> QED
  BY <1>3 DEF P

(* What holds before the first element and goes over each holds of the     *)
(* result.                                                                 *)
LEMMA FoldedHolds ==
  ASSUME NEW T, NEW q \in Seq(T), NEW op, NEW base, NEW x, Folded(op, base, q, x),
         NEW A, base \in A[0],
         \A i \in 1..Len(q) : \A a \in A[i - 1] : op[a][q[i]] \in A[i]
  PROVE  x \in A[Len(q)]
<1>1. PICK h : /\ h[0] = base
               /\ \A i \in 1..Len(q) : h[i] = op[h[i - 1]][q[i]]
               /\ x = h[Len(q)]
  BY DEF Folded
<1>2. Len(q) \in Nat
  OBVIOUS
<1>3. ASSUME NEW i \in 1..Len(q), h[i - 1] \in A[i - 1] PROVE h[i] \in A[i]
  BY <1>1, <1>3
<1>4. h[Len(q)] \in A[Len(q)]
  <2> DEFINE n == Len(q)
  <2>1. n \in Nat /\ \A i \in 1..n : h[i - 1] \in A[i - 1] => h[i] \in A[i]
    BY <1>2, <1>3
  <2> HIDE DEF n
  <2>2. h[n] \in A[n]
    BY <1>1, <2>1, StepInduction
  <2> QED
    BY <2>2 DEF n
<1> QED
  BY <1>1, <1>4

(* Folding one element more goes on from the result so far.                *)
LEMMA FoldedAppend ==
  ASSUME NEW T, NEW q \in Seq(T), NEW e \in T, NEW op, NEW base,
         NEW x, Folded(op, base, q, x), NEW y, Folded(op, base, Append(q, e), y)
  PROVE  y = op[x][e]
<1> DEFINE n == Len(q)
           r == Append(q, e)
<1>n. n \in Nat /\ Len(r) = n + 1 /\ r[n + 1] = e /\ \A i \in 1..n : r[i] = q[i]
  OBVIOUS
<1>1. PICK h : /\ h[0] = base
               /\ \A i \in 1..n : h[i] = op[h[i - 1]][q[i]]
               /\ x = h[n]
  BY DEF Folded
<1>2. PICK k : /\ k[0] = base
               /\ \A i \in 1..(n + 1) : k[i] = op[k[i - 1]][r[i]]
               /\ y = k[n + 1]
  BY <1>n DEF Folded
<1> HIDE DEF n, r
<1> DEFINE A == [i \in 0..n |-> {k[i]}]
<1>3. h[0] \in A[0]
  BY <1>n, <1>1, <1>2
<1>4. ASSUME NEW i \in 1..n, h[i - 1] \in A[i - 1] PROVE h[i] \in A[i]
  <2>1. h[i - 1] = k[i - 1]
    BY <1>n, <1>4
  <2>2. h[i] = k[i]
    BY <1>n, <1>1, <1>2, <2>1
  <2> QED
    BY <1>n, <2>2
<1>5. n \in 0..n /\ \A z : z \in A[n] => z = k[n]
  BY <1>n
<1> HIDE DEF A
<1>6. h[n] \in A[n]
  BY <1>n, <1>3, <1>4, StepInduction
<1>7. k[n + 1] = op[k[n]][e]
  BY <1>n, <1>2
<1> QED
  BY <1>1, <1>2, <1>5, <1>6, <1>7

LEMMA FoldedEmpty ==
  ASSUME NEW op, NEW base, NEW x, Folded(op, base, <<>>, x) PROVE x = base
BY DEF Folded

(* How a fold of the community modules is such a fold: the equation of the *)
(* function it is computed by has a solution, and any solution goes on     *)
(* step by step.                                                           *)
FoldSolution(Acc, T, op, base, q, g) ==
    /\ g \in [SUBSET (1..Len(q)) -> Acc]
    /\ \A s \in SUBSET (1..Len(q)) :
         /\ s # {} => Max(s) \in 1..Len(q) /\ q[Max(s)] \in T /\ g[s \ {Max(s)}] \in Acc
         /\ g[s] = IF s = {} THEN base ELSE op[g[s \ {Max(s)}]][q[Max(s)]]

LEMMA FoldEquation ==
  ASSUME NEW Acc, NEW T, NEW q \in Seq(T), NEW op \in [Acc -> [T -> Acc]], NEW base \in Acc
  PROVE  \E g : FoldSolution(Acc, T, op, base, q, g)
<1> DEFINE n == Len(q)
           move == [i \in 1..n |-> [a \in Acc |-> op[a][q[i]]]]
<1>1. n \in Nat /\ \A i \in 1..n : q[i] \in T
  OBVIOUS
<1> HIDE DEF n
<1>2. move \in [1..n -> [Acc -> Acc]]
  BY <1>1
<1>3. \A i \in 1..n, a \in Acc : move[i][a] = op[a][q[i]]
  OBVIOUS
<1> HIDE DEF move
<1>h. HasFold(Acc, base, n, move)
  BY <1>1, <1>2, FoldExists
<1>4. PICK g \in [SUBSET (1..n) -> Acc] :
        \A s \in SUBSET (1..n) : g[s] = FoldStep(move, base, g, s)
  BY <1>h DEF HasFold
<1>5. \A s \in SUBSET (1..n) : s # {} => Max(s) \in 1..n
  BY <1>1, MaxIsGreatest
<1>6. ASSUME NEW s \in SUBSET (1..n), s # {}
      PROVE  /\ Max(s) \in 1..n /\ q[Max(s)] \in T /\ g[s \ {Max(s)}] \in Acc
             /\ g[s] = op[g[s \ {Max(s)}]][q[Max(s)]]
  <2>1. Max(s) \in 1..n /\ q[Max(s)] \in T /\ s \ {Max(s)} \in SUBSET (1..n)
    BY <1>1, <1>5, <1>6
  <2>2. g[s \ {Max(s)}] \in Acc
    BY <2>1
  <2>3. g[s] = move[Max(s)][g[s \ {Max(s)}]]
    BY <1>4, <1>6 DEF FoldStep
  <2> QED
    BY <1>3, <2>1, <2>2, <2>3
<1>7. g[{}] = base
  BY <1>4 DEF FoldStep
<1>8. \A s \in SUBSET (1..n) :
        /\ s # {} => Max(s) \in 1..n /\ q[Max(s)] \in T /\ g[s \ {Max(s)}] \in Acc
        /\ g[s] = IF s = {} THEN base ELSE op[g[s \ {Max(s)}]][q[Max(s)]]
  BY <1>6, <1>7
<1>9. FoldSolution(Acc, T, op, base, q, g)
  BY <1>4, <1>8 DEF FoldSolution, n
<1> QED
  BY <1>9

LEMMA FoldIsFolded ==
  ASSUME NEW Acc, NEW T, NEW q \in Seq(T), NEW op \in [Acc -> [T -> Acc]], NEW base \in Acc,
         NEW f, f[{}] = base,
         \A i \in 1..Len(q) : f[1..(i - 1)] \in Acc => f[1..i] = op[f[1..(i - 1)]][q[i]]
  PROVE  Folded(op, base, q, f[1..Len(q)])
<1> DEFINE n == Len(q)
           h == [i \in 0..n |-> f[1..i]]
           A == [i \in 0..n |-> Acc]
<1>1. n \in Nat /\ \A i \in 1..n : q[i] \in T /\ i \in 0..n /\ i - 1 \in 0..n
  OBVIOUS
<1>2. h[0] = base
  BY 1..0 = {}
<1>3. ASSUME NEW i \in 1..n, h[i - 1] \in Acc
      PROVE  h[i] = op[h[i - 1]][q[i]] /\ h[i] \in Acc
  <2>1. h[i - 1] = f[1..(i - 1)] /\ h[i] = f[1..i]
    BY <1>1
  <2>2. h[i] = op[h[i - 1]][q[i]]
    BY <1>3, <2>1
  <2> QED
    BY <1>1, <1>3, <2>2
<1>0. h[n] = f[1..n] /\ n = Len(q)
  BY <1>1
<1> HIDE DEF h
<1>4. ASSUME NEW i \in 0..n PROVE h[i] \in Acc
  <2> HIDE DEF n
  <2> DEFINE B == [j \in 0..i |-> Acc]
  <2>1. \A j \in 0..i : B[j] = Acc
    OBVIOUS
  <2>2. i \in Nat /\ \A j \in 1..i : j \in 1..n /\ j - 1 \in 0..i /\ j \in 0..i
    BY <1>1
  <2> HIDE DEF B
  <2>3. h[0] \in B[0]
    BY <1>2, <2>1, <2>2
  <2>4. \A j \in 1..i : h[j - 1] \in B[j - 1] => h[j] \in B[j]
    BY <1>3, <2>1, <2>2
  <2>5. h[i] \in B[i]
    BY <2>2, <2>3, <2>4, StepInduction
  <2> QED
    BY <2>1, <2>2, <2>5
<1>5. \A i \in 1..n : h[i] = op[h[i - 1]][q[i]]
  BY <1>1, <1>3, <1>4
<1> HIDE DEF n
<1>6. /\ h[0] = base /\ (\A i \in 1..Len(q) : h[i] = op[h[i - 1]][q[i]])
      /\ f[1..Len(q)] = h[Len(q)]
  BY <1>0, <1>2, <1>5
<1> QED
  BY <1>6 DEF Folded

-----------------------------------------------------------------------------
(* Totals over finite sets, of integers or of fractions.  The community    *)
(* modules compute them by choosing one element after the other; the       *)
(* lemmas say that the order does not matter: the total of nothing is zero *)
(* and a new element adds its value.  The inductions are on the size of    *)
(* the set.  Adding is a function plus here, curried, with zero.           *)

Summable(M, plus, zero) ==
    /\ plus \in [M -> [M -> M]]
    /\ zero \in M
    /\ \A a, b \in M : plus[a][b] = plus[b][a]
    /\ \A a, b, c \in M : plus[plus[a][b]][c] = plus[a][plus[b][c]]
    /\ \A a \in M : plus[zero][a] = a

(* The choice the sums of the community modules make, and the equation of  *)
(* the function they are computed by.                                      *)
SomeOf(s) == CHOOSE x \in s : TRUE

TotalStep(plus, zero, w, g, s) ==
    IF s = {} THEN zero ELSE plus[w[SomeOf(s)]][g[s \ {SomeOf(s)}]]

Solves(plus, zero, w, S, g) == g = [s \in SUBSET S |-> TotalStep(plus, zero, w, g, s)]

Total(plus, zero, w, S) == (CHOOSE g : Solves(plus, zero, w, S, g))[S]

LEMMA SomeOfIsMember == ASSUME NEW s, s # {} PROVE SomeOf(s) \in s
BY DEF SomeOf

(* What the inductions on the size of a set use.                           *)
SizeFacts(s) ==
  /\ Cardinality(s) \in Nat
  /\ Cardinality(s) =< 0 => s = {}
  /\ \A x \in s, n \in Nat : Cardinality(s) =< n + 1 => Cardinality(s \ {x}) =< n

LEMMA SubsetSizes ==
  ASSUME NEW S, IsFiniteSet(S) PROVE \A s \in SUBSET S : SizeFacts(s)
<1> SUFFICES ASSUME NEW s \in SUBSET S PROVE SizeFacts(s)
  OBVIOUS
<1>1. IsFiniteSet(s) /\ Cardinality(s) \in Nat
  BY FS_Subset, FS_CardinalityType
<1>2. Cardinality(s) = 0 => s = {}
  BY <1>1, FS_EmptySet
<1>3. \A x \in s : Cardinality(s \ {x}) = Cardinality(s) - 1
  BY <1>1, FS_RemoveElement
<1> QED
  BY <1>1, <1>2, <1>3 DEF SizeFacts

(* Induction on the size of the subsets of a finite set: A is the set of   *)
(* the subsets of which something holds.                                   *)
LEMMA SubsetInduction ==
  ASSUME NEW S, IsFiniteSet(S), NEW A,
         \A s \in SUBSET S : (\A x \in s : s \ {x} \in A) => s \in A
  PROVE  SUBSET S \subseteq A
<1> DEFINE N == {n \in Nat : \A s \in SUBSET S : Cardinality(s) =< n => s \in A}
<1>c. \A s \in SUBSET S : SizeFacts(s)
  BY SubsetSizes
<1>1. 0 \in N
  BY <1>c DEF SizeFacts
<1>2. ASSUME NEW n \in Nat, n \in N PROVE n + 1 \in N
  <2>1. ASSUME NEW s \in SUBSET S, Cardinality(s) =< n + 1 PROVE s \in A
    <3>1. ASSUME NEW x \in s PROVE s \ {x} \in A
      <4>1. s \ {x} \in SUBSET S /\ Cardinality(s \ {x}) =< n
        BY <1>c, <2>1 DEF SizeFacts
      <4> QED
        BY <1>2, <4>1
    <3> QED
      BY <3>1
  <2> QED
    BY <2>1
<1> HIDE DEF N
<1>3. Nat \subseteq N
  BY <1>1, <1>2, SetInduction
<1>4. ASSUME NEW s \in SUBSET S PROVE s \in A
  <2>1. Cardinality(s) \in N /\ Cardinality(s) =< Cardinality(s)
    BY <1>3, <1>c DEF SizeFacts
  <2> QED
    BY <2>1 DEF N
<1> QED
  BY <1>4

(* A finite set that is not empty has an element of the greatest key.      *)
LEMMA SomeGreatest ==
  ASSUME NEW S, IsFiniteSet(S), S # {}, NEW key, \A x \in S : key[x] \in Int
  PROVE  \E x \in S : \A y \in S : key[y] =< key[x]
<1> DEFINE A == {s \in SUBSET S : s # {} => \E x \in s : \A y \in s : key[y] =< key[x]}
<1>1. ASSUME NEW s \in SUBSET S, \A x \in s : s \ {x} \in A PROVE s \in A
  <2>1. CASE s = {}
    BY <2>1
  <2>2. CASE s # {}
    <3>1. PICK z \in s : s \ {z} \in A
      BY <1>1, <2>2
    <3>2. key[z] \in Int
      OBVIOUS
    <3>3. CASE s \ {z} = {}
      <4>1. \A y \in s : key[y] =< key[z]
        BY <3>2, <3>3
      <4> QED
        BY <3>1, <4>1
    <3>4. CASE s \ {z} # {}
      <4>1. PICK x \in s \ {z} : \A y \in s \ {z} : key[y] =< key[x]
        BY <3>1, <3>4
      <4>2. key[x] \in Int
        OBVIOUS
      <4>3. CASE key[z] =< key[x]
        <5>1. \A y \in s : key[y] =< key[x]
          BY <4>1, <4>3
        <5> QED
          BY <5>1
      <4>4. CASE key[x] =< key[z]
        <5>1. ASSUME NEW y \in s PROVE key[y] =< key[z]
          <6>1. key[y] \in Int
            OBVIOUS
          <6> QED
            BY <3>2, <4>1, <4>2, <4>4, <6>1
        <5> QED
          BY <3>1, <5>1
      <4> QED
        BY <3>2, <4>2, <4>3, <4>4
    <3> QED
      BY <3>3, <3>4
  <2> QED
    BY <2>1, <2>2
<1> HIDE DEF A
<1>2. SUBSET S \subseteq A
  BY <1>1, SubsetInduction
<1>3. S \in A
  BY <1>2
<1> QED
  BY <1>3 DEF A

(* The equation has a solution, built for one size after another.          *)
LEMMA SolutionExists ==
  ASSUME NEW plus, NEW zero, NEW w, NEW S, IsFiniteSet(S)
  PROVE  \E g : Solves(plus, zero, w, S, g)
<1> DEFINE Step(g, s) == TotalStep(plus, zero, w, g, s)
           All(g, n) == \A s \in SUBSET S : Cardinality(s) =< n => g[s] = Step(g, s)
           A == {n \in Nat : \E g : All(g, n)}
<1>c. \A s \in SUBSET S : SizeFacts(s)
  BY SubsetSizes
<1>d. \A s \in SUBSET S : s # {} => SomeOf(s) \in s
  BY SomeOfIsMember
<1>1. 0 \in A
  <2> DEFINE g0 == [s \in SUBSET S |-> zero]
  <2>1. ASSUME NEW s \in SUBSET S, Cardinality(s) =< 0 PROVE g0[s] = Step(g0, s)
    <3>1. s = {}
      BY <1>c, <2>1 DEF SizeFacts
    <3> QED
      BY <3>1 DEF TotalStep
  <2>2. All(g0, 0)
    BY <2>1
  <2> HIDE DEF g0
  <2> QED
    BY <2>2
<1>2. ASSUME NEW n \in Nat, n \in A PROVE n + 1 \in A
  <2>1. PICK g : All(g, n)
    BY <1>2
  <2> DEFINE h == [s \in SUBSET S |-> Step(g, s)]
  <2>2. ASSUME NEW s \in SUBSET S, Cardinality(s) =< n + 1 PROVE h[s] = Step(h, s)
    <3>1. CASE s = {}
      BY <3>1 DEF TotalStep
    <3>2. CASE s # {}
      <4> DEFINE t == s \ {SomeOf(s)}
      <4>1. t \in SUBSET S /\ Cardinality(t) =< n
        BY <1>c, <1>d, <3>2, <2>2 DEF SizeFacts
      <4>2. g[t] = Step(g, t)
        BY <2>1, <4>1
      <4>3. h[t] = g[t]
        BY <4>1, <4>2
      <4> QED
        BY <3>2, <4>3 DEF TotalStep
    <3> QED
      BY <3>1, <3>2
  <2>3. All(h, n + 1)
    BY <2>2
  <2> HIDE DEF h
  <2> QED
    BY <2>3
<1> HIDE DEF A
<1>3. Nat \subseteq A
  BY <1>1, <1>2, SetInduction
<1>4. Cardinality(S) \in A
  BY <1>3, FS_CardinalityType
<1>5. PICK g : All(g, Cardinality(S))
  BY <1>4 DEF A
<1> DEFINE h == [s \in SUBSET S |-> g[s]]
<1>6. ASSUME NEW s \in SUBSET S PROVE h[s] = Step(h, s)
  <2>1. Cardinality(s) =< Cardinality(S)
    BY FS_Subset
  <2>2. g[s] = Step(g, s)
    BY <1>5, <2>1
  <2>3. Step(g, s) = Step(h, s)
    BY <1>d DEF TotalStep
  <2> QED
    BY <2>2, <2>3
<1>7. h = [s \in SUBSET S |-> TotalStep(plus, zero, w, h, s)]
  BY <1>6
<1> HIDE DEF h
<1> QED
  BY <1>7 DEF Solves

(* Solutions agree where they are both defined and have the same values.   *)
LEMMA SolutionsAgree ==
  ASSUME NEW plus, NEW zero, NEW S, IsFiniteSet(S), NEW T \in SUBSET S,
         NEW w, NEW v, \A x \in T : v[x] = w[x],
         NEW g, NEW h, Solves(plus, zero, w, S, g), Solves(plus, zero, v, T, h)
  PROVE  h[T] = g[T]
<1> DEFINE A == {s \in SUBSET T : h[s] = g[s]}
<1>1. ASSUME NEW s \in SUBSET T, \A x \in s : s \ {x} \in A PROVE s \in A
  <2>1. g[s] = TotalStep(plus, zero, w, g, s) /\ h[s] = TotalStep(plus, zero, v, h, s)
    BY DEF Solves
  <2>2. CASE s = {}
    BY <2>1, <2>2 DEF TotalStep
  <2>3. CASE s # {}
    <3>1. SomeOf(s) \in s
      BY <2>3, SomeOfIsMember
    <3>2. h[s \ {SomeOf(s)}] = g[s \ {SomeOf(s)}] /\ v[SomeOf(s)] = w[SomeOf(s)]
      BY <1>1, <3>1
    <3> QED
      BY <2>1, <2>3, <3>2 DEF TotalStep
  <2> QED
    BY <2>2, <2>3
<1>2. IsFiniteSet(T)
  BY FS_Subset
<1> HIDE DEF A
<1>3. T \in A
  BY <1>1, <1>2, SubsetInduction
<1> QED
  BY <1>3 DEF A

(* The order does not matter: any element may be taken out first.          *)
LEMMA SolutionAdds ==
  ASSUME NEW M, NEW plus, NEW zero, Summable(M, plus, zero),
         NEW S, IsFiniteSet(S), NEW w, \A x \in S : w[x] \in M,
         NEW g, Solves(plus, zero, w, S, g)
  PROVE  \A T \in SUBSET S : /\ g[T] \in M
                             /\ \A x \in T : g[T] = plus[g[T \ {x}]][w[x]]
<1> DEFINE Adds(T) == g[T] \in M /\ \A x \in T : g[T] = plus[g[T \ {x}]][w[x]]
           A == {T \in SUBSET S : Adds(T)}
<1>s. /\ zero \in M /\ \A a, b \in M : plus[a][b] \in M
      /\ \A a, b \in M : plus[a][b] = plus[b][a]
      /\ \A a, b, c \in M : plus[plus[a][b]][c] = plus[a][plus[b][c]]
  BY DEF Summable
<1>g. \A T \in SUBSET S : g[T] \in M
  <2> DEFINE B == {T \in SUBSET S : g[T] \in M}
  <2>1. ASSUME NEW T \in SUBSET S, \A x \in T : T \ {x} \in B PROVE T \in B
    <3>1. g[T] = TotalStep(plus, zero, w, g, T)
      BY DEF Solves
    <3>2. CASE T = {}
      BY <1>s, <3>1, <3>2 DEF TotalStep
    <3>3. CASE T # {}
      <4>1. SomeOf(T) \in T
        BY <3>3, SomeOfIsMember
      <4>2. g[T \ {SomeOf(T)}] \in M /\ w[SomeOf(T)] \in M
        BY <2>1, <4>1
      <4> QED
        BY <1>s, <3>1, <3>3, <4>2 DEF TotalStep
    <3> QED
      BY <3>2, <3>3
  <2> HIDE DEF B
  <2>2. SUBSET S \subseteq B
    BY <2>1, SubsetInduction
  <2> QED
    BY <2>2 DEF B
<1>1. ASSUME NEW T \in SUBSET S, \A x \in T : T \ {x} \in A PROVE T \in A
  <2>1. g[T] = TotalStep(plus, zero, w, g, T)
    BY DEF Solves
  <2>2. CASE T = {}
    BY <1>s, <2>1, <2>2 DEF TotalStep
  <2>3. CASE T # {}
    <3> DEFINE y == SomeOf(T)
    <3>0. y \in T /\ w[y] \in M
      BY <2>3, SomeOfIsMember
    <3>1. g[T] = plus[w[y]][g[T \ {y}]]
      BY <2>1, <2>3 DEF TotalStep
    <3> HIDE DEF y
    <3>2. ASSUME NEW x \in T PROVE Adds(T \ {x})
      BY <1>1, <3>2
    <3>3. g[T \ {y}] \in M /\ g[T] \in M /\ g[T] = plus[g[T \ {y}]][w[y]]
      <4> DEFINE u == g[T \ {y}]
                 b == w[y]
      <4>1. u \in M /\ g[T] \in M
        BY <1>g, <3>0
      <4>2. b \in M /\ g[T] = plus[b][u]
        BY <3>0, <3>1
      <4> HIDE DEF u, b
      <4>3. g[T] = plus[u][b]
        BY <1>s, <4>1, <4>2
      <4> QED
        BY <4>1, <4>3 DEF u, b
    <3>4. ASSUME NEW x \in T, x # y PROVE g[T] = plus[g[T \ {x}]][w[x]]
      <4> DEFINE U == (T \ {x}) \ {y}
      <4>1. U = (T \ {y}) \ {x}
        OBVIOUS
      <4>2. g[T \ {x}] = plus[g[U]][w[y]]
        BY <3>2, <3>0, <3>4
      <4>3. g[T \ {y}] = plus[g[U]][w[x]]
        BY <3>2, <3>0, <3>4, <4>1
      <4>4. w[x] \in M /\ w[y] \in M /\ g[U] \in M
        <5>1. U \in SUBSET S
          OBVIOUS
        <5> QED
          BY <1>g, <3>0, <5>1
      <4> DEFINE u == g[U]
                 a == w[x]
                 b == w[y]
      <4> HIDE DEF U, u, a, b
      <4>5. plus[plus[u][a]][b] = plus[plus[u][b]][a]
        <5>1. /\ u \in M /\ a \in M /\ b \in M
          BY <4>4 DEF u, a, b
        <5>2. /\ plus[plus[u][a]][b] = plus[u][plus[a][b]]
              /\ plus[plus[u][b]][a] = plus[u][plus[b][a]]
              /\ plus[a][b] = plus[b][a]
          BY <1>s, <5>1
        <5> QED
          BY <5>2
      <4> QED
        BY <3>3, <4>2, <4>3, <4>5 DEF u, a, b
    <3> QED
      BY <3>3, <3>4
  <2> QED
    BY <2>2, <2>3
<1> HIDE DEF A
<1>2. SUBSET S \subseteq A
  BY <1>1, SubsetInduction
<1> QED
  BY <1>2 DEF A

(* Totals.                                                                 *)
LEMMA TotalSolves ==
  ASSUME NEW plus, NEW zero, NEW w, NEW S, IsFiniteSet(S)
  PROVE  \E g : Solves(plus, zero, w, S, g) /\ Total(plus, zero, w, S) = g[S]
<1> DEFINE g == CHOOSE g : Solves(plus, zero, w, S, g)
<1>1. Solves(plus, zero, w, S, g)
  BY SolutionExists
<1> QED
  BY <1>1 DEF Total

LEMMA TotalIsSolution ==
  ASSUME NEW plus, NEW zero, NEW w, NEW S, IsFiniteSet(S),
         NEW g, Solves(plus, zero, w, S, g)
  PROVE  Total(plus, zero, w, S) = g[S]
<1>1. PICK h : Solves(plus, zero, w, S, h) /\ Total(plus, zero, w, S) = h[S]
  BY TotalSolves
<1>2. S \in SUBSET S
  OBVIOUS
<1> QED
  BY <1>1, <1>2, SolutionsAgree

LEMMA TotalOfEmpty ==
  ASSUME NEW plus, NEW zero, NEW w PROVE Total(plus, zero, w, {}) = zero
<1>1. PICK g : Solves(plus, zero, w, {}, g) /\ Total(plus, zero, w, {}) = g[{}]
  BY TotalSolves, FS_EmptySet
<1> QED
  BY <1>1 DEF Solves, TotalStep

LEMMA TotalsAgree ==
  ASSUME NEW plus, NEW zero, NEW S, IsFiniteSet(S), NEW w, NEW v, \A x \in S : v[x] = w[x]
  PROVE  Total(plus, zero, v, S) = Total(plus, zero, w, S)
<1>1. PICK g : Solves(plus, zero, w, S, g) /\ Total(plus, zero, w, S) = g[S]
  BY TotalSolves
<1>2. PICK h : Solves(plus, zero, v, S, h) /\ Total(plus, zero, v, S) = h[S]
  BY TotalSolves
<1>3. S \in SUBSET S
  OBVIOUS
<1> QED
  BY <1>1, <1>2, <1>3, SolutionsAgree

LEMMA TotalAdds ==
  ASSUME NEW M, NEW plus, NEW zero, Summable(M, plus, zero),
         NEW S, IsFiniteSet(S), NEW x, x \notin S, NEW w, \A y \in S \cup {x} : w[y] \in M
  PROVE  /\ Total(plus, zero, w, S) \in M
         /\ Total(plus, zero, w, S \cup {x}) = plus[Total(plus, zero, w, S)][w[x]]
<1> DEFINE U == S \cup {x}
<1>1. IsFiniteSet(U)
  BY FS_AddElement
<1>2. PICK g : Solves(plus, zero, w, U, g) /\ Total(plus, zero, w, U) = g[U]
  BY <1>1, TotalSolves
<1>3. PICK h : Solves(plus, zero, w, S, h) /\ Total(plus, zero, w, S) = h[S]
  BY TotalSolves
<1>4. h[S] = g[S]
  <2>1. S \in SUBSET U /\ \A y \in S : w[y] = w[y]
    OBVIOUS
  <2> QED
    BY <1>1, <1>2, <1>3, <2>1, SolutionsAgree
<1>5. g[S] \in M /\ g[U] = plus[g[S]][w[x]]
  <2>1. \A y \in U : w[y] \in M
    OBVIOUS
  <2>2. S \in SUBSET U /\ U \in SUBSET U /\ x \in U /\ U \ {x} = S
    OBVIOUS
  <2> HIDE DEF U
  <2>3. \A T \in SUBSET U : /\ g[T] \in M
                            /\ \A y \in T : g[T] = plus[g[T \ {y}]][w[y]]
    BY <1>1, <1>2, <2>1, SolutionAdds
  <2> QED
    BY <2>2, <2>3
<1> QED
  BY <1>2, <1>3, <1>4, <1>5

(* The total is in M, and what one element contributes to it may be taken  *)
(* out of it.                                                              *)
LEMMA TotalType ==
  ASSUME NEW M, NEW plus, NEW zero, Summable(M, plus, zero),
         NEW S, IsFiniteSet(S), NEW w, \A y \in S : w[y] \in M
  PROVE  /\ Total(plus, zero, w, S) \in M
         /\ \A x \in S : /\ Total(plus, zero, w, S \ {x}) \in M
                         /\ Total(plus, zero, w, S) =
                              plus[Total(plus, zero, w, S \ {x})][w[x]]
<1>1. Total(plus, zero, w, S) \in M
  <2>1. PICK g : Solves(plus, zero, w, S, g) /\ Total(plus, zero, w, S) = g[S]
    BY TotalSolves
  <2> QED
    BY <2>1, SolutionAdds
<1>2. ASSUME NEW x \in S
      PROVE  /\ Total(plus, zero, w, S \ {x}) \in M
             /\ Total(plus, zero, w, S) = plus[Total(plus, zero, w, S \ {x})][w[x]]
  <2> DEFINE T == S \ {x}
  <2>1. IsFiniteSet(T) /\ x \notin T
    BY FS_Subset
  <2>2. (\A y \in T \cup {x} : w[y] \in M) /\ T \cup {x} = S
    OBVIOUS
  <2> HIDE DEF T
  <2>t. \A y \in T \cup {x} : w[y] \in M
    BY <2>2
  <2>3. /\ Total(plus, zero, w, T) \in M
        /\ Total(plus, zero, w, T \cup {x}) = plus[Total(plus, zero, w, T)][w[x]]
    BY <2>1, <2>t, TotalAdds, SMTT(20)
  <2> QED
    BY <2>2, <2>3 DEF T
<1> QED
  BY <1>1, <1>2

(* What is worth nothing may be left out.                                  *)
LEMMA TotalOfRest ==
  ASSUME NEW M, NEW plus, NEW zero, Summable(M, plus, zero),
         NEW S, IsFiniteSet(S), NEW w, \A y \in S : w[y] \in M,
         NEW T \in SUBSET S, \A y \in S \ T : w[y] = zero
  PROVE  Total(plus, zero, w, S) = Total(plus, zero, w, T)
<1> DEFINE A == {s \in SUBSET S : Total(plus, zero, w, s) = Total(plus, zero, w, s \cap T)}
<1>1. ASSUME NEW s \in SUBSET S, \A x \in s : s \ {x} \in A PROVE s \in A
  <2>f. IsFiniteSet(s) /\ IsFiniteSet(s \cap T)
    BY FS_Subset
  <2>1. CASE \E x \in s : x \notin T
    <3>1. PICK x \in s : x \notin T
      BY <2>1
    <3>2. /\ Total(plus, zero, w, s \ {x}) \in M
          /\ Total(plus, zero, w, s) = plus[Total(plus, zero, w, s \ {x})][w[x]]
      BY <2>f, TotalType
    <3>3. w[x] = zero /\ Total(plus, zero, w, s) = Total(plus, zero, w, s \ {x})
      BY <3>1, <3>2 DEF Summable
    <3>4. (s \ {x}) \cap T = s \cap T
      BY <3>1
    <3> QED
      BY <1>1, <3>3, <3>4
  <2>2. CASE ~\E x \in s : x \notin T
    <3>1. s \cap T = s
      BY <2>2
    <3> QED
      BY <3>1
  <2> QED
    BY <2>1, <2>2
<1> HIDE DEF A
<1>2. SUBSET S \subseteq A
  BY <1>1, SubsetInduction
<1>3. S \in A /\ S \cap T = T
  BY <1>2
<1> QED
  BY <1>3 DEF A

(* Sums of integers.                                                       *)
IntegerPlus == [a \in Int |-> [b \in Int |-> a + b]]

LEMMA IntegersAreSummable == Summable(Int, IntegerPlus, 0)
BY DEF Summable, IntegerPlus

(* A function that solves the equation of the integers solves the one of   *)
(* the community module.                                                   *)
LEMMA SumIsTotal ==
  ASSUME NEW w, NEW S, IsFiniteSet(S), \A x \in S : w[x] \in Int
  PROVE  SumFunctionOnSet(w, S) = Total(IntegerPlus, 0, w, S)
<1> DEFINE zero == 0
           Eq(g) == g = [s \in SUBSET S |->
                           IF s = {} THEN 0 ELSE w[SomeOf(s)] + g[s \ {SomeOf(s)}]]
           f == CHOOSE g : Eq(g)
<1>s. Summable(Int, IntegerPlus, zero)
  BY IntegersAreSummable
<1>1. \A g : (\A s \in SUBSET S : g[s] \in Int) =>
               (Eq(g) <=> Solves(IntegerPlus, zero, w, S, g))
  <2> SUFFICES ASSUME NEW g, \A s \in SUBSET S : g[s] \in Int
               PROVE  Eq(g) <=> Solves(IntegerPlus, zero, w, S, g)
    OBVIOUS
  <2>1. ASSUME NEW s \in SUBSET S
        PROVE  (IF s = {} THEN 0 ELSE w[SomeOf(s)] + g[s \ {SomeOf(s)}])
                 = TotalStep(IntegerPlus, zero, w, g, s)
    <3>1. CASE s = {}
      BY <3>1 DEF TotalStep
    <3>2. CASE s # {}
      <4>1. w[SomeOf(s)] \in Int /\ g[s \ {SomeOf(s)}] \in Int
        BY <3>2, SomeOfIsMember
      <4> QED
        BY <3>2, <4>1 DEF TotalStep, IntegerPlus
    <3> QED
      BY <3>1, <3>2
  <2> QED
    BY <2>1 DEF Solves
<1> HIDE DEF zero
<1>2. PICK h : Solves(IntegerPlus, zero, w, S, h)
  BY SolutionExists
<1>3. \A s \in SUBSET S : h[s] \in Int
  BY <1>s, <1>2, SolutionAdds
<1>4. Eq(f)
  BY <1>1, <1>2, <1>3
<1>5. SumFunctionOnSet(w, S) = f[S]
  BY DEF SumFunctionOnSet, FoldFunctionOnSet, MapThenFoldSet, SomeOf
<1> HIDE DEF f
<1>6. \A s \in SUBSET S : f[s] \in Int
  <2> DEFINE B == {T \in SUBSET S : f[T] \in Int}
  <2>1. ASSUME NEW T \in SUBSET S, \A x \in T : T \ {x} \in B PROVE T \in B
    <3>1. CASE T = {}
      BY <1>4, <3>1
    <3>2. CASE T # {}
      <4>1. SomeOf(T) \in T
        BY <3>2, SomeOfIsMember
      <4>2. f[T \ {SomeOf(T)}] \in Int /\ w[SomeOf(T)] \in Int
        BY <2>1, <4>1
      <4>3. f[T] = w[SomeOf(T)] + f[T \ {SomeOf(T)}]
        BY <1>4, <3>2
      <4> QED
        BY <4>2, <4>3
    <3> QED
      BY <3>1, <3>2
  <2> HIDE DEF B
  <2>2. SUBSET S \subseteq B
    BY <2>1, SubsetInduction
  <2> QED
    BY <2>2 DEF B
<1>7. Solves(IntegerPlus, zero, w, S, f)
  BY <1>1, <1>4, <1>6
<1>8. Total(IntegerPlus, zero, w, S) = f[S]
  BY <1>7, TotalIsSolution
<1> QED
  BY <1>5, <1>8 DEF zero

LEMMA SumOfEmpty ==
  ASSUME NEW w PROVE SumFunctionOnSet(w, {}) = 0
<1>1. SumFunctionOnSet(w, {}) = Total(IntegerPlus, 0, w, {})
  BY SumIsTotal, FS_EmptySet
<1> QED
  BY <1>1, TotalOfEmpty

(* The sum over a finite set is an integer, and a new element adds its     *)
(* value.                                                                  *)
LEMMA SumAdds ==
  ASSUME NEW S, IsFiniteSet(S), NEW x, x \notin S, NEW w,
         \A y \in S \cup {x} : w[y] \in Int
  PROVE  /\ SumFunctionOnSet(w, S) \in Int
         /\ SumFunctionOnSet(w, S \cup {x}) = SumFunctionOnSet(w, S) + w[x]
<1> DEFINE zero == 0
<1>1. Summable(Int, IntegerPlus, zero)
  BY IntegersAreSummable
<1>2. IsFiniteSet(S \cup {x})
  BY FS_AddElement
<1>3. /\ SumFunctionOnSet(w, S) = Total(IntegerPlus, zero, w, S)
      /\ SumFunctionOnSet(w, S \cup {x}) = Total(IntegerPlus, zero, w, S \cup {x})
  BY <1>2, SumIsTotal
<1> HIDE DEF zero
<1>4. /\ Total(IntegerPlus, zero, w, S) \in Int
      /\ Total(IntegerPlus, zero, w, S \cup {x})
           = IntegerPlus[Total(IntegerPlus, zero, w, S)][w[x]]
  BY <1>1, TotalAdds
<1> QED
  BY <1>3, <1>4 DEF IntegerPlus

-----------------------------------------------------------------------------
(* Fractions.                                                              *)

(* The denominator of n/d is the least k that makes n*k a multiple of d.   *)
LEMMA LeastDenominator ==
  ASSUME NEW n \in Int, NEW d \in Nat \ {0}
  PROVE  LET k == Denominator(n, d) IN
         /\ k \in 1..d /\ Fraction(n, d) = <<(n * k) \div d, k>>
         /\ (n * k) \div d \in Int /\ n * k = d * ((n * k) \div d)
         /\ \A j \in 1..(k - 1) : (n * j) % d # 0
<1> DEFINE Exact == {k \in 1..d : (n * k) % d = 0}
           k == Denominator(n, d)
<1>1. d \in Exact
  OBVIOUS
<1>2. \E m \in Exact : \A j \in 1..(m - 1) : (n * j) % d # 0
  <2> DEFINE A == {i \in Nat : i >= d \/ \A j \in 1..i : (n * j) % d # 0}
  <2>1. SUFFICES ASSUME \A m \in Exact : \E j \in 1..(m - 1) : (n * j) % d = 0
                 PROVE  FALSE
    OBVIOUS
  <2>2. 0 \in A
    OBVIOUS
  <2>3. ASSUME NEW i \in Nat, i \in A PROVE i + 1 \in A
    <3>1. CASE i >= d \/ i + 1 >= d
      BY <3>1
    <3>2. CASE i + 1 < d /\ (n * (i + 1)) % d # 0
      BY <2>3, <3>2
    <3>3. CASE i + 1 < d /\ (n * (i + 1)) % d = 0
      <4>1. i + 1 \in Exact
        BY <3>3
      <4>2. PICK j \in 1..((i + 1) - 1) : (n * j) % d = 0
        BY <2>1, <4>1
      <4>3. j \in 1..i
        BY <2>3
      <4> QED
        BY <2>3, <3>3, <4>2, <4>3
    <3> QED
      BY <3>1, <3>2, <3>3
  <2> HIDE DEF A
  <2>4. d - 1 \in A
    BY <2>2, <2>3, SetInduction
  <2>5. PICK j \in 1..(d - 1) : (n * j) % d = 0
    BY <2>1, <1>1
  <2> QED
    BY <2>4, <2>5 DEF A
<1>3. k \in 1..d /\ (n * k) % d = 0 /\ \A j \in 1..(k - 1) : (n * j) % d # 0
  BY <1>2 DEF Denominator
<1>4. Fraction(n, d) = <<(n * k) \div d, k>>
  BY DEF Fraction
<1> HIDE DEF k
<1>5. (n * k) \div d \in Int /\ n * k = d * ((n * k) \div d)
  BY <1>3
<1> QED
  BY <1>3, <1>4, <1>5 DEF k

(* A fraction is what it was made of: crosswise products agree.            *)
LEMMA FractionValue ==
  ASSUME NEW n \in Int, NEW d \in Nat \ {0}
  PROVE  /\ Fraction(n, d) \in Fractions
         /\ Fraction(n, d)[1] * d = n * Fraction(n, d)[2]
<1> DEFINE k == Denominator(n, d)
<1>1. /\ k \in 1..d /\ Fraction(n, d) = <<(n * k) \div d, k>>
      /\ (n * k) \div d \in Int /\ n * k = d * ((n * k) \div d)
  BY LeastDenominator
<1> HIDE DEF k
<1> QED
  BY <1>1 DEF Fractions

(* f is the number n/d.                                                    *)
Denotes(f, n, d) ==
    /\ f \in Fractions
    /\ n \in Int /\ d \in Nat \ {0}
    /\ f[1] * d = n * f[2]

LEMMA Cancel ==
  ASSUME NEW k \in Nat \ {0}, NEW a \in Int, NEW b \in Int
  PROVE  /\ k * a = k * b => a = b
         /\ k * a =< k * b <=> a =< b
BY SMT

LEMMA FractionDenotes ==
  ASSUME NEW n \in Int, NEW d \in Nat \ {0}
  PROVE  Denotes(Fraction(n, d), n, d)
BY FractionValue DEF Denotes

LEMMA SelfDenotes == ASSUME NEW f \in Fractions PROVE Denotes(f, f[1], f[2])
BY DEF Denotes, Fractions

LEMMA WholeDenotes == ASSUME NEW n \in Int PROVE Denotes(Whole(n), n, 1)
BY DEF Denotes, Whole, Fractions

(* Denoting is transitive.                                               *)
LEMMA ValueChains ==
  ASSUME NEW f, NEW n, NEW d, NEW p, NEW q,
         Denotes(f, p, q), n \in Int, d \in Nat \ {0}, p * d = n * q
  PROVE  Denotes(f, n, d)
<1>1. f[1] \in Int /\ f[2] \in Nat \ {0} /\ p \in Int /\ q \in Nat \ {0} /\ f[1] * q = p * f[2]
  BY DEF Denotes, Fractions
<1> DEFINE x == f[1] 
           y == f[2]
<1>2. x \in Int /\ y \in Nat \ {0} /\ p \in Int /\ q \in Nat \ {0} /\ x * q = p * y
  BY <1>1
<1> HIDE DEF x, y
<1>3. q * (x * d) = (x * q) * d
  BY <1>2
<1>4. (p * y) * d = (p * d) * y
  BY <1>2
<1>5. (n * q) * y = q * (n * y)
  BY <1>2
<1>6. q * (x * d) = q * (n * y)
  BY <1>2, <1>3, <1>4, <1>5
<1>7. x * d = n * y
  BY <1>2, <1>6, Cancel
<1> QED
  BY <1>7 DEF x, y, Denotes

LEMMA DenotedSums ==
  ASSUME NEW a, NEW n, NEW d, Denotes(a, n, d),
         NEW b, NEW m, NEW e, Denotes(b, m, e)
  PROVE  /\ Denotes(Plus(a, b), n * e + m * d, d * e)
         /\ Denotes(Minus(a, b), n * e - m * d, d * e)
<1> DEFINE a1 == a[1]
           a2 == a[2]
           b1 == b[1]
           b2 == b[2]
<1>1. /\ a1 \in Int /\ a2 \in Nat \ {0} /\ n \in Int /\ d \in Nat \ {0} /\ a1 * d = n * a2
      /\ b1 \in Int /\ b2 \in Nat \ {0} /\ m \in Int /\ e \in Nat \ {0} /\ b1 * e = m * b2
  BY DEF Denotes, Fractions
<1>2. /\ Plus(a, b) = Fraction(a1 * b2 + b1 * a2, a2 * b2)
      /\ Minus(a, b) = Fraction(a1 * b2 - b1 * a2, a2 * b2)
  BY DEF Plus, Minus
<1> HIDE DEF a1, a2, b1, b2
<1>3. a2 * b2 \in Nat \ {0} /\ d * e \in Nat \ {0}
  BY <1>1
<1>4. (a1 * b2) * (d * e) = (n * e) * (a2 * b2)
  <2>1. (a1 * b2) * (d * e) = (a1 * d) * (b2 * e)
    BY <1>1
  <2>2. (n * a2) * (b2 * e) = (n * e) * (a2 * b2)
    BY <1>1
  <2> QED
    BY <1>1, <2>1, <2>2
<1>5. (b1 * a2) * (d * e) = (m * d) * (a2 * b2)
  <2>1. (b1 * a2) * (d * e) = (b1 * e) * (a2 * d)
    BY <1>1
  <2>2. (m * b2) * (a2 * d) = (m * d) * (a2 * b2)
    BY <1>1
  <2> QED
    BY <1>1, <2>1, <2>2
<1> DEFINE u == a1 * b2
           v == b1 * a2
           s == n * e
           t == m * d
           k == a2 * b2
           l == d * e
<1>6. u \in Int /\ v \in Int /\ s \in Int /\ t \in Int /\ k \in Nat \ {0} /\ l \in Nat \ {0}
  BY <1>1, <1>3
<1>7. u * l = s * k /\ v * l = t * k
  BY <1>4, <1>5
<1>8. /\ Denotes(Plus(a, b), u + v, k)
      /\ Denotes(Minus(a, b), u - v, k)
  BY <1>2, <1>6, FractionDenotes
<1> HIDE DEF u, v, s, t, k, l
<1>9. (u + v) * l = (s + t) * k /\ (u - v) * l = (s - t) * k
  BY <1>6, <1>7
<1>10. /\ Denotes(Plus(a, b), s + t, l)
       /\ Denotes(Minus(a, b), s - t, l)
  BY <1>6, <1>8, <1>9, ValueChains
<1> QED
  BY <1>10 DEF s, t, l

LEMMA DenotedMultiples ==
  ASSUME NEW a, NEW n, NEW d, Denotes(a, n, d), NEW k \in Int
  PROVE  /\ Denotes(Scale(k, a), k * n, d)
         /\ k > 0 => Denotes(Over(a, k), n, d * k)
<1> DEFINE a1 == a[1]
           a2 == a[2]
<1>1. a1 \in Int /\ a2 \in Nat \ {0} /\ n \in Int /\ d \in Nat \ {0} /\ a1 * d = n * a2
  BY DEF Denotes, Fractions
<1>2. Scale(k, a) = Fraction(k * a1, a2) /\ Over(a, k) = Fraction(a1, a2 * k)
  BY DEF Scale, Over
<1> HIDE DEF a1, a2
<1>3. Denotes(Scale(k, a), k * a1, a2)
  BY <1>1, <1>2, FractionDenotes
<1>4. (k * a1) * d = (k * n) * a2
  <2>1. (k * a1) * d = k * (a1 * d) /\ (k * n) * a2 = k * (n * a2)
    BY <1>1
  <2> QED
    BY <1>1, <2>1
<1>5. k * n \in Int
  BY <1>1
<1>6. Denotes(Scale(k, a), k * n, d)
  BY <1>1, <1>3, <1>4, <1>5, ValueChains
<1>7. ASSUME k > 0 PROVE Denotes(Over(a, k), n, d * k)
  <2>1. a2 * k \in Nat \ {0} /\ d * k \in Nat \ {0}
    BY <1>1, <1>7
  <2>2. Denotes(Over(a, k), a1, a2 * k)
    BY <1>1, <1>2, <2>1, FractionDenotes
  <2>3. a1 * (d * k) = n * (a2 * k)
    <3>1. a1 * (d * k) = (a1 * d) * k /\ n * (a2 * k) = (n * a2) * k
      BY <1>1
    <3> QED
      BY <1>1, <3>1
  <2> QED
    BY <1>1, <2>1, <2>2, <2>3, ValueChains
<1> QED
  BY <1>6, <1>7

LEMMA DenotedRatios ==
  ASSUME NEW a, NEW n, NEW d, Denotes(a, n, d),
         NEW b, NEW m, NEW e, Denotes(b, m, e), m > 0
  PROVE  Denotes(Ratio(a, b), n * e, d * m)
<1> DEFINE a1 == a[1]
           a2 == a[2]
           b1 == b[1]
           b2 == b[2]
<1>1. /\ a1 \in Int /\ a2 \in Nat \ {0} /\ n \in Int /\ d \in Nat \ {0} /\ a1 * d = n * a2
      /\ b1 \in Int /\ b2 \in Nat \ {0} /\ m \in Int /\ e \in Nat \ {0} /\ b1 * e = m * b2
  BY DEF Denotes, Fractions
<1>2. Ratio(a, b) = Fraction(a1 * b2, a2 * b1)
  BY DEF Ratio
<1> HIDE DEF a1, a2, b1, b2
<1>3. b1 > 0
  <2>1. m * b2 > 0
    BY <1>1
  <2> QED
    BY <1>1, <2>1
<1>4. a1 * b2 \in Int /\ a2 * b1 \in Nat \ {0} /\ n * e \in Int /\ d * m \in Nat \ {0}
  BY <1>1, <1>3
<1>5. Denotes(Ratio(a, b), a1 * b2, a2 * b1)
  BY <1>2, <1>4, FractionDenotes
<1>6. (a1 * b2) * (d * m) = (n * e) * (a2 * b1)
  <2>1. (a1 * b2) * (d * m) = (a1 * d) * (m * b2)
    BY <1>1
  <2>2. (n * a2) * (b1 * e) = (n * e) * (a2 * b1)
    BY <1>1
  <2> QED
    BY <1>1, <2>1, <2>2
<1> QED
  BY <1>4, <1>5, <1>6, ValueChains

LEMMA DenotedMagnitudes ==
  ASSUME NEW a, NEW n, NEW d, Denotes(a, n, d)
  PROVE  Denotes(Absolute(a), Magnitude(n), d)
<1> DEFINE a1 == a[1]
           a2 == a[2]
<1>1. a1 \in Int /\ a2 \in Nat \ {0} /\ n \in Int /\ d \in Nat \ {0} /\ a1 * d = n * a2
  BY DEF Denotes, Fractions
<1>2. Absolute(a) = <<Magnitude(a1), a2>>
  BY DEF Absolute
<1> HIDE DEF a1, a2
<1>3. a1 < 0 <=> n < 0
  <2>1. a1 < 0 <=> a1 * d < 0
    BY <1>1
  <2>2. n < 0 <=> n * a2 < 0
    BY <1>1
  <2> QED
    BY <1>1, <2>1, <2>2
<1>4. (-a1) * d = -(a1 * d) /\ (-n) * a2 = -(n * a2)
  BY <1>1
<1>5. Magnitude(a1) * d = Magnitude(n) * a2
  BY <1>1, <1>3, <1>4 DEF Magnitude
<1>6. Magnitude(a1) \in Int /\ Magnitude(n) \in Int
  BY <1>1 DEF Magnitude
<1> QED
  BY <1>1, <1>2, <1>5, <1>6 DEF Denotes, Fractions

(* Fractions are compared by what they denote.                             *)
LEMMA DenotedOrder ==
  ASSUME NEW a, NEW n, NEW d, Denotes(a, n, d),
         NEW b, NEW m, NEW e, Denotes(b, m, e)
  PROVE  /\ AtMost(a, b) <=> n * e =< m * d
         /\ Less(a, b) <=> n * e < m * d
<1> DEFINE a1 == a[1]
           a2 == a[2]
           b1 == b[1]
           b2 == b[2]
<1>1. /\ a1 \in Int /\ a2 \in Nat \ {0} /\ n \in Int /\ d \in Nat \ {0} /\ a1 * d = n * a2
      /\ b1 \in Int /\ b2 \in Nat \ {0} /\ m \in Int /\ e \in Nat \ {0} /\ b1 * e = m * b2
  BY DEF Denotes, Fractions
<1>2. /\ AtMost(a, b) <=> a1 * b2 =< b1 * a2
      /\ Less(a, b) <=> ~(b1 * a2 =< a1 * b2)
  BY DEF AtMost, Less
<1> HIDE DEF a1, a2, b1, b2
<1>3. (d * e) * (a1 * b2) = (a2 * b2) * (n * e)
  <2>1. (d * e) * (a1 * b2) = (a1 * d) * (b2 * e)
    BY <1>1
  <2>2. (n * a2) * (b2 * e) = (a2 * b2) * (n * e)
    BY <1>1
  <2> QED
    BY <1>1, <2>1, <2>2
<1>4. (d * e) * (b1 * a2) = (a2 * b2) * (m * d)
  <2>1. (d * e) * (b1 * a2) = (b1 * e) * (a2 * d)
    BY <1>1
  <2>2. (m * b2) * (a2 * d) = (a2 * b2) * (m * d)
    BY <1>1
  <2> QED
    BY <1>1, <2>1, <2>2
<1> DEFINE u == a1 * b2
           v == b1 * a2
           s == n * e
           t == m * d
           k == a2 * b2
           l == d * e
<1>5. u \in Int /\ v \in Int /\ s \in Int /\ t \in Int /\ k \in Nat \ {0} /\ l \in Nat \ {0}
  BY <1>1
<1>6. l * u = k * s /\ l * v = k * t
  BY <1>3, <1>4
<1>7. (AtMost(a, b) <=> u =< v) /\ (Less(a, b) <=> ~(v =< u))
  BY <1>2
<1> HIDE DEF u, v, s, t, k, l
<1>8. /\ u =< v <=> s =< t
      /\ v =< u <=> t =< s
  <2>1. (u =< v <=> l * u =< l * v) /\ (v =< u <=> l * v =< l * u)
    BY <1>5, Cancel
  <2>2. (s =< t <=> k * s =< k * t) /\ (t =< s <=> k * t =< k * s)
    BY <1>5, Cancel
  <2> QED
    BY <1>6, <2>1, <2>2
<1>9. (AtMost(a, b) <=> s =< t) /\ (Less(a, b) <=> s < t)
  BY <1>5, <1>7, <1>8
<1> QED
  BY <1>9 DEF s, t

LEMMA DenotedSign ==
  ASSUME NEW a, NEW n, NEW d, Denotes(a, n, d)
  PROVE  /\ a \in Fractions
         /\ a[1] > 0 <=> n > 0
         /\ a[1] < 0 <=> n < 0
<1> DEFINE a1 == a[1]
           a2 == a[2]
<1>1. /\ a1 \in Int /\ a2 \in Nat \ {0} /\ n \in Int /\ d \in Nat \ {0} /\ a1 * d = n * a2
      /\ a \in Fractions
  BY DEF Denotes, Fractions
<1> HIDE DEF a1, a2
<1>2. (a1 > 0 <=> a1 * d > 0) /\ (a1 < 0 <=> a1 * d < 0)
  BY <1>1
<1>3. (n > 0 <=> n * a2 > 0) /\ (n < 0 <=> n * a2 < 0)
  BY <1>1
<1> QED
  BY <1>1, <1>2, <1>3 DEF a1

(* The sum of a sequence of fractions that are not negative.               *)
NotNegative == Nat \X (Nat \ {0})

LEMMA SumNotNegative ==
  ASSUME NEW a \in NotNegative, NEW b \in NotNegative
  PROVE  /\ Plus(a, b) \in NotNegative
         /\ a[1] > 0 \/ b[1] > 0 => Plus(a, b)[1] > 0
<1>1. a \in Fractions /\ b \in Fractions /\ a[1] >= 0 /\ b[1] >= 0
  BY DEF NotNegative, Fractions
<1>2. Denotes(Plus(a, b), a[1] * b[2] + b[1] * a[2], a[2] * b[2])
  BY <1>1, SelfDenotes, DenotedSums
<1>3. /\ a[1] * b[2] \in Nat /\ b[1] * a[2] \in Nat
      /\ b[1] > 0 => b[1] * a[2] > 0
      /\ a[1] > 0 => a[1] * b[2] > 0
  BY DEF NotNegative
<1>4. /\ Plus(a, b) \in Fractions
      /\ ~(Plus(a, b)[1] < 0)
      /\ a[1] > 0 \/ b[1] > 0 => Plus(a, b)[1] > 0
  BY <1>2, <1>3, DenotedSign
<1> QED
  BY <1>4 DEF NotNegative, Fractions

LEMMA FoldedSum ==
  ASSUME NEW q \in Seq(NotNegative)
  PROVE  LET sum == FoldLeft(Plus, Whole(0), q) IN
         /\ sum \in NotNegative
         /\ q # <<>> /\ (\A i \in DOMAIN q : q[i][1] > 0) => sum[1] > 0
<1> DEFINE n == Len(q)
           op == [i \in 1..n |-> [a \in NotNegative |-> Plus(a, q[i])]]
           Eq(g) == g = [s \in SUBSET (1..n) |->
                           IF s = {} THEN Whole(0) ELSE Plus(g[s \ {Max(s)}], q[Max(s)])]
           f == CHOOSE g : Eq(g)
           positive == \A i \in DOMAIN q : q[i][1] > 0
           A == [i \in 0..n |-> {a \in NotNegative : positive /\ i > 0 => a[1] > 0}]
<1>1. n \in Nat /\ DOMAIN q = 1..n /\ \A i \in 1..n : q[i] \in NotNegative
  OBVIOUS
<1>2. \A a, b \in NotNegative : /\ Plus(a, b) \in NotNegative
                                /\ a[1] > 0 \/ b[1] > 0 => Plus(a, b)[1] > 0
  BY SumNotNegative
<1>3. Whole(0) \in NotNegative
  BY DEF Whole, NotNegative
<1>4. \E g : Eq(g)
  <2>1. op \in [1..n -> [NotNegative -> NotNegative]]
    BY <1>1, <1>2
  <2>2. \A s \in SUBSET (1..n) : s # {} => Max(s) \in 1..n
    BY <1>1, MaxIsGreatest
  <2>3. \A i \in 1..n, a \in NotNegative : op[i][a] = Plus(a, q[i])
    OBVIOUS
  <2> DEFINE none == Whole(0)
  <2>n. none \in NotNegative /\ n \in Nat
    BY <1>1, <1>3
  <2> HIDE DEF op, n, none
  <2>f. HasFold(NotNegative, none, n, op)
    BY <2>n, <2>1, FoldExists
  <2>4. PICK g \in [SUBSET (1..n) -> NotNegative] :
          \A s \in SUBSET (1..n) : g[s] = FoldStep(op, none, g, s)
    BY <2>f DEF HasFold
  <2>5. \A s \in SUBSET (1..n) :
          g[s] = IF s = {} THEN Whole(0) ELSE Plus(g[s \ {Max(s)}], q[Max(s)])
    BY <2>2, <2>3, <2>4 DEF FoldStep, none
  <2>6. Eq(g)
    BY <2>4, <2>5
  <2> QED
    BY <2>6
<1>5. FoldLeft(Plus, Whole(0), q) = f[1..n]
  BY <1>1 DEF FoldLeft, MapThenFoldSet
<1>6. Eq(f)
  BY <1>4
<1> HIDE DEF f
<1>7. f[{}] \in A[0]
  <2>1. f[{}] = Whole(0)
    BY <1>6
  <2> QED
    BY <1>1, <1>3, <2>1
<1>8. ASSUME NEW i \in 1..n, f[1..(i - 1)] \in A[i - 1] PROVE f[1..i] \in A[i]
  <2>1. f[1..i] = Plus(f[1..(i - 1)], q[i])
    <3> HIDE DEF n
    <3>1. /\ 1..i # {} /\ 1..i \in SUBSET (1..n) /\ Max(1..i) = i
          /\ (1..i) \ {Max(1..i)} = 1..(i - 1)
      BY <1>1, PrefixMax
    <3> QED
      BY <1>6, <3>1
  <2>2. f[1..(i - 1)] \in NotNegative /\ q[i] \in NotNegative /\ i \in 0..n
    BY <1>1, <1>8
  <2>3. positive => q[i][1] > 0
    BY <1>1
  <2> HIDE DEF n, positive
  <2> QED
    BY <1>1, <1>2, <2>1, <2>2, <2>3
<1> HIDE DEF A
<1>9. f[1..n] \in A[n]
  BY <1>1, <1>7, <1>8, FoldInduction
<1> QED
  BY <1>1, <1>5, <1>9 DEF A

-----------------------------------------------------------------------------
(* Fractions in lowest terms: equal values are equal pairs.                *)
Lowest == {f \in Fractions : Fraction(f[1], f[2]) = f}

LEMMA Divides ==
  ASSUME NEW a \in Int, NEW d \in Nat \ {0}
  PROVE  /\ a % d = 0 <=> \E x \in Int : a = d * x
         /\ \A x \in Int : a = d * x => a \div d = x
<1>1. a = (d * (a \div d)) + (a % d) /\ a \div d \in Int /\ a % d \in 0..(d - 1)
  OBVIOUS
<1>2. ASSUME NEW x \in Int, a = d * x PROVE a % d = 0 /\ a \div d = x
  <2> DEFINE q == a \div d
             r == a % d
  <2>1. q \in Int /\ r \in 0..(d - 1) /\ d * q + r = d * x
    BY <1>1, <1>2
  <2> HIDE DEF q, r
  <2>2. d * (x - q) = r
    BY <2>1
  <2>3. x - q = 0
    <3> DEFINE y == x - q
    <3>1. y \in Int /\ d * y = r
      BY <2>1, <2>2
    <3> HIDE DEF y
    <3>2. ~(y >= 1)
      <4>1. y >= 1 => d * y >= d
        BY <3>1
      <4> QED
        BY <2>1, <3>1, <4>1
    <3>3. ~(y =< -1)
      <4>1. y =< -1 => d * y =< -d
        BY <3>1
      <4> QED
        BY <2>1, <3>1, <4>1
    <3>4. y = 0
      BY <3>1, <3>2, <3>3
    <3> QED
      BY <3>4 DEF y
  <2>4. q = x /\ r = 0
    BY <2>1, <2>3
  <2> QED
    BY <2>4 DEF q, r
<1>3. ASSUME a % d = 0 PROVE \E x \in Int : a = d * x
  <2> DEFINE q == a \div d
  <2>1. q \in Int /\ a = d * q
    BY <1>1, <1>3
  <2> HIDE DEF q
  <2> QED
    BY <2>1
<1> QED
  BY <1>2, <1>3

(* Multiples are of the same size whichever way the number is written.     *)
LEMMA SameMultiples ==
  ASSUME NEW n \in Int, NEW d \in Nat \ {0}, NEW m \in Int, NEW e \in Nat \ {0},
         n * e = m * d, NEW k \in Nat, NEW x \in Int, n * k = d * x
  PROVE  m * k = e * x
<1>1. d * (m * k) = (m * d) * k
  OBVIOUS
<1>2. (n * e) * k = e * (n * k)
  OBVIOUS
<1>3. e * (d * x) = d * (e * x)
  OBVIOUS
<1> QED
  BY <1>1, <1>2, <1>3, Cancel

LEMMA SameFraction ==
  ASSUME NEW n \in Int, NEW d \in Nat \ {0}, NEW m \in Int, NEW e \in Nat \ {0},
         n * e = m * d
  PROVE  Fraction(n, d) = Fraction(m, e)
<1> DEFINE k == Denominator(n, d)
           l == Denominator(m, e)
           x == (n * k) \div d
           y == (m * l) \div e
<1>1. /\ k \in 1..d /\ Fraction(n, d) = <<x, k>> /\ x \in Int /\ n * k = d * x
      /\ \A j \in 1..(k - 1) : (n * j) % d # 0
  BY LeastDenominator
<1>2. /\ l \in 1..e /\ Fraction(m, e) = <<y, l>> /\ y \in Int /\ m * l = e * y
      /\ \A j \in 1..(l - 1) : (m * j) % e # 0
  BY LeastDenominator
<1> HIDE DEF k, l, x, y
<1>3. m * k = e * x /\ n * l = d * y
  <2>1. k \in Nat /\ l \in Nat /\ m * d = n * e
    BY <1>1, <1>2
  <2>2. m * k = e * x
    BY <1>1, <2>1, SameMultiples
  <2>3. n * l = d * y
    BY <1>2, <2>1, SameMultiples
  <2> QED
    BY <2>2, <2>3
<1>4. (m * k) % e = 0 /\ (n * l) % d = 0
  <2>1. m * k \in Int /\ n * l \in Int
    BY <1>1, <1>2
  <2> QED
    BY <1>1, <1>2, <1>3, <2>1, Divides
<1>5. ~(k < l) /\ ~(l < k)
  BY <1>1, <1>2, <1>4
<1>6. k = l
  BY <1>1, <1>2, <1>5
<1>7. x = y
  BY <1>1, <1>2, <1>3, <1>6, Cancel
<1> QED
  BY <1>1, <1>2, <1>6, <1>7

LEMMA FractionIsLowest ==
  ASSUME NEW n \in Int, NEW d \in Nat \ {0}
  PROVE  Fraction(n, d) \in Lowest
<1> DEFINE f == Fraction(n, d)
           x == f[1]
           k == f[2]
<1>1. f \in Fractions /\ x \in Int /\ k \in Nat \ {0} /\ x * d = n * k
  BY FractionValue DEF Fractions
<1> HIDE DEF x, k
<1>2. Fraction(x, k) = Fraction(n, d)
  BY <1>1, SameFraction
<1> QED
  BY <1>1, <1>2 DEF Lowest, x, k

LEMMA WholeIsLowest == ASSUME NEW n \in Int PROVE Whole(n) \in Lowest
<1> DEFINE one == 1
           k == Denominator(n, one)
           x == (n * k) \div one
<1>1. one \in Nat \ {0}
  OBVIOUS
<1> HIDE DEF one
<1>2. k \in 1..one /\ Fraction(n, one) = <<x, k>> /\ x \in Int /\ n * k = one * x
  BY <1>1, LeastDenominator
<1> HIDE DEF k, x
<1>3. k = 1 /\ x = n
  BY <1>2 DEF one
<1>4. Fraction(n, 1) = Whole(n)
  BY <1>2, <1>3 DEF Whole, one
<1> QED
  BY <1>4 DEF Lowest, Whole, Fractions

LEMMA LowestClosed ==
  ASSUME NEW a \in Fractions, NEW b \in Fractions, NEW k \in Int
  PROVE  /\ Plus(a, b) \in Lowest /\ Minus(a, b) \in Lowest /\ Scale(k, a) \in Lowest
         /\ k > 0 => Over(a, k) \in Lowest
<1> DEFINE a1 == a[1]
           a2 == a[2]
           b1 == b[1]
           b2 == b[2]
<1>1. a1 \in Int /\ a2 \in Nat \ {0} /\ b1 \in Int /\ b2 \in Nat \ {0}
  BY DEF Fractions
<1>2. /\ Plus(a, b) = Fraction(a1 * b2 + b1 * a2, a2 * b2)
      /\ Minus(a, b) = Fraction(a1 * b2 - b1 * a2, a2 * b2)
      /\ Scale(k, a) = Fraction(k * a1, a2)
      /\ Over(a, k) = Fraction(a1, a2 * k)
  BY DEF Plus, Minus, Scale, Over
<1> HIDE DEF a1, a2, b1, b2
<1>3. /\ a1 * b2 + b1 * a2 \in Int /\ a1 * b2 - b1 * a2 \in Int /\ k * a1 \in Int
      /\ a2 * b2 \in Nat \ {0}
      /\ k > 0 => a2 * k \in Nat \ {0}
  BY <1>1
<1> QED
  BY <1>1, <1>2, <1>3, FractionIsLowest

(* Arithmetic over a common denominator D: the fraction a is n/D.          *)
LEMMA Widens ==
  ASSUME NEW a, NEW n, NEW d, Denotes(a, n, d), NEW k \in Nat \ {0}
  PROVE  Denotes(a, n * k, d * k)
<1>1. n \in Int /\ d \in Nat \ {0}
  BY DEF Denotes
<1>2. n * k \in Int /\ d * k \in Nat \ {0} /\ n * (d * k) = (n * k) * d
  BY <1>1
<1> QED
  BY <1>2, ValueChains

LEMMA CommonSums ==
  ASSUME NEW a, NEW n, NEW d, Denotes(a, n, d), NEW b, NEW m, Denotes(b, m, d)
  PROVE  Denotes(Plus(a, b), n + m, d) /\ Denotes(Minus(a, b), n - m, d)
<1>1. n \in Int /\ m \in Int /\ d \in Nat \ {0}
  BY DEF Denotes
<1> DEFINE s == n * d + m * d
           t == n * d - m * d
           q == d * d
<1>2. Denotes(Plus(a, b), s, q) /\ Denotes(Minus(a, b), t, q)
  BY DenotedSums
<1>3. s * d = (n + m) * q /\ t * d = (n - m) * q
  BY <1>1
<1> HIDE DEF s, t, q
<1>4. n + m \in Int /\ n - m \in Int
  BY <1>1
<1> QED
  BY <1>1, <1>2, <1>3, <1>4, ValueChains

LEMMA CommonWhole ==
  ASSUME NEW w \in Int, NEW d \in Nat \ {0} PROVE Denotes(Whole(w), w * d, d)
<1> DEFINE one == 1
<1>1. Denotes(Whole(w), w, one)
  BY WholeDenotes
<1> HIDE DEF one
<1>2. Denotes(Whole(w), w * d, one * d)
  BY <1>1, Widens
<1> QED
  BY <1>2 DEF one

LEMMA SameValue ==
  ASSUME NEW a \in Lowest, NEW b \in Lowest, NEW n, NEW m, NEW d,
         Denotes(a, n, d), Denotes(b, m, d)
  PROVE  a = b <=> n = m
<1> DEFINE a1 == a[1]
           a2 == a[2]
           b1 == b[1]
           b2 == b[2]
<1>1. /\ a1 \in Int /\ a2 \in Nat \ {0} /\ n \in Int /\ d \in Nat \ {0} /\ a1 * d = n * a2
      /\ b1 \in Int /\ b2 \in Nat \ {0} /\ m \in Int /\ b1 * d = m * b2
      /\ Fraction(a1, a2) = a /\ Fraction(b1, b2) = b
  BY DEF Denotes, Fractions, Lowest
<1>e. a = b => a1 = b1 /\ a2 = b2
  OBVIOUS
<1> HIDE DEF a1, a2, b1, b2
<1>2. ASSUME a = b PROVE n = m
  <2>1. a2 * n = a2 * m
    BY <1>1, <1>e, <1>2
  <2> QED
    BY <1>1, <2>1, Cancel
<1>3. ASSUME n = m PROVE a = b
  <2>1. d * (a1 * b2) = (a1 * d) * b2 /\ d * (b1 * a2) = (b1 * d) * a2
    BY <1>1
  <2>2. (n * a2) * b2 = (m * b2) * a2
    BY <1>1, <1>3
  <2>3. a1 * b2 \in Int /\ b1 * a2 \in Int
    BY <1>1
  <2>4. a1 * b2 = b1 * a2
    BY <1>1, <2>1, <2>2, <2>3, Cancel
  <2> QED
    BY <1>1, <2>4, SameFraction
<1> QED
  BY <1>2, <1>3

(* Some denominator serves any few fractions.                              *)
Common(S) == \E d \in Nat \ {0} : \A a \in S : \E n \in Int : Denotes(a, n, d)

LEMMA CommonAdds ==
  ASSUME NEW S, Common(S), NEW b \in Fractions
  PROVE  Common(S \cup {b})
<1>1. PICK d \in Nat \ {0} : \A a \in S : \E n \in Int : Denotes(a, n, d)
  BY DEF Common
<1> DEFINE b1 == b[1]
           b2 == b[2]
<1>2. Denotes(b, b1, b2) /\ b1 \in Int /\ b2 \in Nat \ {0}
  BY SelfDenotes DEF Fractions
<1> HIDE DEF b1, b2
<1>3. d * b2 \in Nat \ {0} /\ d * b2 = b2 * d
  BY <1>2
<1>4. ASSUME NEW a \in S PROVE \E n \in Int : Denotes(a, n, d * b2)
  <2>1. PICK n \in Int : Denotes(a, n, d)
    BY <1>1
  <2>2. n * b2 \in Int
    BY <1>2
  <2> QED
    BY <1>2, <2>1, <2>2, Widens
<1>5. \E n \in Int : Denotes(b, n, d * b2)
  <2>1. b1 * d \in Int
    BY <1>2
  <2>2. Denotes(b, b1 * d, b2 * d)
    BY <1>2, Widens
  <2> QED
    BY <1>3, <2>1, <2>2
<1> DEFINE e == d * b2
<1>6. \A a \in S \cup {b} : \E n \in Int : Denotes(a, n, e)
  BY <1>4, <1>5
<1>7. e \in Nat \ {0}
  BY <1>3
<1> HIDE DEF e
<1> QED
  BY <1>6, <1>7 DEF Common

LEMMA CommonDenominator ==
  ASSUME NEW a \in Fractions, NEW b \in Fractions, NEW c \in Fractions, NEW d \in Fractions,
         NEW e \in Fractions
  PROVE  \E D \in Nat \ {0} : \E i, j, k, l, m \in Int :
           /\ Denotes(a, i, D) /\ Denotes(b, j, D) /\ Denotes(c, k, D) /\ Denotes(d, l, D)
           /\ Denotes(e, m, D)
<1>1. Common({})
  <2>1. 1 \in Nat \ {0}
    OBVIOUS
  <2> QED
    BY <2>1 DEF Common
<1>2. Common({a})
  BY <1>1, CommonAdds
<1>3. Common({a} \cup {b})
  BY <1>2, CommonAdds
<1>4. Common(({a} \cup {b}) \cup {c})
  BY <1>3, CommonAdds
<1>5. Common((({a} \cup {b}) \cup {c}) \cup {d})
  BY <1>4, CommonAdds
<1>6. Common(((({a} \cup {b}) \cup {c}) \cup {d}) \cup {e})
  BY <1>5, CommonAdds
<1>7. PICK D \in Nat \ {0} :
        \A x \in (((({a} \cup {b}) \cup {c}) \cup {d}) \cup {e}) :
          \E n \in Int : Denotes(x, n, D)
  BY <1>6 DEF Common
<1>8. /\ \E n \in Int : Denotes(a, n, D)
      /\ \E n \in Int : Denotes(b, n, D)
      /\ \E n \in Int : Denotes(c, n, D)
      /\ \E n \in Int : Denotes(d, n, D)
      /\ \E n \in Int : Denotes(e, n, D)
  BY <1>7
<1> QED
  BY <1>8

(* Fractions in lowest terms are added like integers are.                  *)
FractionPlus == [a \in Lowest |-> [b \in Lowest |-> Plus(a, b)]]

LEMMA FractionsAreSummable == Summable(Lowest, FractionPlus, Whole(0))
<1> DEFINE zero == Whole(0)
<1>1. /\ \A a, b \in Lowest : Plus(a, b) \in Lowest
      /\ zero \in Lowest /\ Lowest \subseteq Fractions
  BY LowestClosed, WholeIsLowest DEF Lowest
<1>2. ASSUME NEW a \in Lowest, NEW b \in Lowest, NEW c \in Lowest
      PROVE  /\ Plus(a, b) = Plus(b, a)
             /\ Plus(Plus(a, b), c) = Plus(a, Plus(b, c))
             /\ Plus(zero, a) = a
  <2>1. PICK D \in Nat \ {0}, i \in Int, j \in Int, k \in Int :
          Denotes(a, i, D) /\ Denotes(b, j, D) /\ Denotes(c, k, D)
    <3>1. a \in Fractions /\ b \in Fractions /\ c \in Fractions
      BY <1>1
    <3> QED
      BY <3>1, CommonDenominator
  <2>2. Denotes(zero, 0, D)
    <3> DEFINE none == 0
    <3>1. none \in Int
      OBVIOUS
    <3> HIDE DEF none
    <3>2. Denotes(Whole(none), none * D, D)
      BY <3>1, CommonWhole
    <3>3. none * D = 0
      BY DEF none
    <3> QED
      BY <3>2, <3>3 DEF none
  <2> HIDE DEF zero
  <2>3. Plus(a, b) = Plus(b, a)
    <3>1. Denotes(Plus(a, b), i + j, D) /\ Denotes(Plus(b, a), j + i, D) /\ i + j = j + i
      BY <2>1, CommonSums
    <3> QED
      BY <1>1, <3>1, SameValue
  <2>4. Plus(Plus(a, b), c) = Plus(a, Plus(b, c))
    <3>1. Denotes(Plus(a, b), i + j, D) /\ Denotes(Plus(b, c), j + k, D)
      BY <2>1, CommonSums
    <3>2. /\ Denotes(Plus(Plus(a, b), c), (i + j) + k, D)
          /\ Denotes(Plus(a, Plus(b, c)), i + (j + k), D)
      BY <2>1, <3>1, CommonSums
    <3>3. (i + j) + k = i + (j + k)
      OBVIOUS
    <3>4. Plus(Plus(a, b), c) \in Lowest /\ Plus(a, Plus(b, c)) \in Lowest
      BY <1>1
    <3> QED
      BY <3>2, <3>3, <3>4, SameValue
  <2>5. Plus(zero, a) = a
    <3>1. Denotes(Plus(zero, a), 0 + i, D) /\ 0 + i = i
      BY <2>1, <2>2, CommonSums
    <3> QED
      BY <1>1, <2>1, <3>1, SameValue
  <2> QED
    BY <2>3, <2>4, <2>5
<1> HIDE DEF zero
<1>3. /\ FractionPlus \in [Lowest -> [Lowest -> Lowest]]
      /\ \A a, b \in Lowest : FractionPlus[a][b] = Plus(a, b)
  BY <1>1 DEF FractionPlus
<1>4. Summable(Lowest, FractionPlus, zero)
  <2>1. \A a, b \in Lowest : FractionPlus[a][b] = FractionPlus[b][a]
    BY <1>2, <1>3
  <2>2. ASSUME NEW a \in Lowest, NEW b \in Lowest, NEW c \in Lowest
        PROVE  FractionPlus[FractionPlus[a][b]][c] = FractionPlus[a][FractionPlus[b][c]]
    <3>1. Plus(a, b) \in Lowest /\ Plus(b, c) \in Lowest
      BY <1>1
    <3>2. /\ FractionPlus[FractionPlus[a][b]][c] = Plus(Plus(a, b), c)
          /\ FractionPlus[a][FractionPlus[b][c]] = Plus(a, Plus(b, c))
      BY <1>3, <3>1
    <3> QED
      BY <1>2, <3>2
  <2>3. \A a \in Lowest : FractionPlus[zero][a] = a
    BY <1>1, <1>2, <1>3
  <2> QED
    BY <1>1, <1>3, <2>1, <2>2, <2>3 DEF Summable
<1> QED
  BY <1>4 DEF zero

LEMMA SumOverIsTotal ==
  ASSUME NEW w, NEW S, IsFiniteSet(S), \A x \in S : w[x] \in Lowest
  PROVE  SumOver(w, S) = Total(FractionPlus, Whole(0), w, S)
<1> DEFINE zero == Whole(0)
           Eq(g) == g = [s \in SUBSET S |->
                           IF s = {} THEN zero ELSE Plus(w[SomeOf(s)], g[s \ {SomeOf(s)}])]
           f == CHOOSE g : Eq(g)
<1>s. Summable(Lowest, FractionPlus, zero)
  BY FractionsAreSummable
<1>p. \A a, b \in Lowest : FractionPlus[a][b] = Plus(a, b) /\ Plus(a, b) \in Lowest
  <2>1. \A a, b \in Lowest : Plus(a, b) \in Lowest
    BY LowestClosed DEF Lowest
  <2> QED
    BY <2>1 DEF FractionPlus
<1>z. zero \in Lowest
  BY WholeIsLowest
<1>5. SumOver(w, S) = f[S]
  BY DEF SumOver, FoldFunctionOnSet, MapThenFoldSet, SomeOf
<1> HIDE DEF zero
<1>1. \A g : (\A s \in SUBSET S : g[s] \in Lowest) =>
               (Eq(g) <=> Solves(FractionPlus, zero, w, S, g))
  <2> SUFFICES ASSUME NEW g, \A s \in SUBSET S : g[s] \in Lowest
               PROVE  Eq(g) <=> Solves(FractionPlus, zero, w, S, g)
    OBVIOUS
  <2>1. ASSUME NEW s \in SUBSET S
        PROVE  (IF s = {} THEN zero ELSE Plus(w[SomeOf(s)], g[s \ {SomeOf(s)}]))
                 = TotalStep(FractionPlus, zero, w, g, s)
    <3>1. CASE s = {}
      BY <3>1 DEF TotalStep
    <3>2. CASE s # {}
      <4>1. w[SomeOf(s)] \in Lowest /\ g[s \ {SomeOf(s)}] \in Lowest
        BY <3>2, SomeOfIsMember
      <4> QED
        BY <1>p, <3>2, <4>1 DEF TotalStep
    <3> QED
      BY <3>1, <3>2
  <2> QED
    BY <2>1 DEF Solves
<1>2. PICK h : Solves(FractionPlus, zero, w, S, h)
  BY SolutionExists
<1>3. \A s \in SUBSET S : h[s] \in Lowest
  BY <1>s, <1>2, SolutionAdds
<1>4. Eq(f)
  BY <1>1, <1>2, <1>3
<1> HIDE DEF f
<1>6. \A s \in SUBSET S : f[s] \in Lowest
  <2> DEFINE B == {T \in SUBSET S : f[T] \in Lowest}
  <2>1. ASSUME NEW T \in SUBSET S, \A x \in T : T \ {x} \in B PROVE T \in B
    <3>1. CASE T = {}
      BY <1>4, <1>z, <3>1
    <3>2. CASE T # {}
      <4>1. SomeOf(T) \in T
        BY <3>2, SomeOfIsMember
      <4>2. f[T \ {SomeOf(T)}] \in Lowest /\ w[SomeOf(T)] \in Lowest
        BY <2>1, <4>1
      <4>3. f[T] = Plus(w[SomeOf(T)], f[T \ {SomeOf(T)}])
        BY <1>4, <3>2
      <4> QED
        BY <1>p, <4>2, <4>3
    <3> QED
      BY <3>1, <3>2
  <2> HIDE DEF B
  <2>2. SUBSET S \subseteq B
    BY <2>1, SubsetInduction
  <2> QED
    BY <2>2 DEF B
<1>7. Solves(FractionPlus, zero, w, S, f)
  BY <1>1, <1>4, <1>6
<1>8. Total(FractionPlus, zero, w, S) = f[S]
  BY <1>7, TotalIsSolution
<1> QED
  BY <1>5, <1>8 DEF zero

(* The sum is a fraction in lowest terms, and what one element contributes *)
(* may be taken out.                                                       *)
LEMMA SumOverType ==
  ASSUME NEW S, IsFiniteSet(S), NEW w, \A y \in S : w[y] \in Lowest
  PROVE  /\ SumOver(w, S) \in Lowest
         /\ \A x \in S : /\ SumOver(w, S \ {x}) \in Lowest
                         /\ SumOver(w, S) = Plus(SumOver(w, S \ {x}), w[x])
<1> DEFINE zero == Whole(0)
<1>1. Summable(Lowest, FractionPlus, zero)
  BY FractionsAreSummable
<1>2. \A T \in SUBSET S : SumOver(w, T) = Total(FractionPlus, zero, w, T)
  <2>1. ASSUME NEW T \in SUBSET S PROVE SumOver(w, T) = Total(FractionPlus, zero, w, T)
    <3>1. IsFiniteSet(T) /\ \A y \in T : w[y] \in Lowest
      BY FS_Subset
    <3> QED
      BY <3>1, SumOverIsTotal
  <2> QED
    BY <2>1
<1> HIDE DEF zero
<1>3. /\ Total(FractionPlus, zero, w, S) \in Lowest
      /\ \A x \in S : /\ Total(FractionPlus, zero, w, S \ {x}) \in Lowest
                      /\ Total(FractionPlus, zero, w, S) =
                           FractionPlus[Total(FractionPlus, zero, w, S \ {x})][w[x]]
  BY <1>1, TotalType
<1>4. \A x \in S : SumOver(w, S \ {x}) = Total(FractionPlus, zero, w, S \ {x})
  <2>1. \A x \in S : S \ {x} \in SUBSET S
    OBVIOUS
  <2> QED
    BY <1>2, <2>1
<1>5. SumOver(w, S) = Total(FractionPlus, zero, w, S)
  BY <1>2
<1> QED
  BY <1>3, <1>4, <1>5 DEF FractionPlus

LEMMA SumOverEmpty == ASSUME NEW w PROVE SumOver(w, {}) = Whole(0)
<1>1. SumOver(w, {}) = Total(FractionPlus, Whole(0), w, {})
  BY SumOverIsTotal, FS_EmptySet
<1> QED
  BY <1>1, TotalOfEmpty

LEMMA SumsOverAgree ==
  ASSUME NEW S, IsFiniteSet(S), NEW w, \A y \in S : w[y] \in Lowest,
         NEW v, \A x \in S : v[x] = w[x]
  PROVE  SumOver(v, S) = SumOver(w, S)
<1>1. \A y \in S : v[y] \in Lowest
  OBVIOUS
<1>2. /\ SumOver(v, S) = Total(FractionPlus, Whole(0), v, S)
      /\ SumOver(w, S) = Total(FractionPlus, Whole(0), w, S)
  BY <1>1, SumOverIsTotal
<1> QED
  BY <1>2, TotalsAgree

(* One element's value changes by b.                                       *)
LEMMA SumOverChanges ==
  ASSUME NEW S, IsFiniteSet(S), NEW w, \A y \in S : w[y] \in Lowest,
         NEW x \in S, NEW b \in Lowest,
         NEW v, v[x] = Plus(w[x], b), \A y \in S \ {x} : v[y] = w[y]
  PROVE  SumOver(v, S) = Plus(SumOver(w, S), b)
<1> DEFINE T == S \ {x}
           t == SumOver(w, T)
<1>1. \A p, q \in Lowest : Plus(p, q) \in Lowest
  BY LowestClosed DEF Lowest
<1>2. \A y \in S : v[y] \in Lowest
  <2>1. v[x] \in Lowest
    BY <1>1
  <2> QED
    BY <2>1
<1>3. /\ SumOver(w, S) = Plus(t, w[x]) /\ t \in Lowest
      /\ SumOver(v, S) = Plus(SumOver(v, T), v[x])
  BY <1>2, SumOverType
<1>4. SumOver(v, T) = t
  <2>1. IsFiniteSet(T) /\ \A y \in T : w[y] \in Lowest /\ v[y] = w[y]
    BY FS_Subset
  <2> HIDE DEF T
  <2> QED
    BY <2>1, SumsOverAgree
<1> HIDE DEF t, T
<1>5. Plus(t, Plus(w[x], b)) = Plus(Plus(t, w[x]), b)
  <2> DEFINE a == w[x]
  <2>1. a \in Lowest /\ t \in Lowest /\ b \in Lowest
    BY <1>3
  <2> HIDE DEF a
  <2>2. FractionPlus[FractionPlus[t][a]][b] = FractionPlus[t][FractionPlus[a][b]]
    BY <2>1, FractionsAreSummable DEF Summable
  <2>3. Plus(t, Plus(a, b)) = Plus(Plus(t, a), b)
    BY <1>1, <2>1, <2>2 DEF FractionPlus
  <2> QED
    BY <2>3 DEF a
<1> QED
  BY <1>3, <1>4, <1>5

(* What is worth nothing may be left out.                                  *)
LEMMA SumOverRest ==
  ASSUME NEW S, IsFiniteSet(S), NEW w, \A y \in S : w[y] \in Lowest,
         NEW T \in SUBSET S, \A y \in S \ T : w[y] = Whole(0)
  PROVE  SumOver(w, S) = SumOver(w, T)
<1>1. IsFiniteSet(T) /\ \A y \in T : w[y] \in Lowest
  BY FS_Subset
<1>2. /\ SumOver(w, S) = Total(FractionPlus, Whole(0), w, S)
      /\ SumOver(w, T) = Total(FractionPlus, Whole(0), w, T)
  BY <1>1, SumOverIsTotal
<1> QED
  BY <1>2, FractionsAreSummable, TotalOfRest

(* Sums add up where their terms do.                                       *)
LEMMA SumsOfSums ==
  ASSUME NEW S, IsFiniteSet(S),
         NEW u, NEW v, NEW w, \A x \in S : u[x] \in Lowest /\ v[x] \in Lowest /\ w[x] \in Lowest,
         \A x \in S : w[x] = Plus(u[x], v[x])
  PROVE  SumOver(w, S) = Plus(SumOver(u, S), SumOver(v, S))
<1> DEFINE A == {s \in SUBSET S : SumOver(w, s) = Plus(SumOver(u, s), SumOver(v, s))}
<1>z. Whole(0) \in Lowest /\ Lowest \subseteq Fractions
  BY WholeIsLowest DEF Lowest
<1>0. Plus(Whole(0), Whole(0)) = Whole(0)
  <2> DEFINE zero == Whole(0)
  <2>1. FractionPlus[zero][zero] = zero
    BY <1>z, FractionsAreSummable DEF Summable
  <2> QED
    BY <1>z, <2>1 DEF FractionPlus
<1>1. ASSUME NEW s \in SUBSET S, \A x \in s : s \ {x} \in A PROVE s \in A
  <2>1. CASE s = {}
    BY <1>0, <2>1, SumOverEmpty
  <2>2. CASE s # {}
    <3>1. PICK x \in s : s \ {x} \in A
      BY <1>1, <2>2
    <3> DEFINE a == SumOver(u, s \ {x})
               b == SumOver(v, s \ {x})
               c == SumOver(w, s \ {x})
    <3>f. IsFiniteSet(s)
      BY FS_Subset
    <3>2. /\ a \in Lowest /\ SumOver(u, s) = Plus(a, u[x])
          /\ b \in Lowest /\ SumOver(v, s) = Plus(b, v[x])
          /\ c \in Lowest /\ SumOver(w, s) = Plus(c, w[x])
      BY <3>f, SumOverType
    <3>3. c = Plus(a, b)
      BY <3>1
    <3> HIDE DEF a, b, c
    <3> DEFINE p == u[x]
               q == v[x]
    <3>4. p \in Lowest /\ q \in Lowest /\ w[x] = Plus(p, q)
      OBVIOUS
    <3> HIDE DEF p, q
    <3>5. PICK D \in Nat \ {0}, i \in Int, j \in Int, k \in Int, l \in Int :
            Denotes(a, i, D) /\ Denotes(b, j, D) /\ Denotes(p, k, D) /\ Denotes(q, l, D)
      BY <1>z, <3>2, <3>4, CommonDenominator
    <3>6. /\ Denotes(Plus(a, b), i + j, D) /\ Denotes(Plus(p, q), k + l, D)
          /\ Denotes(Plus(a, p), i + k, D) /\ Denotes(Plus(b, q), j + l, D)
      BY <3>5, CommonSums
    <3>7. /\ Denotes(Plus(Plus(a, b), Plus(p, q)), (i + j) + (k + l), D)
          /\ Denotes(Plus(Plus(a, p), Plus(b, q)), (i + k) + (j + l), D)
      BY <3>6, CommonSums
    <3>8. (i + j) + (k + l) = (i + k) + (j + l)
      OBVIOUS
    <3>9. Plus(Plus(a, b), Plus(p, q)) \in Lowest /\ Plus(Plus(a, p), Plus(b, q)) \in Lowest
      <4>1. \A y, z \in Lowest : Plus(y, z) \in Lowest
        BY <1>z, LowestClosed
      <4> QED
        BY <3>2, <3>4, <4>1
    <3>10. Plus(Plus(a, b), Plus(p, q)) = Plus(Plus(a, p), Plus(b, q))
      BY <3>7, <3>8, <3>9, SameValue
    <3>11. SumOver(w, s) = Plus(SumOver(u, s), SumOver(v, s))
      BY <3>2, <3>3, <3>4, <3>10 DEF p, q
    <3> QED
      BY <3>11
  <2> QED
    BY <2>1, <2>2
<1> HIDE DEF A
<1>2. SUBSET S \subseteq A
  BY <1>1, SubsetInduction
<1>3. S \in A
  BY <1>2
<1> QED
  BY <1>3 DEF A

(* The sum of integers, as a fraction.                                     *)
LEMMA WholeSum ==
  ASSUME NEW S, IsFiniteSet(S), NEW w, \A x \in S : w[x] \in Int,
         NEW v, \A x \in S : v[x] = Whole(w[x])
  PROVE  SumFunctionOnSet(w, S) \in Int /\ SumOver(v, S) = Whole(SumFunctionOnSet(w, S))
<1> DEFINE A == {s \in SUBSET S : /\ SumFunctionOnSet(w, s) \in Int
                                  /\ SumOver(v, s) = Whole(SumFunctionOnSet(w, s))}
<1>v. \A x \in S : v[x] \in Lowest
  BY WholeIsLowest
<1>1. ASSUME NEW s \in SUBSET S, \A x \in s : s \ {x} \in A PROVE s \in A
  <2>1. CASE s = {}
    BY <2>1, SumOverEmpty, SumOfEmpty
  <2>2. CASE s # {}
    <3>1. PICK x \in s : s \ {x} \in A
      BY <1>1, <2>2
    <3> DEFINE t == s \ {x}
               m == SumFunctionOnSet(w, t)
               n == w[x]
    <3>f. IsFiniteSet(s) /\ IsFiniteSet(t) /\ x \notin t /\ s = t \cup {x}
      BY FS_Subset
    <3>2. SumOver(v, s) = Plus(SumOver(v, t), v[x])
      BY <1>v, <3>f, SumOverType
    <3>3. m \in Int /\ SumOver(v, t) = Whole(m)
      BY <3>1
    <3>4. SumFunctionOnSet(w, s) = m + n
      <4> HIDE DEF t
      <4>1. \A y \in t \cup {x} : w[y] \in Int
        BY <3>f
      <4>2. SumFunctionOnSet(w, t \cup {x}) = SumFunctionOnSet(w, t) + w[x]
        BY <3>f, <4>1, SumAdds
      <4> QED
        BY <3>f, <4>2
    <3>5. n \in Int /\ v[x] = Whole(n)
      OBVIOUS
    <3> HIDE DEF t, m, n
    <3>6. Plus(Whole(m), Whole(n)) = Whole(m + n)
      <4> DEFINE one == 1
      <4>1. Denotes(Whole(m), m, one) /\ Denotes(Whole(n), n, one) /\ m + n \in Int
        BY <3>3, <3>5, WholeDenotes
      <4>2. Denotes(Whole(m + n), m + n, one)
        BY <4>1, WholeDenotes
      <4>3. Whole(m) \in Lowest /\ Whole(n) \in Lowest /\ Whole(m + n) \in Lowest
        BY <3>3, <3>5, <4>1, WholeIsLowest
      <4> HIDE DEF one
      <4>4. Denotes(Plus(Whole(m), Whole(n)), m + n, one)
        BY <4>1, CommonSums
      <4>5. Plus(Whole(m), Whole(n)) \in Lowest
        BY <4>3, LowestClosed DEF Lowest
      <4> QED
        BY <4>2, <4>3, <4>4, <4>5, SameValue
    <3>7. m + n \in Int /\ SumOver(v, s) = Whole(m + n)
      BY <3>2, <3>3, <3>5, <3>6
    <3> QED
      BY <3>4, <3>7
  <2> QED
    BY <2>1, <2>2
<1> HIDE DEF A
<1>2. SUBSET S \subseteq A
  BY <1>1, SubsetInduction
<1>3. S \in A
  BY <1>2
<1> QED
  BY <1>3 DEF A
=============================================================================
