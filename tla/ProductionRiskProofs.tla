------------------------- MODULE ProductionRiskProofs -------------------------
(***************************************************************************)
(* What the production risk engine keeps invariant for all orders,         *)
(* snapshots, limits and times: its state is well typed, with the counter  *)
(* within the limit, no key is approved twice, and the audit log shows     *)
(* the rate limit.                                                         *)
(***************************************************************************)
EXTENDS ProductionRiskEngine, FiniteSetTheorems, TLAPS

(* An approved order has a key never approved, and finds room in the       *)
(* window of its minute.                                                   *)
LEMMA ApprovedIsFresh ==
  ASSUME NEW order, NEW snapshot, NEW now, Violations(order, snapshot, now) = {}
  PROVE  /\ order.key \notin seenOrderKeys
         /\ ~(WindowCount(now) >= Limits.ordersPerMinute)
<1>1. OperationalViolations(order, snapshot, now) = {}
  BY DEF Violations
<1> QED
  BY <1>1 DEF OperationalViolations

LEMMA MinuteType ==
  ASSUME NEW now \in Times
  PROVE  Minute(now) \in Nat
BY ProductionRiskAssumption DEF Minute

LEMMA LimitType == Limits.ordersPerMinute \in Nat
BY ProductionRiskAssumption DEF ProductionRiskLimits

-----------------------------------------------------------------------------
(* One more entry in the audit log.                                        *)
LEMMA AuditGrows ==
  ASSUME TypeOK, NEW order \in Orders, NEW allowed \in BOOLEAN, NEW now \in Times,
         Audited(order, allowed, now)
  PROVE  /\ audit' \in Seq([key: Keys, allowed: BOOLEAN, at: Times])
         /\ DOMAIN audit' = DOMAIN audit \cup {Len(audit) + 1}
         /\ Len(audit) + 1 \notin DOMAIN audit
         /\ \A i \in DOMAIN audit : audit'[i] = audit[i]
         /\ audit'[Len(audit) + 1] = [key |-> order.key, allowed |-> allowed, at |-> now]
<1> DEFINE entry == [key |-> order.key, allowed |-> allowed, at |-> now]
<1>1. entry \in [key: Keys, allowed: BOOLEAN, at: Times]
  BY DEF Keys
<1>2. audit \in Seq([key: Keys, allowed: BOOLEAN, at: Times])
  BY DEF TypeOK
<1>3. audit' = Append(audit, entry)
  BY DEF Audited
<1> HIDE DEF entry
<1>4. /\ audit' \in Seq([key: Keys, allowed: BOOLEAN, at: Times])
      /\ Len(audit') = Len(audit) + 1
      /\ Len(audit) \in Nat
      /\ \A i \in 1..Len(audit) : audit'[i] = audit[i]
      /\ audit'[Len(audit) + 1] = entry
  BY <1>1, <1>2, <1>3
<1>5. DOMAIN audit = 1..Len(audit) /\ DOMAIN audit' = 1..(Len(audit) + 1)
  BY <1>2, <1>4
<1> QED
  BY <1>4, <1>5 DEF entry

LEMMA EvaluateOrderTyped ==
  ASSUME TypeOK, NEW order \in Orders, NEW snapshot \in Snapshots, NEW now \in Times,
         EvaluateOrder(order, snapshot, now)
  PROVE  TypeOK'
<1> DEFINE allowed == Violations(order, snapshot, now) = {}
<1>1. RecordDecision(order, allowed, now)
  BY DEF EvaluateOrder
<1>2. WindowCount(now) \in 0..Limits.ordersPerMinute
  BY LimitType DEF WindowCount, TypeOK
<1>3. allowed => WindowCount(now) < Limits.ordersPerMinute
  BY <1>2, LimitType, ApprovedIsFresh
<1> HIDE DEF allowed
<1>4. ordersInWindow' \in 0..Limits.ordersPerMinute
  BY <1>1, <1>2, <1>3, LimitType DEF RecordDecision
<1>5. seenOrderKeys' \subseteq Keys
  BY <1>1 DEF RecordDecision, TypeOK, Keys
<1>6. allowed \in BOOLEAN
  BY DEF allowed
<1>7. audit' \in Seq([key: Keys, allowed: BOOLEAN, at: Times])
  BY <1>1, <1>6, AuditGrows DEF RecordDecision
<1>8. orderWindow' \in Nat /\ UNCHANGED emergencyStop
  BY MinuteType DEF EvaluateOrder
<1> QED
  BY <1>4, <1>5, <1>7, <1>8 DEF TypeOK

LEMMA InitTyped == Init => TypeOK
<1> SUFFICES ASSUME Init PROVE TypeOK
  OBVIOUS
<1>1. emergencyStop \in BOOLEAN
  BY DEF Init
<1>2. ordersInWindow \in 0..Limits.ordersPerMinute /\ orderWindow \in Nat \cup {-1}
  BY LimitType DEF Init
<1>3. /\ seenOrderKeys \subseteq Keys
      /\ audit \in Seq([key: Keys, allowed: BOOLEAN, at: Times])
  BY DEF Init
<1> QED
  BY <1>1, <1>2, <1>3 DEF TypeOK

(* The state is well typed; the counter of a minute never passes the       *)
(* limit, whatever is stopped, cleared or evaluated out of order.          *)
THEOREM TypeCorrect == Spec => []TypeOK
<1>1. Init => TypeOK
  BY InitTyped
<1>2. TypeOK /\ [Next]_vars => TypeOK'
  <2> SUFFICES ASSUME TypeOK, [Next]_vars PROVE TypeOK'
    OBVIOUS
  <2>1. CASE \E order \in Orders, snapshot \in Snapshots, now \in Times :
               EvaluateOrder(order, snapshot, now)
    BY <2>1, EvaluateOrderTyped
  <2>2. CASE TriggerEmergencyStop \/ ClearEmergencyStop
    <3>1. /\ emergencyStop' \in BOOLEAN
          /\ UNCHANGED <<orderWindow, ordersInWindow, seenOrderKeys, audit>>
      BY <2>2 DEF TriggerEmergencyStop, ClearEmergencyStop
    <3> QED
      BY <3>1 DEF TypeOK
  <2>3. CASE UNCHANGED vars
    BY <2>3 DEF vars, TypeOK
  <2> QED
    BY <2>1, <2>2, <2>3 DEF Next
<1> QED
  BY <1>1, <1>2, PTL DEF Spec

-----------------------------------------------------------------------------
LEMMA EvaluateOrderApprovesOnce ==
  ASSUME TypeOK, ApprovedOncePerKey, NEW order \in Orders,
         NEW snapshot \in Snapshots, NEW now \in Times,
         EvaluateOrder(order, snapshot, now)
  PROVE  ApprovedOncePerKey'
<1> DEFINE allowed == Violations(order, snapshot, now) = {}
           n == Len(audit) + 1
<1>1. RecordDecision(order, allowed, now)
  BY DEF EvaluateOrder
<1>2. allowed => order.key \notin seenOrderKeys
  BY ApprovedIsFresh
<1>3. allowed \in BOOLEAN
  OBVIOUS
<1> HIDE DEF allowed
<1>4. /\ DOMAIN audit' = DOMAIN audit \cup {n}
      /\ n \notin DOMAIN audit
      /\ \A i \in DOMAIN audit : audit'[i] = audit[i]
      /\ audit'[n].key = order.key
      /\ audit'[n].allowed = allowed
  <2>1. Audited(order, allowed, now)
    BY <1>1 DEF RecordDecision
  <2>2. /\ DOMAIN audit' = DOMAIN audit \cup {n}
        /\ n \notin DOMAIN audit
        /\ \A i \in DOMAIN audit : audit'[i] = audit[i]
        /\ audit'[n] = [key |-> order.key, allowed |-> allowed, at |-> now]
    BY <1>3, <2>1, AuditGrows
  <2> QED
    BY <2>2
<1> HIDE DEF n
<1>5. CASE allowed
  <2>1. Approvals' = Approvals \cup {n} /\ n \notin Approvals
    BY <1>4, <1>5 DEF Approvals
  <2>2. seenOrderKeys' = seenOrderKeys \cup {order.key}
    BY <1>1, <1>5 DEF RecordDecision
  <2>3. /\ \A i \in Approvals : audit'[i].key = audit[i].key
        /\ \A i \in Approvals : audit[i].key \in seenOrderKeys
    BY <1>4 DEF Approvals, ApprovedOncePerKey
  <2>4. seenOrderKeys' = {audit'[i].key : i \in Approvals'}
    BY <1>4, <2>1, <2>2, <2>3 DEF ApprovedOncePerKey
  <2>5. \A i, j \in Approvals' : audit'[i].key = audit'[j].key => i = j
    BY <1>2, <1>4, <1>5, <2>1, <2>3 DEF ApprovedOncePerKey
  <2> QED
    BY <2>4, <2>5 DEF ApprovedOncePerKey
<1>6. CASE ~allowed
  <2>1. Approvals' = Approvals
    BY <1>4, <1>6 DEF Approvals
  <2>2. seenOrderKeys' = seenOrderKeys
    BY <1>1, <1>6 DEF RecordDecision
  <2>3. \A i \in Approvals : audit'[i].key = audit[i].key
    BY <1>4 DEF Approvals
  <2> QED
    BY <2>1, <2>2, <2>3 DEF ApprovedOncePerKey
<1> QED
  BY <1>3, <1>5, <1>6

(* No key is approved twice over any sequence of evaluations, stops and    *)
(* clears, and the keys remembered are exactly the approved ones.          *)
THEOREM KeysAreApprovedOnce == Spec => []ApprovedOncePerKey
<1>1. Init => ApprovedOncePerKey
  BY DEF Init, ApprovedOncePerKey, Approvals
<1>2. TypeOK /\ ApprovedOncePerKey /\ [Next]_vars => ApprovedOncePerKey'
  <2> SUFFICES ASSUME TypeOK, ApprovedOncePerKey, [Next]_vars
               PROVE  ApprovedOncePerKey'
    OBVIOUS
  <2>1. CASE \E order \in Orders, snapshot \in Snapshots, now \in Times :
               EvaluateOrder(order, snapshot, now)
    BY <2>1, EvaluateOrderApprovesOnce
  <2>2. CASE UNCHANGED <<seenOrderKeys, audit>>
    BY <2>2 DEF ApprovedOncePerKey, Approvals
  <2> QED
    BY <2>1, <2>2 DEF Next, TriggerEmergencyStop, ClearEmergencyStop, vars
<1> QED
  BY <1>1, <1>2, TypeCorrect, PTL DEF Spec
-----------------------------------------------------------------------------
(* The audit log and the counter.  The sets AuditShowsRateLimit counts.    *)
InStretch(s) ==
    {i \in Approvals : i >= s /\ {t \in Stretches : s < t /\ t =< i} = {}}

ApprovedIn(m) == {i \in Approvals : Minute(audit[i].at) = m}

StretchesOf(m) == {s \in Stretches : Minute(audit[s].at) = m}

(* The window is that of the last decision.                                *)
WindowIsLast ==
    /\ audit = <<>> => orderWindow = -1
    /\ audit # <<>> => orderWindow = Minute(audit[Len(audit)].at)

StretchesAreLimited ==
    \A s \in Stretches :
      /\ Cardinality(InStretch(s)) =< Limits.ordersPerMinute
      /\ {t \in Stretches : t > s} = {} => ordersInWindow = Cardinality(InStretch(s))

(* All stretches of a minute may be full, but the one under way has only   *)
(* what the counter says.                                                  *)
MinutesAreLimited ==
    \A m \in Nat :
      Cardinality(ApprovedIn(m))
          + (IF m = orderWindow THEN Limits.ordersPerMinute - ordersInWindow ELSE 0)
        =< Limits.ordersPerMinute * Cardinality(StretchesOf(m))

AInv == TypeOK /\ WindowIsLast /\ StretchesAreLimited /\ MinutesAreLimited

LEMMA LogSetsAreFinite ==
  ASSUME TypeOK
  PROVE  /\ \A s : IsFiniteSet(InStretch(s)) /\ Cardinality(InStretch(s)) \in Nat
         /\ \A m : IsFiniteSet(ApprovedIn(m)) /\ Cardinality(ApprovedIn(m)) \in Nat
         /\ \A m : IsFiniteSet(StretchesOf(m)) /\ Cardinality(StretchesOf(m)) \in Nat
<1>1. DOMAIN audit = 1..Len(audit) /\ Len(audit) \in Nat
  BY DEF TypeOK
<1>2. IsFiniteSet(DOMAIN audit)
  BY <1>1, FS_Interval
<1>3. /\ \A s : InStretch(s) \subseteq DOMAIN audit
      /\ \A m : ApprovedIn(m) \subseteq DOMAIN audit /\ StretchesOf(m) \subseteq DOMAIN audit
  BY DEF InStretch, ApprovedIn, StretchesOf, Approvals, Stretches
<1> QED
  BY <1>2, <1>3, FS_Subset, FS_CardinalityType

LEMMA OneMore ==
  ASSUME NEW S, NEW T, NEW n, NEW b \in BOOLEAN, IsFiniteSet(S), n \notin S,
         T = IF b THEN S \cup {n} ELSE S
  PROVE  Cardinality(T) = Cardinality(S) + (IF b THEN 1 ELSE 0)
<1>1. Cardinality(S) \in Nat
  BY FS_CardinalityType
<1>2. CASE b
  BY <1>2, FS_AddElement
<1>3. CASE ~b
  BY <1>1, <1>3
<1> QED
  BY <1>2, <1>3

LEMMA LimitTimes ==
  ASSUME NEW k \in Nat
  PROVE  /\ Limits.ordersPerMinute * k \in Nat
         /\ Limits.ordersPerMinute * (k + 1)
              = Limits.ordersPerMinute * k + Limits.ordersPerMinute
BY LimitType

LEMMA EvaluateOrderShowsRate ==
  ASSUME AInv, NEW order \in Orders, NEW snapshot \in Snapshots, NEW now \in Times,
         EvaluateOrder(order, snapshot, now)
  PROVE  AInv'
<1> DEFINE allowed == Violations(order, snapshot, now) = {}
           n == Len(audit) + 1
           mn == Minute(now)
           new == mn # orderWindow
           limit == Limits.ordersPerMinute
<1>1. /\ RecordDecision(order, allowed, now)
      /\ orderWindow' = mn
  BY DEF EvaluateOrder
<1>2. allowed \in BOOLEAN /\ new \in BOOLEAN
  OBVIOUS
<1>3. TypeOK /\ TypeOK'
  BY EvaluateOrderTyped DEF AInv
<1> HIDE DEF allowed
<1>4. /\ n \in Nat /\ n - 1 = Len(audit)
      /\ DOMAIN audit = 1..(n - 1) /\ DOMAIN audit' = 1..n /\ Len(audit') = n
      /\ \A i \in DOMAIN audit : audit'[i] = audit[i]
      /\ audit'[n].allowed = allowed /\ audit'[n].at = now
  <2>1. Audited(order, allowed, now)
    BY <1>1 DEF RecordDecision
  <2>2. /\ DOMAIN audit' = DOMAIN audit \cup {n}
        /\ \A i \in DOMAIN audit : audit'[i] = audit[i]
        /\ audit'[n] = [key |-> order.key, allowed |-> allowed, at |-> now]
    BY <1>2, <1>3, <2>1, AuditGrows
  <2>3. Len(audit) \in Nat /\ DOMAIN audit = 1..Len(audit)
    BY <1>3 DEF TypeOK
  <2>4. Len(audit') = n
    BY <2>1, <2>3 DEF Audited
  <2> QED
    BY <2>2, <2>3, <2>4
<1>5. mn \in Nat
  BY MinuteType
<1>6. /\ limit \in Nat /\ ordersInWindow \in 0..limit /\ ordersInWindow' \in 0..limit
  BY <1>3, LimitType DEF TypeOK
<1>7. ordersInWindow' = (IF new THEN 0 ELSE ordersInWindow) + (IF allowed THEN 1 ELSE 0)
  BY <1>1 DEF RecordDecision, WindowCount
<1>8. WindowIsLast'
  <2>1. audit' # <<>>
    BY <1>4
  <2> QED
    BY <1>1, <1>4, <2>1 DEF WindowIsLast
<1>9. new <=> n = 1 \/ Minute(audit'[n].at) # Minute(audit'[n - 1].at)
  <2>1. CASE n = 1
    <3>1. audit = <<>>
      BY <1>3, <1>4, <2>1 DEF TypeOK
    <3> QED
      BY <1>5, <2>1, <3>1 DEF AInv, WindowIsLast
  <2>2. CASE n # 1
    <3>1. n - 1 \in DOMAIN audit /\ audit # <<>>
      BY <1>4, <2>2
    <3> QED
      BY <1>4, <2>2, <3>1 DEF AInv, WindowIsLast
  <2> QED
    BY <2>1, <2>2
<1> HIDE DEF n, mn, new, limit
<1>10. Stretches' = IF new THEN Stretches \cup {n} ELSE Stretches
  <2>1. \A i \in 1..(n - 1) : i = 1 \/ i - 1 \in 1..(n - 1)
    BY <1>4
  <2>2. \A i \in 1..(n - 1) : i \in Stretches' <=> i \in Stretches
    BY <1>4, <2>1 DEF Stretches
  <2>3. n \in Stretches' <=> new
    BY <1>4, <1>9 DEF Stretches
  <2>4. Stretches \subseteq 1..(n - 1) /\ Stretches' \subseteq 1..n
    BY <1>4 DEF Stretches
  <2>5. 1..n = 1..(n - 1) \cup {n}
    BY <1>4
  <2> QED
    BY <1>2, <2>2, <2>3, <2>4, <2>5
<1>11. /\ Approvals' = IF allowed THEN Approvals \cup {n} ELSE Approvals
       /\ Approvals \subseteq 1..(n - 1) /\ Stretches \subseteq 1..(n - 1)
       /\ n \notin Approvals /\ n \notin Stretches
  BY <1>2, <1>4 DEF Approvals, Stretches
<1>12. StretchesAreLimited'
  <2> SUFFICES ASSUME NEW s \in Stretches'
               PROVE  /\ Cardinality(InStretch(s)') =< limit
                      /\ {t \in Stretches' : t > s} = {}
                           => ordersInWindow' = Cardinality(InStretch(s)')
    BY DEF StretchesAreLimited, limit
  <2>1. CASE s \in Stretches /\ new
    <3>1. s < n /\ n \in Stretches'
      BY <1>4, <1>10, <1>11, <2>1
    <3>2. InStretch(s)' = InStretch(s)
      <4>1. \A i \in Approvals :
              {t \in Stretches' : s < t /\ t =< i} = {t \in Stretches : s < t /\ t =< i}
        BY <1>4, <1>10, <1>11
      <4>2. {t \in Stretches' : s < t /\ t =< n} # {}
        BY <1>4, <3>1
      <4>3. \A i \in Approvals : i \in InStretch(s)' <=> i \in InStretch(s)
        BY <1>2, <1>11, <4>1 DEF InStretch
      <4>4. n \notin InStretch(s)'
        BY <4>2 DEF InStretch
      <4>5. InStretch(s)' \subseteq Approvals \cup {n} /\ InStretch(s) \subseteq Approvals
        BY <1>2, <1>11 DEF InStretch
      <4> QED
        BY <4>3, <4>4, <4>5
    <3> QED
      BY <1>4, <2>1, <3>1, <3>2 DEF AInv, StretchesAreLimited, limit
  <2>2. CASE s \in Stretches /\ ~new /\ {t \in Stretches : t > s} = {}
    <3>1. InStretch(s)' = IF allowed THEN InStretch(s) \cup {n} ELSE InStretch(s)
      <4>1. Stretches' = Stretches
        BY <1>10, <2>2
      <4>2. n >= s /\ \A t \in Stretches : ~(s < t)
        BY <1>4, <1>11, <2>2
      <4> QED
        BY <1>2, <1>11, <4>1, <4>2 DEF InStretch
    <3>2. n \notin InStretch(s) /\ IsFiniteSet(InStretch(s))
      BY <1>3, <1>11, LogSetsAreFinite DEF InStretch
    <3>3. Cardinality(InStretch(s)') = Cardinality(InStretch(s)) + (IF allowed THEN 1 ELSE 0)
      BY <1>2, <3>1, <3>2, OneMore
    <3>4. ordersInWindow = Cardinality(InStretch(s))
      BY <2>2 DEF AInv, StretchesAreLimited
    <3> QED
      BY <1>6, <1>7, <2>2, <3>3, <3>4
  <2>3. CASE s \in Stretches /\ ~new /\ {t \in Stretches : t > s} # {}
    <3>1. PICK t \in Stretches : t > s
      BY <2>3
    <3>2. t =< n /\ s < t
      BY <1>4, <1>11, <2>3, <3>1
    <3>3. Stretches' = Stretches
      BY <1>10, <2>3
    <3>4. InStretch(s)' = InStretch(s)
      BY <1>2, <1>11, <3>2, <3>3 DEF InStretch
    <3> QED
      BY <2>3, <3>3, <3>4 DEF AInv, StretchesAreLimited, limit
  <2>4. CASE s = n /\ new
    <3>1. \A i \in 1..(n - 1) : ~(i >= s)
      BY <1>4, <2>4
    <3>2. \A t \in Stretches' : ~(s < t)
      BY <1>4, <1>10, <1>11, <2>4
    <3>3. n >= s
      BY <1>4, <2>4
    <3>4. InStretch(s)' = IF allowed THEN {} \cup {n} ELSE {}
      BY <1>2, <1>11, <3>1, <3>2, <3>3 DEF InStretch
    <3>5. IsFiniteSet({}) /\ Cardinality({}) = 0 /\ n \notin {}
      BY FS_EmptySet
    <3>6. Cardinality(InStretch(s)') = IF allowed THEN 1 ELSE 0
      BY <1>2, <3>4, <3>5, OneMore
    <3> QED
      BY <1>6, <1>7, <2>4, <3>6
  <2> QED
    BY <1>2, <1>10, <2>1, <2>2, <2>3, <2>4
<1>13. MinutesAreLimited'
  <2> SUFFICES ASSUME NEW m \in Nat
               PROVE  Cardinality(ApprovedIn(m)')
                         + (IF m = mn THEN limit - ordersInWindow' ELSE 0)
                       =< limit * Cardinality(StretchesOf(m)')
    BY <1>1 DEF MinutesAreLimited, limit
  <2> DEFINE a == allowed /\ m = mn
             b == new /\ m = mn
             A == Cardinality(ApprovedIn(m))
             S == Cardinality(StretchesOf(m))
  <2>1. a \in BOOLEAN /\ b \in BOOLEAN
    BY <1>2
  <2>2. A \in Nat /\ S \in Nat
    BY <1>3, LogSetsAreFinite
  <2>3. Cardinality(ApprovedIn(m)') = A + (IF a THEN 1 ELSE 0)
    <3>1. ApprovedIn(m)' = IF a THEN ApprovedIn(m) \cup {n} ELSE ApprovedIn(m)
      BY <1>2, <1>4, <1>11 DEF ApprovedIn, mn
    <3>2. n \notin ApprovedIn(m) /\ IsFiniteSet(ApprovedIn(m))
      BY <1>3, <1>11, LogSetsAreFinite DEF ApprovedIn
    <3> QED
      BY <2>1, <3>1, <3>2, OneMore
  <2>4. Cardinality(StretchesOf(m)') = S + (IF b THEN 1 ELSE 0)
    <3>1. StretchesOf(m)' = IF b THEN StretchesOf(m) \cup {n} ELSE StretchesOf(m)
      BY <1>2, <1>4, <1>10, <1>11 DEF StretchesOf, mn
    <3>2. n \notin StretchesOf(m) /\ IsFiniteSet(StretchesOf(m))
      BY <1>3, <1>11, LogSetsAreFinite DEF StretchesOf
    <3> QED
      BY <2>1, <3>1, <3>2, OneMore
  <2>5. A + (IF m = orderWindow THEN limit - ordersInWindow ELSE 0) =< limit * S
    BY DEF AInv, MinutesAreLimited, limit
  <2>6. limit * S \in Nat /\ limit * (S + 1) = limit * S + limit
    BY <2>2, LimitTimes DEF limit
  <2> HIDE DEF A, S
  <2>7. CASE m = mn /\ new
    BY <1>2, <1>6, <1>7, <2>2, <2>3, <2>4, <2>5, <2>6, <2>7 DEF new
  <2>8. CASE m = mn /\ ~new
    BY <1>2, <1>6, <1>7, <2>2, <2>3, <2>4, <2>5, <2>6, <2>8 DEF new
  <2>9. CASE m # mn
    BY <1>6, <2>2, <2>3, <2>4, <2>5, <2>6, <2>9
  <2> QED
    BY <1>2, <2>7, <2>8, <2>9
<1> QED
  BY <1>3, <1>8, <1>12, <1>13 DEF AInv

(* Within every stretch of the audit log that stays in one minute at most  *)
(* the limit is approved, which the counter of _roll_rate_window shows;    *)
(* and a minute is overrun only if the log returns to it.                  *)
THEOREM AuditShowsRate == Spec => []AuditShowsRateLimit
<1>1. Init => AInv
  <2> SUFFICES ASSUME Init PROVE AInv
    OBVIOUS
  <2>1. TypeOK
    BY InitTyped
  <2>2. audit = <<>> /\ orderWindow = -1 /\ DOMAIN audit = {}
    BY DEF Init
  <2>3. Stretches = {} /\ \A m : ApprovedIn(m) = {} /\ StretchesOf(m) = {}
    BY <2>2 DEF Stretches, Approvals, ApprovedIn, StretchesOf
  <2>4. MinutesAreLimited
    <3>1. Cardinality({}) = 0 /\ Limits.ordersPerMinute * 0 = 0
      BY FS_EmptySet, LimitType
    <3> SUFFICES ASSUME NEW m \in Nat
                 PROVE  Cardinality(ApprovedIn(m))
                          + (IF m = orderWindow THEN Limits.ordersPerMinute - ordersInWindow
                             ELSE 0)
                        =< Limits.ordersPerMinute * Cardinality(StretchesOf(m))
      BY DEF MinutesAreLimited
    <3>2. m # orderWindow
      BY <2>2
    <3>3. Cardinality(ApprovedIn(m)) = 0 /\ Cardinality(StretchesOf(m)) = 0
      BY <2>3, <3>1
    <3> QED
      BY <3>1, <3>2, <3>3
  <2> QED
    BY <2>1, <2>2, <2>3, <2>4 DEF AInv, WindowIsLast, StretchesAreLimited
<1>2. AInv /\ [Next]_vars => AInv'
  <2> SUFFICES ASSUME AInv, [Next]_vars PROVE AInv'
    OBVIOUS
  <2>1. CASE \E order \in Orders, snapshot \in Snapshots, now \in Times :
               EvaluateOrder(order, snapshot, now)
    BY <2>1, EvaluateOrderShowsRate
  <2>2. CASE /\ emergencyStop' \in BOOLEAN
             /\ UNCHANGED <<orderWindow, ordersInWindow, seenOrderKeys, audit>>
    <3>1. /\ Approvals' = Approvals /\ Stretches' = Stretches
          /\ TypeOK' /\ WindowIsLast'
      BY <2>2 DEF AInv, TypeOK, WindowIsLast, Approvals, Stretches
    <3>2. /\ \A s : InStretch(s)' = InStretch(s)
          /\ \A m : ApprovedIn(m)' = ApprovedIn(m) /\ StretchesOf(m)' = StretchesOf(m)
      BY <2>2, <3>1 DEF InStretch, ApprovedIn, StretchesOf
    <3>3. StretchesAreLimited'
      BY <2>2, <3>1, <3>2 DEF AInv, StretchesAreLimited
    <3>4. MinutesAreLimited'
      BY <2>2, <3>2 DEF AInv, MinutesAreLimited
    <3> QED
      BY <3>1, <3>3, <3>4 DEF AInv
  <2>3. UNCHANGED vars => emergencyStop' \in BOOLEAN
    BY DEF vars, AInv, TypeOK
  <2> QED
    BY <2>1, <2>2, <2>3 DEF Next, TriggerEmergencyStop, ClearEmergencyStop, vars
<1>3. AInv => AuditShowsRateLimit
  <2> SUFFICES ASSUME AInv PROVE AuditShowsRateLimit
    OBVIOUS
  <2>1. \A s : ApprovedInStretch(s) = Cardinality(InStretch(s))
    BY DEF ApprovedInStretch, InStretch
  <2>2. ASSUME NEW t \in Times
        PROVE  Cardinality(ApprovedIn(Minute(t)))
                 =< Limits.ordersPerMinute * Cardinality(StretchesOf(Minute(t)))
    <3> DEFINE m == Minute(t)
    <3>0. TypeOK
      BY DEF AInv
    <3>1. /\ Cardinality(ApprovedIn(m)) \in Nat /\ Cardinality(StretchesOf(m)) \in Nat
          /\ Limits.ordersPerMinute \in Nat
          /\ ordersInWindow \in 0..Limits.ordersPerMinute
      BY <3>0, LogSetsAreFinite, LimitType DEF TypeOK
    <3>2. Limits.ordersPerMinute * Cardinality(StretchesOf(m)) \in Nat
      BY <3>1, LimitTimes
    <3>3. Cardinality(ApprovedIn(m))
             + (IF m = orderWindow THEN Limits.ordersPerMinute - ordersInWindow ELSE 0)
            =< Limits.ordersPerMinute * Cardinality(StretchesOf(m))
      BY MinuteType DEF AInv, MinutesAreLimited
    <3> QED
      BY <3>1, <3>2, <3>3
  <2>3. \A s \in Stretches :
          /\ ApprovedInStretch(s) =< Limits.ordersPerMinute
          /\ {t \in Stretches : t > s} = {} => ordersInWindow = ApprovedInStretch(s)
    BY <2>1 DEF AInv, StretchesAreLimited
  <2>4. \A m \in {Minute(t) : t \in Times} :
          Cardinality(ApprovedIn(m)) =< Limits.ordersPerMinute * Cardinality(StretchesOf(m))
    BY <2>2
  <2> QED
    BY <2>3, <2>4 DEF AuditShowsRateLimit, ApprovedIn, StretchesOf
<1> QED
  BY <1>1, <1>2, <1>3, PTL DEF Spec
=============================================================================
