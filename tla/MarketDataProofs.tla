--------------------------- MODULE MarketDataProofs ---------------------------
(***************************************************************************)
(* What the market data service guarantees for all times to live,          *)
(* timeouts, delays and numbers of attempts, whatever the provider does    *)
(* and however long abandoned calls go on.                                 *)
(***************************************************************************)
EXTENDS MarketData, TLAPS

(* The bounds on ages and waits are minima and a maximum of two numbers.   *)
LEMMA MinOfTwo ==
  ASSUME NEW a \in Int, NEW b \in Int
  PROVE  Min({a, b}) = IF a =< b THEN a ELSE b
BY DEF Min

LEMMA MaxOfTwo ==
  ASSUME NEW a \in Int, NEW b \in Int
  PROVE  Max({a, b}) = IF a >= b THEN a ELSE b
BY DEF Max

LEMMA OlderBounds ==
  ASSUME NEW age \in 0..Ancient
  PROVE  /\ Older(age) \in 0..Ancient
         /\ Older(age) =< age + 1
         /\ Older(age) >= age
         /\ age < Ancient => Older(age) = age + 1
BY MinOfTwo, MarketDataAssumption DEF Older

LEMMA OlderMonotone ==
  ASSUME NEW a \in 0..Ancient, NEW b \in 0..Ancient, a =< b
  PROVE  Older(a) =< Older(b)
BY MinOfTwo, MarketDataAssumption DEF Older

LEMMA LongestWaitType == LongestWait \in Nat
BY MarketDataAssumption DEF LongestWait

LEMMA LongerBounds ==
  ASSUME NEW elapsed \in Nat
  PROVE  Longer(elapsed) \in Nat /\ Longer(elapsed) =< elapsed + 1
BY MinOfTwo, LongestWaitType DEF Longer

LEMMA SeqElement ==
  ASSUME NEW S, NEW s \in Seq(S), NEW n \in DOMAIN s
  PROVE  s[n] \in S
OBVIOUS

(* A change of a sequence's elements keeps its length.                     *)
LEMMA SeqMapped ==
  ASSUME NEW S, NEW s \in Seq(S), NEW t,
         DOMAIN t = DOMAIN s, t = [n \in DOMAIN s |-> t[n]],
         \A n \in DOMAIN s : t[n] \in S
  PROVE  t \in Seq(S) /\ Len(t) = Len(s) /\ Len(s) \in Nat
<1>1. DOMAIN s = 1..Len(s) /\ Len(s) \in Nat
  OBVIOUS
<1>2. t \in [1..Len(s) -> S]
  BY <1>1
<1> QED
  BY <1>1, <1>2

LEMMA RemoveAtLen ==
  ASSUME NEW S, NEW s \in Seq(S), NEW n \in DOMAIN s
  PROVE  RemoveAt(s, n) \in Seq(S) /\ Len(RemoveAt(s, n)) = Len(s) - 1
BY DEF RemoveAt

-----------------------------------------------------------------------------
(* The inductive invariant: the properties themselves, and what keeps them *)
(* true.  An answer in the cache can age by what is left of its time to    *)
(* live; it is no older than what was served last; and a call that waits   *)
(* has begun no earlier than that.                                         *)
Awaiting == caller # Idle /\ caller.phase = "calling"

(* Time the earlier attempts and the delays behind them may have taken.    *)
Spent(attempt) == (attempt - 1) * (Timeout + Delay)

(* A thread is given up only for one of the attempts left.                 *)
ThreadsFit ==
    caller # Idle =>
      /\ Len(abandoned) + (Attempts - caller.attempt)
           + (IF Awaiting THEN 1 ELSE 0) =< MaxAbandoned
      /\ ~Awaiting => caller.attempt < Attempts

CachedIsFresh ==
    \A k \in DOMAIN cache :
      cache[k].left >= 0 => cache[k].age + cache[k].left =< Timeout + TTL[k]

CachedIsServed == \A k \in DOMAIN cache : cache[k].age =< served[k]

CallIsLater == Awaiting => Timeout - caller.left =< served[caller.lookup]

ElapsedIsSpent ==
    caller # Idle =>
      caller.elapsed =< Spent(caller.attempt) + Timeout - caller.left
                          + (IF Awaiting THEN 0 ELSE Delay)

MInv ==
    /\ TypeOK
    /\ ThreadsFit
    /\ CachedIsFresh
    /\ CachedIsServed
    /\ CallIsLater
    /\ ElapsedIsSpent
    /\ AnswersAreFresh
    /\ AnswersNeverGoBack

LEMMA SpentStep ==
  ASSUME NEW a \in Nat
  PROVE  /\ Spent(a) \in Int
         /\ Spent(a + 1) = Spent(a) + Timeout + Delay
BY MarketDataAssumption DEF Spent

LEMMA SpentBound ==
  ASSUME NEW a \in 1..Attempts
  PROVE  Spent(a) + Timeout =< LongestWait
BY MarketDataAssumption DEF Spent, LongestWait

(* What a waiting caller is, for the steps below.                          *)
LEMMA WaitingType ==
  ASSUME TypeOK, caller # Idle
  PROVE  /\ caller.lookup \in Lookups
         /\ caller.attempt \in 1..Attempts
         /\ caller.attempt \in Nat
         /\ caller.left \in Nat
         /\ caller.elapsed \in Nat
         /\ Awaiting => caller.left =< Timeout
         /\ ~Awaiting => caller.phase = "sleeping" /\ caller.left =< Delay
BY MarketDataAssumption DEF TypeOK, Awaiting

LEMMA CallingType ==
  ASSUME NEW lookup \in Lookups, NEW a \in 1..Attempts, NEW e \in Nat,
         caller' = Calling(lookup, a, e)
  PROVE  /\ caller' # Idle
         /\ Awaiting'
         /\ caller'.lookup = lookup /\ caller'.attempt = a
         /\ caller'.left = Timeout /\ caller'.elapsed = e
         /\ caller' \in [phase: {"calling", "sleeping"}, lookup: Lookups,
                         attempt: 1..Attempts, left: Nat, elapsed: Nat]
         /\ caller'.phase = "calling"
BY MarketDataAssumption DEF Calling, Idle, Awaiting

LEMMA SleepingType ==
  ASSUME NEW lookup \in Lookups, NEW a \in 1..Attempts, NEW e \in Nat,
         caller' = Sleeping(lookup, a, e)
  PROVE  /\ caller' # Idle
         /\ ~Awaiting'
         /\ caller'.lookup = lookup /\ caller'.attempt = a
         /\ caller'.left = Delay /\ caller'.elapsed = e
         /\ caller' \in [phase: {"calling", "sleeping"}, lookup: Lookups,
                         attempt: 1..Attempts, left: Nat, elapsed: Nat]
         /\ caller'.phase = "sleeping"
BY MarketDataAssumption DEF Sleeping, Idle, Awaiting

LEMMA CacheType ==
  ASSUME TypeOK, NEW k \in DOMAIN cache
  PROVE  /\ k \in CachedLookups /\ k \in Lookups
         /\ cache[k].age \in 0..Ancient
         /\ cache[k].left \in -1..TTL[k]
         /\ cache[k].left \in Int
         /\ TTL[k] \in Nat
<1>1. k \in CachedLookups /\ k \in Lookups /\ TTL[k] \in Nat
  BY MarketDataAssumption DEF TypeOK, Lookups
<1>2. cache[k].age \in 0..Ancient /\ cache[k].left \in -1..TTL[k]
  BY DEF TypeOK
<1> QED
  BY <1>1, <1>2

-----------------------------------------------------------------------------
LEMMA AnswerFromCacheMInv ==
  ASSUME MInv, NEW lookup \in Lookups, AnswerFromCache(lookup)
  PROVE  MInv'
<1> DEFINE age == cache[lookup].age
<1>1. /\ lookup \in DOMAIN cache /\ lookup \in CachedLookups
      /\ age \in 0..Ancient /\ cache[lookup].left \in Nat /\ TTL[lookup] \in Nat
      /\ age + cache[lookup].left =< Timeout + TTL[lookup]
      /\ age =< served[lookup]
      /\ served \in [Lookups -> 0..Ancient]
  BY CacheType, MarketDataAssumption
     DEF AnswerFromCache, Hit, MInv, CachedIsFresh, CachedIsServed, TypeOK
<1>2. /\ answer' = [lookup |-> lookup, age |-> age, previous |-> served[lookup]]
      /\ served' = [served EXCEPT ![lookup] = age]
      /\ UNCHANGED <<cache, caller, abandoned>>
      /\ caller = Idle
  BY DEF AnswerFromCache, Return
<1> HIDE DEF age
<1>3. TypeOK'
  BY <1>1, <1>2 DEF MInv, TypeOK
<1>4. AnswersAreFresh' /\ AnswersNeverGoBack'
  BY <1>1, <1>2, MarketDataAssumption DEF AnswersAreFresh, AnswersNeverGoBack
<1>5. CachedIsServed'
  BY <1>1, <1>2 DEF MInv, CachedIsServed, age, TypeOK
<1>6. ThreadsFit' /\ CallIsLater' /\ ElapsedIsSpent' /\ CachedIsFresh'
  BY <1>2 DEF MInv, ThreadsFit, CallIsLater, ElapsedIsSpent, CachedIsFresh, Awaiting
<1> QED
  BY <1>3, <1>4, <1>5, <1>6 DEF MInv

LEMMA AskProviderMInv ==
  ASSUME MInv, NEW lookup \in Lookups, AskProvider(lookup)
  PROVE  MInv'
<1>1. /\ caller' = Calling(lookup, 1, 0)
      /\ cache' = Without(cache, lookup)
      /\ Len(abandoned) + Attempts =< MaxAbandoned
      /\ UNCHANGED <<abandoned, served, answer>>
  BY DEF AskProvider
<1>2. /\ caller' # Idle /\ Awaiting'
      /\ caller'.lookup = lookup /\ caller'.attempt = 1
      /\ caller'.left = Timeout /\ caller'.elapsed = 0
      /\ caller' \in [phase: {"calling", "sleeping"}, lookup: Lookups,
                      attempt: 1..Attempts, left: Nat, elapsed: Nat]
      /\ caller'.phase = "calling"
  BY <1>1, CallingType, MarketDataAssumption
<1>3. /\ DOMAIN cache' \subseteq DOMAIN cache
      /\ \A k \in DOMAIN cache' : cache'[k] = cache[k]
  BY <1>1 DEF Without
<1>4. TypeOK'
  BY <1>1, <1>2, <1>3, MarketDataAssumption DEF MInv, TypeOK
<1>5. CachedIsFresh' /\ CachedIsServed' /\ AnswersAreFresh' /\ AnswersNeverGoBack'
  BY <1>1, <1>3 DEF MInv, CachedIsFresh, CachedIsServed, AnswersAreFresh,
                    AnswersNeverGoBack
<1>6. CallIsLater'
  BY <1>1, <1>2, MarketDataAssumption DEF MInv, TypeOK, CallIsLater
<1>7. ThreadsFit'
  BY <1>1, <1>2, MarketDataAssumption DEF ThreadsFit, MInv, TypeOK
<1>8. ElapsedIsSpent'
  BY <1>2, MarketDataAssumption DEF ElapsedIsSpent, Spent
<1> QED
  BY <1>4, <1>5, <1>6, <1>7, <1>8 DEF MInv

LEMMA ProviderAnswersMInv ==
  ASSUME MInv, ProviderAnswers
  PROVE  MInv'
<1> DEFINE lookup == caller.lookup
           age == Timeout - caller.left
<1>1. caller # Idle /\ Awaiting
  BY DEF ProviderAnswers, Idle, Awaiting
<1>2. /\ lookup \in Lookups
      /\ age \in 0..Timeout /\ age \in 0..Ancient
      /\ age =< served[lookup]
      /\ served \in [Lookups -> 0..Ancient]
      /\ lookup \in CachedLookups => TTL[lookup] \in Nat
  <2>1. /\ lookup \in Lookups
        /\ age \in 0..Timeout /\ age \in 0..Ancient
    BY <1>1, WaitingType, MarketDataAssumption DEF MInv
  <2>2. age =< served[lookup] /\ served \in [Lookups -> 0..Ancient]
    BY <1>1, <2>1, WaitingType DEF MInv, CallIsLater, TypeOK
  <2>3. lookup \in CachedLookups => TTL[lookup] \in Nat
    BY MarketDataAssumption
  <2> QED
    BY <2>1, <2>2, <2>3
<1>3. /\ cache' = Store(lookup, age)
      /\ answer' = [lookup |-> lookup, age |-> age, previous |-> served[lookup]]
      /\ served' = [served EXCEPT ![lookup] = age]
      /\ caller' = Idle
      /\ UNCHANGED abandoned
  BY DEF ProviderAnswers, Return
<1> HIDE DEF lookup, age
<1>4. /\ DOMAIN cache' \subseteq DOMAIN cache \cup {lookup}
      /\ \A k \in DOMAIN cache' :
           \/ k # lookup /\ k \in DOMAIN cache /\ cache'[k] = cache[k]
           \/ /\ k = lookup /\ k \in CachedLookups
              /\ cache'[k] = [age |-> age, left |-> TTL[k]]
           \/ k = lookup /\ k \notin CachedLookups /\ k \in DOMAIN cache
  BY <1>3 DEF Store, Put
<1>5. \A k \in DOMAIN cache : k \in CachedLookups
  BY DEF MInv, TypeOK
<1>6. TypeOK'
  <2>1. DOMAIN cache' \subseteq CachedLookups
    BY <1>4, <1>5
  <2>2. \A k \in DOMAIN cache' : cache'[k] \in [age: 0..Ancient, left: -1..TTL[k]]
    BY <1>2, <1>4, <1>5, MarketDataAssumption DEF MInv, TypeOK
  <2> QED
    BY <1>2, <1>3, <2>1, <2>2 DEF MInv, TypeOK
<1>7. CachedIsFresh'
  BY <1>2, <1>4, <1>5, MarketDataAssumption DEF MInv, CachedIsFresh
<1>8. CachedIsServed'
  BY <1>2, <1>3, <1>4, <1>5 DEF MInv, TypeOK, CachedIsServed, Lookups
<1>9. AnswersAreFresh' /\ AnswersNeverGoBack'
  BY <1>2, <1>3, MarketDataAssumption DEF AnswersAreFresh, AnswersNeverGoBack
<1>10. ThreadsFit' /\ CallIsLater' /\ ElapsedIsSpent'
  BY <1>3 DEF ThreadsFit, CallIsLater, ElapsedIsSpent, Awaiting
<1> QED
  BY <1>6, <1>7, <1>8, <1>9, <1>10 DEF MInv

(* A failed attempt leaves no more threads to be given up, and no more     *)
(* time spent, than the attempts so far account for.                       *)
LEMMA AttemptFailedMInv ==
  ASSUME MInv, Awaiting, AttemptFailed,
         UNCHANGED <<cache, served, answer>>,
         abandoned' \in Seq([lookup: Lookups, age: 0..Ancient]),
         Len(abandoned') =< Len(abandoned) + 1
  PROVE  MInv'
<1>1. /\ caller # Idle
      /\ caller.lookup \in Lookups
      /\ caller.attempt \in 1..Attempts /\ caller.attempt \in Nat
      /\ caller.left \in Nat /\ caller.left =< Timeout
      /\ caller.elapsed \in Nat
  BY WaitingType DEF MInv, Awaiting
<1>2. Len(abandoned') \in Nat /\ Len(abandoned) \in Nat
  BY DEF MInv, TypeOK
<1>3. Len(abandoned') + (Attempts - caller.attempt) =< MaxAbandoned
  BY <1>1, <1>2, MarketDataAssumption DEF MInv, ThreadsFit
<1>4. CachedIsFresh' /\ CachedIsServed' /\ AnswersAreFresh' /\ AnswersNeverGoBack'
  BY DEF MInv, CachedIsFresh, CachedIsServed, AnswersAreFresh, AnswersNeverGoBack
<1>5. CASE caller.attempt = Attempts
  <2>1. caller' = Idle
    BY <1>5 DEF AttemptFailed
  <2>2. TypeOK'
    BY <1>2, <1>3, <1>5, <2>1, MarketDataAssumption DEF MInv, TypeOK
  <2>3. ThreadsFit' /\ CallIsLater' /\ ElapsedIsSpent'
    BY <2>1 DEF ThreadsFit, CallIsLater, ElapsedIsSpent, Awaiting
  <2> QED
    BY <1>4, <2>2, <2>3 DEF MInv
<1>6. CASE caller.attempt # Attempts
  <2>1. caller' = Sleeping(caller.lookup, caller.attempt, caller.elapsed)
    BY <1>6 DEF AttemptFailed
  <2>2. /\ caller' # Idle
        /\ ~Awaiting'
        /\ caller'.lookup = caller.lookup /\ caller'.attempt = caller.attempt
        /\ caller'.left = Delay /\ caller'.elapsed = caller.elapsed
        /\ caller' \in [phase: {"calling", "sleeping"}, lookup: Lookups,
                        attempt: 1..Attempts, left: Nat, elapsed: Nat]
        /\ caller'.phase = "sleeping"
    BY <1>1, <2>1, SleepingType
  <2>3. caller.attempt < Attempts
    BY <1>1, <1>6, MarketDataAssumption
  <2>4. TypeOK'
    <3>1. Len(abandoned') =< MaxAbandoned
      BY <1>1, <1>2, <1>3, <2>3, MarketDataAssumption
    <3>2. caller'.left =< IF caller'.phase = "calling" THEN Timeout ELSE Delay
      BY <2>2, MarketDataAssumption
    <3> QED
      BY <2>2, <3>1, <3>2 DEF MInv, TypeOK
  <2>5. ThreadsFit' /\ CallIsLater'
    <3>1. Len(abandoned') + (Attempts - caller'.attempt) + 0 =< MaxAbandoned
      BY <1>1, <1>2, <1>3, <2>2, MarketDataAssumption
    <3>2. ThreadsFit'
      BY <2>2, <2>3, <3>1 DEF ThreadsFit
    <3> QED
      BY <2>2, <3>2 DEF CallIsLater
  <2>6. ElapsedIsSpent'
    <3>1. caller.elapsed =< Spent(caller.attempt) + Timeout - caller.left + 0
      BY <1>1 DEF MInv, ElapsedIsSpent
    <3>2. Spent(caller.attempt) \in Int
      BY <1>1, SpentStep
    <3>3. caller.elapsed =< Spent(caller.attempt) + Timeout - Delay + Delay
      BY <1>1, <3>1, <3>2, MarketDataAssumption
    <3>4. Spent(caller.attempt)' = Spent(caller.attempt)
      BY <2>2 DEF Spent
    <3> QED
      BY <2>2, <3>3, <3>4 DEF ElapsedIsSpent
  <2> QED
    BY <1>4, <2>4, <2>5, <2>6 DEF MInv
<1> QED
  BY <1>5, <1>6

LEMMA ProviderRaisesMInv ==
  ASSUME MInv, ProviderRaises
  PROVE  MInv'
<1>1. Awaiting /\ AttemptFailed /\ UNCHANGED <<cache, abandoned, served, answer>>
  BY DEF ProviderRaises, Awaiting, Idle
<1>2. abandoned \in Seq([lookup: Lookups, age: 0..Ancient])
  BY DEF MInv, TypeOK
<1> QED
  BY <1>1, <1>2, AttemptFailedMInv

LEMMA TimesOutMInv ==
  ASSUME MInv, TimesOut
  PROVE  MInv'
<1>1. Awaiting /\ AttemptFailed /\ UNCHANGED <<cache, served, answer>>
  BY DEF TimesOut, Awaiting, Idle
<1>2. [lookup |-> caller.lookup, age |-> Timeout] \in [lookup: Lookups, age: 0..Ancient]
  BY <1>1, WaitingType, MarketDataAssumption DEF MInv, Awaiting
<1>3. /\ abandoned \in Seq([lookup: Lookups, age: 0..Ancient])
      /\ abandoned' = Append(abandoned, [lookup |-> caller.lookup, age |-> Timeout])
  BY DEF MInv, TypeOK, TimesOut
<1>4. /\ abandoned' \in Seq([lookup: Lookups, age: 0..Ancient])
      /\ Len(abandoned') =< Len(abandoned) + 1
  BY <1>2, <1>3
<1> QED
  BY <1>1, <1>4, AttemptFailedMInv

LEMMA WakesUpMInv ==
  ASSUME MInv, WakesUp
  PROVE  MInv'
<1>1. /\ caller # Idle /\ ~Awaiting
      /\ caller.left = 0
      /\ caller' = Calling(caller.lookup, caller.attempt + 1, caller.elapsed)
      /\ UNCHANGED <<cache, abandoned, served, answer>>
  BY DEF WakesUp, Idle, Awaiting
<1>2. /\ caller.lookup \in Lookups
      /\ caller.attempt \in Nat /\ caller.elapsed \in Nat
      /\ caller.attempt < Attempts
      /\ caller.attempt + 1 \in 1..Attempts
  BY <1>1, WaitingType, MarketDataAssumption DEF MInv, ThreadsFit
<1>3. /\ caller' # Idle /\ Awaiting'
      /\ caller'.lookup = caller.lookup /\ caller'.attempt = caller.attempt + 1
      /\ caller'.left = Timeout /\ caller'.elapsed = caller.elapsed
      /\ caller' \in [phase: {"calling", "sleeping"}, lookup: Lookups,
                      attempt: 1..Attempts, left: Nat, elapsed: Nat]
      /\ caller'.phase = "calling"
  BY <1>1, <1>2, CallingType
<1>4. TypeOK'
  BY <1>1, <1>3, MarketDataAssumption DEF MInv, TypeOK
<1>5. CachedIsFresh' /\ CachedIsServed' /\ AnswersAreFresh' /\ AnswersNeverGoBack'
  BY <1>1 DEF MInv, CachedIsFresh, CachedIsServed, AnswersAreFresh, AnswersNeverGoBack
<1>6. CallIsLater'
  BY <1>1, <1>2, <1>3, MarketDataAssumption DEF MInv, TypeOK, CallIsLater
<1>7. ThreadsFit'
  <2>1. Len(abandoned) \in Nat
    BY DEF MInv, TypeOK
  <2>2. Len(abandoned) + (Attempts - caller.attempt) =< MaxAbandoned
    BY <1>1, <1>2, <2>1, MarketDataAssumption DEF MInv, ThreadsFit
  <2>3. Len(abandoned) + (Attempts - (caller.attempt + 1)) + 1 =< MaxAbandoned
    BY <1>2, <2>1, <2>2, MarketDataAssumption
  <2> QED
    BY <1>1, <1>3, <2>3 DEF ThreadsFit
<1>8. ElapsedIsSpent'
  <2>1. caller.elapsed =< Spent(caller.attempt) + Timeout - 0 + Delay
    BY <1>1 DEF MInv, ElapsedIsSpent
  <2>2. caller.elapsed =< Spent(caller.attempt + 1) + Timeout - Timeout + 0
    BY <1>2, <2>1, SpentStep, MarketDataAssumption
  <2> QED
    BY <1>3, <2>2 DEF ElapsedIsSpent, Spent
<1> QED
  BY <1>4, <1>5, <1>6, <1>7, <1>8 DEF MInv

(* What an abandoned thread brings is dropped, so its end changes nothing  *)
(* but the number of threads.                                              *)
LEMMA AbandonedThreadEndsMInv ==
  ASSUME MInv, NEW n \in 1..MaxAbandoned, AbandonedThreadEnds(n)
  PROVE  MInv'
<1>1. /\ UNCHANGED <<cache, caller, served, answer>>
      /\ n \in DOMAIN abandoned
      /\ abandoned' = RemoveAt(abandoned, n)
  BY DEF AbandonedThreadEnds
<1>2. abandoned \in Seq([lookup: Lookups, age: 0..Ancient])
  BY DEF MInv, TypeOK
<1>3. /\ abandoned' \in Seq([lookup: Lookups, age: 0..Ancient])
      /\ Len(abandoned') = Len(abandoned) - 1
      /\ Len(abandoned) \in Nat
  BY <1>1, <1>2, RemoveAtLen
<1>4. TypeOK'
  BY <1>1, <1>3, MarketDataAssumption DEF MInv, TypeOK
<1>5. ThreadsFit'
  <2> SUFFICES ASSUME caller # Idle
               PROVE  /\ Len(abandoned') + (Attempts - caller.attempt)
                           + (IF Awaiting THEN 1 ELSE 0) =< MaxAbandoned
                      /\ ~Awaiting => caller.attempt < Attempts
    BY <1>1 DEF ThreadsFit, Awaiting
  <2>1. caller.attempt \in Nat
    BY WaitingType DEF MInv
  <2> QED
    BY <1>3, <2>1, MarketDataAssumption DEF MInv, ThreadsFit
<1>6. CallIsLater' /\ ElapsedIsSpent'
  BY <1>1 DEF MInv, CallIsLater, ElapsedIsSpent, Awaiting
<1>7. CachedIsFresh' /\ CachedIsServed' /\ AnswersAreFresh' /\ AnswersNeverGoBack'
  BY <1>1 DEF MInv, CachedIsFresh, CachedIsServed, AnswersAreFresh, AnswersNeverGoBack
<1> QED
  BY <1>4, <1>5, <1>6, <1>7 DEF MInv

LEMMA ClearCacheMInv ==
  ASSUME MInv, ClearCache
  PROVE  MInv'
<1>1. /\ caller = Idle /\ UNCHANGED <<caller, abandoned, served, answer>>
      /\ DOMAIN cache' = {}
  BY DEF ClearCache
<1>2. TypeOK'
  BY <1>1 DEF MInv, TypeOK
<1> QED
  BY <1>1, <1>2
     DEF MInv, ThreadsFit, CachedIsFresh, CachedIsServed, CallIsLater,
         ElapsedIsSpent, AnswersAreFresh, AnswersNeverGoBack, Awaiting

-----------------------------------------------------------------------------
(* Time ages what is kept and what was served alike, and takes from a time *)
(* to live or a wait what it adds to an age.                               *)
LEMMA TickMInv ==
  ASSUME MInv, Tick
  PROVE  MInv'
<1>1. /\ DOMAIN cache' = DOMAIN cache
      /\ \A k \in DOMAIN cache :
           cache'[k] = [age |-> Older(cache[k].age), left |-> Max({cache[k].left - 1, -1})]
      /\ served' = [k \in Lookups |-> Older(served[k])]
      /\ abandoned' = [n \in DOMAIN abandoned |-> [abandoned[n] EXCEPT !.age = Older(@)]]
      /\ UNCHANGED answer
  BY DEF Tick
<1>2. ASSUME NEW k \in DOMAIN cache
      PROVE  /\ k \in CachedLookups /\ k \in Lookups
             /\ cache'[k].age = Older(cache[k].age)
             /\ cache'[k].age \in 0..Ancient
             /\ cache'[k].age =< cache[k].age + 1
             /\ cache'[k].left = Max({cache[k].left - 1, -1})
             /\ cache'[k].left \in -1..TTL[k]
             /\ cache'[k].left >= 0 => cache'[k].left = cache[k].left - 1
             /\ cache'[k] \in [age: 0..Ancient, left: -1..TTL[k]]
  <2>1. /\ k \in CachedLookups /\ k \in Lookups
        /\ cache[k].age \in 0..Ancient
        /\ cache[k].left \in -1..TTL[k] /\ cache[k].left \in Int
        /\ TTL[k] \in Nat
    BY CacheType DEF MInv
  <2>2. /\ Older(cache[k].age) \in 0..Ancient
        /\ Older(cache[k].age) =< cache[k].age + 1
    BY <2>1, OlderBounds
  <2>3. Max({cache[k].left - 1, -1})
          = IF cache[k].left - 1 >= -1 THEN cache[k].left - 1 ELSE -1
    <3>1. cache[k].left - 1 \in Int
      BY <2>1
    <3> QED
      BY <3>1, MaxOfTwo
  <2> QED
    BY <1>1, <2>1, <2>2, <2>3
<1>3. served' \in [Lookups -> 0..Ancient]
  <2>1. \A k \in Lookups : Older(served[k]) \in 0..Ancient
    BY OlderBounds DEF MInv, TypeOK
  <2> QED
    BY <1>1, <2>1
<1>4. /\ abandoned' \in Seq([lookup: Lookups, age: 0..Ancient])
      /\ Len(abandoned') = Len(abandoned)
      /\ Len(abandoned) \in Nat /\ Len(abandoned) =< MaxAbandoned
  <2>1. abandoned \in Seq([lookup: Lookups, age: 0..Ancient]) /\ Len(abandoned) =< MaxAbandoned
    BY DEF MInv, TypeOK
  <2>2. \A n \in DOMAIN abandoned :
          [abandoned[n] EXCEPT !.age = Older(@)] \in [lookup: Lookups, age: 0..Ancient]
    <3> SUFFICES ASSUME NEW n \in DOMAIN abandoned
                 PROVE  [abandoned[n] EXCEPT !.age = Older(@)]
                          \in [lookup: Lookups, age: 0..Ancient]
      OBVIOUS
    <3>1. abandoned[n] \in [lookup: Lookups, age: 0..Ancient]
      BY <2>1, SeqElement
    <3>2. Older(abandoned[n].age) \in 0..Ancient
      BY <3>1, OlderBounds
    <3> QED
      BY <3>1, <3>2
  <2>3. /\ DOMAIN abandoned' = DOMAIN abandoned
        /\ abandoned' = [n \in DOMAIN abandoned |-> abandoned'[n]]
        /\ \A n \in DOMAIN abandoned :
             abandoned'[n] \in [lookup: Lookups, age: 0..Ancient]
    BY <1>1, <2>2
  <2> DEFINE S == [lookup: Lookups, age: 0..Ancient]
  <2>4. abandoned \in Seq(S) /\ \A n \in DOMAIN abandoned : abandoned'[n] \in S
    BY <2>1, <2>3
  <2> HIDE DEF S
  <2>5. abandoned' \in Seq(S) /\ Len(abandoned') = Len(abandoned) /\ Len(abandoned) \in Nat
    BY <2>3, <2>4, SeqMapped
  <2> QED
    BY <2>1, <2>5 DEF S
<1>5. CachedIsFresh'
  <2> SUFFICES ASSUME NEW k \in DOMAIN cache, cache'[k].left >= 0
               PROVE  cache'[k].age + cache'[k].left =< Timeout + TTL[k]
    BY <1>1 DEF CachedIsFresh
  <2>1. /\ cache[k].age \in Int /\ cache[k].left \in Int /\ TTL[k] \in Int
    BY CacheType DEF MInv
  <2>2. /\ cache'[k].left = cache[k].left - 1
        /\ cache'[k].age =< cache[k].age + 1 /\ cache'[k].age \in Int
    <3>1. /\ cache'[k].age \in 0..Ancient
          /\ cache'[k].age =< cache[k].age + 1
          /\ cache'[k].left >= 0 => cache'[k].left = cache[k].left - 1
      BY <1>2
    <3>2. \A i \in 0..Ancient : i \in Int
      BY MarketDataAssumption
    <3> QED
      BY <3>1, <3>2
  <2>3. cache[k].age + cache[k].left =< Timeout + TTL[k]
    BY <2>1, <2>2 DEF MInv, CachedIsFresh
  <2> QED
    BY <2>1, <2>2, <2>3, MarketDataAssumption
<1>6. CachedIsServed'
  <2> SUFFICES ASSUME NEW k \in DOMAIN cache
               PROVE  cache'[k].age =< served'[k]
    BY <1>1 DEF CachedIsServed
  <2>1. /\ k \in Lookups /\ cache[k].age \in 0..Ancient
        /\ served[k] \in 0..Ancient /\ cache[k].age =< served[k]
    BY CacheType DEF MInv, TypeOK, CachedIsServed
  <2> QED
    BY <1>1, <1>2, <2>1, OlderMonotone
<1>7. AnswersAreFresh' /\ AnswersNeverGoBack'
  BY <1>1 DEF MInv, AnswersAreFresh, AnswersNeverGoBack
<1>8. ASSUME caller = Idle
      PROVE  TypeOK' /\ ThreadsFit' /\ CallIsLater' /\ ElapsedIsSpent'
  <2>1. caller' = Idle
    BY <1>8 DEF Tick
  <2>2. TypeOK'
    BY <1>1, <1>2, <1>3, <1>4, <2>1 DEF MInv, TypeOK
  <2> QED
    BY <2>1, <2>2 DEF ThreadsFit, CallIsLater, ElapsedIsSpent, Awaiting
<1>9. ASSUME caller # Idle
      PROVE  TypeOK' /\ ThreadsFit' /\ CallIsLater' /\ ElapsedIsSpent'
  <2>1. /\ caller.lookup \in Lookups
        /\ caller.attempt \in 1..Attempts /\ caller.attempt \in Nat
        /\ caller.left \in Nat /\ caller.left > 0 /\ caller.elapsed \in Nat
        /\ Awaiting => caller.left =< Timeout
        /\ caller \in [phase: {"calling", "sleeping"}, lookup: Lookups,
                        attempt: 1..Attempts, left: Nat, elapsed: Nat]
        /\ caller.left =< IF caller.phase = "calling" THEN Timeout ELSE Delay
    BY <1>9, WaitingType DEF MInv, Tick, TypeOK
  <2>2. Longer(caller.elapsed) \in Nat /\ Longer(caller.elapsed) =< caller.elapsed + 1
    BY <2>1, LongerBounds
  <2>3. caller' = [caller EXCEPT !.left = @ - 1, !.elapsed = Longer(@)]
    BY <1>9 DEF Tick
  <2>4. /\ caller'.phase = caller.phase /\ caller'.lookup = caller.lookup
        /\ caller'.attempt = caller.attempt /\ caller'.left = caller.left - 1
        /\ caller'.elapsed = Longer(caller.elapsed)
        /\ caller' \in [phase: {"calling", "sleeping"}, lookup: Lookups,
                         attempt: 1..Attempts, left: Nat, elapsed: Nat]
    <3>1. caller.left - 1 \in Nat
      BY <2>1
    <3>2. /\ caller'.phase = caller.phase /\ caller'.lookup = caller.lookup
          /\ caller'.attempt = caller.attempt /\ caller'.left = caller.left - 1
          /\ caller'.elapsed = Longer(caller.elapsed)
      BY <2>1, <2>3
    <3>3. caller' \in [phase: {"calling", "sleeping"}, lookup: Lookups,
                       attempt: 1..Attempts, left: Nat, elapsed: Nat]
      <4> DEFINE l == caller.left - 1
                 e == Longer(caller.elapsed)
      <4>1. l \in Nat /\ e \in Nat /\ caller' = [caller EXCEPT !.left = l, !.elapsed = e]
        BY <2>2, <2>3, <3>1
      <4> HIDE DEF l, e
      <4> QED
        BY <2>1, <4>1
    <3> QED
      BY <3>2, <3>3
  <2>5. caller' # Idle /\ Awaiting' = Awaiting
    BY <1>9, <2>1, <2>4 DEF Idle, Awaiting
  <2>6. TypeOK'
    <3>1. caller'.left =< IF caller'.phase = "calling" THEN Timeout ELSE Delay
      BY <2>1, <2>4, MarketDataAssumption
    <3>2. /\ DOMAIN cache' \subseteq CachedLookups
          /\ \A k \in DOMAIN cache' : cache'[k] \in [age: 0..Ancient, left: -1..TTL[k]]
      BY <1>1, <1>2
    <3>3. answer' \in [lookup: Lookups, age: 0..Ancient, previous: 0..Ancient]
      BY <1>1 DEF MInv, TypeOK
    <3> QED
      BY <1>3, <1>4, <2>4, <3>1, <3>2, <3>3 DEF TypeOK
  <2>7. ThreadsFit'
    BY <1>4, <1>9, <2>4, <2>5 DEF MInv, ThreadsFit
  <2>8. CallIsLater'
    <3> SUFFICES ASSUME Awaiting
                 PROVE  Timeout - (caller.left - 1) =< Older(served[caller.lookup])
      BY <1>1, <2>1, <2>4, <2>5 DEF CallIsLater
    <3> DEFINE asked == Timeout - caller.left
    <3>1. /\ asked \in 0..Timeout /\ asked < Timeout /\ asked < Ancient
          /\ asked \in 0..Ancient
          /\ Timeout - (caller.left - 1) = asked + 1
      BY <2>1, MarketDataAssumption
    <3>2. asked =< served[caller.lookup] /\ served[caller.lookup] \in 0..Ancient
      BY <2>1 DEF MInv, CallIsLater, TypeOK
    <3> HIDE DEF asked
    <3>3. Older(asked) = asked + 1 /\ Older(asked) =< Older(served[caller.lookup])
      BY <3>1, <3>2, OlderBounds, OlderMonotone
    <3> QED
      BY <3>1, <3>3
  <2>9. ElapsedIsSpent'
    <3>1. caller.elapsed =< Spent(caller.attempt) + Timeout - caller.left
                              + (IF Awaiting THEN 0 ELSE Delay)
      BY <1>9 DEF MInv, ElapsedIsSpent
    <3>2. Spent(caller.attempt) \in Int
      BY <2>1, SpentStep
    <3>3. Longer(caller.elapsed)
             =< Spent(caller.attempt) + Timeout - (caller.left - 1)
                  + (IF Awaiting THEN 0 ELSE Delay)
      BY <2>1, <2>2, <3>1, <3>2, MarketDataAssumption
    <3>4. Spent(caller.attempt)' = Spent(caller.attempt)
      BY <2>4 DEF Spent
    <3> QED
      BY <2>4, <2>5, <3>3, <3>4 DEF ElapsedIsSpent
  <2> QED
    BY <2>6, <2>7, <2>8, <2>9
<1> QED
  BY <1>5, <1>6, <1>7, <1>8, <1>9 DEF MInv

LEMMA InitMInv == Init => MInv
<1> SUFFICES ASSUME Init
             PROVE  MInv
  OBVIOUS
<1>1. /\ DOMAIN cache = {} /\ caller = Idle /\ abandoned = <<>>
      /\ served = [k \in Lookups |-> Ancient]
      /\ answer \in [lookup: Lookups, age: {0}, previous: {0}]
  BY MarketDataAssumption DEF Init, Lookups
<1>2. TypeOK
  BY <1>1, MarketDataAssumption DEF TypeOK
<1>3. AnswersAreFresh
  BY <1>1, MarketDataAssumption DEF AnswersAreFresh
<1> QED
  BY <1>1, <1>2, <1>3
     DEF MInv, ThreadsFit, CachedIsFresh, CachedIsServed, CallIsLater,
         ElapsedIsSpent, AnswersNeverGoBack, Awaiting

LEMMA NextMInv == MInv /\ [Next]_vars => MInv'
<1> SUFFICES ASSUME MInv, [Next]_vars
             PROVE  MInv'
  OBVIOUS
<1>1. ASSUME NEW lookup \in Lookups, AnswerFromCache(lookup) PROVE MInv'
  BY <1>1, AnswerFromCacheMInv
<1>2. ASSUME NEW lookup \in Lookups, AskProvider(lookup) PROVE MInv'
  BY <1>2, AskProviderMInv
<1>3. CASE ProviderAnswers
  BY <1>3, ProviderAnswersMInv
<1>4. CASE ProviderRaises
  BY <1>4, ProviderRaisesMInv
<1>5. CASE TimesOut
  BY <1>5, TimesOutMInv
<1>6. CASE WakesUp
  BY <1>6, WakesUpMInv
<1>7. ASSUME NEW n \in 1..MaxAbandoned, AbandonedThreadEnds(n) PROVE MInv'
  BY <1>7, AbandonedThreadEndsMInv
<1>8. CASE ClearCache
  BY <1>8, ClearCacheMInv
<1>9. CASE Tick
  BY <1>9, TickMInv
<1>10. CASE UNCHANGED vars
  BY <1>10 DEF vars, MInv, TypeOK, ThreadsFit, CachedIsFresh, CachedIsServed,
               CallIsLater, ElapsedIsSpent, AnswersAreFresh, AnswersNeverGoBack, Awaiting
<1> QED
  BY <1>1, <1>2, <1>3, <1>4, <1>5, <1>6, <1>7, <1>8, <1>9, <1>10 DEF Next

(* The invariant holds in every state the service can reach.               *)
LEMMA MInvariance == Spec => []MInv
  BY InitMInv, NextMInv, PTL DEF Spec

-----------------------------------------------------------------------------
(* Every variable of the service has its type.                             *)
THEOREM TypeCorrect == Spec => []TypeOK
<1>1. MInv => TypeOK
  BY DEF MInv
<1> QED
  BY <1>1, MInvariance, PTL

(* No answer of the service is older than its time to live plus one        *)
(* timeout, because run_with_timeout drops what a late thread brings.      *)
THEOREM AnswersStayFresh == Spec => []AnswersAreFresh
<1>1. MInv => AnswersAreFresh
  BY DEF MInv
<1> QED
  BY <1>1, MInvariance, PTL

(* The answers to one lookup never go back in time, although several       *)
(* threads may be asking the provider for it at once.                      *)
THEOREM AnswersGoForward == Spec => []AnswersNeverGoBack
<1>1. MInv => AnswersNeverGoBack
  BY DEF MInv
<1> QED
  BY <1>1, MInvariance, PTL

(* run_with_retry over run_with_timeout holds its caller up for at most    *)
(* all the attempts and the delays between them.                           *)
THEOREM ReturnsBounded == Spec => []ReturnsInTime
<1>1. MInv => ReturnsInTime
  <2> SUFFICES ASSUME MInv, caller # Idle
               PROVE  caller.elapsed =< LongestWait
    BY DEF ReturnsInTime
  <2>1. /\ caller.attempt \in 1..Attempts /\ caller.attempt \in Nat
        /\ caller.left \in Nat /\ caller.elapsed \in Nat
        /\ ~Awaiting => caller.attempt < Attempts
    BY WaitingType DEF MInv, ThreadsFit
  <2>2. Spent(caller.attempt) \in Int /\ LongestWait \in Int
    BY <2>1, SpentStep, LongestWaitType
  <2>3. CASE Awaiting
    <3>1. caller.elapsed =< Spent(caller.attempt) + Timeout - caller.left + 0
      BY <2>3 DEF MInv, ElapsedIsSpent
    <3>2. Spent(caller.attempt) + Timeout =< LongestWait
      BY <2>1, SpentBound
    <3> QED
      BY <2>1, <2>2, <3>1, <3>2, MarketDataAssumption
  <2>4. CASE ~Awaiting
    <3>1. caller.elapsed =< Spent(caller.attempt) + Timeout - caller.left + Delay
      BY <2>4 DEF MInv, ElapsedIsSpent
    <3>2. /\ Spent(caller.attempt + 1) = Spent(caller.attempt) + Timeout + Delay
          /\ caller.attempt + 1 \in 1..Attempts
      BY <2>1, <2>4, SpentStep, MarketDataAssumption
    <3>3. Spent(caller.attempt + 1) + Timeout =< LongestWait
      BY <3>2, SpentBound
    <3> QED
      BY <2>1, <2>2, <3>1, <3>2, <3>3, MarketDataAssumption
  <2> QED
    BY <2>3, <2>4
<1> QED
  BY <1>1, MInvariance, PTL
=============================================================================
