----------------------------- MODULE MarketData -----------------------------
(***************************************************************************)
(* The market data service (market_data/service.py) with its cache of      *)
(* short-lived answers (market_data/cache.py) and the retry and timeout    *)
(* helpers around every provider call (utils/resilience.py).               *)
(*                                                                         *)
(* One caller uses the service; the concurrency is in run_with_timeout.    *)
(* Every attempt runs the provider in a thread of its own.  When the time  *)
(* is up the caller goes on, and the thread, which cannot be stopped, is   *)
(* abandoned: it may run beside the next attempts for as long as it likes, *)
(* and what it returns in the end is dropped.                              *)
(*                                                                         *)
(* Time is discrete and kept in durations, so that it needs no bound: what *)
(* is left of a wait or of a time to live, and the age of an answer, which *)
(* counts from the start of the provider call that brought it (the         *)
(* provider cannot have looked earlier).  The caller wakes up on time: the *)
(* clock does not pass the end of its wait.  Symbol normalisation and time *)
(* zones change the wording of a lookup, not what is cached under it.      *)
(***************************************************************************)
EXTENDS Integers, Sequences, FiniteSetsExt, SequencesExt

CONSTANTS
    CachedLookups,   \* lookups kept in the cache: quotes, option chains
    OtherLookups,    \* historical bars, corporate actions
    TTL,             \* time to live of a cached lookup's answer
    Timeout,         \* timeout_seconds of one attempt
    Attempts,        \* attempts of the retry policy
    Delay,           \* delay_seconds between attempts
    MaxAbandoned,    \* bound on the abandoned threads
    Ancient          \* bound on ages, beyond any answer that may be served

ASSUME MarketDataAssumption ==
    /\ CachedLookups \cap OtherLookups = {}
    /\ CachedLookups \cup OtherLookups # {}
    /\ TTL \in [CachedLookups -> Nat]
    /\ Timeout \in Nat /\ Delay \in Nat /\ MaxAbandoned \in Nat
    /\ Attempts \in Nat \ {0}
    /\ Ancient \in Nat
    /\ Timeout < Ancient
    /\ \A k \in CachedLookups : TTL[k] + Timeout < Ancient

VARIABLES
    cache,      \* lookup -> [age, left]: the answer's age, its time to live
    caller,     \* what the caller of the service is doing
    abandoned,  \* lookups of the threads that nobody waits for, oldest first
    served,     \* history: lookup -> age of the answer returned last
    answer      \* history: the answer returned last, as it was then

vars == <<cache, caller, abandoned, served, answer>>

Lookups == CachedLookups \cup OtherLookups

Older(age) == Min({age + 1, Ancient})

(* The longest time the retry policy and the timeout may take; any longer  *)
(* time is one time.                                                       *)
LongestWait == Attempts * Timeout + (Attempts - 1) * Delay

Longer(elapsed) == Min({elapsed + 1, LongestWait + 1})

Idle == [phase |-> "idle"]

(* elapsed is the time since the caller entered the service.               *)
Calling(lookup, attempt, elapsed) ==
    [phase |-> "calling", lookup |-> lookup, attempt |-> attempt,
     left |-> Timeout, elapsed |-> elapsed]

Sleeping(lookup, attempt, elapsed) ==
    [phase |-> "sleeping", lookup |-> lookup, attempt |-> attempt,
     left |-> Delay, elapsed |-> elapsed]

Put(f, k, v) == [x \in DOMAIN f \cup {k} |-> IF x = k THEN v ELSE f[x]]

Without(f, k) == [x \in DOMAIN f \ {k} |-> f[x]]

-----------------------------------------------------------------------------
(* The cache.                                                              *)

(* get: an answer is valid up to and including the instant it expires.     *)
(* Changed form: no answer ever expires.                                   *)
HitForever(lookup) == lookup \in DOMAIN cache

Hit(lookup) == lookup \in DOMAIN cache /\ cache[lookup].left >= 0

(* set: the time to live starts when the answer is stored.                 *)
Store(lookup, age) ==
    IF lookup \in CachedLookups
      THEN Put(cache, lookup, [age |-> age, left |-> TTL[lookup]])
      ELSE cache

Return(lookup, age) ==
    /\ answer' = [lookup |-> lookup, age |-> age, previous |-> served[lookup]]
    /\ served' = [served EXCEPT ![lookup] = age]

-----------------------------------------------------------------------------
(* quote, option_chain: answered from the cache at once ...                *)
AnswerFromCache(lookup) ==
    /\ caller = Idle
    /\ Hit(lookup)
    /\ Return(lookup, cache[lookup].age)
    /\ UNCHANGED <<cache, caller, abandoned>>

(* ... or, like historical_bars and corporate_actions, by the provider.    *)
(* The miss removes an expired answer.                                     *)
AskProvider(lookup) ==
    /\ caller = Idle
    /\ ~Hit(lookup)
    /\ Len(abandoned) + Attempts =< MaxAbandoned
    /\ cache' = Without(cache, lookup)
    /\ caller' = Calling(lookup, 1, 0)
    /\ UNCHANGED <<abandoned, served, answer>>

(* The awaited thread returns in time.                                     *)
ProviderAnswers ==
    /\ caller.phase = "calling"
    /\ LET age == Timeout - caller.left IN
         /\ cache' = Store(caller.lookup, age)
         /\ Return(caller.lookup, age)
    /\ caller' = Idle
    /\ UNCHANGED abandoned

(* run_with_retry after a failed attempt: sleep and try again, or raise    *)
(* RetryError.  Changed form: one attempt too many.                        *)
OneMoreAttempt ==
    caller' = IF caller.attempt > Attempts THEN Idle
              ELSE Sleeping(caller.lookup, caller.attempt, caller.elapsed)

AttemptFailed ==
    caller' = IF caller.attempt = Attempts THEN Idle
              ELSE Sleeping(caller.lookup, caller.attempt, caller.elapsed)

ProviderRaises ==
    /\ caller.phase = "calling"
    /\ AttemptFailed
    /\ UNCHANGED <<cache, abandoned, served, answer>>

TimesOut ==
    /\ caller.phase = "calling"
    /\ caller.left = 0
    /\ AttemptFailed
    /\ abandoned' = Append(abandoned, [lookup |-> caller.lookup, age |-> Timeout])
    /\ UNCHANGED <<cache, served, answer>>

(* Changed form: the attempts are not counted.                             *)
WakesUpUncounted ==
    /\ caller.phase = "sleeping"
    /\ caller.left = 0
    /\ caller' = Calling(caller.lookup, caller.attempt, caller.elapsed)
    /\ UNCHANGED <<cache, abandoned, served, answer>>

WakesUp ==
    /\ caller.phase = "sleeping"
    /\ caller.left = 0
    /\ caller' = Calling(caller.lookup, caller.attempt + 1, caller.elapsed)
    /\ UNCHANGED <<cache, abandoned, served, answer>>

(* An abandoned thread ends.  Changed form: it stores what it brought.     *)
LateAnswerIsStored(n) ==
    /\ n \in DOMAIN abandoned
    /\ abandoned' = RemoveAt(abandoned, n)
    /\ cache' = Store(abandoned[n].lookup, abandoned[n].age)
    /\ UNCHANGED <<caller, served, answer>>

AbandonedThreadEnds(n) ==
    /\ n \in DOMAIN abandoned
    /\ abandoned' = RemoveAt(abandoned, n)
    /\ UNCHANGED <<cache, caller, served, answer>>

ClearCache ==
    /\ caller = Idle
    /\ cache' = [k \in {} |-> 0]
    /\ UNCHANGED <<caller, abandoned, served, answer>>

Tick ==
    /\ caller # Idle => caller.left > 0
    /\ caller' = IF caller = Idle THEN Idle
                 ELSE [caller EXCEPT !.left = @ - 1, !.elapsed = Longer(@)]
    /\ cache' = [k \in DOMAIN cache |->
                   [age |-> Older(cache[k].age), left |-> Max({cache[k].left - 1, -1})]]
    /\ abandoned' = [n \in DOMAIN abandoned |->
                       [abandoned[n] EXCEPT !.age = Older(@)]]
    /\ served' = [k \in Lookups |-> Older(served[k])]
    /\ UNCHANGED answer

Init ==
    /\ cache = [k \in {} |-> 0]
    /\ caller = Idle
    /\ abandoned = <<>>
    /\ served = [k \in Lookups |-> Ancient]
    /\ answer = [lookup |-> CHOOSE k \in Lookups : TRUE, age |-> 0, previous |-> 0]

Next ==
    \/ \E lookup \in Lookups : AnswerFromCache(lookup) \/ AskProvider(lookup)
    \/ ProviderAnswers
    \/ ProviderRaises
    \/ TimesOut
    \/ WakesUp
    \/ \E n \in 1..MaxAbandoned : AbandonedThreadEnds(n)
    \/ ClearCache
    \/ Tick

(* Time passes and a due timer fires; the provider need never answer.      *)
Fairness == WF_vars(Tick) /\ WF_vars(TimesOut) /\ WF_vars(WakesUp)

Spec == Init /\ [][Next]_vars /\ Fairness

-----------------------------------------------------------------------------
(* Properties.                                                             *)

(* Every variable has its type.                                            *)
TypeOK ==
    /\ DOMAIN cache \subseteq CachedLookups
    /\ \A k \in DOMAIN cache : cache[k] \in [age: 0..Ancient, left: -1..TTL[k]]
    /\ \/ caller = Idle
       \/ /\ caller \in [phase: {"calling", "sleeping"}, lookup: Lookups,
                         attempt: 1..Attempts, left: Nat, elapsed: Nat]
          /\ caller.left =< IF caller.phase = "calling" THEN Timeout ELSE Delay
    /\ abandoned \in Seq([lookup: Lookups, age: 0..Ancient])
    /\ Len(abandoned) =< MaxAbandoned
    /\ served \in [Lookups -> 0..Ancient]
    /\ answer \in [lookup: Lookups, age: 0..Ancient, previous: 0..Ancient]

(* An answer of the service is never older than the time to live plus one  *)
(* timeout, however many attempts it took and whatever threads are still   *)
(* running; an uncached one never older than one timeout.                  *)
AnswersAreFresh ==
    answer.age =< Timeout + (IF answer.lookup \in CachedLookups
                               THEN TTL[answer.lookup] ELSE 0)

(* The answers to one lookup never go back in time: none was asked for     *)
(* before the one returned last.                                           *)
AnswersNeverGoBack == answer.age =< answer.previous

(* The caller is held up for at most all the attempts and delays of the    *)
(* policy, whether the attempts time out, raise or mix the two.            *)
ReturnsInTime == caller # Idle => caller.elapsed =< LongestWait

(* Every call of the service returns or raises, even if the provider hangs *)
(* for ever in every attempt.                                              *)
EveryCallEnds == caller # Idle ~> caller = Idle
=============================================================================
