---------------------------- MODULE StrategyDesk ----------------------------
(***************************************************************************)
(* The strategy engine (strategy/engine.py) running the four example       *)
(* strategies (strategy/examples) and portfolio construction               *)
(* (strategy/portfolio.py), with a downstream consumer of the targets it   *)
(* hands off.  Prices and triggers arrive in any order; the consumer       *)
(* executes or refuses targets later, one by one, so that the positions    *)
(* the engine is shown are those of the moment, not those it asked for.    *)
(*                                                                         *)
(* Prices are natural numbers, volatilities percentages; whatever the code *)
(* divides is an exact fraction here where the code has floats.            *)
(***************************************************************************)
EXTENDS Rational, SequencesExt

CONSTANTS
    Instruments,         \* everything that may be priced or traded
    Underlying,          \* the underlying of the two option strategies
    Opening,             \* instrument -> position at the start
    Events,              \* price events that may arrive
    Chains,              \* option chains a trigger may find, <<>> for none
    MomentumLookback,
    ReversionLookback,
    ReversionThreshold,  \* deviation that counts, a fraction
    BreakoutLookback,
    BreakoutMultiplier,  \* a fraction
    BaseLotSize,
    MinStrength,         \* least strength of a signal that becomes a target
    MaxEvents,           \* bound on the price events of one run
    MaxTriggers          \* bound on the triggers of one run

NoVolatility == -1       \* an entry without implied volatility

StrategyEvent == [instrument_id: Instruments, price: Nat \ {0}]

ChainEntry == [contract: Instruments, right: {"CALL", "PUT"},
               implied_volatility: Nat \cup {NoVolatility}]

ASSUME StrategyDeskAssumption ==
    /\ Underlying \in Instruments
    /\ Opening \in [Instruments -> Int]
    /\ Events \subseteq StrategyEvent
    /\ Chains \subseteq Seq(ChainEntry)
    /\ {MomentumLookback, ReversionLookback, BreakoutLookback, BaseLotSize}
         \subseteq Nat \ {0}
    /\ {ReversionThreshold, BreakoutMultiplier, MinStrength} \subseteq Fractions
    /\ Less(Whole(0), ReversionThreshold)
    /\ AtMost(Whole(1), BreakoutMultiplier)
    /\ {MaxEvents, MaxTriggers} \subseteq Nat

VARIABLES
    momentum,    \* instrument -> the prices us_momentum keeps
    reversion,   \* instrument -> the prices hk_mean_reversion keeps
    ivHistory,   \* the volatilities vol_breakout keeps
    positions,   \* what the context of the next call will show
    handedOff,   \* targets the consumer has not dealt with yet
    result,      \* what the engine returned in this step
    seen,        \* history: instrument -> all its prices
    ivs,         \* history: all volatilities measured
    signalled,   \* history: instrument -> number of signals
    inventory,   \* history: a lot for every hundred shares a trigger found
    triggers     \* number of triggers so far

deque == <<momentum, reversion, ivHistory>>
vars == <<deque, positions, handedOff, result, seen, ivs, signalled, inventory, triggers>>

Strategies ==
    {"us_equity_momentum", "hk_equity_mean_reversion", "covered_call", "options_vol_breakout"}

Strengths == {f \in Nat \X (Nat \ {0}) : f[1] =< f[2]}

StrategySignal ==
    [strategy_id: Strategies, instrument_id: Instruments,
     asset_class: {"EQUITY", "OPTION"}, side: {"BUY", "SELL"}, strength: Strengths]

PositionTarget ==
    [strategy_id: Strategies, instrument_id: Instruments,
     asset_class: {"EQUITY", "OPTION"}, target_quantity: Int]

-----------------------------------------------------------------------------
(* A deque of bounded length.                                              *)
Appended(window, value, lookback) ==
    LET longer == Append(window, value) IN
      IF Len(longer) > lookback THEN Tail(longer) ELSE longer

Mean(values) == Over(FoldLeft(Plus, Whole(0), values), Len(values))

(* Changed form: a signal may be stronger than 1.                          *)
Uncapped(strength) == strength

Capped(strength) == IF Less(strength, Whole(1)) THEN strength ELSE Whole(1)

Signal(strategy, instrument, class, side, strength) ==
    [strategy_id |-> strategy, instrument_id |-> instrument,
     asset_class |-> class, side |-> side, strength |-> Capped(strength)]

(* Changed form: the window keeps one price too many.                      *)
WindowTooLong(window, price) == Appended(window, price, MomentumLookback + 1)

MomentumWindow(window, price) == Appended(window, price, MomentumLookback)

(* us_momentum: follow the move from the window's first to its last price. *)
MomentumSignals(instrument, window) ==
    LET first == window[1]
        last == window[Len(window)]
        move == Ratio(Absolute(Minus(last, first)), first)
    IN  IF Len(window) < MomentumLookback \/ last = first THEN <<>>
        ELSE <<Signal("us_equity_momentum", instrument, "EQUITY",
                      IF Less(first, last) THEN "BUY" ELSE "SELL", move)>>

ReversionWindow(window, price) == Appended(window, price, ReversionLookback)

(* hk_mean_reversion: against a deviation from the window's mean.          *)
ReversionSignals(instrument, window) ==
    LET average == Mean(window)
        gap == Minus(window[Len(window)], average)
        deviation == Ratio(Absolute(gap), average)
    IN  IF Len(window) < ReversionLookback \/ Less(deviation, ReversionThreshold)
          THEN <<>>
        ELSE <<Signal("hk_equity_mean_reversion", instrument, "EQUITY",
                      IF Less(gap, Whole(0)) THEN "BUY" ELSE "SELL",
                      Ratio(deviation, Scale(2, ReversionThreshold)))>>

(* Changed form: a started hundred of shares counts.                       *)
ContractsRoundedUp(shares) == (shares + 99) \div 100

ContractsFor(shares) == shares \div 100

(* covered_call: a contract is a tenth of strength, and construction makes *)
(* a tenth of the lot of it, whatever the lot is.                          *)
CoveredCallSignals(chain) ==
    LET shares == positions[Underlying]
        calls == {n \in DOMAIN chain : chain[n].right = "CALL"}
    IN  IF shares < 100 \/ calls = {} THEN <<>>
        ELSE <<Signal("covered_call", chain[Min(calls)].contract, "OPTION", "SELL",
                      Fraction(ContractsFor(shares), 10))>>

Volatilities(chain) ==
    FoldLeft(LAMBDA ivValues, e :
               IF e.implied_volatility = NoVolatility THEN ivValues
               ELSE Append(ivValues, Whole(e.implied_volatility)),
             <<>>, chain)

(* Changed form: only the last measurement is compared with.               *)
BaselineIsLatest(history) == history[Len(history)]

Baseline(history) == Mean(history)

(* vol_breakout: the chain's volatility against the mean of the earlier    *)
(* ones, once as many have been seen as the history holds.                 *)
BreakoutSignals(chain) ==
    LET current == Mean(Volatilities(chain))
        baseline == Baseline(ivHistory)
    IN  IF \/ Volatilities(chain) = <<>>
           \/ Len(ivHistory) < BreakoutLookback
           \/ ~Less(Whole(0), baseline)
           \/ Less(Ratio(current, baseline), BreakoutMultiplier)
          THEN <<>>
        ELSE <<Signal("options_vol_breakout", chain[1].contract, "OPTION", "BUY",
                      Minus(Ratio(current, baseline), Whole(1)))>>

-----------------------------------------------------------------------------
(* build_targets: from the position shown, up or down by the whole part of *)
(* the lot's share; weak signals are dropped.                              *)
Delta(signal) ==
    LET quantity == (BaseLotSize * signal.strength[1]) \div signal.strength[2]
    IN  IF signal.side = "BUY" THEN quantity ELSE -quantity

TargetOf(signal) ==
    [strategy_id |-> signal.strategy_id,
     instrument_id |-> signal.instrument_id,
     asset_class |-> signal.asset_class,
     target_quantity |-> positions[signal.instrument_id] + Delta(signal)]

BuildTargets(signals) ==
    FoldLeft(LAMBDA targets, s :
               IF Less(s.strength, MinStrength) THEN targets
               ELSE Append(targets, TargetOf(s)),
             <<>>, signals)

NoResult == [signals |-> <<>>, targets |-> <<>>]

BuildResult(signals) ==
    LET targets == BuildTargets(signals)
    IN  /\ result' = [signals |-> signals, targets |-> targets]
        /\ handedOff' = handedOff \o targets
        /\ signalled' = [i \in Instruments |->
                           signalled[i] + Cardinality({n \in DOMAIN signals :
                                                         signals[n].instrument_id = i})]

(* process_event: the strategies that support events, in their order.      *)
ProcessEvent(event) ==
    LET instrument == event.instrument_id
        price == Whole(event.price)
        followed == MomentumWindow(momentum[instrument], price)
        faded == ReversionWindow(reversion[instrument], price)
    IN  /\ MapThenSumSet(LAMBDA i : Len(seen[i]), Instruments) < MaxEvents
        /\ momentum' = [momentum EXCEPT ![instrument] = followed]
        /\ reversion' = [reversion EXCEPT ![instrument] = faded]
        /\ seen' = [seen EXCEPT ![instrument] = Append(@, price)]
        /\ BuildResult(MomentumSignals(instrument, followed)
                         \o ReversionSignals(instrument, faded))
        /\ UNCHANGED <<ivHistory, positions, ivs, inventory, triggers>>

(* process_schedule: the strategies that support schedules.  A chain       *)
(* without volatilities leaves no trace in the history.                    *)
ProcessSchedule(chain) ==
    LET measured == IF Volatilities(chain) = <<>> THEN <<>>
                    ELSE <<Mean(Volatilities(chain))>>
    IN  /\ triggers < MaxTriggers
        /\ triggers' = triggers + 1
        /\ ivHistory' = IF measured = <<>> THEN ivHistory
                        ELSE Appended(ivHistory, measured[1], BreakoutLookback)
        /\ ivs' = ivs \o measured
        /\ inventory' = inventory + BaseLotSize * Max({0, positions[Underlying] \div 100})
        /\ BuildResult(CoveredCallSignals(chain) \o BreakoutSignals(chain))
        /\ UNCHANGED <<momentum, reversion, positions, seen>>

(* The consumer of the targets: no code of the repository, see README.     *)
ExecuteTarget ==
    /\ handedOff # <<>>
    /\ positions' = [positions EXCEPT
                       ![Head(handedOff).instrument_id] = Head(handedOff).target_quantity]
    /\ handedOff' = Tail(handedOff)
    /\ result' = NoResult
    /\ UNCHANGED <<deque, seen, ivs, signalled, inventory, triggers>>

RefuseTarget ==
    /\ handedOff # <<>>
    /\ handedOff' = Tail(handedOff)
    /\ result' = NoResult
    /\ UNCHANGED <<deque, positions, seen, ivs, signalled, inventory, triggers>>

Init ==
    /\ momentum = [i \in Instruments |-> <<>>]
    /\ reversion = [i \in Instruments |-> <<>>]
    /\ ivHistory = <<>>
    /\ positions = Opening
    /\ handedOff = <<>>
    /\ result = NoResult
    /\ seen = [i \in Instruments |-> <<>>]
    /\ ivs = <<>>
    /\ signalled = [i \in Instruments |-> 0]
    /\ inventory = 0
    /\ triggers = 0

Next ==
    \/ \E event \in Events : ProcessEvent(event)
    \/ \E chain \in Chains : ProcessSchedule(chain)
    \/ ExecuteTarget
    \/ RefuseTarget

Spec == Init /\ [][Next]_vars

-----------------------------------------------------------------------------
(* Properties.                                                             *)

(* Every variable has its type.                                            *)
Prices == (Nat \ {0}) \X {1}

TypeOK ==
    /\ momentum \in [Instruments -> Seq(Prices)]
    /\ reversion \in [Instruments -> Seq(Prices)]
    /\ seen \in [Instruments -> Seq(Prices)]
    /\ \A i \in Instruments : /\ Len(momentum[i]) =< MomentumLookback
                              /\ Len(reversion[i]) =< ReversionLookback
    /\ {ivHistory, ivs} \subseteq Seq(Nat \X (Nat \ {0}))
    /\ Len(ivHistory) =< BreakoutLookback
    /\ positions \in [Instruments -> Int]
    /\ handedOff \in Seq(PositionTarget)
    /\ result.signals \in Seq(StrategySignal)
    /\ result.targets \in Seq(PositionTarget)
    /\ signalled \in [Instruments -> Nat]
    /\ inventory \in Nat
    /\ triggers \in 0..MaxTriggers

SignalsOf(strategy) == {s \in Range(result.signals) : s.strategy_id = strategy}

Latest(history, count) == SubSeq(history, Len(history) - count + 1, Len(history))

(* However the events of the instruments are interleaved, with each other  *)
(* and with triggers, a price event is answered from the whole history of  *)
(* that instrument alone: momentum by its price so many events ago, mean   *)
(* reversion by the mean of as many.                                       *)
SignalsFollowPrices ==
    [][\A i \in Instruments : seen'[i] # seen[i] =>
         LET history == seen'[i]
             price == Last(history)
             sides(strategy) == {s.side : s \in SignalsOf(strategy)'}
             before == history[Len(history) - MomentumLookback + 1]
             average == Mean(Latest(history, ReversionLookback))
             far == Scale(ReversionThreshold[1], Over(average, ReversionThreshold[2]))
         IN /\ \A s \in Range(result'.signals) : s.instrument_id = i
            /\ sides("us_equity_momentum") =
                 IF Len(history) < MomentumLookback THEN {}
                 ELSE {side \in {"BUY", "SELL"} :
                         IF side = "BUY" THEN Less(before, price) ELSE Less(price, before)}
            /\ sides("hk_equity_mean_reversion") =
                 IF Len(history) < ReversionLookback THEN {}
                 ELSE {side \in {"BUY", "SELL"} :
                         IF side = "BUY" THEN AtMost(price, Minus(average, far))
                                         ELSE AtMost(Plus(average, far), price)}
      ]_vars

(* A measured volatility breaks out exactly if it exceeds the mean of the  *)
(* ones measured before it, itself excluded, by the multiplier; triggers   *)
(* that found no chain or no volatility do not count.                      *)
BreakoutComparesWithPast ==
    [][ivs' # ivs =>
         LET baseline == Mean(Latest(ivs, BreakoutLookback))
             needed == Scale(BreakoutMultiplier[1], Over(baseline, BreakoutMultiplier[2]))
         IN SignalsOf("options_vol_breakout")' # {} <=>
              /\ Len(ivs) >= BreakoutLookback
              /\ Less(Whole(0), baseline)
              /\ AtMost(needed, Last(ivs'))]_vars

(* However late targets are executed, in whatever mixture with refusals,   *)
(* no position strays from where it started by more than a lot for every   *)
(* signal there was for it: targets computed from positions that are out   *)
(* of date cannot add up to more than was asked for.                       *)
PositionsWithinSignals ==
    \A i \in Instruments :
      /\ positions[i] - Opening[i] \in
           -(BaseLotSize * signalled[i])..(BaseLotSize * signalled[i])
      /\ \A n \in DOMAIN handedOff :
           handedOff[n].instrument_id = i =>
             handedOff[n].target_quantity - Opening[i] \in
               -(BaseLotSize * signalled[i])..(BaseLotSize * signalled[i])

(* Over all triggers together no more calls are sold short than a tenth of *)
(* the lot for every hundred shares that each trigger found, however late  *)
(* the targets are executed.  This is the bound the code keeps, and not    *)
(* the "one out-of-the-money call per 100 shares" of covered_call.py:11:   *)
(* with the lot of 100 it allows ten calls for every hundred shares, and   *)
(* as many again at every trigger that finds the same shares.              *)
CallsSoldAreBounded ==
    \A chain \in Chains : \A entry \in Range(chain) :
      seen[entry.contract] = <<>> =>
        10 * (Opening[entry.contract] - positions[entry.contract]) =< inventory
=============================================================================
