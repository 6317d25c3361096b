------------------------------ MODULE Backtest ------------------------------
(***************************************************************************)
(* The event-driven backtest (backtest/engine.py) over its calendar,       *)
(* accounting, cost models and option hook, with the strategy engine and   *)
(* portfolio construction that turn signals into targets.  The strategies  *)
(* are the environment here: on every event they emit any short list of    *)
(* signals (StrategyDesk has the ones of the repository).                  *)
(*                                                                         *)
(* A step is one iteration of the loop of run: execute what is pending for *)
(* the bar's symbol at its open, ask the strategies about its close, queue *)
(* their targets, settle expired options, take a snapshot.  Bars outside   *)
(* trading days are skipped.  A bar that closes at nothing ends the run    *)
(* between the first two: its event is refused and the exception leaves    *)
(* run.                                                                    *)
(***************************************************************************)
EXTENDS Accounting, Calendar, SequencesExt

CONSTANTS
    Symbols,        \* instruments with bars
    Sessions,       \* market -> TradingSession
    Histories,      \* possible inputs: sets of bars, see BarsAssumption
    Contracts,      \* option symbol -> OptionContract
    Signals,        \* signals the strategies may emit
    InitialCash,
    SlippageBps,    \* slippage in hundredths of a per cent of the price
    PerUnit,        \* asset class -> commission per unit
    MinimumTicket,  \* least commission of a trade
    SecFee,         \* fee per unit of notional
    MaxSignals      \* bound on the signals of one run

OptionContract == [underlying_symbol: Symbols, expiry: Int, strike: Nat,
                   right: {"CALL", "PUT"}, multiplier: Nat \ {0}]

(* lot is the whole part of base lot size times strength, asset_class what *)
(* the strategy says it is: the examples that follow prices say EQUITY of  *)
(* every symbol.                                                           *)
StrategySignal == [instrument_id: Symbols, asset_class: AssetClasses,
                   side: {"BUY", "SELL"}, lot: Nat \ {0}]

(* rank is the position of the symbol in the input dictionary: bars of one *)
(* timestamp keep that order, because sort is stable.                      *)
Bar == [symbol: Symbols, rank: Nat, market: DOMAIN Sessions, timestamp: Int,
        open: Nat, close: Nat]

ASSUME BarsAssumption ==
    /\ IsFiniteSet(Symbols)
    /\ \A m \in DOMAIN Sessions : Sessions[m] \in TradingSession
    /\ \A h \in Histories : IsFiniteSet(h) /\ h \subseteq Bar
    /\ \A h \in Histories : \A b \in h :
         b.open # 0 /\ (b.open * SlippageBps) % 10000 = 0
    /\ \A h \in Histories : \A a, b \in h :
         /\ a.symbol = b.symbol /\ a.timestamp = b.timestamp => a = b
         /\ a.symbol = b.symbol <=> a.rank = b.rank
    /\ DOMAIN Contracts \subseteq Symbols
    /\ \A s \in DOMAIN Contracts : Contracts[s] \in OptionContract
    /\ Signals \subseteq StrategySignal
    /\ {SlippageBps, MinimumTicket, SecFee, InitialCash, MaxSignals} \subseteq Nat
    /\ SlippageBps < 10000
    /\ PerUnit \in [AssetClasses -> Nat]

VARIABLES
    timeline,  \* the bars of this run, in the order they are handled
    step,      \* how many have been handled, the one that raised included
    raised,    \* the last of them has ended the run with an exception
    pending,   \* symbol -> targets waiting for the symbol's next bar
    account,
    fills,     \* executed fills, oldest first
    snapshot,  \* the last point of the equity curve
    settled,   \* history: what expirations are worth, less the cost written off
    emitted    \* number of signals so far

vars ==
    <<timeline, step, raised, pending, account, fills, snapshot, settled, emitted>>

(* timestamp is the number of the bar that executed the fill, signalled of *)
(* the bar whose event asked for it.                                       *)
BacktestFill == [timestamp: Nat, instrument_id: Symbols, side: {"BUY", "SELL"},
                 quantity: Nat \ {0}, price: Nat \ {0}, commission: Nat, fees: Nat,
                 asset_class: AssetClasses, signalled: Nat]

PendingTarget == [target_quantity: Int, asset_class: AssetClasses, timestamp: Nat]

-----------------------------------------------------------------------------
(* _merge_timeline: a bar's place is the number of bars before it.         *)
Before(a, b) ==
    a.timestamp < b.timestamp \/ (a.timestamp = b.timestamp /\ a.rank < b.rank)

MergeTimeline(history) ==
    [n \in 1..Cardinality(history) |->
       CHOOSE b \in history : Cardinality({a \in history : Before(a, b)}) = n - 1]

(* Latest close of every symbol that has a bar up to time, skipped bars    *)
(* and bars of other symbols at the same time included.  The code takes    *)
(* the last such bar of the symbol's input list: that is the latest if     *)
(* every input list is in order of time, as a history here is.             *)
LatestMarks(time) ==
    LET past == {b \in Range(timeline) : b.timestamp =< time} IN
      [s \in {b.symbol : b \in past} |->
         (CHOOSE b \in past :
            /\ b.symbol = s
            /\ \A c \in past : c.symbol = s => c.timestamp =< b.timestamp).close]

(* apply: the slipped price is worse for both sides.                       *)
SlippedPrice(open, side) ==
    LET slippage == (open * SlippageBps) \div 10000
    IN  IF side = "BUY" THEN open + slippage ELSE open - slippage

Commission(class, quantity) == Max({MinimumTicket, PerUnit[class] * quantity})

Fees(notional) == notional * SecFee

-----------------------------------------------------------------------------
(* One pending target: the trade from the current to the target quantity.  *)
(* An option target attaches the contract, and no later trade detaches it. *)
Trade(state, target, bar) ==
    LET symbol == bar.symbol
        class == target.asset_class
        delta == target.target_quantity - state.account.positions[symbol].quantity
        side == IF delta > 0 THEN "BUY" ELSE "SELL"
        quantity == IF delta > 0 THEN delta ELSE -delta
        price == SlippedPrice(bar.open, side)
        commission == Commission(class, quantity)
        fees == Fees(price * quantity)
        booked == BookTrade(state.account, symbol, class, delta, price, commission + fees)
    IN  IF delta = 0 THEN state
        ELSE [account |->
                IF class = "OPTION"
                  THEN [booked EXCEPT !.positions[symbol].contract =
                                        symbol \in DOMAIN Contracts]
                  ELSE booked,
              fills |-> Append(state.fills,
                [timestamp |-> step + 1, instrument_id |-> symbol, side |-> side,
                 quantity |-> quantity, price |-> price, commission |-> commission,
                 fees |-> fees, asset_class |-> class,
                 signalled |-> target.timestamp])]

(* Changed form: every target is a change of the position, not a position. *)
ExecuteAsChanges(queue, bar, state) ==
    FoldLeft(LAMBDA s, target :
               Trade(s, [target EXCEPT !.target_quantity =
                           @ + s.account.positions[bar.symbol].quantity], bar),
             state, queue)

ExecutePending(queue, bar, state) ==
    FoldLeft(LAMBDA s, target : Trade(s, target, bar), state, queue)

(* build_targets: a signal asks for the position the strategies were shown *)
(* plus or minus its lot, so two signals of one batch do not add up.       *)
Target(signal, positions) ==
    [target_quantity |-> positions[signal.instrument_id].quantity
                           + SignedFill(signal.side, signal.lot),
     asset_class |-> signal.asset_class,
     timestamp |-> step + 1]

Enqueue(queues, batch, positions) ==
    FoldLeft(LAMBDA q, g : [q EXCEPT ![g.instrument_id] = Append(@, Target(g, positions))],
             queues, batch)

Intrinsic(contract, spot) ==
    Max({0, IF contract.right = "CALL" THEN spot - contract.strike
                                       ELSE contract.strike - spot})

(* Changed form: the multiplier is forgotten.                              *)
SettlementPerShare(symbol, position, marks) ==
    LET contract == Contracts[symbol] IN
      IF position.contract /\ contract.underlying_symbol \in DOMAIN marks
        THEN Intrinsic(contract, marks[contract.underlying_symbol]) * position.quantity
        ELSE 0

(* on_expiration: intrinsic value in cash when the underlying has a mark   *)
(* and the contract is attached to the position.                           *)
Settlement(symbol, position, marks) ==
    LET contract == Contracts[symbol] IN
      IF position.contract /\ contract.underlying_symbol \in DOMAIN marks
        THEN Intrinsic(contract, marks[contract.underlying_symbol])
               * position.quantity * contract.multiplier
        ELSE 0

(* Changed form: an option lives through the day it expires on.            *)
ExpiredEarlier(positions, time) ==
    {s \in DOMAIN Contracts : Contracts[s].expiry < time /\ positions[s].quantity # 0}

Expired(positions, time) ==
    {s \in DOMAIN Contracts : Contracts[s].expiry =< time /\ positions[s].quantity # 0}

(* _process_option_expiration: cash is adjusted and the position closed;   *)
(* neither realized profit nor its attribution is touched.                 *)
Expire(before, time) ==
    LET gone == Expired(before.positions, time)
        marks == LatestMarks(time)
        payments == [s \in gone |-> Settlement(s, before.positions[s], marks)]
    IN  [before EXCEPT
           !.cash = @ + SumFunctionOnSet(payments, gone),
           !.positions = [s \in Symbols |->
                            IF s \in gone
                              THEN [@[s] EXCEPT !.quantity = 0, !.average = Whole(0)]
                              ELSE @[s]]]

(* For MoneyIdentity: what the contracts that expire pay, less the cost of *)
(* the positions, from the contracts and the fills alone.                  *)
ExpiryResult(positions, time, executed) ==
    LET payoff(s) ==
          LET spot == LatestMarks(time)[Contracts[s].underlying_symbol]
              value == IF Contracts[s].right = "CALL" THEN spot - Contracts[s].strike
                                                      ELSE Contracts[s].strike - spot
              asOption == \E f \in Range(executed) :
                             f.instrument_id = s /\ f.asset_class = "OPTION"
          IN  IF Contracts[s].underlying_symbol \in DOMAIN LatestMarks(time)
                   /\ value > 0 /\ asOption
                THEN value * Contracts[s].multiplier ELSE 0
        gone == Expired(positions, time)
    IN  SumOver([s \in gone |-> Scale(positions[s].quantity,
                                      Minus(Whole(payoff(s)), positions[s].average))],
                gone)

-----------------------------------------------------------------------------
TradingDay(bar) == IsTradingDay(bar.timestamp, Sessions[bar.market])

SkipBar ==
    /\ ~raised
    /\ step < Len(timeline)
    /\ ~TradingDay(timeline[step + 1])
    /\ step' = step + 1
    /\ UNCHANGED <<timeline, raised, pending, account, fills, snapshot, settled, emitted>>

(* What follows the fills of a bar: expirations, then the snapshot.        *)
CloseBar(bar, traded) ==
    LET expired == Expire(traded.account, bar.timestamp)
        point == Snapshot(expired, LatestMarks(bar.timestamp))
    IN  /\ account' = [expired EXCEPT !.peak = point.peak]
        /\ fills' = traded.fills
        /\ snapshot' = point
        /\ settled' = Plus(settled, ExpiryResult(traded.account.positions,
                                                 bar.timestamp, traded.fills))
        /\ step' = step + 1
        /\ UNCHANGED <<timeline, raised>>

(* Changed form: the strategies are asked first, and what they want is     *)
(* executed on the bar they saw.                                           *)
HandleBarLate(batch) ==
    LET bar == timeline[step + 1]
        queues == Enqueue(pending, batch, account.positions)
    IN  /\ ~raised
        /\ step < Len(timeline)
        /\ TradingDay(bar)
        /\ bar.close # 0
        /\ emitted + Len(batch) =< MaxSignals
        /\ emitted' = emitted + Len(batch)
        /\ pending' = [queues EXCEPT ![bar.symbol] = <<>>]
        /\ CloseBar(bar, ExecutePending(queues[bar.symbol], bar,
                                        [account |-> account, fills |-> fills]))

HandleBar(batch) ==
    LET bar == timeline[step + 1]
        traded == ExecutePending(pending[bar.symbol], bar,
                                 [account |-> account, fills |-> fills])
    IN  /\ ~raised
        /\ step < Len(timeline)
        /\ TradingDay(bar)
        /\ bar.close # 0
        /\ emitted + Len(batch) =< MaxSignals
        /\ emitted' = emitted + Len(batch)
        /\ pending' = Enqueue([pending EXCEPT ![bar.symbol] = <<>>], batch,
                              traded.account.positions)
        /\ CloseBar(bar, traded)

(* StrategyEvent wants a price above 0, Bar only one that is not below it: *)
(* the raise comes after the fills of the bar and before its expirations,  *)
(* its snapshot and every later bar.                                       *)
RaiseAtClose ==
    LET bar == timeline[step + 1]
        traded == ExecutePending(pending[bar.symbol], bar,
                                 [account |-> account, fills |-> fills])
    IN  /\ ~raised
        /\ step < Len(timeline)
        /\ TradingDay(bar)
        /\ bar.close = 0
        /\ raised' = TRUE
        /\ pending' = [pending EXCEPT ![bar.symbol] = <<>>]
        /\ account' = traded.account
        /\ fills' = traded.fills
        /\ step' = step + 1
        /\ UNCHANGED <<timeline, snapshot, settled, emitted>>

Init ==
    /\ timeline \in {MergeTimeline(h) : h \in Histories}
    /\ step = 0
    /\ raised = FALSE
    /\ pending = [s \in Symbols |-> <<>>]
    /\ account = NewAccount(Symbols, InitialCash)
    /\ fills = <<>>
    /\ snapshot = Snapshot(account, <<>>)
    /\ settled = Whole(0)
    /\ emitted = 0

Batches == {<<>>} \cup {<<g>> : g \in Signals} \cup {<<g, h>> : g, h \in Signals}

Next == SkipBar \/ RaiseAtClose \/ \E batch \in Batches : HandleBar(batch)

Spec == Init /\ [][Next]_vars

-----------------------------------------------------------------------------
(* Properties.                                                             *)

(* Every variable has its type.                                            *)
TypeOK ==
    /\ timeline \in Seq(Bar)
    /\ step \in 0..Len(timeline)
    /\ raised \in BOOLEAN
    /\ pending \in [Symbols -> Seq(PendingTarget)]
    /\ account \in Account(Symbols)
    /\ fills \in Seq(BacktestFill)
    /\ snapshot \in EquityPoint
    /\ settled \in Fractions
    /\ emitted \in 0..MaxSignals

TradingBars(symbol) ==
    {n \in DOMAIN timeline : timeline[n].symbol = symbol /\ TradingDay(timeline[n])}

(* A target is executed on the first trading bar of its symbol that comes  *)
(* after the bar that produced it, at that bar's open, and waits until     *)
(* then: none is executed early, twice, late or forgotten.                 *)
ExecutesAtNextOpen ==
    /\ \A f \in Range(fills) :
         /\ f.timestamp = Min({n \in TradingBars(f.instrument_id) : n > f.signalled})
         /\ f.price = SlippedPrice(timeline[f.timestamp].open, f.side)
    /\ \A s \in Symbols : \A n \in DOMAIN pending[s] :
         \A m \in TradingBars(s) : m =< step => m =< pending[s][n].timestamp

(* However many targets had queued up, the position after their bar is     *)
(* the one asked for last, or none if the option expired on that bar.      *)
ReachesLastTarget ==
    [][step' = step + 1 =>
         LET bar == timeline[step'] IN
           TradingDay(bar) /\ pending[bar.symbol] # <<>> =>
             account'.positions[bar.symbol].quantity \in
               {Last(pending[bar.symbol]).target_quantity}
                 \cup (IF bar.symbol \in DOMAIN Contracts
                            /\ Contracts[bar.symbol].expiry =< bar.timestamp
                         THEN {0} ELSE {})]_vars

Paid(executed) == FoldLeft(LAMBDA sum, f : sum + f.commission + f.fees, 0, executed)

(* Every point of the equity curve is the initial cash plus realized and   *)
(* unrealized profit plus the result of expirations, less commission and   *)
(* fees: no money is lost between fills, settlements and snapshots.        *)
(* Realized profit alone would not do, an expiration never reaches it.  A  *)
(* run that raised has no curve: its last fills are in no snapshot.        *)
MoneyIdentity ==
    ~raised => Whole(snapshot.equity)
      = Plus(Plus(Whole(InitialCash - Paid(fills)), settled),
             Plus(account.realized, snapshot.unrealized))

(* The two attributions, by instrument and by the class each trade named,  *)
(* both add up to the realized profit, over trades of one instrument under *)
(* both classes and over expirations, which they leave out as it does.     *)
AttributionExplainsRealized ==
    /\ SumOver(account.by_instrument, Symbols) = account.realized
    /\ SumOver(account.by_asset_class, AssetClasses) = account.realized

(* After a bar at or past the expiry of a contract no position in it is    *)
(* left, not even one opened on that very bar, unless the bar closed at    *)
(* nothing: then the run has ended before expirations.  That is how a      *)
(* worthless option expires, and tests/test_backtest_options.py:51-52      *)
(* expects it closed: "Expired option contracts should be closed by        *)
(* expiration handling", of the bar of line 63.                            *)
ExpiredOptionsAreClosed ==
    \A s \in DOMAIN Contracts :
      /\ step > 0
      /\ TradingDay(timeline[step])
      /\ Contracts[s].expiry =< timeline[step].timestamp
      => \/ account.positions[s].quantity = 0
         \/ raised /\ timeline[step].close = 0

-----------------------------------------------------------------------------
(* The live position book, fed the fills of the backtest, against the      *)
(* backtest's own account: the code has two implementations of average     *)
(* cost.  The live book hears of no expiration, so this is about stocks.   *)
Stocks == Symbols \ DOMAIN Contracts

LiveBook(symbol) ==
    FoldLeft(LAMBDA held, f : IF f.instrument_id = symbol
                                THEN ApplyFill(held, f.side, f.quantity, f.price)
                                ELSE held,
             Flat, fills)

(* The prices at which what is held was opened, and whether a fill went    *)
(* through zero since the position was last flat.                          *)
NotHeld == [held |-> 0, turned |-> FALSE, prices |-> {}]

OpenedBy(o, f) ==
    LET after == o.held + SignedFill(f.side, f.quantity)
        through == o.held # 0 /\ after # 0 /\ ~SameDirection(o.held, after)
    IN  [held |-> after,
         turned |-> after # 0 /\ (o.turned \/ through),
         prices |-> IF after = 0 THEN {}
                    ELSE IF through THEN {f.price}
                    ELSE IF o.held = 0 \/ SameDirection(o.held, after - o.held)
                      THEN o.prices \cup {f.price}
                    ELSE o.prices]

Opened(symbol) ==
    FoldLeft(LAMBDA o, f : IF f.instrument_id = symbol THEN OpenedBy(o, f) ELSE o,
             NotHeld, fills)

Within(average, prices) ==
    AtMost(Whole(Min(prices)), average) /\ AtMost(average, Whole(Max(prices)))

(* The two books agree on the quantity always, and on the average price as *)
(* long as no fill has carried the position through zero.                  *)
BooksAgree ==
    \A s \in Stocks :
      /\ LiveBook(s).quantity = account.positions[s].quantity
      /\ ~Opened(s).turned => LiveBook(s).average = account.positions[s].average

(* The account's average price lies between the lowest and the highest     *)
(* price at which the position now held was opened.                        *)
AccountAverageIsOfLots ==
    \A s \in Stocks : account.positions[s].quantity # 0 =>
      Within(account.positions[s].average, Opened(s).prices)

(* README.md:152, "PortfolioPositionUpdater mutates positions from fills   *)
(* and maintains weighted average price": the same of the live book.       *)
LiveAverageIsOfLots ==
    \A s \in Stocks : LiveBook(s).quantity # 0 =>
      Within(LiveBook(s).average, Opened(s).prices)

(* backtest/engine.py:31, "Event-driven backtesting engine with            *)
(* no-lookahead default behavior": a fill, priced at an open, is later in  *)
(* time than the bar whose close it reacts to.                             *)
NoLookahead ==
    \A f \in Range(fills) :
      timeline[f.timestamp].timestamp > timeline[f.signalled].timestamp
=============================================================================
