# QuantTrader in TLA+

A specification of QuantTrader (`src/quant_trader`): what its parts promise, model checked on
small instances with TLC and proved for every instance with TLAPS: every safety property that
holds, of every modelled component. Paths below are relative to the repository root; `oms/`,
`risk/` and so on are under `src/quant_trader/`.

- [1. The system](#1-the-system)
- [2. Modules](#2-modules)
- [3. Runs](#3-runs)
- [4. Where code and documentation part](#4-where-code-and-documentation-part)
- [5. Proofs](#5-proofs)
- [6. What is abstracted and what is left out](#6-what-is-abstracted-and-what-is-left-out)
- [7. Plan](#7-plan)

How to run it: `tlc -config MCOrderManager.cfg MCOrderManager` (and likewise for the other
configurations of section 3), `tlapm TradingSystemProofs.tla` (and likewise for
`DataTheorems`, `ProductionRiskProofs`, `StrategyDeskProofs`, `BacktestProofs`,
`MarketDataProofs`, `TaskSchedulerProofs` and `MigrationRunnerProofs`).

## 1. The system

QuantTrader is a single-process Python framework. Most of it is synchronous: an operation runs
to its return or its raise. What makes it hard is therefore less parallelism than *order*: of
fills against cancels and replaces, of retries against answers that come late, of bars of several
symbols, of targets against the positions they were computed from, of crashes against commits; and
the state that several components keep of the same thing.

| component | state | operations | talks to |
|---|---|---|---|
| order manager (`oms/order_manager.py`, `oms/state_machine.py`, `execution/service.py`) | orders by id, idempotency keys used, fill ids used | `create_order`, `replace_order`, `cancel_order`, `process_fill`, `refresh_fills` | asks the risk manager, calls the broker through the execution service, passes fills to the position book |
| broker (`adapters/broker/in_memory.py`) | its own orders, a counter for ids, a queue of fills | `submit_order`, `replace_order`, `cancel_order`, `add_fill`, `poll_fills` | returns copies of its orders; its queue is emptied by a poll |
| position book (`portfolio/updater.py`) | quantity and average price per instrument | `apply_fill` | read by the risk manager |
| risk manager (`risk/manager.py`) | kill switch, minute window and its counter, profit and loss | `evaluate_order`, `update_daily_pnl`, `trigger_kill_switch` | called before every submit and replace |
| production risk engine (`risk/framework.py`) | emergency stop, minute window, approved keys, audit log | `evaluate_order`, `trigger_emergency_stop`, `clear_emergency_stop` | gets positions, market and time as arguments |
| strategy engine, portfolio construction (`strategy/engine.py`, `strategy/portfolio.py`) | none of their own | `process_event`, `process_schedule`, `build_targets` | run the strategies in their order, turn signals into absolute targets |
| example strategies (`strategy/examples/`) | windows of prices per instrument, a history of volatilities | `on_event`, `on_schedule` | called by the engine |
| backtest engine (`backtest/engine.py`, `accounting.py`, `costs.py`, `options.py`) | targets pending per symbol, account, fills, equity curve | `run`: execute, ask the strategies, queue, expire, take a snapshot | strategy engine, trading calendar |
| trading calendar (`market_data/calendar.py`) | sessions and holidays of each market | `is_trading_day` | decides which bars a backtest handles |
| market data service (`market_data/service.py`, `cache.py`, `utils/resilience.py`) | answers with the time they expire; one thread per provider call | `quote`, `option_chain`, `historical_bars`, `corporate_actions` | provider, with timeout and retry |
| task scheduler (`ops/scheduler.py`, `scripts/run_scheduler.py`) | tasks with their next run | `register`, `tick` | runs any callable |
| migration runner (`ops/migrations.py`, `db/sqlite.py`) | `schema_migrations` and whatever the SQL changes | `run` | SQLite; every statement is committed by itself |
| performance report, symbols, market data provider, health, metrics, alerting, settings, logging | none that a later step depends on | pure computation, lookups, output | – |

What makes each of them correct:

- **Order manager.** An order's status agrees with its filled quantity; a filled, canceled or
  refused order is never touched again; a key names one order and is submitted once; a fill moves
  the position once however it arrives; the order manager and the broker agree on the orders that
  work. Hard: a fill that arrives after the cancel that should have prevented it, fills under an
  identifier a replace has changed, a fill seen twice, a fill that raises in the middle of a
  batch, a submit, replace or cancel that raises although the broker has acted.
- **Risk manager.** No more requests per minute than allowed, none after the kill switch or while
  the loss limit is breached, and no position past the limit. Hard: the decision and the broker's
  receipt of the request are two steps that may fall in different minutes, positions know nothing
  of working orders, the minute window is reset by a comparison with the clock.
- **Production risk engine.** A key is approved once; the audit log and the counter agree on the
  rate. Hard: it keeps rolling its window while it blocks, its stop can be cleared, and nothing
  keeps the times it is called with in order.
- **Strategies.** A signal depends on the right part of the instrument's past, however events of
  several instruments and triggers are interleaved, and positions never outgrow what the signals
  asked for. Hard: targets are absolute, computed from a position that may have moved when they
  are executed.
- **Two books.** The live book and the backtest account both keep average cost. They should agree;
  the backtest account should lose no money. Hard: fills that carry a position through zero.
- **Backtest.** A signal is executed at the next open of its symbol and never at a price the
  strategy has already seen go by; no target is lost over a weekend or holiday; expired options are
  gone; the equity curve and the attribution account for all money. Hard: several symbols with one
  timestamp, days that differ between markets, targets that queue up, an option that expires on the
  bar that opens it.
- **Market data.** Answers are fresh, never go back in time, and a call returns in bounded time.
  Hard: a timed out provider call goes on running in its thread beside the retries.
- **Scheduler.** No task runs more often than its interval, and none is starved while the loop
  runs. Hard: tasks take time, and an exception ends the tick in the middle and the script with it.
- **Migrations.** A version is recorded only if its SQL is applied, in order, once. Hard: a crash
  between the SQL and its record; two jobs at once.

`PROJECT.json` lists the hazards one by one, with the line where each bites and the properties
that watch it.

## 2. Modules

```
OrderLifecycle                     abstract: what an order manager promises
   ^ implemented by (INSTANCE ... WITH)
OrderManager   RiskManager         ProductionRiskEngine     MarketData
   ^      ^     ^                     ^                        ^
   |      TradingSystem (clock)       ProductionRiskProofs     MarketDataProofs
   |            ^
   |      TradingSystemProofs      TaskScheduler <- TaskSchedulerProofs
   |                               MigrationRunner <- MigrationRunnerProofs
   MCOrderManager

Rational <- PositionBook <- Accounting <- Backtest <- BacktestProofs
                            Calendar <----'
Rational <- StrategyDesk <- StrategyDeskProofs
Rational <- DataTheorems <- TradingSystemProofs, StrategyDeskProofs, BacktestProofs
```

Arrows point from a module to what it extends. `MC*.tla` give TLC its sets, records and symmetry.
Variables and operators carry the names of the source; `PROJECT.json` maps every definition that
models code to its lines. Definitions marked "Changed form" in a comment are not part of any
specification: each is a plausible bug (a dropped guard, a missing reset) with which one of the
properties is shown to fail.

**OrderManager** has the state of the order manager (`orders`, `orderKeys` and `fillIdsSeen` for
`_orders`, `_order_keys` and `_fill_ids_seen`), of the position book (`positions`), of the broker
(`brokerOrders`, `fills`; `issued` stands for the id counter), and `batch`, the local variable of
`refresh_fills` that holds the fills polled and not yet processed. One action per operation:
`CreateOrder`, `ReplaceOrder`, `CancelOrder`, `ProcessFill`; `refresh_fills` is `PollFills`
followed by one `ProcessPolledFill` per fill, because every fill has effects of its own and the
first that raises ends the loop. `SubmitReplyLost`, `ReplaceReplyLost` and `CancelReplyLost` are
the calls in which the broker acts and the call raises: the order manager stores nothing. Two
histories say which properties then need an exception: `lostKeys`, the keys the broker took that
way, and `disputed`, the broker's orders whose last call raised. `executions` and `booked` are
history too. `AddFill` is the broker's `add_fill`, which checks nothing: executions of orders long
canceled or replaced, of any quantity. A replace and a cancel store *the broker's copy* of the
order, as the code does, and the broker's copy has never seen a fill.

**OrderLifecycle** is what remains for a caller: orders that work and want a positive quantity,
orders closed for good, and a net position that moves only when a working order executes. It has
no keys, broker, polling or fill ids. `OrderManager!ImplementsLifecycle` maps an order that is not
terminal to what is left of it.

**RiskManager** has the manager's fields and one operator per method: `Allowed` (the checks of
`evaluate_order`, in order) and `EvaluateOrder` (what it changes). **TradingSystem** extends both,
adds a clock, and conjoins them. A call of the broker is two steps, as the clock is read at
`oms/order_manager.py:44` (`:73` for a replace) and the broker called at `:59` (`:88`).
`SubmitChecked` and `ReplaceChecked` make the decision (`Decide`): a refusal is stored, an approval
is counted and put in flight (`inFlight`). `RequestReceived` is the broker's receipt, its reply
stored or lost; `RequestNotReceived` is a submit or replace that raises before the broker has it,
though the risk manager has counted it. Between the two only the clock moves: the program is
synchronous, and its other operations (`PassOnCancel`, `HandleFills` with polled and direct fills,
`ReportPnl`, `Stop`) begin when no call is waiting. `sent` counts, for every minute, the requests
the broker received, `late` has the minutes that received one of an earlier minute.
`Decisions(request)` is the set of answers the manager may give over all quotes a caller may pass:
missing, stale or fresh, with prices that may be zero.

**ProductionRiskEngine** collects the controls violated by an order and a snapshot in
`Violations`, grouped as in the source; `RecordDecision` is what any decision changes. A snapshot
is a record of what `evaluate_order` looks up; the time is an argument and may go back and forth.

**PositionBook** (`ApplyFill`) and **Accounting** (`BookTrade`, `Snapshot`) are the two average-cost
implementations, as operators over exact fractions (**Rational**). **Backtest** is the loop of
`run`: one step per bar of the merged timeline, `SkipBar` outside trading days (**Calendar**) and
`HandleBar(batch)` otherwise, where `batch` is any list of up to two signals the strategies emit.
`HandleBar` executes the pending targets of the bar's symbol at its open, turns the signals into
targets from the positions as they are then, settles expired options at the latest marks, and takes
the snapshot. A bar that closes at 0 is `RaiseAtClose`: its `StrategyEvent` cannot be built, so the
run ends (`raised`) after the bar's fills and before its expirations. The fills are kept in a
sequence, from which the live book (`LiveBook`) and the histories the properties need are computed.

**StrategyDesk** is the strategy engine with the four examples: `ProcessEvent(event)` and
`ProcessSchedule(chain)`. The targets they return go to a consumer, which executes or refuses them
later, one by one (`ExecuteTarget`, `RefuseTarget`). The repository has no such consumer outside
the backtest: these two actions are external, and say only that a position becomes a target's.

**MarketData** is one caller of the service. Its phases are those of
`run_with_retry(run_with_timeout(...))`: calling, with the time left of the attempt; sleeping
between attempts; idle. A timed out call becomes an entry of `abandoned` and may end at any later
moment. Times are durations relative to now, so the clock needs no bound; ages stop at `Ancient`,
older than anything that may be served.

**TaskScheduler** splits `tick` at each task: `StartTick` reads the clock once, `TaskReturns` and
`TaskRaises` are the two ways a task ends, `PassTime` lets time pass within tasks and between ticks.
A raise ends the tick and, since `scripts/run_scheduler.py:17` catches nothing, the loop (`ended`).
Another caller of `tick` may catch it and go on with the same tasks: `ExceptionCaught`, external.
The due tasks are kept as a set and run in the order of their registration. Times are relative to
now and stop at `Longest`, beyond what any task may have to wait.

**MigrationRunner** splits `run` at every commit: `Start` reads the versions and the directory,
`Execute` commits a file's SQL, `Record` its version, `Ends` is a raise or a crash between any two.

## 3. Runs

Every run exhausts its state space. "Bounds" says what limits it and why that is enough.

**oms** (`MCOrderManager.cfg`): `TypeOK`, `StatusMatchesQuantity`, `PositionsAreBookedFills`,
`RequestsAreNotOverfilled`, `OneOrderPerKey`, `KeysSubmittedOnce`, `BrokerAgrees`,
`TerminalOrdersAreFrozen`, `ImplementsLifecycle`. Creates, refusals, replaces with and without a new
identifier, cancels, fills handed in directly, polled, duplicated, late and misdirected, and lost
replies. *Bounds*: two keys, one of which may be lost by calls that raise (an order and a replace,
two orders, or a retry after a lost reply), two broker identifiers (two orders, or one that moves),
two fills of one or two units (partial and complete, under and over), one instrument. No guard of
the order manager relates instruments to each other; a second order of the same instrument is the
harder case. Identifiers are symmetric.

**trading** (`MCTradingSystem.cfg`): `RateLimitHolds`, `WindowCountsSentOrders`,
`SingleOrderKeepsLimit`, `KillSwitchStopsRequests`, `NoRequestAfterLoss`. All of the above, with a
broker that keeps identifiers, behind the risk manager, with a clock. *Bounds*: the clock goes
through three seconds, two of one minute and the first of the next, so that requests are decided
and received in one minute, on both sides of its end, and across it; one order per minute, so that
the one request a minute may receive beyond its limit is reached; two keys; a loss limit of one with
losses of none and one; prices 0, 3 and a notional limit of 4, so that each check of
`evaluate_order` decides some request.

**production_risk** (`MCProductionRiskEngine.cfg`): `ApprovedOncePerKey`, `AuditShowsRateLimit`.
*Bounds*: four evaluations at any of four times, in any order, in three minutes of two days, with
one approval per minute: approve, be blocked, approve again after the minute, a stop or a clear, go
back to an earlier minute; three orders (stock, option, larger) and fifteen snapshots: two healthy
ones and, for the controls, one just past each limit.

**strategies** (`MCStrategyDesk.cfg`): `PositionsWithinSignals`, `CallsSoldAreBounded`,
`SignalsFollowPrices`, `BreakoutComparesWithPast`. *Bounds*: up to three prices of two stocks
(windows of two fill, slide, and interleave with the other stock's) and up to three triggers (a
history of two fills and is compared with a third), five option chains (none; without calls;
without volatilities; with both; with a baseline of 0), a lot of 100 and 250 shares to start from;
the consumer executes or refuses at any time.

**backtest** (`MCBacktest.cfg`): `ExecutesAtNextOpen`, `MoneyIdentity`,
`AttributionExplainsRealized`, `ExpiredOptionsAreClosed`, `BooksAgree`, `AccountAverageIsOfLots`,
`ReachesLastTarget`. *Bounds*: ten histories of up to seven bars, of a stock in New York and a call
on it in Hong Kong, over a weekend, with a Monday that is a holiday in one market, a bar that is
Friday in UTC and Saturday where it is traded, expiry in or out of the money, before the underlying
has any price and on a bar that closes at 0; up to three signals of one or two lots, two of them in
one event: enough for two targets in one queue, a target that waits over a weekend or holiday, a
fill through zero, a position opened on the day of expiry and one opened and closed under different
asset classes.

**market_data** (`MCMarketData.cfg`): `AnswersAreFresh`, `AnswersNeverGoBack`, `ReturnsInTime`,
`EveryCallEnds`. *Bounds*: a cached and an uncached lookup, time to live and timeout of two units,
two attempts, three abandoned threads: threads of two different calls, and of both attempts of one,
are alive together while a third call runs.

**scheduler** (`MCTaskScheduler.cfg`): `RunsInTime`, `OwedTasksAreDue`, `RunsOncePerInterval`,
`EveryTaskRuns`. *Bounds*: up to three tasks with intervals 1 (due in every tick) and 3 (not),
ticks that take up to two units, exceptions that end the loop or are caught, any number of times.

**migrations** (`MCMigrationRunner.cfg`): `TypeOK`, `RecordedIsApplied`,
`NothingRunsPastAFailure`, `ReportedOnce`, `RerunnableFilesAreRecorded`. *Bounds*: one file of
each kind (can be executed twice; empty; fails the second time; always fails), deployed at any
time and in any order, and two jobs that overlap, crash and are started again without limit.

The four runs that find a violation (**overfill**, **lost_batch**, **flipped_average**,
**lookahead**) are those of section 4.

Deadlock is checked for **market_data** and **scheduler**, which run for ever. The other systems
may really stop: when all keys, identifiers, bars, events or evaluations are used up, or nothing is
left to migrate.

### Fairness

- *MarketData*: time passes, a timeout fires once it is due and a sleep ends. Nothing is assumed
  of the provider: it may hang in every attempt, and abandoned threads may never end. This is
  what `future.result(timeout=...)` of the helper's executor and `time.sleep` give.
- *TaskScheduler*: until an exception ends it the loop goes on and time passes; strong fairness of
  `TaskReturns(n)` for every task: a task that is started again and again returns in the end.
  Nothing makes a caller catch an exception: `ExceptionCaught` has no fairness, and `EveryTaskRuns`
  promises nothing once the loop has ended for good, as the shipped script's does at the first
  raise. The code justifies only as much: under a caller that catches, a task that raises every
  time does starve the tasks registered after it, and one that hangs stops the scheduler.
- *MigrationRunner*: the job is started as long as there is something to do and must end when it
  can only raise; strong fairness of `Execute` and `Record`: not every attempt crashes at the same
  place. The order manager, risk components, strategies and backtest are checked for safety only:
  nothing in the code makes a caller place, poll or report anything.

## 4. Where code and documentation part

Four runs look for a violation and find it. Each checks one property that states what the
repository says.

- **overfill** (`NoOverfill`). `tests/test_order_manager_flow.py:228`: "OMS should reject fills
  that exceed requested quantity". `replace_order` (`oms/order_manager.py:89`) stores the broker's
  copy, whose filled quantity is 0. Create 2, fill 2-1, replace for 2, fill 2: three units are
  booked under an order no request of which asked for more than two. What does hold is
  `RequestsAreNotOverfilled`: no single request books more than it asked for.
- **lost_batch** (`PolledFillsAreProcessed`). `oms/order_manager.py:157`: "Poll broker fills and
  process resulting order updates". The poll empties the broker's queue; the first fill of the
  batch that raises ends the loop, and the fills behind it are in no queue any more.
- **flipped_average** (`LiveAverageIsOfLots`, over the fills of backtests). `README.md:152`: the
  position updater "maintains weighted average price". A fill through zero keeps the closed
  position's average (`portfolio/updater.py:44`). The backtest account starts over at the fill's
  price, so the two books part exactly there (`BooksAgree`, run **backtest**).
- **lookahead** (`NoLookahead`). `backtest/engine.py:31`: "no-lookahead default behavior". Bars of
  one timestamp are handled one symbol after another: a signal from the first symbol's close for
  the second symbol executes at the second symbol's open of the *same* timestamp. What does hold
  is `ExecutesAtNextOpen`: always the next trading bar of the symbol in the timeline.

More things a reader of the code may not expect; the properties say what holds instead:

- Two working orders, each within the position limit, may together exceed it, because
  `evaluate_order` sees booked positions only. `SingleOrderKeepsLimit` holds for a single order.
- A submit, replace or cancel that raises after the broker acted leaves the stores apart: the key
  is not consumed and a retry is submitted a second time; a later cancel brings a request into the
  store whose key was never consumed. `OneOrderPerKey` and `KeysSubmittedOnce` except exactly the
  keys in `lostKeys`, `BrokerAgrees` exactly the orders in `disputed`; an order is undisputed again
  after the next call on it that returns.
- A migration whose job dies before its version is recorded is executed again
  (`tests/test_ops_migrations_monitoring.py:27` has it "once", without a crash). `RecordedIsApplied`
  is the direction that holds.
- The covered call strategy says "Sell one out-of-the-money call per 100 shares of underlying
  inventory" (`strategy/examples/covered_call.py:11`). It does not. Its signal's strength is a tenth
  per hundred shares, capped at 1, which portfolio construction multiplies by the base lot of 100:
  with the default configuration 250 shares sell 20 calls where the docstring has 2, and every
  further trigger sells as many again, because the shares already written against are not taken
  off. `CallsSoldAreBounded` says what the code does keep, an upper bound and no cover: a tenth of
  the lot for every hundred shares that each trigger found, over all triggers.
- A calendar minute may receive one request more than `max_orders_per_minute`, one that was decided
  in the minute before and reached the broker late. `RateLimitHolds` allows exactly that one. The
  limit is of calendar minutes: sixty seconds across a minute's end may see two minutes' worth.
- An option bar that closes at 0, the natural close of a worthless expiry, ends the backtest: `Bar`
  allows the price, `StrategyEvent` (`strategy/models.py:28`, `gt=0`), built at
  `backtest/engine.py:75`, does not, and the raise comes before the expiration at `:81`.
  `tests/test_backtest_options.py:63` has such a bar and `:51` says "Expired option contracts should
  be closed by expiration handling". `ExpiredOptionsAreClosed` and `MoneyIdentity` except the run
  that raised, and nothing else.
- `scripts/run_scheduler.py` ends with the first exception of a task; the other tasks do not run
  again until the script is started anew (`EveryTaskRuns`).
- Two strategies that signal on one instrument in one result produce two absolute targets from the
  same position: they replace each other. `ReachesLastTarget` and `PositionsWithinSignals` say so.
- The strategies that follow prices label every symbol EQUITY. A backtest position in an option
  opened that way never gets its contract attached, and its expiry pays nothing. `MoneyIdentity`
  accounts for it.
- A backtest bar with an open price of 0 makes the fill's validation raise, which ends the run;
  the histories have positive prices.

## 5. Proofs

The proof modules hold for all values of the constants that satisfy the assumptions named in the
modules: quantities and limits are naturals (quantities positive), identifiers of refused orders
are none of the broker's, a minute has at least a second, `Ancient` is beyond any answer that may
be served. TLC evaluates the assumptions in every run.

| module | what it proves |
|---|---|
| `DataTheorems` | facts about the data that the other three of its group cite |
| `TradingSystemProofs` | the order manager, its refinement of `OrderLifecycle`, the composition with the risk manager |
| `ProductionRiskProofs`, `StrategyDeskProofs`, `BacktestProofs`, `MarketDataProofs`, `TaskSchedulerProofs`, `MigrationRunnerProofs` | the component of that name |

**Data** (`DataTheorems`). The library's induction theorems take a predicate, which no installed
prover can instantiate. The lemmas here take the *set* of what the predicate holds of:
`SetInduction` on naturals, `SubsetInduction` on the size of finite sets. From them follow the two
things the models compute by recursion. A fold over a sequence is a chain of values, one per
element (`Folded`), so what holds before the first element and goes over each holds of the result
(`FoldedHolds`), and one element more is one step more (`FoldedAppend`). A total over a finite set
does not depend on the order in which the community modules add it up (`SolutionAdds`), so a new
element adds its value (`SumAdds`, `SumOverChanges`). Fractions are reasoned about by what they
denote: `Denotes(f, n, d)` says that `f` is the number n/d, operations on fractions are operations
on numerators over a common denominator (`CommonSums`, `CommonDenominator`), and in lowest terms
equal numbers are equal pairs (`SameValue`).

**Order manager** (`TradingSystemProofs`, first part). `Invariance` proves `IInv == TypeOK /\
StatusMatchesQuantity /\ OneOrderPerKey /\ BrokerCopies`, from which `TypeCorrect`,
`StatusAlwaysMatches` and `KeysAreUnique` follow. `BrokerCopies` is the strengthening: the broker's
filled quantities are 0, and its requests equal the order manager's but for orders whose key is in
`lostKeys`, as the order manager's equal the broker's but for disputed and refused orders. Without
it nothing is known of what a replace or cancel stores. The step has one lemma per action.

`TerminalOrdersStay` (the action property `TerminalOrdersAreFrozen`) needs one more invariant,
`RejectedOrders`: the order under the identifier of a refused request has the key the identifier
is made of, which is consumed, hence a fresh key never overwrites one. `StoresAgree` adds
`CanceledTogether`: both stores have the same orders canceled, and the broker has no unknown order,
always but for disputed ones. `KeysAreSubmittedOnce` follows from unique keys and agreeing stores.

`PositionsAreFills` and `NoRequestOverfilled` are about sums over everything booked. The first is
inductive with `BookingsAreNew` (a booking's fill has been seen, so that a fill not seen adds a new
element to the sum). The second is not: what a request has booked is bounded only through the order
that carries it. `LiveOrdersCover` says so: of an order that works, the filled quantity is at least
what was booked under its present request, and no two such orders share a key. A replace starts over
with a fresh key, hence with nothing booked; a fill adds the same to both sides; and nothing more is
booked under a request that no working order carries.

**Life cycle** (same module). `Refinement` proves that `OrderManager` implements `OrderLifecycle`:
one lemma per action shows a step of the abstract specification or a stutter. `IInv` and
`RejectedOrders` carry it: an identifier new to the broker is new to the order manager; a replaced
order wants all of its new quantity because the broker's copy is unfilled; and an order is terminal
exactly when nothing of it is left or nobody wants it any more.

**Composition** (`TradingSystemProofs`, second part). `OrderPathIsOrderManager` shows that every
step of the composition is a step of the order manager or leaves it alone, so that everything proved
of it carries over. It rests on `CallsAreApproved`: at most one request is in flight, and what the
risk manager checked of it (kill switch, loss, position) still holds when the broker receives it,
because only the clock has moved. `KillSwitchStops` and `LossStopsRequests` follow from it.
`RateInvariance` proves `RateInv`: types, no window, receipt or late minute in the time to come, and
the two properties. Its core is that while a request is in flight no minute after its window has
received anything: the next request is decided only after this one has arrived, in the minute it
arrived in or later, hence a minute receives at most one late request. `WindowCountsSentOrders`
counts the request in flight, which makes it inductive: a receipt in the window's own minute moves
the request from one term to the other. `RateIsLimited` and `WindowCounts` follow.
`SingleOrderIsLimited` needs `Headroom`: as long as the broker has one order, the position is within
the limit *and would be if what the order still wants were filled at once*. A partial fill then
moves between two points within the limit; a replace is checked against the position as booked and,
because it forgets what was filled, wants all of its quantity again. Between check and receipt the
position cannot move (`ReceiveHeadroom`).

**Production risk engine** (`ProductionRiskProofs`). `TypeCorrect` and `KeysAreApprovedOnce`:
every approved entry of the audit log has its key among the keys seen, so an approval, which finds
its key unseen, adds the first. `AuditShowsRate` rests on `AInv`: the window is the minute of the
last decision (`WindowIsLast`), so a decision either extends the last stretch of the log, which the
counter counts (`StretchesAreLimited`), or begins a new one with an empty counter. What a minute
approved is bounded by the limit times its stretches, less what is left of the running one
(`MinutesAreLimited`): without that reserve the bound would not survive the next approval.

**Strategies** (`StrategyDeskProofs`). The invariant is `DeskInv == TypeOK /\ WindowsAreLatest /\
PositionsWithinSignals /\ CallsStayBounded`. `WindowsAreLatest` relates each strategy's window to
the history of its instrument: it is the latest part of it, of the length the strategy keeps. From
that `SignalsFollow` and `BreakoutsCompare` are facts about a single step. `PositionsStayWithin` is
inductive because it bounds the targets handed off as it does the positions: any of them may be
executed at any later time. `CallsSoldAreBounded` is about positions only; `CallsStayBounded` bounds
the targets, too, for an instrument without a price of its own, by what the triggers so far found
(`SoldCallsAreBounded`). `TypeCorrect` includes that no strength exceeds 1 and that no division is
by zero.

**Backtest** (`BacktestProofs`). All theorems rest on `BookInv`: the types, with every fraction in
lowest terms; the timeline in order (`TimelineInv`), so that an index says which bar is later; and
`Contracted`: a position has its contract attached exactly if it was ever traded as an option. What
a bar does is put together from what one trade does (`TradeFacts`) by `ExecutionHolds` and
`ExecutionKeeps`, and from what an expiration (`ExpiryFacts`) and a snapshot (`SnapshotFacts`) do. A
bar that raises is its executions alone (`BarRaised`), so each invariant is kept by them with
neither of the other two.

- `NextOpen` rests on `NextOpenInv`: since a pending target was queued no trading bar of its symbol
  has come, and every fill is on the first one after its signal.
- `MoneyIsKept` rests on `MoneyInv`. The identity is about snapshots, taken at market prices; what
  the steps preserve is `Balanced`, the same *at cost*: cash plus the cost of what is held is
  initial cash less costs paid plus realized profit plus results of expirations. One trade keeps it
  because the cost of a position grows by what the fill is worth and what it realizes
  (`BlendedCost`, `ClosedCost`, through zero included); an expiration because what is paid is
  cost and result of what expires (`PaidIsGained`). A snapshot turns cost into value if everything
  held has a mark, hence `HeldHaveBars`.
- `AttributionsAddUp` has two sums change by one profit; `ExpiredAreClosed` and
  `LastTargetIsReached` are about one bar.
- `BothBooksAgree` and `AverageIsOfLots` have one invariant, `Related`: of every stock the account's
  position, the live book's and the lots counted from the fills are `Alike`. That the average lies
  between the lots' prices is kept because a blended average lies between the old average and the
  new price (`BlendedIsBetween`), and a fill through zero starts over in account and lots alike.

**Market data** (`MarketDataProofs`). The invariant `MInv` has `TypeOK`, the properties and what
keeps them: a cached answer can age by what is left of its time to live (`CachedIsFresh`) and is no
older than what was served last (`CachedIsServed`); a call that waits has begun no earlier than that
answer's (`CallIsLater`); a thread is given up only for one of the attempts left (`ThreadsFit`); and
the time since the call is within what its attempts so far may have taken (`ElapsedIsSpent`), which
at the last attempt is `LongestWait`. `AnswersStayFresh`, `AnswersGoForward` and `ReturnsBounded`
follow, for any number of attempts and abandoned threads.

**Scheduler** (`TaskSchedulerProofs`). What is left until a task's next run and its age are two
views of one time (`DueFollowsAge`): they add up to the interval, unless one has reached its bound.
`TodoIsDue` says that what the tick is to run was due when it read the clock, even if the tick has
been running for long, hence `NoBursts`; `WaitsAreBounded` bounds the age in each phase: before the
tick, in its queue, behind it. Nothing is said of the time after an exception (`ended`), except that
what was left undone stays due. `OwedAreDue` and `TasksRunInTime` follow.

**Migrations** (`MigrationRunnerProofs`). `Invariance` proves the conjunction of `TypeOK`, the
listed properties, `WorkIsListed` (a job works on what it listed), `ExecutedIsApplied` (the file
whose version is about to be recorded is applied) and `ReportsAreVersions` (the reports are a count
of the recorded versions; with the primary key they are at most one). `TypeCorrect`,
`VersionsAreApplied`, `JobsStopAtFailures` and `ReportsAreUnique` follow.

**Only model checked**: the liveness properties (`EveryCallEnds`, `EveryTaskRuns`,
`RerunnableFilesAreRecorded`): fairness and ENABLED are out of the prover's reach. So are the
theorems of the library that take an operator as a parameter, which is why the inductions above are
stated with sets, and what the community modules define with RECURSIVE or an operator parameter
that the prover cannot expand: no module declares a RECURSIVE operator, and the models fold where
they could filter or map. The inductive invariants of the backtest hold in TLC's run of section 3, too.

## 6. What is abstracted and what is left out

- *Data.* Prices, order types and reject reasons play no part in the order manager. Money is in
  integer units; averages, strengths, volatilities' means and drawdowns are exact fractions where
  the code has floats, so rounding is not modelled. Slippage is linear in basis points, as the
  default model; prices are such that it is a whole number. Symbols are resolved; bars of one
  symbol have distinct times. Time zones are fixed offsets from UTC, without daylight saving.
- *Backtest.* Strategies are the environment (`StrategyDesk` has the real ones). The option chain
  and the context handed to them are not part of the state. `LatestMarks` takes the latest bar that
  is due, the code the last one of each input list (`backtest/engine.py:170`): the same if the
  lists are in order of time, which the model assumes.
- *Strategies.* A live consumer of targets is not in the repository; the model of one is the least
  that the targets' meaning implies, and is marked external.
- *Broker.* A broker other than the in-memory one may move a replaced order to a new identifier
  (the order manager provides for it) and may raise after or before it acted. What calls that raise
  have the broker take is bounded by `MaxLostReplies` keys.
- *Clocks.* The wall clocks of the risk manager and the cache are monotone; one that is set back
  can reopen a minute or keep an answer alive. The production risk engine, which is passed its
  times, is checked for any order of them. Timers fire on time.
- *Order path.* One thread: while a call of the broker waits only the clock moves, so the kill switch
  is set and losses are reported between calls. Two threads on one order manager, which has no
  locks, are not modelled.
- *Scheduler.* A script started again after an exception starts from `Init`, with all tasks due.
  `tick(now)` with a time of the caller's choosing is a test hook and left out. Tasks register no
  tasks.
- *Migrations.* A file's SQL is one of four kinds; SQLite's lock errors are among the raises `Ends`
  stands for.

Not modelled, and why:

- `backtest/performance.py`: statistics computed once, in floating point, from a finished curve.
- `adapters/market_data/in_memory.py`, `market_data/symbols.py`: lookups in dictionaries and the
  rewriting of symbols; the provider is the environment of `MarketData`.
- `ops/health.py`, `ops/monitoring.py`, `ops/alerting.py`: functions of their arguments, additions to
  a dictionary, one line of logging; no step depends on an earlier one.
- `config/settings.py`, `core/logging.py`, `main.py`: parsing, formatting, start-up.
- `seed_positions`, `list_positions`, `is_regular_session_open`: nothing outside the tests calls them,
  or what they return is never fed.
- `src/pydantic*`: stand-ins for libraries. What they validate is in the sets the inputs are taken
  from: quantities and prices are positive where a field says so.

## 7. Plan

Done, the most important behaviour first: the order manager with its abstract specification, the
proof that it implements it, and calls that raise after the broker acted; risk manager and the
composition; production risk engine with times in any order; the backtest with calendar, snapshots,
attribution and both books; the strategy engine with all four examples; market data, scheduler and
migrations. All of them proved.

Next:

1. *Proofs*: shorter ones where a leaf needs more than the default time; for the violations of
   section 4, what does hold, as theorems: the live average as long as no fill went through zero.
2. *Trading system*: two instruments and live position averages in the composition; a position
   limit for several working orders, if the code is to promise one.
3. *Strategies in the backtest*: the four examples as the strategies of `Backtest`, where the
   consumer is real, with option chains in the context.
4. *Clocks set back*: the minute window and the cache under a wall clock that is not monotone.
