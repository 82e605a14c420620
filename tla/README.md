# Verification of the trading bot

TLA+ models, model-checking configurations and machine-checked proofs for the
Binance USD-M futures bot in `src/`. Everything here is translated from the
source; the line numbers of every definition are in `PROJECT.json` (`map`).

## 1. The system

| component | state it keeps | operations | who calls it |
|---|---|---|---|
| polling runner (`run_testnet.py`) | none between cycles | `run_once`, `run_forever`, `_manage_breakeven`, `_finish` | a supervisor starts the process; one poll per interval |
| order executor (`execution/order_executor.py`) | none | `execute_entry`, `execute_exit`, `move_stop_to_breakeven`, `_handle_unprotected_position` | the runner |
| reconciler (`positions/reconciliation.py`) | none | `reconcile`, `_resolve_external_close` | the runner, and the executor before every operation |
| position manager (`positions/manager.py`) | none | `can_open_position`, sizing, stop prices | the executor |
| trade ledger (`database/trade_service.py`, `models.py`) | table `trades` | create, execution, stop, close, failed, `get_active_trade` | executor, reconciler, manager |
| run state (`database/state_service.py`) | tables `processed_cycles`, `runtime_state` | `record_cycle`, `is_cycle_processed`, `get_value`, `set_value` | runner, kill switch |
| kill switch (`execution/safety.py`) | a flag in memory and in `runtime_state` | `activate`, `active`, `reset` | executor, operator |
| exchange adapter (`exchange/binance_client.py`) | a cache of symbol rules | `create_order`, `cancel_order`, reads with retries | all of the above |
| process lock (`execution/process_lock.py`) | a lock file | `single_runner_lock` | `main` |
| AI decisions (`ai_decision/`) | decisions, pending calls, runs and their budget in SQLite | review, authorise, reconcile usage | Strategy 2 collector and backtest |
| Strategy 2 (`strategies/strategy_2/`) | phase, setup, candidate, the candles already seen, position and bars of the moment | `evaluate`, `resolve_candidate`, `mark_entry`, `management_payload`, `reset` | backtest, census |
| Strategy 2 backtest, census, collector (`backtest/strategy_2_*`) | open position, trades, candidates found | an event loop over the closes of the hourly candles | command line |
| multi-timeframe data (`exchange/multi_timeframe.py`) | one candle table per timeframe | normalisation, `view_at`, `event_times` | Strategy 2 and its backtest |
| candle download (`exchange/market_data.py`) | none | `get_candles` in pages | runner, research, snapshots |
| frozen market data (`data/frozen_market_data.py`) | a CSV and a JSON file per snapshot, a manifest per bundle | `save`, `load`, `save_bundle`, `load_bundle` | command line |
| Strategy 1 and indicators (`strategies/`) | none | candles to Heikin-Ashi, SQZMOM, colours, signals | runner, signal backtest |
| signal backtest and statistics (`backtest/engine.py`, `statistics.py`) | none | `run_signal_analysis`, overall and monthly statistics | command line |
| research scripts, logging, configuration | none | reports and parsing | command line |

Everything a live trade depends on is shared through three places that can
disagree: the account at Binance (position, stop orders, fills), the SQLite
database (`trades`, `processed_cycles`, `runtime_state`) and the memory of the
runner process. Each exchange call and each commit is a separate step; any of
them can fail with an exception that ends the cycle, and the process can die
between any two. The position can disappear at any moment, because a stop
fires, somebody closes it by hand or it is liquidated.

What is hard, and what correct means, by component:

* **Executor**: a lost reply to an order; a fill whose stop cannot be placed
  or saved; a stop that is replaced while it may fire; an order whose record
  was closed first. Correct: one trade at a time, exposure only from the order
  of the newest record, an open position guarded or the runner latched, no
  stop that survives into a later trade.
* **Reconciler**: reads position, orders, ledger and history one after the
  other, from a history of limited length. Correct: a close reason agrees with
  what became of the recorded stop, and a vanished position is noticed.
* **Kill switch and processed cycles**: written in commits of their own.
  Correct: a stored latch or a stored candle is respected by every later
  process.
* **AI decisions**: a paid external call that may have been made although its
  reply never came; budgets shared by runs. Correct: no review bought twice,
  spending within the limit.
* **Position sizing**: fractions are rounded to steps and ticks, and the stop
  is computed again from a fill at another price. Correct: risk and notional
  within their limits, the stop on the losing side, tightened only.
* **Strategy 2, its backtest and the census**: three timeframes close at
  different moments, a setup waits for hours or days, and `reset` forgets which
  candles were seen. Correct: no decision uses what was not known at its time,
  a setup is traded and listed once, trades neither overlap nor precede their
  decisions.
* **Candle download**: time passes between the pages of one download. Correct:
  no candle missing, none twice, none still open.
* **Frozen market data**: two files per snapshot, a manifest that composes
  several snapshots, a crash between any two writes. Correct: a bundle that
  parses is whole and always loads the same candles.
* **Signal backtest**: reads the whole history at once. Correct: its signals
  are those the live program emitted, its trades are final and tile the
  history, its statistics count the same trades.

`PROJECT.json` lists every hazard with its source line and the properties that
would catch it, and every component with what is and is not modelled.

## 2. Modules

```
TradeService        the ledger and its transactions
  |- FuturesExchange    the account, and what create_order / cancel_order report
  |    '- PositionReconciler   reconcile, in its two visible steps
  |- RuntimeSafety      kill switch and processed cycles
  '----- OrderExecutor  (extends the two) entry, exit, breakeven, emergency close
            '- PollingRunner   run_once, failures, crashes, environment, properties
                 |- MCPollingRunner          configurations *.cfg
                 |- PollingRunnerProofs      ledger lemmas, inductive invariant, refinement
                 |    '- PollingRunnerGuards       stop orders, close reasons, candles
                 '- (INSTANCE) OneTradeAtATime     the abstract promise

AIDecisions         review service, store, budget, runs and their two callers
  |- MCAIDecisions            symmetry of interchangeable collections
  '- AIDecisionsProofs        budget, report and repeated-purchase theorems

MultiTimeframe      frames, views, event times
  '- Strategy2          the setup / candidate / position machine
       '- Strategy2Backtest    backtest and census over one market
            '- Strategy2BacktestProofs

Indicators          Heikin-Ashi, SQZMOM, colours, signals
  '- SignalBacktest     live signals next to the backtest and its statistics
       '- SignalBacktestProofs
PositionSizing      plan, fill, breakeven move of one position
  '- PositionSizingProofs
CandleDownload      get_candles and its clock
  '- CandleDownloadProofs
SnapshotStore       save, save_bundle, load_bundle on files
  |- SnapshotStoreProofs
  |- (INSTANCE) FrozenStore    the abstract promise
  '- OfflinePrograms (extends the four) - MCOfflinePrograms   offline_programs.cfg
```

**TradeService.** `trades[t]` is row `t`; status `NONE` means the row does not
exist yet. Every operator is one committed transaction. `ActiveTrade` is
`get_active_trade` (newest PENDING or OPEN row). Prices are abstracted to two
bits: whether the average entry price is a multiple of the tick (`onTick`) and
whether the current stop is the breakeven stop (`moved`); together they decide
`already_moved` in `_manage_breakeven`. Quantities are counted in steps.

**FuturesExchange** is the external account. An exchange call is one action:
its effect on the account together with what the adapter reports. The report
abstracts `create_order` followed by `_confirmed_fill`: `filled`, `rejected`
(only when nothing executed, because only a definite API error that is neither
a rate limit nor a server error becomes `BinanceOrderRejectedError`),
`unknown` (the lookup after a timeout failed too) and `raised` (rate limit, or
no confirmation of the fill). A stop order or a cancellation may land although
its caller sees an error. `Account` is what happens by itself: a stop
triggers, the position is closed outside, the operator removes an orphan stop.
`finished` holds the stops that the order history lists as FILLED, FINISHED or
TRIGGERED. A stop that triggers on an open position is among them; one that
triggers with nothing to reduce may be (a conditional order stays TRIGGERED) or
may not (it EXPIRED). `Listings` says whether `get_recent_orders` still returns a
stop: it is certain to while fewer than `HistoryLimit` stop orders were sent
after it.

**PositionReconciler.** `ReadPositions` takes the position; `ReconcileDecide`
reads orders, ledger and history and decides, so everything the account does
in between is an interleaving. `returnTo` is the caller (runner, entry, exit,
breakeven). `ExternalCloseReason` is `_resolve_external_close`: the recorded stop
is listed as finished, and there is some fill on the closing side, of any order.

**RuntimeSafety.** `activate` is two steps (memory, then commit); `killStored`
is the flag in `runtime_state`, `killActive` the memory of the process.
`RecordCycle` needs the candle to be new (unique constraint).

**OrderExecutor / PollingRunner.** `pc` names the call about to be made:
`en.*` is `execute_entry`, `ex.*` `execute_exit`, `be.*`
`move_stop_to_breakeven`, `ks.*` `_handle_unprotected_position`, `rec.*`
`reconcile`, the rest `run_once`. `cycle`, `trade`, `fill`, `oldStop` are the
Python locals. `Abort` is an exception that reaches `run_forever`; `Crash`
forgets all locals and the in-memory latch, `Start` is `build_runner`.

**OneTradeAtATime** states what the core promises, over records, exposure and
one order in flight only: a record precedes its order, both need a flat
account and no active record, exposure arises only from that one order in its
direction and otherwise only shrinks, and FAILED is recorded only on a flat
account. The refinement mapping is `RecordView`, `position`, `InFlight`.

**AIDecisions** is a system of its own: it shares nothing with the live
trading core. `cache`, `pending` and the run rows (`status`, `liveCalls`,
`estimated`) are the tables of the SQLite store; `pc[r]` names the next
database or provider call of the program that works on run `r`, and `at`,
`attempt`, `position`, `answer`, `usage` are its locals. `Start`, `Drive` and
`EndRun` are `AIRunManager` and the two callers: the collector asks for ENTRY
reviews only and skips a request in doubt; the full backtest alternates between
ENTRY and EXIT reviews, ends with FAILED without an ENTRY decision and keeps its
position without an EXIT decision. `Review` is `_review`, with `mark_pending`
in the two steps (SELECT, upsert) between which SQLite holds no lock.
`Provider` is what becomes of a call, as `client.py` passes it on: untranslated.
`Lost` has two outcomes: the error is one that `_review` knows to leave the
answer open (the built-in `TimeoutError` and `ConnectionError`, as the clients of
the tests raise them), or it is the SDK's own, which has neither class nor status
and ends as any other error. `doubt` (requests cut off or lost in the first way),
`dropped` (lost in the second), `sent` and `billed` record what only the provider
knows. `Interrupt` is Ctrl-C, which still writes INTERRUPTED,
`Crash` writes nothing. Costs are counted in units, `Reserve` being the cost of
a call at its token ceilings.

**MultiTimeframe, Strategy2.** A frame is the set of its candles, `Visible`
what `view_at` returns. A Strategy 2 instance is a record, every method an
operator from a state and a view to a state; time 0 stands for `None`. `Reset`
forgets everything, the candles already seen included, because the code does.
One field is not in the code: `trendTime` records which daily candle the trend
was last read from, and a candidate carries the daily candle of its context, so
that properties can speak of the daily frame too.

**Strategy2Backtest.** One step is one event (`event_times`): the census
evaluates its instance, the backtest evaluates its own, asks for a review and
carries the decision out at the next candle's open. The outcomes of reviews are
arbitrary; `AIDecisions` says how they come about. `reviews` and `found` record
what was asked and what the census lists. Both programs end (`RAISED`) when the
setup candle of a candidate is not in the view (`strategy.py:70`).

**Indicators, SignalBacktest.** From candles to signals in exact integer
arithmetic (prices are scaled by `Unit`, which the longest table fixes, so that
every Heikin-Ashi mean is an integer). The loops over rows and signals are
recursive functions of the row, which return what the loop has at its end; the
cost configuration is a parameter (`rates`) of everything that charges it. One step closes one candle: `live` gets the signal that the prepared table of
that moment ends with, `report` is the whole backtest run again.

**PositionSizing** is one position from plan to breakeven: `Plan` is
`execute_entry` up to the order, `Fill` the stop computed from the fill, `Poll` one
`_manage_breakeven`. `calculate_initial_stop` checks that the stop is positive and
rounds it afterwards; what it returns may be 0. A plan with stop 0 is refused by
`create_trade_record` (`Recordable`) before any order; after a fill, no stop may
be computable (`UNGUARDED`, the code raises), or it is rounded to 0 and the
exchange refuses the order (`REFUSED`). `Poll` takes the price that
`_manage_breakeven` read as the one of the decision; the reconciliation between
that read and the placement is in `OrderExecutor`. Rates are fractions.

**CandleDownload.** `Fetch` is one turn of the loop and `Filter` what follows
it; `TimePasses` happens between any two. A fetched candle remembers whether it
had closed when it was fetched: only then are its prices final.

**SnapshotStore.** Opening a file truncates it, the content arrives in a later
step, and both programs may die in between. A torn JSON file does not parse; a
torn CSV is read as a shorter table. `saver` and `bundler` are the locals of
the save and of the bundle operation under way.

**FrozenStore** is the same without files: a snapshot appears whole, a bundle is
composed at once of one snapshot per timeframe, a load returns these. The
mapping takes a snapshot to exist from the moment its CSV is complete, although
its metadata are still missing, and the bundle from the moment its manifest is.

**OfflinePrograms** puts the last four side by side. They share no state; a
behaviour is one of them.

### Abstractions and assumptions

* Live trading: `dry_run` is false, `can_send_orders()` is true, one-way mode.
* The lock holds: one runner process, and it is the only writer of the
  database except for the operator's `reset`.
* People may close the position or remove orphan stops when the account is
  flat; they open no positions and remove no stop that protects one.
* An entry order whose reply is lost has executed, or never will, by the end
  of the call. A stop with nothing to reduce ends without a fill.
* The newest 100 account fills contain those of the close that reconcile looks
  for, and the clocks of the machine and the exchange agree
  (`reconciliation.py:112`). Fills of a later entry on the closing side are not
  credited: the earlier row is closed by then.
* `mark_reconciled` only sets timestamps and is left out. A commit either
  happens or raises; a read that fails right after a successful commit looks
  like a crash at the next step and is covered by the crash runs.
* The signal of a candle is arbitrary, so Strategy 1 and its indicators are
  not needed here; `INVALID_ATR`, `NO_SIGNAL` and `HOLD_POSITION` are the one
  action `NothingToDo`.
* AI runs: one process per run id, no call dearer than its reserve (input
  counted by bytes, output limited by `max_output_tokens`). Audit rows and
  counters that nothing reads are left out; a run id keeps its configuration (another one is refused before
  anything is written). An answer that cannot be saved is `Unusable`.
* Strategy 2: of a candle the colour (1h, 4h) and the trend (1d) are kept.
  Candles are chosen when they open, colour at the close included, so the
  market always holds candles that no view may show; frames have no gaps, as
  `validate_candle_integrity` reports them. Prices, costs and percentages of a
  trade, the numbers in a review's context and `technical_invalidation`, which
  returns `None`, are left out.
* The live signal table of `SignalBacktest` starts at the first candle, whereas
  the runner loads the last 200; the first value of the Heikin-Ashi recursion
  is halved with every candle, and this difference is not modelled.
* Bands, squeeze state, ATR, DMI and the confidence score decide no signal and
  are left out of `Indicators`; averages, drawdown, Sharpe ratio and the
  printed reports are left out of the statistics.
* One program saves snapshots while another composes and loads one bundle. No
  caller passes `overwrite`, so it is false. `CheckMetadata` refuses any timeframe
  but an equal one; the code lets metadata that declare none pass
  (`frozen_market_data.py:78`), but the only caller of `save`
  (`backtest/run.py:106`) always declares symbol and timeframe.

## 3. Runs

| run | bounds | shows |
|---|---|---|
| `trading_faults` | 2 rows, quantity 1, 2 stops, a history of 1 stop order, 2 candles, crashes and failing commits | `TypeOK`, `AtMostOneActive`, `NoStopOutlivesItsTrade`, `CloseReasonFits`, `KilledStaysOut`, `ProcessedCandleIsDone` |
| `trading_network` | 2 rows, quantity 2, 3 stops, 2 candles, exchange errors only | `RecordedStopGuards`, `OneEntryPerCandle`, refinement `KeepsOneTradeAtATime` |
| `trading_live` | 1 row, quantity 1, 2 stops, 2 candles, crashes, fairness | `ExternalCloseNoticed` |
| `pending_forever` | 1 row, no faults, fairness | violates `PendingResolved` |
| `candle_twice` | 2 rows, crashes | violates `OneEntryPerCandle` |
| `latch_lost` | 1 row, crashes | violates `LatchSurvivesRestart` |
| `ai_one_program` | 2 live collections, 1 replayed backtest, 2 ENTRY reviews, 2 calls of 1 cost unit per run, 2 attempts, one program at a time | `TypeOK`, `ReportAgreesWithStore`, `NoPurchaseAfterCut` |
| `ai_two_programs` | a live collection and a live backtest together, 1 ENTRY and 1 EXIT review, 2 calls of at most 2 units and 3 units per run, fairness | `SpendWithinBudget`, `RunsEnd` |
| `ai_timeout_repeats` | 2 live collections, one at a time, 1 review | violates `NoRepeatedPurchase` |
| `strategy2_backtest` | 19 hours, a setup candle of 4 and a day of 8 hours, hourly frame from hour 8, red colours, daily trend LONG or none, expiration none or 2 | `TypeOK`, `DecisionsUseClosedCandles`, `ContextReconstructible`, `TradesInOrder`, `SetupTradedOnce`, `BarsCountClosedCandles`, `ExpiryRespected`, `CensusOnePerSetup` |
| `offline_programs` | signals: 12 candles of 2 shapes, window 3, with and without costs | `HistoryAgreesWithLive`, `TradesTile`, `CostsOnlyHurt`, `StatisticsReconcile`, `ClosedTradesAreFinal` |
| | sizing: prices 6 to 17, three ATRs, tick 3, step 2, least notional 20, two equities | `PlanWithinLimits`, `FilledRiskWithinATick`, `StopOnLosingSide`, `UnguardedOnlyBySlippage`, `StopOnlyTightens` |
| | download: candles of length 3, clock up to 22, 2 per request, 1 to 5 asked for | `PagesComplete` |
| | snapshots: 2 names, 2 timeframes, 2 versions | `BundleIsWhole`, `LoadsAreReproducible`, `SnapshotsAreFrozen`, refinement `KeepsFrozenStore` |
| `partial_candle` | the download alone, same bounds | violates `OnlyFinalCandles` |

Why these bounds are enough for the interesting cases: two rows are needed for
an old stop or an old record to meet a later trade; quantity 2 for a partial
fill of entry, exit and emergency close; two stops for the breakeven
replacement and three for a replacement that is repeated; a history of one stop
order (the code asks for 100) for a recorded stop that newer ones push out of it;
two candles for an
opposite signal and for a poll of the same and of the next candle. In
`trading_faults` the first trade is LONG (`FirstTradeIsLong`, a CONSTRAINT): the
model tells the sides apart by their names only, so its mirror images need not
be searched; the other trading runs take both sides. At a bound
the model behaves like the program at a refusal: without a free row sizing
raises, without a stop id the order is refused. The theorems below need no
bounds. Two calls per run are enough for a retry, for a second review and for a
budget that ends in either; in `ai_two_programs` three cost units let a second
call in only after the first one's usage was reconciled; a second run is where a repeated purchase
happens, after a resume of the first. Deadlock is checked in the trading runs;
the AI runs may all complete, and then nothing is left to do; the backtest and
the offline programs end as well.

In `strategy2_backtest` a setup can wait past the close of two further setup
candles, three reviews can be asked for, and a second position can be opened
after a completed trade; with the expiration of 2 a setup is confirmed with one
setup candle closed after it, or expires. The hourly frame begins at the first
possible setup, so evaluations without enough candles happen. A setup candle
lasts four hours, as in the code, because a setup can be confirmed twice before
the next one closes only if it lasts that long. Two whole days and the day under
way differ freely in their trend, LONG or none. Without the trend SHORT only the
colours dark red and light red matter; SHORT is the mirror image in the code. In
`offline_programs` twelve candles give two completed trades and a third that is
open, won, lost and breakeven, in two months; tick, step and prices are chosen
so that stops and breakeven prices fall between ticks, a stop may not exist at
all or be rounded to 0, for a plan as well as for a fill; five candles of two
per page make three pages with the clock running in between; two names are
needed for a save beside a bundle.

The five violations are disagreements between the code and what it or its
documents say:

* `pending_forever`: `order_executor.py:132` expects reconciliation to resolve
  an uncertain submission; `reconcile` never changes a PENDING row.
* `candle_twice`: `PHASE_4_REPORT.md:8` promises persistent deduplication of
  every candle; the candle is recorded after the order, so a crash in between
  followed by a stop-out trades it again. (`OneEntryPerCandle` holds without
  crashes.)
* `latch_lost`: `DECISIONS.md:84` says the kill switch survives restarts; a
  crash between the flag in memory and its commit loses it.
* `ai_timeout_repeats`: `DECISIONS.md:179` says that a timeout leaves UNKNOWN and
  blocks automatic repetition. The timeouts of the SDK are no built-in
  `TimeoutError`, so the row becomes FAILED and the next collection buys the
  review again.
* `partial_candle`: `DECISIONS.md:21` says that downloads drop the candle that
  has not closed; `get_candles` compares close times with the clock after the
  last page (`market_data.py:98`), so a candle that was still open when it was
  fetched and closes before that is kept with the prices of the moment.

The models contain four more behaviours that a document or a comment speaks
against and that the properties are worded to allow:

* A position closed by hand whose stop triggers on nothing before the next
  reconcile is booked as STOP_LOSS, because the fills are not related to the stop
  (`reconciliation.py:94`); `DECISIONS.md:73` asks for proof by history and fills.
  `CloseReasonFits` says what does hold: the stop of such a row has triggered, and
  a filled stop is never missed while the history lists it.
* `manager.py:107` asks for a positive stop, but the check precedes the rounding:
  a LONG stop below one tick becomes 0. `create_trade_record` refuses such a plan
  (`trade_service.py:47`), so it takes a fill below the expected price to end with
  it (`UnguardedOnlyBySlippage`).
* A live full backtest that is resumed and finds its budget spent marks a request
  in doubt FAILED (`service.py:142`), and the next run sends it again. The
  collector is safe from this, because it looks at the request first
  (`ai_one_program`, and theorem `CutRequestsAreNotRepeated`, whose hypothesis
  says so).
* Two live programs at the same time may both send a review; the second answer is
  reported, the first one stays cached. `ReportAgreesWithStore` is about one
  program at a time.

**Fairness** (`LiveSpec`). `run_forever` catches every exception and polls
again and every call has timeouts, so the process keeps taking steps, and a
supervisor restarts it: weak fairness of `Process`. Errors and crashes may
repeat forever, but not at every single first reconciliation: strong fairness
of `Poll`, `ReadPositions` and `ReconcileDecide`. Nothing is assumed of the
market, of triggers, of the operator or of later calls. In `AIDecisions`
(`FairSpec`) weak fairness of `Work(r)`: the client and SQLite have timeouts,
so a running program takes its next step; nobody has to start one, and crashes
and Ctrl-C are never required.

## 4. Proofs

All theorems are for every value of the constants. For the trading core
(every number of rows, stops and candles, every quantity and every set of
faults) the only assumptions are `BoundsAssumption` (the
bounds are naturals, quantity and candles positive), `HistoryAssumption` (the
history lists at least one order) and `FaultsAssumption`.

* `PollingRunnerProofs` begins with the ledger: each of its operations preserves
  `LedgerInv` (rows are created in order, an active row is the newest, an OPEN
  row has a quantity) and changes one row only; `ActiveTrade` is that active
  row. Then the inductive invariant `IInv` and one lemma per
  action. `AtMostOneActive` alone is not inductive: `EntryCreate` trusts checks
  made several steps earlier. `ControlAccount` carries them over the window
  (from `can_open_position` to the order the account stays flat and without
  stops, because nobody else opens positions and this process places no
  stops), `ControlRow` says what status the row in hand has at each `pc`,
  `ControlCycle` that an entry under way has an unprocessed candle and an
  unlatched process, `LatchLoaded` that a running process knows the stored
  latch. Theorems: `InvariantHolds`, `TypeCorrect`, `OneActiveTrade`,
  `StopsEndWithTheirTrade`. Last, the refinement: every step is a step of `OneTradeAtATime` or a
  stutter (`ImplementsOneTradeAtATime`); hence only `EntryCreate` creates
  rows, which gives `LatchedMeansNoEntry` and `ProcessedCandleNeverTrades`.

* `AIDecisionsProofs` assumes only what the module states of its constants.
  `NeverOverspent` rests on `LedgerInv`: what is billed plus what the call in
  hand may still cost (`Outstanding`: the reserve until the answer, then what
  the answer left of it) is within `estimated`, and calls sent plus a call
  about to be sent within `liveCalls`. `CutRequestsAreNotRepeated` has the
  hypothesis `OneCollectorAtATime` (one program, live runs are collections) and
  rests on `DoubtInv`: a key in doubt is undecided and PENDING or UNKNOWN, a
  program that is about to ask has a key that is neither cached nor in doubt,
  and no second program can change that under it. It says nothing of the errors
  of the SDK (`dropped`): for these the code does repeat the purchase.

* `PollingRunnerGuards`: what a stop id stands for, followed from the order that
  carries it to the row that records it and to its fill. `StopsInv` says that
  an id in a row belongs to that row and so does its fill (`Owned`), that an
  entry order meets no stop, and that a flat account stays flat while `reconcile` decides; with
  it a close reason fits what became of the recorded stop and goes on to fit,
  crashes included (`CloseReasonsFit`; `HistoryGivesReason` is the case of the
  close itself, for every `HistoryLimit`). `GuardInv` adds what protects an open row while the
  executor works on it (`OpenPositionsAreGuarded`: no process dies; failing
  commits are allowed, because the latch is set in memory before its commit).
  `CandleInv` says that an executed row's candle is recorded or about to be
  (`CandlesTradeOnce`: no crashes and no failing commits, and `candle_twice`
  shows that a crash does break it).
* `AIDecisionsProofs`, further: `TypesHold`, and `ReportsStayTrue` under the
  hypothesis of `CutRequestsAreNotRepeated`, with `ReportInv`: what a completed
  report counts as decided is cached, what it calls UNKNOWN is PENDING or
  UNKNOWN in the store and not what any program is about to ask for.
* `SnapshotStoreProofs`: `StoreInv` rests on `SavedInOrder`: metadata that parse
  say that the candles are complete, because they are written last, and
  complete candles are never written again. So what `save_bundle` has checked
  still holds when it writes the manifest, and at every load. Hence the
  refinement `ImplementsFrozenStore`: writing a CSV is `Freeze`, writing a
  manifest `Compose`, the end of a load `Load`, everything else (metadata,
  checks, torn files, crashes) a stutter. For any sets of names, timeframes and
  versions.
* `Strategy2BacktestProofs`: for every length of the candles and of the market,
  every market and every decision. The invariant has three parts, clock and
  frames, the backtest, the census; neither machine rests in `CANDIDATE`
  between events. That a frame has a last candle needs a least element of a
  set of naturals, taken from the well-foundedness of `<`. Look-ahead is excluded
  for all three frames: `DailyCandleClosed` and `TrendReadClosed` are the lemmas of
  the daily one. Theorems: `TypeCorrect`, `NoLookAhead`, `ContextAlwaysFound` (neither
  program raises), `OneCandidatePerSetup`.
  `OrderInv` is inductive relative to that invariant and says what the machine
  knows of its setup or position (the setup candle has been shown, the bars are
  the setup candles closed since the entry), that what is behind trades and
  reviews is behind the clock, and that every traded setup is older than any
  the machine may still take up. It is needed because `reset` forgets which
  candles were seen: nothing in the machine's own state says that a setup was
  traded, only the order of events does. Theorems: `TradesStayInOrder`,
  `SetupsTradedOnce`, `BarsCounted`, `ExpiryHolds`.
* `PositionSizingProofs`: for every price, tick, step, fraction and leverage.
  `SizingInv` keeps what plan and fill were computed from; the lemmas are about
  rounding (`RoundsDown`, `RoundsUp`: less than one step is lost or added) and
  about products that the solver does not regroup by itself.
  `UnguardedMeansSlippage` covers both ways to be without a stop: a LONG fill at the
  expected price or above has a stop no lower than the planned one
  (`HigherFillKeepsStop`), which the ledger took only if it was positive. Theorems:
  `PlansWithinLimits`, `SlippageCostsLessThanATick`, `StopsOnLosingSide`,
  `UnguardedMeansSlippage`, `StopsOnlyTighten`.
* `CandleDownloadProofs`: `PagesAreComplete` for every market, page size and
  clock. `DownloadInv` says that the pages hold exactly the candles that opened
  after the cursor and by the time of the first page, which fixes what the
  download is about; a page that is not full has reached the first candle. The
  assumption `FirstCandle > 1` says that the market begins after time 0, which
  stands for `None`.
* `SignalBacktestProofs`: for every window length, table, cost model and length
  of a month. `BacktestAssumption` says what the code checks or the market
  grants: prices are positive, open and close lie between low and high, rates
  are not negative (`engine.py:53`), and slippage is below 1: from there on the
  price of a sale is not positive and the code's percentages of it, by which the
  model compares, mean nothing. The invariant `SignalInv` says that the live signals are those of
  the rows of the whole table, and that the report is what the backtest makes
  of it. It is inductive because a candle more changes no earlier row
  (`HaOpenStays`, `HeikinAshiStays`, `SqzmomStays`, `ColorsStay`), and therefore
  adds at most the signal of its own row to the history (`HistoryGrows`), and
  at most the trade that this makes possible to the results (`RunGrows`). What
  holds after every turn of a loop (`Analysed`: trades tile, each is paid for,
  the open position continues them) is shown by the least turn at which it
  would fail (`Induction`, from the well-foundedness of `<`), because the
  library's induction rules take an operator the provers cannot instantiate.
  Theorems: `HistoryIsNotRepainted`, `TradesAlwaysTile`, `CostsNeverHelp`,
  `TradesAreFinal`, `StatisticsAlwaysReconcile`.

Every safety invariant and action property of the passing runs has a theorem.
Only model-checked are the liveness properties `ExternalCloseNoticed` and
`RunsEnd`, which are outside the prover's reach together with the fairness they
need. The offline components have no separate `TypeOK`: `SignalInv`, `SizingInv`,
`DownloadInv` and `StoreInv` carry their types.

## 5. Plan

Done: the live trading core, the AI review service, position sizing, Strategy 2
with its backtest and census, candle download, snapshots, indicators and the
signal backtest, and a theorem for every safety property of theirs. Left, in
this order:

1. An abstract specification of the review service and its refinement.
2. Two processes on one run id of the AI store.
3. Dry run and the process lock in the trading core.

Not modelled: research scripts and the preflight (offline reports without state
of their own), logging, prompts, configuration parsing, the process lock (one
`flock`, assumed held), dry run (it sends no order), averages, drawdown, Sharpe
ratio and printed reports.
