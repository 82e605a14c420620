---------------------------- MODULE SignalBacktest ----------------------------
(***************************************************************************)
(* The signal backtest (backtest/engine.py) and its statistics             *)
(* (backtest/statistics.py), next to the live signal of Strategy 1.  One   *)
(* step is one closed candle: the live program prepares the candles it has *)
(* and emits a signal, the backtest is run over the same candles.  Rates   *)
(* are integers over RateUnit and results are fractions over a common      *)
(* positive denominator, so the arithmetic is exact.                       *)
(***************************************************************************)
EXTENDS Indicators, FiniteSets

CONSTANTS
  Shapes,         \* candles that occur, as [open, high, low, close]
  RateUnit,       \* denominator of the rates
  CostModels,     \* configurations, as [commission, slippage, funding]
  CandleHours, FundingHours,
  MonthLength     \* candles per month

\* From a slippage of 1 on, the price of a sale is not positive and returns are
\* not defined; the code itself only refuses negative rates.
ASSUME BacktestAssumption ==
  /\ {RateUnit, CandleHours, FundingHours, MonthLength} \subseteq Nat \ {0}
  /\ Shapes \subseteq [open : Nat, high : Nat, low : Nat \ {0}, close : Nat]
  /\ \A c \in Shapes : {c.open, c.close} \subseteq c.low..c.high
  /\ CostModels \subseteq [commission : Nat, slippage : 0..(RateUnit - 1), funding : Nat]

VARIABLES
  costs,      \* the cost configuration
  candles,    \* the candles closed so far
  live,       \* the signals emitted live, one per candle
  report      \* what the backtest makes of these candles

signal_vars == <<costs, candles, live, report>>

NoPosition == [side |-> "NONE", signalAt |-> 0, entry |-> 0, entryReference |-> 0, entryPrice |-> 0]

(* An execution price, times RateUnit.                                     *)
\* Variant for the sensitivity check: slippage helps both ways.
SlippedInFavor(rates, reference, order) ==
  reference * (IF order = "BUY" THEN RateUnit - rates.slippage ELSE RateUnit + rates.slippage)

SlippedPrice(rates, reference, order) ==
  reference * (IF order = "BUY" THEN RateUnit + rates.slippage ELSE RateUnit - rates.slippage)

EntryOrder(side) == IF side = "LONG" THEN "BUY" ELSE "SELL"
ExitOrder(side) == IF side = "LONG" THEN "SELL" ELSE "BUY"
Gain(side, from, to) == IF side = "LONG" THEN to - from ELSE from - to

(* The position a signal opens, at the open of the candle after it.        *)
\* Variant for the sensitivity check: the signal's own candle is traded.
ExecutionSame(signal) == signal.at

Execution(signal) == signal.at + 1

Opened(rates, table, signal) ==
  [side |-> signal.side, signalAt |-> signal.at, entry |-> Execution(signal),
   entryReference |-> table[Execution(signal)].open,
   entryPrice |-> SlippedPrice(rates, table[Execution(signal)].open, EntryOrder(signal.side))]

(* The candles a trade lives through: from its entry, before its exit.     *)
\* Variant for the sensitivity check: up to the end of the table.
PathToEnd(table, position, exit) == {table[i] : i \in position.entry..Len(table)}

Path(table, position, exit) == {table[i] : i \in position.entry..(exit - 1)}

(* The completed trade when an opposite signal closes a position.  Net and *)
(* gross are relative to the entry: net to RateUnit * entryPrice, gross to *)
(* entryReference.                                                         *)
Completed(rates, table, position, signal) ==
  LET at == Execution(signal)
      reference == table[at].open
      exitPrice == SlippedPrice(rates, reference, ExitOrder(position.side))
      duration == at - position.entry
      fundingCycles == (duration * CandleHours) \div FundingHours
      net == RateUnit * Gain(position.side, position.entryPrice, exitPrice)
             - rates.commission * (position.entryPrice + exitPrice)
             - fundingCycles * rates.funding * position.entryPrice
      path == Path(table, position, at)
  IN [side |-> position.side, signalAt |-> position.signalAt,
      entry |-> position.entry, exitSignalAt |-> signal.at, exit |-> at,
      entryReference |-> position.entryReference, entryPrice |-> position.entryPrice,
      gross |-> Gain(position.side, position.entryReference, reference), net |-> net,
      highest |-> Greatest({c.high : c \in path}), lowest |-> Least({c.low : c \in path}),
      result |-> IF net > 0 THEN "WIN" ELSE IF net < 0 THEN "LOSS" ELSE "BREAKEVEN"]

(* One turn of the loop of run_signal_analysis.  A signal on the last      *)
(* candle has no candle to be executed on; one in the direction of the     *)
(* position is ignored; an opposite one closes and reverses.               *)
Turn(rates, table, state, signal) ==
  IF Execution(signal) > Len(table) \/ state.position.side = signal.side THEN state
  ELSE [position |-> Opened(rates, table, signal),
        results |-> IF state.position = NoPosition THEN state.results
                    ELSE Append(state.results, Completed(rates, table, state.position, signal))]

NoReport == [position |-> NoPosition, results |-> <<>>]

RunSignalAnalysis(rates, table, signals) ==
  LET state[n \in 0..Len(signals)] ==
        IF n = 0 THEN NoReport ELSE Turn(rates, table, state[n - 1], signals[n])
  IN state[Len(signals)]

ExecuteBacktest(rates, table) == RunSignalAnalysis(rates, table, HistoricalReversals(PrepareCandles(table)))

(* The statistics: overall, without the breakeven trades, and by month of  *)
(* the exit, with them.                                                    *)
Count(results, P(_)) == Cardinality({i \in DOMAIN results : P(results[i])})

WinsAndLosses(results) == {i \in DOMAIN results : results[i].result \in {"WIN", "LOSS"}}

SideStatistics(results, completed, side) ==
  [trades |-> Cardinality({i \in completed : results[i].side = side}),
   wins |-> Cardinality({i \in completed : results[i].side = side /\ results[i].result = "WIN"})]

BacktestStatistics(results) ==
  LET completed == WinsAndLosses(results)
  IN [total |-> Cardinality(completed),
      wins |-> Cardinality({i \in completed : results[i].result = "WIN"}),
      losses |-> Cardinality({i \in completed : results[i].result = "LOSS"}),
      long |-> SideStatistics(results, completed, "LONG"),
      short |-> SideStatistics(results, completed, "SHORT")]

\* Variant for the sensitivity check: a trade counts in the month of its entry
\* and in that of its exit.
MonthTouched(t, month) == month \in {t.entry \div MonthLength, t.exit \div MonthLength}

InMonth(t, month) == t.exit \div MonthLength = month

MonthlyStatistics(results) ==
  [month \in {t.exit \div MonthLength : t \in Range(results)} |->
     [trades |-> Count(results, LAMBDA t : InMonth(t, month)),
      wins |-> Count(results, LAMBDA t : InMonth(t, month) /\ t.result = "WIN"),
      losses |-> Count(results, LAMBDA t : InMonth(t, month) /\ t.result = "LOSS"),
      breakeven |-> Count(results, LAMBDA t : InMonth(t, month) /\ t.result = "BREAKEVEN")]]

-----------------------------------------------------------------------------
SignalInit ==
  /\ costs \in CostModels
  /\ candles = <<>>
  /\ live = <<>>
  /\ report = NoReport

(* A candle closes and the live program looks at it.                       *)
CandleCloses ==
  /\ Len(candles) < MaxCandles
  /\ \E candle \in Shapes :
       LET table == Append(candles, candle)
       IN /\ candles' = table
          /\ live' = Append(live, GenerateSignal(PrepareCandles(table)))
          /\ report' = ExecuteBacktest(costs, table)
  /\ UNCHANGED costs

SignalNext == CandleCloses

SignalSpec == SignalInit /\ [][SignalNext]_signal_vars

-----------------------------------------------------------------------------
(* Properties.                                                             *)

(* The historical signals of the whole table are the signals emitted live, *)
(* candle by candle and in this order: no signal is repainted by later     *)
(* candles.                                                                *)
HistoryAgreesWithLive ==
  LET history == HistoricalReversals(PrepareCandles(candles))
  IN /\ Range(history) = {[at |-> i, side |-> live[i]] : i \in {j \in DOMAIN live : live[j] # "NONE"}}
     /\ \A i, j \in DOMAIN history : i < j => history[i].at < history[j].at

(* Trades alternate and tile the time from the first entry: each begins    *)
(* where the previous one ended, after the signal it acts on.              *)
Tiles(results, position) ==
  /\ \A i \in DOMAIN results :
       /\ results[i].signalAt < results[i].entry /\ results[i].entry < results[i].exit
       /\ results[i].exitSignalAt < results[i].exit
  /\ \A i \in 1..(Len(results) - 1) :
       /\ results[i].exit = results[i + 1].entry
       /\ results[i].side # results[i + 1].side
  /\ results # <<>> =>
       position.entry = Last(results).exit /\ position.side # Last(results).side

TradesTile == Tiles(report.results, report.position)

(* Costs never help: the net result of a trade is at most its gross one.   *)
CostsOnlyHurt ==
  \A t \in Range(report.results) :
    t.net * t.entryReference <= t.gross * RateUnit * t.entryPrice

(* The monthly and the overall statistics count the same trades, breakeven *)
(* trades apart.                                                           *)
SumOfMonths(monthly, field) ==
  SumOver(0, MaxCandles, [m \in 0..MaxCandles |-> IF m \in DOMAIN monthly THEN monthly[m][field] ELSE 0])

StatisticsReconcile ==
  LET results == report.results
      overall == BacktestStatistics(results)
      monthly == MonthlyStatistics(results)
  IN /\ overall.wins = SumOfMonths(monthly, "wins")
     /\ overall.losses = SumOfMonths(monthly, "losses")
     /\ Len(results) = SumOfMonths(monthly, "trades")
     /\ overall.total = Len(results) - SumOfMonths(monthly, "breakeven")
     /\ overall.long.trades + overall.short.trades = overall.total
     /\ overall.long.wins + overall.short.wins = overall.wins

(* A completed trade is final: more candles never change or remove it.     *)
ClosedTradesAreFinal == [][IsPrefix(report.results, report'.results)]_signal_vars
=============================================================================
