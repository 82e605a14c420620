-------------------------- MODULE MCPollingRunner --------------------------
(***************************************************************************)
(* Model checking of the trading core.  The configurations trading_*.cfg   *)
(* and the three that show disagreements bound the rows, stop orders and   *)
(* candles and choose which faults may happen.                             *)
(***************************************************************************)
EXTENDS PollingRunner

\* The model tells the two sides apart by their names only: exchanging LONG
\* and SHORT turns behaviours into behaviours and keeps the safety properties,
\* so that the behaviours whose first trade is LONG stand for all.
FirstTradeIsLong == 1 \in TradeIds => trades[1].side = "LONG"
=============================================================================
