---------------------------- MODULE TradeService ----------------------------
(***************************************************************************)
(* The local trade ledger (database/trade_service.py, the Trade table of   *)
(* database/models.py).  Every operator is one committed transaction of    *)
(* TradeService.  Prices are kept only as far as the stop logic tells them *)
(* apart: onTick says whether the average entry price lies on the price    *)
(* grid, moved whether current_stop_price is the breakeven price.          *)
(***************************************************************************)
EXTENDS Integers, FiniteSets

CONSTANTS MaxTrades,   \* bound: Trade rows ever created
          MaxQty,      \* quantity of one sized entry, in exchange steps
          MaxStops,    \* bound: conditional stop orders ever submitted
          MaxCandle    \* bound: closed candles the market produces

ASSUME BoundsAssumption ==
  /\ MaxTrades \in Nat
  /\ MaxQty \in Nat \ {0}
  /\ MaxStops \in Nat
  /\ MaxCandle \in Nat \ {0}

TradeIds == 1 .. MaxTrades      \* in order of created_at
StopIds == 1 .. MaxStops        \* clientAlgoId values; 0 is "no stop recorded"
Candles == 1 .. MaxCandle
Sides == {"LONG", "SHORT"}
Statuses == {"NONE", "PENDING", "OPEN", "CLOSED", "FAILED"}
ActiveStatuses == {"PENDING", "OPEN"}
CloseReasons == {"NONE", "STOP_LOSS", "SIGNAL_EXIT", "EMERGENCY_KILL", "EXTERNAL_CLOSE"}

VARIABLE trades   \* trades[t] is row t; status "NONE" while it does not exist

Trade == [status : Statuses, side : Sides, candle : 0 .. MaxCandle,
          qty : 0 .. MaxQty, onTick : BOOLEAN, moved : BOOLEAN,
          stopId : 0 .. MaxStops, reason : CloseReasons]

NoTrade == [status |-> "NONE", side |-> "LONG", candle |-> 0, qty |-> 0,
            onTick |-> TRUE, moved |-> FALSE, stopId |-> 0, reason |-> "NONE"]

LedgerInit == trades = [t \in TradeIds |-> NoTrade]

\* Variant for the sensitivity check: PENDING rows do not count as active.
ActiveWhenOpen(t) == trades[t].status = "OPEN"

IsActive(t) == trades[t].status \in ActiveStatuses

ActiveIds == {t \in TradeIds : IsActive(t)}

\* get_active_trade: the newest PENDING or OPEN row, 0 for None.
ActiveTrade ==
  IF ActiveIds = {} THEN 0
  ELSE CHOOSE t \in ActiveIds : \A u \in ActiveIds : u <= t

IsOpen(t) == t \in TradeIds /\ trades[t].status = "OPEN"

\* Ids are handed out in insertion order.
IsNextId(t) ==
  /\ t \in TradeIds
  /\ trades[t].status = "NONE"
  /\ \A u \in TradeIds : u < t => trades[u].status # "NONE"

CreateTradeRecord(t, side, candle) ==
  /\ IsNextId(t)
  /\ trades' = [trades EXCEPT ![t] =
        [NoTrade EXCEPT !.status = "PENDING", !.side = side, !.candle = candle]]

UpdateTradeExecution(t, qty, onTick) ==
  trades' = [trades EXCEPT ![t].status = "OPEN", ![t].qty = qty, ![t].onTick = onTick]

\* update_stop_loss; moved tells the initial stop from the breakeven stop.
UpdateStopLoss(t, stopId, moved) ==
  trades' = [trades EXCEPT ![t].stopId = stopId, ![t].moved = moved]

CloseTradeRecord(t, reason) ==
  trades' = [trades EXCEPT ![t].status = "CLOSED", ![t].reason = reason]

MarkTradeFailed(t) ==
  trades' = [trades EXCEPT ![t].status = "FAILED"]

=============================================================================
