--------------------------- MODULE OrderExecutor ---------------------------
(***************************************************************************)
(* OrderExecutor (execution/order_executor.py): execute_entry,             *)
(* execute_exit and move_stop_to_breakeven, cut at every exchange call and *)
(* every database commit.  pc names the call about to be made; each of the *)
(* calls can fail, and between any two of them the account can change and  *)
(* the process can die.                                                    *)
(***************************************************************************)
EXTENDS PositionReconciler, RuntimeSafety

VARIABLES
  cycle,     \* the candle and the signal run_once is working on
  trade,     \* the row the executor is working on, 0 for none
  fill,      \* filled["quantity"]
  oldStop    \* old_stop_id of move_stop_to_breakeven

frameVars == <<cycle, trade, fill, oldStop>>

NoCycle == [candle |-> 0, signal |-> "NONE"]

FrameInit == cycle = NoCycle /\ trade = 0 /\ fill = 0 /\ oldStop = 0

\* The call returns or raises out of run_once: its locals are gone.
Leave(where) ==
  /\ pc' = where
  /\ returnTo' = "none" /\ seen' = NoPosition /\ rec' = "NONE"
  /\ cycle' = NoCycle /\ trade' = 0 /\ fill' = 0 /\ oldStop' = 0

\* An exception nobody catches before run_forever.
Abort == Leave("idle")

\* Control moves on within the cycle; the frame keeps its locals.
Goto(where) == pc' = where /\ rec' = "NONE" /\ UNCHANGED <<returnTo, seen>>

GotoOnly(where) == Goto(where) /\ UNCHANGED frameVars

-----------------------------------------------------------------------------
(* execute_entry *)

EntryReconciled ==
  /\ pc = "en.reconciled"
  /\ IF rec \in {"MANUAL_REVIEW", "ACTIVE_POSITION"}
       THEN GotoOnly("record")                          \* BLOCKED
       ELSE GotoOnly("en.canOpen")
  /\ UNCHANGED <<trades, exchangeVars, safetyVars>>

\* can_open_position looks at the account and the ledger once more.
EntryCanOpen ==
  /\ pc = "en.canOpen"
  /\ IF OpenPosition.qty = 0 /\ OpenOrders = {} /\ ActiveTrade = 0
       THEN GotoOnly("en.create")
       ELSE GotoOnly("record")                          \* BLOCKED
  /\ UNCHANGED <<trades, exchangeVars, safetyVars>>

\* Sizing succeeds and the PENDING row is committed before any order.
EntryCreate ==
  /\ pc = "en.create"
  /\ \E t \in TradeIds :
        /\ CreateTradeRecord(t, cycle.signal, cycle.candle)
        /\ trade' = t
  /\ Goto("en.order")
  /\ UNCHANGED <<exchangeVars, safetyVars, cycle, fill, oldStop>>

\* Variant for the sensitivity check: an unknown submission counts as rejected.
UnknownIsRejected(reply, k) ==
  /\ pc = "en.order"
  /\ ReplyPossible(reply, k)
  /\ EntryOrder(trades[trade].side, k)
  /\ \/ reply = "filled" /\ fill' = k /\ Goto("en.execution")
                         /\ UNCHANGED <<cycle, trade, oldStop>>
     \/ reply \in {"rejected", "unknown"} /\ GotoOnly("en.failed")
     \/ reply = "raised" /\ Abort
  /\ UNCHANGED <<trades, safetyVars>>

EntrySubmit(reply, k) ==
  /\ pc = "en.order"
  /\ ReplyPossible(reply, k)
  /\ EntryOrder(trades[trade].side, k)
  /\ \/ reply = "filled" /\ fill' = k /\ Goto("en.execution")
                         /\ UNCHANGED <<cycle, trade, oldStop>>
     \/ reply = "rejected" /\ GotoOnly("en.failed")
     \/ reply \in {"unknown", "raised"} /\ Abort        \* the row stays PENDING
  /\ UNCHANGED <<trades, safetyVars>>

EntryFailed ==
  /\ pc = "en.failed"
  /\ MarkTradeFailed(trade)
  /\ Abort
  /\ UNCHANGED <<exchangeVars, safetyVars>>

EntryExecution ==
  /\ pc = "en.execution"
  /\ \E onTick \in BOOLEAN : UpdateTradeExecution(trade, fill, onTick)
  /\ GotoOnly("en.stop")
  /\ UNCHANGED <<exchangeVars, safetyVars>>

\* An error of the stop order is caught: the kill switch latches in memory.
EntryStop(placed, lands) ==
  /\ pc = "en.stop"
  /\ placed => lands
  /\ StopOrder(trade, lands)
  /\ IF placed
       THEN GotoOnly("en.saveStop") /\ UNCHANGED safetyVars
       ELSE GotoOnly("ks.store") /\ LatchInMemory
  /\ UNCHANGED trades

\* Variant for the sensitivity check: the stop error is only logged.
StopErrorLogged ==
  /\ pc = "en.stop"
  /\ GotoOnly("record")
  /\ UNCHANGED <<trades, exchangeVars, safetyVars>>

\* The stop order does not reach the exchange at all (rejected, rate limit).
EntryStopRefused ==
  /\ pc = "en.stop"
  /\ GotoOnly("ks.store")
  /\ LatchInMemory
  /\ UNCHANGED <<trades, exchangeVars>>

EntrySaveStop ==
  /\ pc = "en.saveStop"
  /\ UpdateStopLoss(trade, stopsSent, FALSE)
  /\ GotoOnly("record")                                 \* OPEN_PROTECTED
  /\ UNCHANGED <<exchangeVars, safetyVars>>

EntrySaveStopFails ==
  /\ pc = "en.saveStop"
  /\ GotoOnly("ks.store")
  /\ LatchInMemory
  /\ UNCHANGED <<trades, exchangeVars>>

-----------------------------------------------------------------------------
(* _handle_unprotected_position *)

KillStore ==
  /\ pc = "ks.store"
  /\ StoreLatch
  /\ GotoOnly("ks.close")
  /\ UNCHANGED <<trades, exchangeVars>>

\* The emergency close: any error ends in UNPROTECTED_KILL_SWITCH.
KillClose(reply, k) ==
  /\ pc = "ks.close"
  /\ ReplyPossible(reply, k)
  /\ ReduceOrder(trades[trade].side, fill, k)
  /\ GotoOnly(IF reply = "filled" THEN "ks.record" ELSE "record")
  /\ UNCHANGED <<trades, safetyVars>>

KillRecord ==
  /\ pc = "ks.record"
  /\ CloseTradeRecord(trade, "EMERGENCY_KILL")
  /\ GotoOnly("record")                                 \* EMERGENCY_CLOSED
  /\ UNCHANGED <<exchangeVars, safetyVars>>

KillRecordFails ==
  /\ pc = "ks.record"
  /\ GotoOnly("record")                                 \* UNPROTECTED_KILL_SWITCH
  /\ UNCHANGED <<trades, exchangeVars, safetyVars>>

-----------------------------------------------------------------------------
(* execute_exit *)

ExitReconciled ==
  /\ pc = "ex.reconciled"
  /\ IF ~Refused /\ IsOpen(ActiveTrade)
       THEN /\ trade' = ActiveTrade
            /\ Goto("ex.order")
            /\ UNCHANGED <<cycle, fill, oldStop>>
       ELSE GotoOnly("record")                          \* BLOCKED, NO_OPEN_POSITION
  /\ UNCHANGED <<trades, exchangeVars, safetyVars>>

ExitSubmit(reply, k) ==
  /\ pc = "ex.order"
  /\ ReplyPossible(reply, k)
  /\ ReduceOrder(trades[trade].side, trades[trade].qty, k)
  /\ IF reply = "filled" THEN GotoOnly("ex.close") ELSE Abort
  /\ UNCHANGED <<trades, safetyVars>>

\* Any confirmed quantity closes the record, a partial one too.
ExitClose ==
  /\ pc = "ex.close"
  /\ CloseTradeRecord(trade, "SIGNAL_EXIT")
  /\ GotoOnly(IF trades[trade].stopId # 0 THEN "ex.cancel" ELSE "record")
  /\ UNCHANGED <<exchangeVars, safetyVars>>

\* A failed cancellation is logged and swallowed.
ExitCancel(lands) ==
  /\ pc = "ex.cancel"
  /\ CancelStop(trades[trade].stopId, lands)
  /\ GotoOnly("record")                                 \* CLOSED
  /\ UNCHANGED <<trades, safetyVars>>

-----------------------------------------------------------------------------
(* move_stop_to_breakeven *)

\* triggered is should_move_to_breakeven at the mark price of the moment.
BreakevenReconciled(triggered) ==
  /\ pc = "be.reconciled"
  /\ IF ~Refused /\ IsOpen(ActiveTrade) /\ triggered
       THEN /\ oldStop' = trades[ActiveTrade].stopId
            /\ Goto("be.stop")
            /\ UNCHANGED <<cycle, trade, fill>>
       ELSE GotoOnly("dedup")
  /\ UNCHANGED <<trades, exchangeVars, safetyVars>>

\* The new stop is placed while the old one still protects.
BreakevenStop(placed, lands) ==
  /\ pc = "be.stop"
  /\ placed => lands
  /\ StopOrder(ActiveTrade, lands)
  /\ IF placed THEN GotoOnly("be.save") ELSE Abort
  /\ UNCHANGED <<trades, safetyVars>>

BreakevenSave ==
  /\ pc = "be.save"
  /\ UpdateStopLoss(ActiveTrade, stopsSent, TRUE)
  /\ GotoOnly(IF oldStop # 0 THEN "be.cancel" ELSE "dedup")
  /\ UNCHANGED <<exchangeVars, safetyVars>>

\* Unlike execute_exit, an error of this cancellation escapes.
BreakevenCancel(succeeds, lands) ==
  /\ pc = "be.cancel"
  /\ succeeds => lands /\ \E s \in stops : s.id = oldStop
  /\ CancelStop(oldStop, lands)
  /\ IF succeeds THEN GotoOnly("dedup") ELSE Abort
  /\ UNCHANGED <<trades, safetyVars>>
=============================================================================
