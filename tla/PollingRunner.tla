--------------------------- MODULE PollingRunner ---------------------------
(***************************************************************************)
(* The runner process (run_testnet.py): PollingRunner.run_once and         *)
(* run_forever over the reconciler, the executor, the ledger, the kill     *)
(* switch and the account, with crashes and restarts.  One process holds   *)
(* the runner lock; it is the only writer of the database.                 *)
(***************************************************************************)
EXTENDS OrderExecutor

CONSTANT Faults   \* which of "crash" and "database" may happen

ASSUME FaultsAssumption == Faults \subseteq {"crash", "database"}

VARIABLE market   \* the last closed candle and the signal it generates

vars == <<trades, exchangeVars, reconcilerVars, safetyVars, frameVars, market>>

Signals == {"LONG", "SHORT", "NONE"}

Opposite(side) == IF side = "LONG" THEN "SHORT" ELSE "LONG"

Init ==
  /\ LedgerInit
  /\ ExchangeInit
  /\ ReconcilerInit
  /\ SafetyInit
  /\ FrameInit
  /\ market \in [candle : {1}, signal : Signals]

-----------------------------------------------------------------------------
(* run_once *)

\* prepare_candles and generate_signal, then the first reconciliation.
Poll ==
  /\ pc = "idle"
  /\ cycle' = market
  /\ CallReconcile("run.reconciled")
  /\ UNCHANGED <<trades, exchangeVars, safetyVars, trade, fill, oldStop>>

\* active = get_active_trade(symbol); only an OPEN one is of interest below.
RunReconciled ==
  /\ pc = "run.reconciled"
  /\ IF Refused
       THEN GotoOnly("record")                    \* BLOCKED_RECONCILIATION
       ELSE /\ trade' = IF IsOpen(ActiveTrade) THEN ActiveTrade ELSE 0
            /\ Goto("manage")
            /\ UNCHANGED <<cycle, fill, oldStop>>
  /\ UNCHANGED <<trades, exchangeVars, safetyVars>>

\* already_moved: rounding leaves the breakeven stop of an entry that is off
\* the grid on the losing side of the entry.
AlreadyMoved(t) == trades[t].moved /\ trades[t].onTick

NeedsBreakeven == trade # 0 /\ ~AlreadyMoved(trade)

NoBreakeven ==
  /\ pc = "manage"
  /\ ~NeedsBreakeven
  /\ GotoOnly("dedup")
  /\ UNCHANGED <<trades, exchangeVars, safetyVars>>

\* _ensure_execution_allowed refuses every executor operation once latched.
Invoke(operation) ==
  IF killActive THEN Abort ELSE CallReconcile(operation) /\ UNCHANGED frameVars

CallBreakeven ==
  /\ pc = "manage"
  /\ NeedsBreakeven
  /\ Invoke("be.reconciled")
  /\ UNCHANGED <<trades, exchangeVars, safetyVars>>

\* Variant for the sensitivity check: no candle counts as processed.
NothingProcessed == FALSE

IsCycleProcessed == cycle.candle \in processed

SkipDuplicate ==
  /\ pc = "dedup"
  /\ IsCycleProcessed
  /\ Leave("idle")                                \* DUPLICATE_CANDLE
  /\ UNCHANGED <<trades, exchangeVars, safetyVars>>

\* HOLD_POSITION, NO_SIGNAL, INVALID_ATR
NothingToDo ==
  /\ pc = "dedup"
  /\ ~IsCycleProcessed
  /\ IF trade # 0 THEN cycle.signal # Opposite(trades[trade].side) ELSE TRUE
  /\ GotoOnly("record")
  /\ UNCHANGED <<trades, exchangeVars, safetyVars>>

CallExit ==
  /\ pc = "dedup"
  /\ ~IsCycleProcessed
  /\ trade # 0 /\ cycle.signal = Opposite(trades[trade].side)
  /\ Invoke("ex.reconciled")
  /\ UNCHANGED <<trades, exchangeVars, safetyVars>>

CallEntry ==
  /\ pc = "dedup"
  /\ ~IsCycleProcessed
  /\ trade = 0 /\ cycle.signal # "NONE"
  /\ Invoke("en.reconciled")
  /\ UNCHANGED <<trades, exchangeVars, safetyVars>>

Finish ==
  /\ pc = "record"
  /\ RecordCycle(cycle.candle)
  /\ Leave("idle")
  /\ UNCHANGED <<trades, exchangeVars>>

\* A blocked reconciliation returns before the duplicate check: the second
\* row for a candle violates uq_processed_cycle and run_once raises.
FinishTwice ==
  /\ pc = "record"
  /\ IsCycleProcessed
  /\ Abort
  /\ UNCHANGED <<trades, exchangeVars, safetyVars>>

-----------------------------------------------------------------------------
(* Failures *)

\* Reads of the exchange raise once their retries are used up, sizing raises
\* RiskValidationError, and a stop order may be refused or limited.
NetworkCall ==
  \/ pc \in {"rec.positions", "rec.decide", "en.canOpen", "en.create", "be.stop"}
  \/ pc = "manage" /\ NeedsBreakeven
  \/ pc = "dedup" /\ ~IsCycleProcessed /\ trade = 0 /\ cycle.signal # "NONE"

\* Commits that fail with the exception escaping to run_forever.
DatabaseCall ==
  pc \in {"rec.decide", "en.create", "en.execution", "en.failed", "ks.store",
          "ex.close", "be.save", "record"}

CallRaises ==
  /\ NetworkCall \/ (DatabaseCall /\ "database" \in Faults)
  /\ Abort
  /\ UNCHANGED <<trades, exchangeVars, safetyVars>>

\* The fill is there but the stop price computed from it is refused.
ExactStopRaises ==
  /\ pc = "en.execution"
  /\ Abort
  /\ UNCHANGED <<trades, exchangeVars, safetyVars>>

DatabaseFailsAfterStop ==
  /\ "database" \in Faults
  /\ EntrySaveStopFails \/ KillRecordFails

Crash ==
  /\ "crash" \in Faults
  /\ pc # "down"
  /\ Leave("down")
  /\ killActive' = FALSE
  /\ UNCHANGED <<trades, exchangeVars, killStored, processed>>

Start ==
  /\ pc = "down"
  /\ LoadKillSwitch
  /\ Leave("idle")
  /\ UNCHANGED <<trades, exchangeVars>>

-----------------------------------------------------------------------------
RunOnce ==
  \/ Poll \/ RunReconciled \/ NoBreakeven \/ CallBreakeven
  \/ SkipDuplicate \/ NothingToDo \/ CallExit \/ CallEntry \/ Finish \/ FinishTwice

Entry ==
  \/ EntryReconciled \/ EntryCanOpen \/ EntryCreate
  \/ \E reply \in Replies, k \in 0 .. MaxQty : EntrySubmit(reply, k)
  \/ EntryFailed \/ EntryExecution
  \/ \E placed, lands \in BOOLEAN : EntryStop(placed, lands)
  \/ EntryStopRefused \/ EntrySaveStop

Unprotected ==
  \/ KillStore \/ KillRecord
  \/ \E reply \in Replies, k \in 0 .. MaxQty : KillClose(reply, k)

Exit ==
  \/ ExitReconciled \/ ExitClose
  \/ \E reply \in Replies, k \in 0 .. MaxQty : ExitSubmit(reply, k)
  \/ \E lands \in BOOLEAN : ExitCancel(lands)

Breakeven ==
  \/ \E triggered \in BOOLEAN : BreakevenReconciled(triggered)
  \/ \E placed, lands \in BOOLEAN : BreakevenStop(placed, lands)
  \/ BreakevenSave
  \/ \E succeeds, lands \in BOOLEAN : BreakevenCancel(succeeds, lands)

Reconciler == Reconcile /\ UNCHANGED <<safetyVars, frameVars>>

Failure == CallRaises \/ ExactStopRaises \/ DatabaseFailsAfterStop \/ Crash

Process == RunOnce \/ Reconciler \/ Entry \/ Unprotected \/ Exit \/ Breakeven \/ Start

NewCandle ==
  /\ market.candle < MaxCandle
  /\ \E signal \in Signals :
        market' = [candle |-> market.candle + 1, signal |-> signal]

Environment ==
  \/ Account /\ UNCHANGED <<trades, reconcilerVars, safetyVars, frameVars, market>>
  \/ OperatorReset /\ UNCHANGED <<trades, exchangeVars, reconcilerVars, frameVars, market>>
  \/ NewCandle /\ UNCHANGED <<trades, exchangeVars, reconcilerVars, safetyVars, frameVars>>

Next == ((Process \/ Failure) /\ UNCHANGED market) \/ Environment

Spec == Init /\ [][Next]_vars

(***************************************************************************)
(* run_forever never gives up: every call returns or raises, a supervisor  *)
(* restarts a dead process, and neither crashes nor exchange errors keep   *)
(* every single poll from completing its first reconciliation.             *)
(***************************************************************************)
Fairness ==
  /\ WF_vars((Process \/ CallRaises) /\ UNCHANGED market)
  /\ SF_vars(Poll /\ UNCHANGED market)
  /\ SF_vars(ReadPositions /\ UNCHANGED <<safetyVars, frameVars, market>>)
  /\ SF_vars(ReconcileDecide /\ UNCHANGED <<safetyVars, frameVars, market>>)

LiveSpec == Spec /\ Fairness

-----------------------------------------------------------------------------
(* Properties *)

RunnerStates ==
  {"down", "idle", "rec.positions", "rec.decide", "manage", "dedup", "record",
   "en.canOpen", "en.create", "en.order", "en.failed", "en.execution", "en.stop",
   "en.saveStop", "ks.store", "ks.close", "ks.record", "ex.order", "ex.close",
   "ex.cancel", "be.stop", "be.save", "be.cancel"} \cup Callers

\* Every variable has its type; in particular the position never exceeds one
\* sized entry and no stop covers more than that.
TypeOK ==
  /\ trades \in [TradeIds -> Trade]
  /\ position \in [side : Sides, qty : 0 .. MaxQty]
  /\ stops \subseteq Stop
  /\ stopsSent \in 0 .. MaxStops
  /\ stopFills \subseteq StopIds
  /\ finished \subseteq StopIds
  /\ exitFills \subseteq TradeIds
  /\ pc \in RunnerStates
  /\ returnTo \in Callers \cup {"none"}
  /\ seen \in [side : Sides, qty : 0 .. MaxQty]
  /\ rec \in RecActions
  /\ killActive \in BOOLEAN
  /\ killStored \in BOOLEAN
  /\ processed \subseteq Candles
  /\ cycle \in [candle : 0 .. MaxCandle, signal : Signals]
  /\ trade \in 0 .. MaxTrades
  /\ fill \in 0 .. MaxQty
  /\ oldStop \in 0 .. MaxStops
  /\ market \in [candle : Candles, signal : Signals]

\* The bot never has two trades in PENDING or OPEN, whatever crashes, lost
\* replies and failed commits happen: get_active_trade, which returns the
\* newest, never hides an older one from exits and reconciliation.
AtMostOneActive ==
  \A t, u \in TradeIds :
    trades[t].status \in {"PENDING", "OPEN"} /\ trades[u].status \in {"PENDING", "OPEN"}
      => t = u

\* A stop left behind by one trade is never open once a later trade exists,
\* so it can never reduce a position it was not placed for: can_open_position
\* refuses to enter over an orphan order.
NoStopOutlivesItsTrade ==
  \A s \in stops, t \in TradeIds : t > s.trade => trades[t].status = "NONE"

\* Between polls, a position the ledger calls OPEN is covered in full by the
\* very stop the ledger names, or the kill switch is latched.  (Process
\* crashes excepted: nothing re-places a stop after a restart.)
RecordedStopGuards ==
  \A t \in TradeIds :
    (pc = "idle" /\ trades[t].status = "OPEN" /\ ~Flat)
      => \/ killActive
         \/ \E s \in stops : s.id = trades[t].stopId /\ s.qty >= position.qty

FoundReasons == {"STOP_LOSS", "EXTERNAL_CLOSE"}

\* The reason of a close found on the exchange never contradicts the stop the
\* ledger names, now or later: a STOP_LOSS stop did trigger, though perhaps on
\* nothing after somebody closed the position by hand, and a filled stop is
\* missed only when so many newer stop orders were sent that the history need
\* not list it (reconciliation.py:92).
CloseReasonFits ==
  \A t \in TradeIds : trades[t].reason \in FoundReasons =>
    IF trades[t].reason = "STOP_LOSS" THEN trades[t].stopId \in finished
    ELSE trades[t].stopId \in stopFills => stopsSent - trades[t].stopId >= HistoryLimit

\* A process that dies with the kill switch latched leaves the latch in the
\* database, so that its successor starts latched.
LatchSurvivesRestart == [][killActive /\ pc' = "down" => killStored]_vars

Created(t) == trades[t].status = "NONE" /\ trades'[t].status # "NONE"

\* Once the kill switch is in the database no trade is started, by this
\* process or by any that replaces it, until the operator resets it.
KilledStaysOut == [][killStored => \A t \in TradeIds : ~Created(t)]_vars

\* A candle with a processed_cycles row never starts a trade again, also
\* after a restart in the middle of a later cycle.
ProcessedCandleIsDone ==
  [][\A t \in TradeIds : Created(t) => trades'[t].candle \notin processed]_vars

\* One candle starts at most one trade whose order was not rejected.
OneEntryPerCandle ==
  LET Entered == {t \in TradeIds : trades[t].status \notin {"NONE", "FAILED"}}
  IN \A t, u \in Entered : trades[t].candle = trades[u].candle => t = u

\* A position that disappears on the exchange (a stop, a manual close) is
\* eventually noticed: its record does not stay OPEN.
ExternalCloseNoticed ==
  \A t \in TradeIds : (trades[t].status = "OPEN" /\ Flat) ~> trades[t].status # "OPEN"

\* An uncertain submission is eventually resolved by reconciliation.
PendingResolved ==
  \A t \in TradeIds : trades[t].status = "PENDING" ~> trades[t].status # "PENDING"

\* What the abstract specification sees of the ledger, and the row whose
\* order is on its way.
RecordView == [t \in TradeIds |-> [status |-> trades[t].status, side |-> trades[t].side]]

InFlight == IF pc = "en.order" THEN trade ELSE 0

Abstract == INSTANCE OneTradeAtATime WITH
  ledger <- RecordView, exposure <- position, sending <- InFlight

\* The records, the position and the order in flight implement the abstract
\* promise of OneTradeAtATime: exposure arises only from the one order of the
\* newest record, on a flat account without active records.
KeepsOneTradeAtATime == Abstract!Spec
=============================================================================
