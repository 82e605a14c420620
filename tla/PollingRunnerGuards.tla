------------------------ MODULE PollingRunnerGuards ------------------------

(***************************************************************************)
(* Proofs about stop orders and their bookkeeping: the reasons of closes   *)
(* found on the exchange, the protection of an open position, and the      *)
(* candles of trades.  What a stop id stands for is followed from the      *)
(* order that carries it to the row that records it and to its fill.       *)
(***************************************************************************)
EXTENDS PollingRunnerProofs

-----------------------------------------------------------------------------

(* The books of the stop orders.                                           *)

\* An id that belongs to row t: whatever order carries it was placed for t,
\* and its fill is a fill on t's closing side.
Owned(id, t) ==
  /\ \A s \in stops : s.id = id => s.trade = t
  /\ id \in stopFills => t \in exitFills

StopBooks ==
  /\ \A s \in stops :
       /\ s.id <= stopsSent
       /\ trades[s.trade].status \in {"OPEN", "CLOSED"}
       /\ s.side = trades[s.trade].side /\ s.qty = trades[s.trade].qty
  /\ \A id \in stopFills : id <= stopsSent /\ id \in finished
  /\ \A t \in TradeIds : trades[t].stopId <= stopsSent /\ Owned(trades[t].stopId, t)
  /\ pc = "en.saveStop" => Owned(stopsSent, trade)
  /\ pc = "be.save" => Owned(stopsSent, ActiveTrade)

\* A flat account stays flat while reconcile decides, and an entry order
\* meets no stop.
ReadingHolds ==
  /\ pc = "rec.decide" /\ seen.qty = 0 => position.qty = 0
  /\ pc = "en.order" => stops = {}

\* The reason fits and goes on to fit: while the recorded stop is still open
\* there is no position that it could close.
Fits(row) ==
  IF row.reason = "STOP_LOSS" THEN row.stopId \in finished
  ELSE row.stopId \in stopFills => stopsSent - row.stopId >= HistoryLimit

ReasonOK(row) ==
  row.reason \in FoundReasons =>
    /\ row.status = "CLOSED" /\ row.stopId \in Nat
    /\ Fits(row)
    /\ \A s \in stops : s.id = row.stopId => position.qty = 0

StopsInv ==
  /\ StopBooks
  /\ ReadingHolds
  /\ \A t \in TradeIds : ReasonOK(trades[t])

\* The types the proofs below need.
LEMMA StopTypes ==
  ASSUME IInv
  PROVE  /\ \A s \in stops : s \in Stop /\ s.id \in StopIds /\ s.trade \in TradeIds /\ s.side \in Sides
                             /\ s.qty \in 1 .. MaxQty
         /\ \A t \in TradeIds : trades[t] \in Trade /\ trades[t].stopId \in 0 .. MaxStops
         /\ stopsSent \in Nat /\ stopFills \subseteq Nat /\ 0 \notin stopFills
         /\ position.qty \in 0 .. MaxQty /\ position.side \in Sides
  BY BoundsAssumption DEF IInv, AccountInv, LedgerInv, Stop, StopIds, Trade

-----------------------------------------------------------------------------

(* Kinds of steps.                                                         *)

\* Stops and exposure only go, and fills are credited to the rows of their
\* side; the ledger stays.
LEMMA AccountStep ==
  ASSUME IInv, StopsInv, UNCHANGED trades,
         stops' \subseteq stops, stopsSent' = stopsSent, exitFills \subseteq exitFills',
         finished \subseteq finished', position.qty = 0 => position'.qty = 0,
         \/ stopFills' = stopFills
         \/ \E s \in stops : /\ position.qty # 0
                             /\ stopFills' = stopFills \cup {s.id} /\ s.id \in finished'
                             /\ Credited(s.side) \subseteq exitFills',
         ReadingHolds',
         pc' \in {"en.saveStop", "be.save"} => pc' = pc /\ trade' = trade
  PROVE  StopsInv'
<1>1. \A id : \A t \in TradeIds : Owned(id, t) => Owned(id, t)'
  <2> SUFFICES ASSUME NEW id, NEW t \in TradeIds, Owned(id, t) PROVE Owned(id, t)'
    OBVIOUS
  <2>1. \A s \in stops' : s.id = id => s.trade = t
    BY DEF Owned
  <2>2. ASSUME id \in stopFills' PROVE t \in exitFills'
    <3>1. CASE id \in stopFills
      BY <3>1 DEF Owned
    <3>2. CASE id \notin stopFills
      <4>1. PICK s \in stops : s.id = id /\ Credited(s.side) \subseteq exitFills'
        BY <2>2, <3>2
      <4>2. s.trade = t /\ s.side = trades[t].side /\ trades[t].status # "NONE"
        BY <4>1 DEF Owned, StopsInv, StopBooks
      <4> QED
        BY <4>1, <4>2 DEF Credited
    <3> QED
      BY <3>1, <3>2
  <2> QED
    BY <2>1, <2>2 DEF Owned
<1>2. StopBooks'
  <2>1. \A s \in stops' : /\ s.id <= stopsSent'
                          /\ trades'[s.trade].status \in {"OPEN", "CLOSED"}
                          /\ s.side = trades'[s.trade].side /\ s.qty = trades'[s.trade].qty
    BY DEF StopsInv, StopBooks
  <2>2. \A id \in stopFills' : id <= stopsSent' /\ id \in finished'
    BY DEF StopsInv, StopBooks
  <2>3. \A t \in TradeIds : trades'[t].stopId <= stopsSent' /\ Owned(trades[t].stopId, t)'
    BY <1>1 DEF StopsInv, StopBooks, Owned
  <2>4. pc' = "en.saveStop" => Owned(stopsSent, trade)'
    <3>1. ASSUME pc' = "en.saveStop" PROVE pc = "en.saveStop" /\ trade' = trade /\ trade \in TradeIds
      BY <3>1 DEF IInv, ControlRow
    <3>2. ASSUME pc' = "en.saveStop"
          PROVE  (\A s \in stops' : s.id = stopsSent => s.trade = trade)
                 /\ (stopsSent \in stopFills' => trade \in exitFills')
      BY <1>1, <3>1, <3>2 DEF StopsInv, StopBooks, Owned
    <3> QED
      BY <3>1, <3>2 DEF Owned
  <2>5. pc' = "be.save" => Owned(stopsSent, ActiveTrade)'
    <3>1. ASSUME pc' = "be.save" PROVE pc = "be.save" /\ ActiveTrade' = ActiveTrade /\ ActiveTrade \in TradeIds
      BY <3>1, LedgerUntouched DEF IInv, ControlRow, IsOpen
    <3>2. ASSUME pc' = "be.save"
          PROVE  (\A s \in stops' : s.id = stopsSent => s.trade = ActiveTrade)
                 /\ (stopsSent \in stopFills' => ActiveTrade \in exitFills')
      BY <1>1, <3>1, <3>2 DEF StopsInv, StopBooks, Owned
    <3> QED
      BY <3>1, <3>2 DEF Owned
  <2> QED
    BY <2>1, <2>2, <2>3, <2>4, <2>5 DEF StopBooks
<1>3. \A t \in TradeIds : ReasonOK(trades[t])'
  <2> SUFFICES ASSUME NEW t \in TradeIds, trades[t].reason \in FoundReasons
               PROVE  ReasonOK(trades[t])'
    BY DEF ReasonOK
  <2>1. /\ trades[t].status = "CLOSED"
        /\ trades[t].stopId \in Nat /\ Fits(trades[t])
        /\ \A s \in stops : s.id = trades[t].stopId => position.qty = 0
    BY DEF StopsInv, ReasonOK
  <2>2. trades[t].stopId \in stopFills' <=> trades[t].stopId \in stopFills
    BY <2>1
  <2>3. Fits(trades[t])'
    BY <2>1, <2>2 DEF Fits
  <2> QED
    BY <2>1, <2>3 DEF ReasonOK
<1> QED
  BY <1>2, <1>3 DEF StopsInv

\* One row changes, and nothing at the exchange.  A row with a stop order
\* keeps what the order was made from.
LEMMA RowStep ==
  ASSUME IInv, StopsInv, UNCHANGED exchangeVars,
         NEW t \in TradeIds, NEW row, trades' = [trades EXCEPT ![t] = row],
         \A s \in stops : s.trade = t =>
           /\ row.status \in {"OPEN", "CLOSED"}
           /\ row.side = trades[t].side /\ row.qty = trades[t].qty,
         row.stopId <= stopsSent, Owned(row.stopId, t), ReasonOK(row),
         ReadingHolds', pc' \notin {"en.saveStop", "be.save"}
  PROVE  StopsInv'
<1>1. trades'[t] = row /\ \A u \in TradeIds \ {t} : trades'[u] = trades[u]
  BY DEF IInv, LedgerInv
<1>2. UNCHANGED <<position, stops, stopsSent, stopFills, finished, exitFills>>
  BY DEF exchangeVars
<1>3. \A u \in TradeIds : Owned(trades'[u].stopId, u) /\ trades'[u].stopId <= stopsSent /\ ReasonOK(trades'[u])
  BY <1>1 DEF StopsInv, StopBooks
<1>4. \A s \in stops : s.trade \in TradeIds
  BY StopTypes
<1>5. \A s \in stops' : /\ s.id <= stopsSent'
                        /\ trades'[s.trade].status \in {"OPEN", "CLOSED"}
                        /\ s.side = trades'[s.trade].side /\ s.qty = trades'[s.trade].qty
  BY <1>1, <1>2, <1>4 DEF StopsInv, StopBooks
<1>6. StopBooks'
  BY <1>2, <1>3, <1>5 DEF StopsInv, StopBooks, Owned
<1>7. \A u \in TradeIds : ReasonOK(trades[u])'
  BY <1>2, <1>3 DEF ReasonOK, Fits
<1> QED
  BY <1>6, <1>7 DEF StopsInv

\* A stop order under a fresh id.
LEMMA StopOrderStep ==
  ASSUME IInv, StopsInv, UNCHANGED trades,
         NEW t \in TradeIds, trades[t].status = "OPEN", NEW lands \in BOOLEAN, StopOrder(t, lands),
         pc' \notin {"rec.decide", "en.order"},
         pc' = "en.saveStop" => trade' = t,
         pc' = "be.save" => ActiveTrade = t
  PROVE  StopsInv' /\ \A u \in TradeIds : trades[u].stopId < stopsSent'
<1> DEFINE new == [id |-> stopsSent + 1, trade |-> t, side |-> trades[t].side, qty |-> trades[t].qty]
<1>1. /\ stops' = stops \/ stops' = stops \cup {new}
      /\ stopsSent' = stopsSent + 1
      /\ UNCHANGED <<position, stopFills, finished, exitFills>>
  BY DEF StopOrder
<1>2. new.id = stopsSent + 1 /\ new.trade = t /\ new.side = trades[t].side /\ new.qty = trades[t].qty
  OBVIOUS
<1> HIDE DEF new
<1>3. /\ \A s \in stops : s.id \in Nat /\ s.id <= stopsSent
      /\ \A id \in stopFills : id \in Nat /\ id <= stopsSent /\ id \in finished
      /\ \A u \in TradeIds : trades[u].stopId \in Nat /\ trades[u].stopId <= stopsSent
      /\ stopsSent \in Nat
  BY StopTypes, BoundsAssumption DEF StopsInv, StopBooks, StopIds
<1>4. \A u \in TradeIds : trades[u].stopId < stopsSent'
  BY <1>1, <1>3
<1>5. /\ \A s \in stops' : s.id = stopsSent' => s.trade = t
      /\ stopsSent' \notin stopFills'
  BY <1>1, <1>2, <1>3
<1>6. \A u \in TradeIds : \A s \in stops' : s.id = trades[u].stopId => s \in stops
  BY <1>1, <1>2, <1>4
<1>7. StopBooks'
  <2>1. \A s \in stops' : /\ s.id <= stopsSent'
                          /\ trades'[s.trade].status \in {"OPEN", "CLOSED"}
                          /\ s.side = trades'[s.trade].side /\ s.qty = trades'[s.trade].qty
    BY <1>1, <1>2, <1>3 DEF StopsInv, StopBooks
  <2>2. \A id \in stopFills' : id <= stopsSent' /\ id \in finished'
    BY <1>1, <1>3
  <2>3. \A u \in TradeIds : trades[u].stopId <= stopsSent' /\ Owned(trades[u].stopId, u)'
    BY <1>1, <1>3, <1>4, <1>6 DEF StopsInv, StopBooks, Owned
  <2>4. pc' = "en.saveStop" => Owned(stopsSent, trade)'
    BY <1>5 DEF Owned
  <2>5. pc' = "be.save" => Owned(stopsSent, ActiveTrade)'
    BY <1>5, LedgerUntouched DEF Owned, IInv
  <2> QED
    BY <2>1, <2>2, <2>3, <2>4, <2>5 DEF StopBooks
<1>8. \A u \in TradeIds : ReasonOK(trades[u])'
  <2> SUFFICES ASSUME NEW u \in TradeIds, trades[u].reason \in FoundReasons
               PROVE  ReasonOK(trades[u])'
    BY DEF ReasonOK
  <2>1. trades[u].stopId \in Nat /\ Fits(trades[u])
    BY DEF StopsInv, ReasonOK
  <2>2. Fits(trades[u])'
    BY <1>1, <1>3, <2>1, HistoryAssumption DEF Fits
  <2> QED
    BY <1>1, <1>6, <2>2 DEF StopsInv, ReasonOK
<1> QED
  BY <1>4, <1>7, <1>8 DEF StopsInv, ReadingHolds

-----------------------------------------------------------------------------

(* The steps of the runner.                                                *)

\* A step that touches neither the ledger nor the exchange, and that does
\* not enter one of the states something is known of.
LEMMA QuietKeepsBooks ==
  ASSUME IInv, StopsInv, UNCHANGED <<trades, exchangeVars>>,
         pc' \notin {"rec.decide", "en.order", "en.saveStop", "be.save"}
  PROVE  StopsInv'
<1>1. ReadingHolds'
  BY DEF ReadingHolds
<1> QED
  BY <1>1, AccountStep DEF exchangeVars

\* A step of the account or the operator beside the process.
LEMMA BesideKeepsBooks ==
  ASSUME IInv, StopsInv, UNCHANGED <<trades, reconcilerVars, frameVars>>,
         UNCHANGED exchangeVars \/ Account
  PROVE  StopsInv'
<1> USE DEF reconcilerVars, frameVars
<1>1. ASSUME stops' \subseteq stops, position.qty = 0 => position'.qty = 0
      PROVE  ReadingHolds'
  BY <1>1 DEF StopsInv, ReadingHolds
<1>2. CASE UNCHANGED exchangeVars
  BY <1>1, <1>2, AccountStep DEF exchangeVars
<1>3. CASE Account
  <2>1. stops' \subseteq stops /\ (position.qty = 0 => position'.qty = 0)
    BY <1>3, AccountKeeps DEF IInv
  <2>2. ASSUME ClosedOutside \/ \E s \in stops : OrphanCancelled(s)
        PROVE  /\ UNCHANGED <<stopFills, stopsSent, finished>>
               /\ exitFills \subseteq exitFills'
    BY <2>2 DEF ClosedOutside, OrphanCancelled, Reduce
  <2>3. ASSUME NEW s \in stops, StopTriggers(s)
        PROVE  /\ stopsSent' = stopsSent /\ exitFills \subseteq exitFills' /\ finished \subseteq finished'
               /\ \/ stopFills' = stopFills
                  \/ /\ position.qty # 0
                     /\ stopFills' = stopFills \cup {s.id} /\ s.id \in finished'
                     /\ Credited(s.side) \subseteq exitFills'
    <3> DEFINE k == IF position.side # s.side THEN 0
                    ELSE IF s.qty < position.qty THEN s.qty ELSE position.qty
    <3>1. /\ k > 0 => position.qty # 0 /\ k # 0
          /\ k = 0 => ~(k > 0)
      BY StopTypes
    <3>2. /\ stopsSent' = stopsSent /\ Reduce(s.side, k)
          /\ stopFills' = IF k > 0 THEN stopFills \cup {s.id} ELSE stopFills
          /\ finished' = finished \cup {s.id} \/ (k = 0 /\ UNCHANGED finished)
      BY <2>3 DEF StopTriggers
    <3> HIDE DEF k
    <3> QED
      BY <3>1, <3>2 DEF Reduce
  <2>4. CASE ClosedOutside \/ \E s \in stops : OrphanCancelled(s)
    BY <1>1, <2>1, <2>2, <2>4, AccountStep
  <2>5. CASE \E s \in stops : StopTriggers(s)
    BY <1>1, <2>1, <2>3, <2>5, AccountStep
  <2> QED
    BY <1>3, <2>4, <2>5 DEF Account
<1> QED
  BY <1>2, <1>3

\* run_once and the failures only move control.
LEMMA ControlKeepsBooks ==
  ASSUME IInv, StopsInv, UNCHANGED market,
         RunOnce \/ Failure \/ Start
  PROVE  StopsInv' /\ UNCHANGED <<trades, exchangeVars>>
<1>1. UNCHANGED <<trades, exchangeVars>>
  BY DEF RunOnce, Poll, RunReconciled, NoBreakeven, CallBreakeven, SkipDuplicate, NothingToDo,
         CallExit, CallEntry, Finish, FinishTwice, Failure, CallRaises, ExactStopRaises,
         DatabaseFailsAfterStop, EntrySaveStopFails, KillRecordFails, Crash, Start
<1>2. pc' \in {"rec.positions", "record", "manage", "dedup", "idle", "down", "ks.store"}
  BY DEF RunOnce, Poll, RunReconciled, NoBreakeven, CallBreakeven, SkipDuplicate, NothingToDo,
         CallExit, CallEntry, Finish, FinishTwice, Failure, CallRaises, ExactStopRaises,
         DatabaseFailsAfterStop, EntrySaveStopFails, KillRecordFails, Crash, Start,
         CallReconcile, GotoOnly, Goto, Invoke, Abort, Leave
<1> QED
  BY <1>1, <1>2, QuietKeepsBooks

\* reconcile: the reason is chosen by what the books say of the stop, and
\* the account is flat by then.
LEMMA ReconcilerKeepsBooks ==
  ASSUME IInv, StopsInv, Reconciler, UNCHANGED market
  PROVE  StopsInv'
<1>1. CASE ReadPositions
  <2>1. ReadingHolds'
    BY <1>1 DEF ReadPositions, OpenPosition, ReadingHolds, exchangeVars
  <2> QED
    BY <1>1, <2>1, AccountStep DEF ReadPositions, exchangeVars
<1>2. CASE ReconcileDecide
  <2>1. pc' \in Callers /\ UNCHANGED exchangeVars
    BY <1>2 DEF ReconcileDecide, SeenExposure, CloseLocalRecord, SeenFlat, Return, IInv, ControlCycle
  <2>2. pc' \notin {"rec.decide", "en.order", "en.saveStop", "be.save"}
    BY <2>1 DEF Callers
  <2>3. CASE UNCHANGED trades
    BY <2>1, <2>2, <2>3, QuietKeepsBooks
  <2>4. CASE CloseLocalRecord
    <3> DEFINE t == ActiveTrade
    <3>1. t \in TradeIds /\ seen.qty = 0 /\ CloseFromHistory(t)
      BY <2>4 DEF CloseLocalRecord, IsOpen
    <3>p. PICK listed \in Listings(trades[t].stopId) : CloseTradeRecord(t, ExternalCloseReason(t, listed))
      BY <3>1 DEF CloseFromHistory
    <3> DEFINE reason == ExternalCloseReason(t, listed)
               row == [trades[t] EXCEPT !.status = "CLOSED", !.reason = reason]
    <3>2. /\ trades[t].stopId <= stopsSent /\ Owned(trades[t].stopId, t)
          /\ \A s \in stops : s.trade = t => trades[t].status \in {"OPEN", "CLOSED"}
          /\ position.qty = 0
      BY <1>2, <3>1 DEF ReconcileDecide, StopsInv, StopBooks, ReadingHolds
    <3>3. /\ reason = "STOP_LOSS" => trades[t].stopId \in finished
          /\ reason # "STOP_LOSS" /\ trades[t].stopId \in stopFills => ~listed
      BY <3>2 DEF ExternalCloseReason, Owned, StopsInv, StopBooks
    <3> HIDE DEF reason, t
    <3>4. trades[t] \in Trade /\ trades[t].stopId \in Nat /\ stopsSent \in Nat
      BY <3>1, StopTypes, BoundsAssumption
    <3>q. ~listed => stopsSent - trades[t].stopId >= HistoryLimit
      BY <3>4, HistoryAssumption DEF Listings
    <3>5. /\ row.status = "CLOSED" /\ row.reason = reason /\ row.stopId = trades[t].stopId
          /\ row.side = trades[t].side /\ row.qty = trades[t].qty
      BY <3>4 DEF Trade
    <3>6. trades' = [trades EXCEPT ![t] = row]
      BY <3>p DEF CloseTradeRecord, IInv, LedgerInv, reason
    <3> HIDE DEF row
    <3>7. ReasonOK(row)
      BY <3>2, <3>3, <3>q, <3>4, <3>5 DEF ReasonOK, Fits
    <3>8. ReadingHolds'
      BY <2>2 DEF ReadingHolds
    <3> QED
      BY <2>1, <2>2, <3>1, <3>2, <3>5, <3>6, <3>7, <3>8, RowStep
  <2> QED
    BY <1>2, <2>3, <2>4 DEF ReconcileDecide, SeenExposure, SeenFlat
<1> QED
  BY <1>1, <1>2 DEF Reconciler, Reconcile

\* Steps of the executor that only move control or latch.
LEMMA LocalKeepsBooks ==
  ASSUME IInv, StopsInv, UNCHANGED market,
         \/ EntryReconciled \/ EntryCanOpen \/ EntryStopRefused \/ KillStore \/ ExitReconciled
         \/ \E triggered \in BOOLEAN : BreakevenReconciled(triggered)
  PROVE  StopsInv' /\ UNCHANGED <<trades, exchangeVars>>
<1>1. UNCHANGED <<trades, exchangeVars>>
  BY DEF EntryReconciled, EntryCanOpen, EntryStopRefused, KillStore, ExitReconciled, BreakevenReconciled
<1>2. pc' \in {"record", "en.canOpen", "en.create", "ks.store", "ks.close", "ex.order", "be.stop", "dedup"}
  BY DEF EntryReconciled, EntryCanOpen, EntryStopRefused, KillStore, ExitReconciled, BreakevenReconciled,
         GotoOnly, Goto
<1> QED
  BY <1>1, <1>2, QuietKeepsBooks

\* A new row has no stop, and none is open.
LEMMA CreateKeepsBooks ==
  ASSUME IInv, StopsInv, EntryCreate
  PROVE  StopsInv'
<1>1. PICK t \in TradeIds : CreateTradeRecord(t, cycle.signal, cycle.candle)
  BY DEF EntryCreate
<1> DEFINE row == [NoTrade EXCEPT !.status = "PENDING", !.side = cycle.signal, !.candle = cycle.candle]
<1>2. row.stopId = 0 /\ row.reason = "NONE"
  BY DEF NoTrade
<1>3. trades' = [trades EXCEPT ![t] = row]
  BY <1>1 DEF CreateTradeRecord
<1> HIDE DEF row
<1>4. stops = {} /\ UNCHANGED exchangeVars /\ pc' = "en.order"
  BY DEF EntryCreate, Goto, IInv, ControlAccount
<1>5. 0 <= stopsSent /\ Owned(0, t)
  BY <1>4, StopTypes DEF Owned
<1>6. ReasonOK(row)
  BY <1>2 DEF ReasonOK, FoundReasons
<1>7. ReadingHolds'
  BY <1>4 DEF ReadingHolds, exchangeVars
<1> QED
  BY <1>2, <1>3, <1>4, <1>5, <1>6, <1>7, RowStep

\* The entry order meets no stop, so no recorded stop gets a position to close.
LEMMA SubmitKeepsBooks ==
  ASSUME IInv, StopsInv, NEW reply \in Replies, NEW k \in 0 .. MaxQty, EntrySubmit(reply, k)
  PROVE  StopsInv'
<1>1. /\ stops = {} /\ UNCHANGED <<trades, stops, stopsSent, stopFills, finished, exitFills>>
      /\ pc' \in {"en.execution", "en.failed", "idle"}
  BY DEF EntrySubmit, EntryOrder, GotoOnly, Goto, Abort, Leave, StopsInv, ReadingHolds
<1>2. StopBooks'
  BY <1>1 DEF StopsInv, StopBooks, Owned
<1>3. \A t \in TradeIds : ReasonOK(trades[t])'
  BY <1>1 DEF StopsInv, ReasonOK, Fits
<1> QED
  BY <1>1, <1>2, <1>3 DEF StopsInv, ReadingHolds

\* A row that has no stop yet fails or opens.
LEMMA PendingRowKeepsBooks ==
  ASSUME IInv, StopsInv, EntryFailed \/ EntryExecution
  PROVE  StopsInv'
<1>1. /\ trade \in TradeIds /\ trades[trade].status = "PENDING"
      /\ trades[trade] \in Trade /\ UNCHANGED exchangeVars /\ pc' \in {"idle", "en.stop"}
  BY StopTypes DEF EntryFailed, EntryExecution, Abort, Leave, GotoOnly, Goto, IInv, ControlRow
<1>2. \E row : /\ trades' = [trades EXCEPT ![trade] = row]
               /\ row.stopId = trades[trade].stopId /\ row.reason = trades[trade].reason
  <2>1. CASE EntryFailed
    <3> DEFINE row == [trades[trade] EXCEPT !.status = "FAILED"]
    <3>1. trades' = [trades EXCEPT ![trade] = row]
      BY <1>1, <2>1 DEF EntryFailed, MarkTradeFailed, IInv, LedgerInv
    <3>2. row.stopId = trades[trade].stopId /\ row.reason = trades[trade].reason
      BY <1>1 DEF Trade
    <3> QED
      BY <3>1, <3>2
  <2>2. CASE EntryExecution
    <3>1. PICK onTick \in BOOLEAN : UpdateTradeExecution(trade, fill, onTick)
      BY <2>2 DEF EntryExecution
    <3> DEFINE row == [trades[trade] EXCEPT !.status = "OPEN", !.qty = fill, !.onTick = onTick]
    <3>2. trades' = [trades EXCEPT ![trade] = row]
      BY <1>1, <3>1 DEF UpdateTradeExecution, IInv, LedgerInv
    <3>3. row.stopId = trades[trade].stopId /\ row.reason = trades[trade].reason
      BY <1>1 DEF Trade
    <3> QED
      BY <3>2, <3>3
  <2> QED
    BY <2>1, <2>2
<1>3. PICK row : /\ trades' = [trades EXCEPT ![trade] = row]
                 /\ row.stopId = trades[trade].stopId /\ row.reason = trades[trade].reason
  BY <1>2
<1>4. /\ \A s \in stops : s.trade # trade
      /\ row.stopId <= stopsSent /\ Owned(row.stopId, trade)
      /\ row.reason \notin FoundReasons
  BY <1>1, <1>3 DEF StopsInv, StopBooks, ReasonOK
<1>5. ReasonOK(row) /\ ReadingHolds'
  BY <1>1, <1>4 DEF ReasonOK, ReadingHolds
<1> QED
  BY <1>1, <1>3, <1>4, <1>5, RowStep

\* The id that has just been placed for an OPEN row is recorded in it.
LEMMA SaveStopKeepsBooks ==
  ASSUME IInv, StopsInv, EntrySaveStop \/ BreakevenSave
  PROVE  StopsInv'
<1>1. PICK t \in TradeIds, moved \in BOOLEAN :
        trades[t].status = "OPEN" /\ UpdateStopLoss(t, stopsSent, moved) /\ Owned(stopsSent, t)
  BY DEF EntrySaveStop, BreakevenSave, IInv, ControlRow, IsOpen, StopsInv, StopBooks
<1>2. UNCHANGED exchangeVars /\ pc' \in {"record", "be.cancel", "dedup"}
  BY DEF EntrySaveStop, BreakevenSave, GotoOnly, Goto
<1>3. trades[t] \in Trade
  BY StopTypes
<1> DEFINE row == [trades[t] EXCEPT !.stopId = stopsSent, !.moved = moved]
<1>4. trades' = [trades EXCEPT ![t] = row]
  BY <1>1, <1>3 DEF UpdateStopLoss, IInv, LedgerInv
<1>5. /\ row.stopId = stopsSent /\ row.reason = trades[t].reason /\ row.status = "OPEN"
      /\ row.side = trades[t].side /\ row.qty = trades[t].qty
  BY <1>1, <1>3 DEF Trade
<1> HIDE DEF row
<1>6. row.reason \notin FoundReasons
  BY <1>1, <1>5 DEF StopsInv, ReasonOK
<1>7. ReasonOK(row) /\ ReadingHolds' /\ row.stopId <= stopsSent
  BY <1>2, <1>5, <1>6, StopTypes DEF ReasonOK, ReadingHolds
<1> QED
  BY <1>1, <1>2, <1>4, <1>5, <1>7, RowStep

\* The closes of the bot itself have reasons of their own.
LEMMA ClosingRecordKeepsBooks ==
  ASSUME IInv, StopsInv, KillRecord \/ ExitClose
  PROVE  StopsInv'
<1>1. /\ trade \in TradeIds /\ trades[trade].status = "OPEN" /\ trades[trade] \in Trade
      /\ UNCHANGED exchangeVars /\ pc' \in {"record", "ex.cancel"}
  BY StopTypes DEF KillRecord, ExitClose, GotoOnly, Goto, IInv, ControlRow
<1>2. PICK reason \in {"EMERGENCY_KILL", "SIGNAL_EXIT"} : CloseTradeRecord(trade, reason)
  BY DEF KillRecord, ExitClose
<1> DEFINE row == [trades[trade] EXCEPT !.status = "CLOSED", !.reason = reason]
<1>3. trades' = [trades EXCEPT ![trade] = row]
  BY <1>1, <1>2 DEF CloseTradeRecord, IInv, LedgerInv
<1>4. /\ row.stopId = trades[trade].stopId /\ row.reason = reason /\ row.status = "CLOSED"
      /\ row.side = trades[trade].side /\ row.qty = trades[trade].qty
  BY <1>1 DEF Trade
<1> HIDE DEF row
<1>5. ReasonOK(row) /\ ReadingHolds' /\ row.stopId <= stopsSent /\ Owned(row.stopId, trade)
  BY <1>1, <1>4 DEF ReasonOK, FoundReasons, ReadingHolds, StopsInv, StopBooks
<1> QED
  BY <1>1, <1>3, <1>4, <1>5, RowStep

\* Closing orders and cancellations only take exposure or stops away.
LEMMA ClosingOrderKeepsBooks ==
  ASSUME IInv, StopsInv,
         \/ \E reply \in Replies, k \in 0 .. MaxQty : KillClose(reply, k) \/ ExitSubmit(reply, k)
         \/ \E lands \in BOOLEAN : ExitCancel(lands)
         \/ \E succeeds, lands \in BOOLEAN : BreakevenCancel(succeeds, lands)
  PROVE  StopsInv'
<1>1. /\ UNCHANGED <<trades, stopsSent, stopFills, finished>>
      /\ pc' \in {"ks.record", "record", "ex.close", "idle", "dedup"}
  BY DEF KillClose, ExitSubmit, ExitCancel, BreakevenCancel, ReduceOrder, CancelStop, GotoOnly, Goto,
         Abort, Leave
<1>2. ReadingHolds'
  BY <1>1 DEF ReadingHolds
<1>3. CASE UNCHANGED <<position, exitFills>>
  <2>1. stops' \subseteq stops
    BY DEF KillClose, ExitSubmit, ExitCancel, BreakevenCancel, ReduceOrder, CancelStop
  <2> QED
    BY <1>1, <1>2, <1>3, <2>1, AccountStep
<1>4. ASSUME NEW reply \in Replies, NEW k \in 0 .. MaxQty, KillClose(reply, k) \/ ExitSubmit(reply, k)
      PROVE  StopsInv'
  <2>1. /\ trade \in TradeIds /\ trades[trade].side \in Sides
        /\ UNCHANGED stops /\ Reduce(trades[trade].side, k)
    BY <1>4 DEF KillClose, ExitSubmit, ReduceOrder, IInv, ControlRow, LedgerInv, Trade
  <2>2. position.qty = 0 => position'.qty = 0
    BY <2>1, ReduceShrinks DEF IInv
  <2>3. exitFills \subseteq exitFills'
    BY <2>1 DEF Reduce
  <2> QED
    BY <1>1, <1>2, <2>1, <2>2, <2>3, AccountStep
<1> QED
  BY <1>3, <1>4 DEF ExitCancel, BreakevenCancel, CancelStop

\* The stop orders of an entry and of a move to breakeven.
LEMMA StopOrderKeepsBooks ==
  ASSUME IInv, StopsInv, NEW placed \in BOOLEAN, NEW lands \in BOOLEAN,
         EntryStop(placed, lands) \/ BreakevenStop(placed, lands)
  PROVE  StopsInv' /\ \A t \in TradeIds : trades[t].stopId < stopsSent'
<1>1. CASE EntryStop(placed, lands)
  <2>1. /\ trade \in TradeIds /\ trades[trade].status = "OPEN" /\ StopOrder(trade, lands)
        /\ UNCHANGED <<trades, trade>> /\ pc' \in {"en.saveStop", "ks.store"}
    BY <1>1 DEF EntryStop, GotoOnly, Goto, frameVars, IInv, ControlRow
  <2> QED
    BY <2>1, StopOrderStep
<1>2. CASE BreakevenStop(placed, lands)
  <2>1. /\ ActiveTrade \in TradeIds /\ trades[ActiveTrade].status = "OPEN"
        /\ StopOrder(ActiveTrade, lands)
        /\ UNCHANGED trades /\ pc' \in {"be.save", "idle"}
    BY <1>2 DEF BreakevenStop, GotoOnly, Goto, Abort, Leave, IInv, ControlRow, IsOpen
  <2> QED
    BY <2>1, StopOrderStep
<1> QED
  BY <1>1, <1>2

\* One step of any handler, or a stutter, keeps the books.
LEMMA NextKeepsBooks ==
  ASSUME IInv, StopsInv, [Next]_vars
  PROVE  StopsInv'
<1>1. CASE Process /\ UNCHANGED market
  <2>1. CASE RunOnce \/ Start
    BY <1>1, <2>1, ControlKeepsBooks
  <2>2. CASE Reconciler
    BY <1>1, <2>2, ReconcilerKeepsBooks
  <2>3. CASE Entry
    BY <1>1, <2>3, LocalKeepsBooks, CreateKeepsBooks, SubmitKeepsBooks, PendingRowKeepsBooks,
       StopOrderKeepsBooks, SaveStopKeepsBooks DEF Entry
  <2>4. CASE Unprotected
    BY <1>1, <2>4, LocalKeepsBooks, ClosingRecordKeepsBooks, ClosingOrderKeepsBooks DEF Unprotected
  <2>5. CASE Exit
    BY <1>1, <2>5, LocalKeepsBooks, ClosingRecordKeepsBooks, ClosingOrderKeepsBooks DEF Exit
  <2>6. CASE Breakeven
    BY <1>1, <2>6, LocalKeepsBooks, StopOrderKeepsBooks, SaveStopKeepsBooks, ClosingOrderKeepsBooks
       DEF Breakeven
  <2> QED
    BY <1>1, <2>1, <2>2, <2>3, <2>4, <2>5, <2>6 DEF Process
<1>2. CASE Failure /\ UNCHANGED market
  BY <1>2, ControlKeepsBooks
<1>3. CASE Environment \/ UNCHANGED vars
  BY <1>3, BesideKeepsBooks DEF Environment, vars
<1> QED
  BY <1>1, <1>2, <1>3 DEF Next

\* Every reachable state has the books of its stops in order.
THEOREM StopsBooked == Spec => [](IInv /\ StopsInv)
<1>1. Init => IInv /\ StopsInv
  <2> SUFFICES ASSUME Init PROVE IInv /\ StopsInv
    OBVIOUS
  <2>1. IInv
    BY InitEstablishesInv
  <2>2. /\ \A t \in TradeIds : trades[t].stopId = 0 /\ trades[t].reason = "NONE"
        /\ stops = {} /\ stopFills = {} /\ finished = {} /\ stopsSent = 0 /\ pc = "down"
    BY DEF Init, LedgerInit, NoTrade, ExchangeInit, ReconcilerInit
  <2>3. StopBooks /\ ReadingHolds
    BY <2>2 DEF StopBooks, ReadingHolds, Owned
  <2>4. \A t \in TradeIds : ReasonOK(trades[t])
    BY <2>2 DEF ReasonOK, FoundReasons
  <2> QED
    BY <2>1, <2>3, <2>4 DEF StopsInv
<1>2. (IInv /\ StopsInv) /\ [Next]_vars => (IInv /\ StopsInv)'
  BY NextKeepsInv, NextKeepsBooks
<1> QED
  BY <1>1, <1>2, PTL DEF Spec

\* The reason of a close found on the exchange fits the recorded stop, with
\* replaced, expired and orphan stops around, however long the history is.
THEOREM CloseReasonsFit == Spec => []CloseReasonFits
<1>1. StopsInv => CloseReasonFits
  BY DEF StopsInv, ReasonOK, Fits, CloseReasonFits
<1> QED
  BY <1>1, StopsBooked, PTL

-----------------------------------------------------------------------------

(* The protection of an open position, while no process dies.              *)

Placed(id) == \E s \in stops : s.id = id

\* What an OPEN row with a position knows of it: its size and side, and the
\* stop the row names, unless that stop is on its way or the latch is set.
Guarded(t) ==
  /\ position.side = trades[t].side /\ position.qty <= trades[t].qty
  /\ killActive \/ pc \in {"en.stop", "en.saveStop"} \/ Placed(trades[t].stopId)

GuardInv ==
  /\ pc = "down" => \A t \in TradeIds : trades[t].status = "NONE"
  /\ pc = "en.execution" /\ position.qty # 0 =>
       position.side = trades[trade].side /\ position.qty <= fill
  /\ pc \in {"en.saveStop", "be.save"} /\ position.qty # 0 => Placed(stopsSent)
  /\ pc = "be.stop" => oldStop <= stopsSent
  /\ pc = "be.save" => oldStop < stopsSent
  /\ \A t \in TradeIds : trades[t].status = "OPEN" =>
       /\ pc # "ex.cancel"
       /\ pc = "be.cancel" => oldStop # trades[t].stopId
       /\ position.qty # 0 => Guarded(t)

\* There is one OPEN row at most, and none beside a PENDING one.
LEMMA OneOpenRow ==
  ASSUME IInv
  PROVE  \A t, u \in TradeIds :
           trades[t].status = "OPEN" /\ trades[u].status \in {"PENDING", "OPEN"} => t = u
  BY DEF IInv, LedgerInv, LedgerOrder, IsActive, ActiveStatuses, TradeIds

\* Without an OPEN row there is nothing to guard.
LEMMA NothingOpen ==
  ASSUME \A t \in TradeIds : trades'[t].status # "OPEN",
         pc' \notin {"down", "en.execution", "en.saveStop", "be.save", "be.stop"}
  PROVE  GuardInv'
  BY DEF GuardInv

\* Control moves, to a place where nothing more is known, and not away from
\* a stop that is on its way unless the latch is set.
LEMMA ControlKeepsGuard ==
  ASSUME GuardInv, UNCHANGED <<trades, exchangeVars>>,
         pc' \notin {"down", "en.execution", "en.saveStop", "be.save", "be.stop", "be.cancel", "ex.cancel"},
         killActive' \/ (~killActive /\ pc \notin {"en.stop", "en.saveStop"})
  PROVE  GuardInv'
<1>1. UNCHANGED <<position, stops, stopsSent>>
  BY DEF exchangeVars
<1>2. \A t \in TradeIds : trades[t].status = "OPEN" /\ position.qty # 0 => Guarded(t)'
  BY <1>1 DEF GuardInv, Guarded, Placed
<1> QED
  BY <1>1, <1>2 DEF GuardInv

\* run_once, the failures and the start of a process.
LEMMA RunnerKeepsGuard ==
  ASSUME IInv, StopsInv, GuardInv, UNCHANGED market, "crash" \notin Faults,
         RunOnce \/ Failure \/ Start
  PROVE  GuardInv'
<1>1. UNCHANGED <<trades, exchangeVars>>
  BY ControlKeepsBooks
<1>2. CASE RunOnce \/ CallRaises \/ ExactStopRaises
  <2>1. UNCHANGED killActive
    BY <1>2 DEF RunOnce, Poll, RunReconciled, NoBreakeven, CallBreakeven, SkipDuplicate, NothingToDo,
         CallExit, CallEntry, Finish, FinishTwice, CallRaises, ExactStopRaises, safetyVars, RecordCycle
  <2>2. pc \notin {"en.stop", "en.saveStop"}
    BY <1>2 DEF RunOnce, Poll, RunReconciled, NoBreakeven, CallBreakeven, SkipDuplicate, NothingToDo,
         CallExit, CallEntry, Finish, FinishTwice, CallRaises, ExactStopRaises, NetworkCall, DatabaseCall
  <2>3. pc' \in {"rec.positions", "record", "manage", "dedup", "idle"}
    BY <1>2 DEF RunOnce, Poll, RunReconciled, NoBreakeven, CallBreakeven, SkipDuplicate, NothingToDo,
         CallExit, CallEntry, Finish, FinishTwice, CallRaises, ExactStopRaises,
         CallReconcile, GotoOnly, Goto, Invoke, Abort, Leave
  <2>4. killActive \in BOOLEAN
    BY DEF IInv, SafetyTypes
  <2> QED
    BY <1>1, <2>1, <2>2, <2>3, <2>4, ControlKeepsGuard
<1>3. CASE EntrySaveStopFails
  BY <1>1, <1>3, ControlKeepsGuard DEF EntrySaveStopFails, LatchInMemory, GotoOnly, Goto
<1>4. CASE KillRecordFails
  <2>1. pc = "ks.record" /\ pc' = "record" /\ UNCHANGED killActive /\ killActive \in BOOLEAN
    BY <1>4 DEF KillRecordFails, GotoOnly, Goto, safetyVars, IInv, SafetyTypes
  <2> QED
    BY <1>1, <2>1, ControlKeepsGuard
<1>5. CASE Start
  <2>1. pc = "down" /\ pc' = "idle" /\ UNCHANGED trades
    BY <1>5 DEF Start, Leave
  <2>2. \A t \in TradeIds : trades'[t].status = "NONE"
    BY <2>1 DEF GuardInv
  <2> QED
    BY <2>1, <2>2, NothingOpen
<1> QED
  BY <1>2, <1>3, <1>4, <1>5 DEF Failure, DatabaseFailsAfterStop, Crash

\* reconcile leaves the row alone or closes it.
LEMMA ReconcilerKeepsGuard ==
  ASSUME IInv, GuardInv, Reconciler
  PROVE  GuardInv'
<1>1. pc' \in {"rec.decide"} \cup Callers /\ pc \in {"rec.positions", "rec.decide"} /\ UNCHANGED <<exchangeVars, killActive>>
  BY DEF Reconciler, Reconcile, ReadPositions, ReconcileDecide, SeenExposure, CloseLocalRecord, SeenFlat,
         Return, safetyVars, IInv, ControlCycle
<1>2. pc' \notin {"down", "en.execution", "en.saveStop", "be.save", "be.stop", "be.cancel", "ex.cancel"}
      /\ pc \notin {"en.stop", "en.saveStop"} /\ killActive \in BOOLEAN
  BY <1>1 DEF Callers, IInv, SafetyTypes
<1>3. CASE UNCHANGED trades
  BY <1>1, <1>2, <1>3, ControlKeepsGuard
<1>4. CASE CloseLocalRecord
  <2> DEFINE t == ActiveTrade
  <2>1. t \in TradeIds /\ trades[t].status = "OPEN" /\ CloseFromHistory(t)
    BY <1>4 DEF CloseLocalRecord, IsOpen
  <2>0. PICK reason \in CloseReasons : CloseTradeRecord(t, reason)
    BY <2>1, HistoryGivesReason
  <2> HIDE DEF t
  <2>2. OnlyChanges(t, "CLOSED")
    BY <2>1, <2>0, CloseKeepsOrder DEF IInv
  <2>3. \A u \in TradeIds : trades'[u].status # "OPEN"
    BY <2>1, <2>2, OneOpenRow DEF OnlyChanges
  <2> QED
    BY <1>2, <2>3, NothingOpen
<1> QED
  BY <1>3, <1>4 DEF Reconciler, Reconcile, ReadPositions, ReconcileDecide, SeenExposure, SeenFlat

\* What happens to the position, and to a stop that belongs to the OPEN row,
\* by itself: the stop fills only by closing the whole position.
LEMMA AccountKeepsStop ==
  ASSUME IInv, StopsInv, Account, UNCHANGED trades, position'.qty # 0
  PROVE  /\ position.qty # 0 /\ position'.side = position.side /\ position'.qty <= position.qty
         /\ stopsSent' = stopsSent
         /\ \A t \in TradeIds : \A id :
              /\ position.side = trades[t].side /\ position.qty <= trades[t].qty
              /\ Owned(id, t) /\ Placed(id)
              => Placed(id)'
<1>1. CASE ClosedOutside
  BY <1>1, StopTypes DEF ClosedOutside, Reduce, NoPosition
<1>2. CASE \E s \in stops : OrphanCancelled(s)
  BY <1>2 DEF OrphanCancelled, Flat
<1>3. ASSUME NEW s \in stops, StopTriggers(s)
      PROVE  /\ position.qty # 0 /\ position'.side = position.side /\ position'.qty <= position.qty
             /\ stopsSent' = stopsSent
             /\ \A t \in TradeIds : \A id :
                  /\ position.side = trades[t].side /\ position.qty <= trades[t].qty
                  /\ Owned(id, t) /\ Placed(id)
                  => Placed(id)'
  <2> DEFINE k == IF position.side # s.side THEN 0
                  ELSE IF s.qty < position.qty THEN s.qty ELSE position.qty
  <2>1. k \in Nat /\ k <= position.qty /\ position.qty \in Nat
    BY BoundsAssumption, StopTypes
  <2>2. Reduce(s.side, k) /\ stops' = stops \ {s} /\ stopsSent' = stopsSent
    BY <1>3 DEF StopTriggers
  <2>3. k # position.qty /\ position' = [position EXCEPT !.qty = position.qty - k]
    BY <2>2 DEF Reduce, NoPosition
  <2>4. position'.side = position.side /\ position'.qty = position.qty - k
    BY <2>3 DEF IInv, AccountInv
  <2>5. \A t \in TradeIds :
          position.side = trades[t].side /\ position.qty <= trades[t].qty => s.trade # t
    <3> SUFFICES ASSUME NEW t \in TradeIds, s.trade = t,
                        position.side = trades[t].side, position.qty <= trades[t].qty
                 PROVE  FALSE
      OBVIOUS
    <3>1. s.side = position.side /\ ~(s.qty < position.qty)
      BY <2>1, StopTypes DEF StopsInv, StopBooks
    <3> QED
      BY <2>3, <3>1
  <2> HIDE DEF k
  <2>6. ASSUME NEW t \in TradeIds, NEW id, position.side = trades[t].side, position.qty <= trades[t].qty,
               Owned(id, t), Placed(id)
        PROVE  Placed(id)'
    <3>1. PICK u \in stops : u.id = id
      BY <2>6 DEF Placed
    <3>2. u.trade = t /\ u # s
      BY <2>5, <2>6, <3>1 DEF Owned
    <3> QED
      BY <2>2, <3>1, <3>2 DEF Placed
  <2> QED
    BY <2>1, <2>2, <2>3, <2>4, <2>6
<1> QED
  BY <1>1, <1>2, <1>3 DEF Account

\* The account, the operator, the market, or nothing moves.
LEMMA BesideKeepsGuard ==
  ASSUME IInv, StopsInv, GuardInv, UNCHANGED <<trades, reconcilerVars, frameVars, killActive>>,
         UNCHANGED exchangeVars \/ Account
  PROVE  GuardInv'
<1> USE DEF reconcilerVars, frameVars
<1>1. CASE UNCHANGED exchangeVars
  BY <1>1 DEF exchangeVars, GuardInv, Guarded, Placed
<1>2. CASE Account /\ position'.qty = 0
  <2>1. stopsSent' = stopsSent
    BY <1>2 DEF Account, ClosedOutside, OrphanCancelled, StopTriggers
  <2> QED
    BY <1>2, <2>1 DEF GuardInv
<1>3. CASE Account /\ position'.qty # 0
  <2>1. /\ position.qty # 0 /\ position'.side = position.side /\ position'.qty <= position.qty
        /\ stopsSent' = stopsSent
    BY <1>3, AccountKeepsStop
  <2>2. position'.qty \in Nat /\ position.qty \in Nat
    BY <1>3, AccountKeeps, BoundsAssumption DEF IInv, AccountInv
  <2>3. ASSUME NEW t \in TradeIds, trades[t].status = "OPEN"
        PROVE  /\ Guarded(t)
               /\ Owned(trades[t].stopId, t) /\ trades[t].qty \in Nat
               /\ pc = "en.saveStop" => trade = t /\ Owned(stopsSent, t)
               /\ pc = "be.save" => Owned(stopsSent, t)
    <3>1. Guarded(t) /\ Owned(trades[t].stopId, t)
      BY <2>1, <2>3 DEF GuardInv, StopsInv, StopBooks
    <3>2. trades[t].qty \in Nat
      BY StopTypes, BoundsAssumption DEF Trade
    <3>3. pc = "en.saveStop" => trade = t
      BY <2>3, OneOpenRow DEF IInv, ControlRow
    <3>4. pc = "be.save" => ActiveTrade = t
      BY <2>3, OneOpenRow DEF IInv, ControlRow, IsOpen
    <3> QED
      BY <3>1, <3>2, <3>3, <3>4 DEF StopsInv, StopBooks
  <2>4. ASSUME NEW t \in TradeIds, trades[t].status = "OPEN"
        PROVE  Guarded(t)'
    <3>1. position'.side = trades[t].side /\ position'.qty <= trades[t].qty
      BY <2>1, <2>2, <2>3, <2>4 DEF Guarded
    <3>2. Placed(trades[t].stopId) =>
            \E s \in stops' : s.id = trades[t].stopId
      BY <1>3, <2>3, <2>4, AccountKeepsStop DEF Guarded, Placed
    <3> QED
      BY <2>3, <2>4, <3>1, <3>2 DEF Guarded, Placed
  <2>5. ASSUME pc \in {"en.saveStop", "be.save"} PROVE \E s \in stops' : s.id = stopsSent
    <3>1. PICK t \in TradeIds : trades[t].status = "OPEN"
      BY <2>5 DEF IInv, ControlRow, IsOpen
    <3>2. Placed(stopsSent) /\ Owned(stopsSent, t) /\ Guarded(t)
      BY <2>1, <2>3, <2>5, <3>1 DEF GuardInv
    <3> QED
      BY <1>3, <3>2, AccountKeepsStop DEF Guarded, Placed
  <2>6. pc = "en.execution" => position.side = trades[trade].side /\ position.qty <= fill /\ fill \in Nat
    BY <2>1, BoundsAssumption DEF GuardInv, IInv, ProcessTypes
  <2> QED
    BY <2>1, <2>2, <2>4, <2>5, <2>6 DEF GuardInv, Placed
<1> QED
  BY <1>1, <1>2, <1>3

\* Steps of the executor that only move control or latch.
LEMMA LocalKeepsGuard ==
  ASSUME IInv, StopsInv, GuardInv, UNCHANGED market,
         \/ EntryReconciled \/ EntryCanOpen \/ EntryStopRefused \/ KillStore \/ ExitReconciled
         \/ \E triggered \in BOOLEAN : BreakevenReconciled(triggered)
  PROVE  GuardInv'
<1>1. UNCHANGED <<trades, exchangeVars>> /\ killActive \in BOOLEAN
  BY LocalKeepsBooks DEF IInv, SafetyTypes
<1>2. CASE EntryReconciled \/ EntryCanOpen \/ KillStore \/ ExitReconciled
  <2>1. /\ pc \notin {"en.stop", "en.saveStop"} /\ UNCHANGED killActive
        /\ pc' \in {"record", "en.canOpen", "en.create", "ks.close", "ex.order"}
    BY <1>2 DEF EntryReconciled, EntryCanOpen, KillStore, ExitReconciled, GotoOnly, Goto, StoreLatch, safetyVars
  <2> QED
    BY <1>1, <2>1, ControlKeepsGuard
<1>3. CASE EntryStopRefused
  BY <1>1, <1>3, ControlKeepsGuard DEF EntryStopRefused, LatchInMemory, GotoOnly, Goto
<1>4. ASSUME NEW triggered \in BOOLEAN, BreakevenReconciled(triggered)
      PROVE  GuardInv'
  <2>1. pc = "be.reconciled" /\ UNCHANGED <<killActive, position, stops, stopsSent, trades>>
    BY <1>1, <1>4 DEF BreakevenReconciled, safetyVars, exchangeVars
  <2>2. CASE pc' = "dedup"
    BY <1>1, <2>1, <2>2, ControlKeepsGuard
  <2>3. CASE pc' = "be.stop"
    <3>1. oldStop' = trades[ActiveTrade].stopId /\ ActiveTrade \in TradeIds
      BY <1>4, <2>3 DEF BreakevenReconciled, GotoOnly, Goto, IsOpen
    <3>2. oldStop' <= stopsSent
      BY <3>1 DEF StopsInv, StopBooks
    <3>3. \A t \in TradeIds : trades[t].status = "OPEN" /\ position.qty # 0 => Guarded(t)'
      BY <2>1 DEF GuardInv, Guarded, Placed
    <3> QED
      BY <2>1, <2>3, <3>2, <3>3 DEF GuardInv
  <2> QED
    BY <1>4, <2>2, <2>3 DEF BreakevenReconciled, GotoOnly, Goto
<1> QED
  BY <1>2, <1>3, <1>4

\* The steps of an entry before there is an OPEN row.
LEMMA EntryKeepsGuard ==
  ASSUME IInv, GuardInv,
         \/ EntryCreate \/ EntryFailed \/ EntryExecution
         \/ \E reply \in Replies, k \in 0 .. MaxQty : EntrySubmit(reply, k)
  PROVE  GuardInv'
<1>1. CASE EntryCreate
  <2>1. PICK t \in TradeIds : CreateTradeRecord(t, cycle.signal, cycle.candle)
    BY <1>1 DEF EntryCreate
  <2>2. ActiveIds = {} /\ cycle.signal \in Sides /\ cycle.candle \in 0 .. MaxCandle /\ pc' = "en.order"
    BY <1>1 DEF EntryCreate, Goto, IInv, ControlAccount, ControlCycle, InEntry, ProcessTypes
  <2>3. trades'[t].status = "PENDING" /\ \A u \in TradeIds \ {t} : trades'[u] = trades[u]
    BY <2>1, <2>2, CreateKeepsOrder DEF IInv
  <2>4. \A u \in TradeIds : trades[u].status # "OPEN"
    BY <2>2 DEF ActiveIds, IsActive, ActiveStatuses
  <2>5. \A u \in TradeIds : trades'[u].status # "OPEN"
    BY <2>3, <2>4
  <2> QED
    BY <2>2, <2>5, NothingOpen
<1>2. ASSUME EntryFailed \/ EntryExecution \/ \E reply \in Replies, k \in 0 .. MaxQty : EntrySubmit(reply, k)
      PROVE  trade \in TradeIds /\ trades[trade].status = "PENDING" /\ \A u \in TradeIds : trades[u].status # "OPEN"
  <2>1. trade \in TradeIds /\ trades[trade].status = "PENDING"
    BY <1>2 DEF EntryFailed, EntryExecution, EntrySubmit, IInv, ControlRow
  <2> QED
    BY <2>1, OneOpenRow
<1>3. CASE EntryFailed
  <2>1. OnlyChanges(trade, "FAILED") /\ pc' = "idle"
    BY <1>2, <1>3, FailureKeepsOrder DEF EntryFailed, Abort, Leave, IInv
  <2>2. \A u \in TradeIds : trades'[u].status # "OPEN"
    BY <1>2, <1>3, <2>1 DEF OnlyChanges
  <2> QED
    BY <2>1, <2>2, NothingOpen
<1>4. ASSUME NEW reply \in Replies, NEW k \in 0 .. MaxQty, EntrySubmit(reply, k)
      PROVE  GuardInv'
  <2>1. UNCHANGED trades /\ pc' \in {"en.execution", "en.failed", "idle"} /\ position.qty = 0
    BY <1>4 DEF EntrySubmit, GotoOnly, Goto, Abort, Leave, IInv, ControlAccount
  <2>2. \A u \in TradeIds : trades'[u].status # "OPEN"
    BY <1>2, <1>4, <2>1
  <2>3. CASE pc' = "en.execution"
    <3>1. fill' = k /\ trade' = trade
      BY <1>4, <2>3 DEF EntrySubmit, GotoOnly, Goto, Abort, Leave
    <3>2. position' = IF k = 0 THEN position ELSE [side |-> trades[trade].side, qty |-> k]
      BY <1>4, <2>1 DEF EntrySubmit, EntryOrder, AfterMarket
    <3>3. k \in Nat
      BY BoundsAssumption
    <3> QED
      BY <2>1, <2>2, <2>3, <3>1, <3>2, <3>3 DEF GuardInv
  <2>4. CASE pc' # "en.execution"
    BY <2>1, <2>2, <2>4, NothingOpen
  <2> QED
    BY <2>3, <2>4
<1>5. CASE EntryExecution
  <2>1. PICK onTick \in BOOLEAN : UpdateTradeExecution(trade, fill, onTick)
    BY <1>5 DEF EntryExecution
  <2>2. /\ pc = "en.execution" /\ pc' = "en.stop" /\ UNCHANGED <<trade, fill, position>>
        /\ fill \in 1 .. MaxQty
    BY <1>5 DEF EntryExecution, GotoOnly, Goto, frameVars, exchangeVars, IInv, ControlRow
  <2>3. OnlyChanges(trade, "OPEN")
    BY <1>2, <1>5, <2>1, <2>2, ExecutionOpens DEF IInv
  <2>4. trades'[trade].qty = fill
    BY <1>2, <1>5, <2>1, StopTypes DEF UpdateTradeExecution, IInv, LedgerInv, Trade
  <2>5. \A u \in TradeIds : trades'[u].status = "OPEN" => u = trade
    BY <1>2, <1>5, <2>3 DEF OnlyChanges
  <2>6. position.qty # 0 => position.side = trades'[trade].side /\ position.qty <= trades'[trade].qty
    BY <2>2, <2>3, <2>4 DEF GuardInv, OnlyChanges
  <2> QED
    BY <2>2, <2>5, <2>6 DEF GuardInv, Guarded
<1> QED
  BY <1>1, <1>3, <1>4, <1>5

\* A stop is placed before the one it replaces is given up.
LEMMA StopOrderKeepsGuard ==
  ASSUME IInv, StopsInv, GuardInv, NEW placed \in BOOLEAN, NEW lands \in BOOLEAN,
         EntryStop(placed, lands) \/ BreakevenStop(placed, lands)
  PROVE  GuardInv'
<1>1. /\ stops \subseteq stops' /\ stopsSent' = stopsSent + 1 /\ UNCHANGED <<position, trades>>
      /\ placed => \E s \in stops' : s.id = stopsSent'
  <2>1. ASSUME NEW t, StopOrder(t, lands), placed => lands
        PROVE  /\ stops \subseteq stops' /\ stopsSent' = stopsSent + 1 /\ UNCHANGED position
               /\ placed => \E s \in stops' : s.id = stopsSent'
    <3> DEFINE new == [id |-> stopsSent + 1, trade |-> t, side |-> trades[t].side, qty |-> trades[t].qty]
    <3>1. /\ stopsSent' = stopsSent + 1 /\ UNCHANGED position
          /\ stops' = IF lands THEN stops \cup {new} ELSE stops
      BY <2>1 DEF StopOrder
    <3>2. new.id = stopsSent + 1
      OBVIOUS
    <3> HIDE DEF new
    <3> QED
      BY <2>1, <3>1, <3>2
  <2> QED
    BY <2>1 DEF EntryStop, BreakevenStop
<1>2. /\ oldStop \in Nat /\ stopsSent \in Nat
      /\ oldStop' = oldStop \/ pc' = "idle"
      /\ pc = "be.stop" => oldStop <= stopsSent
  BY StopTypes, BoundsAssumption
     DEF EntryStop, BreakevenStop, GotoOnly, Goto, frameVars, Abort, Leave, IInv, ProcessTypes, GuardInv
<1>3. \/ pc = "en.stop" /\ pc' = "en.saveStop" /\ placed
      \/ pc = "en.stop" /\ pc' = "ks.store" /\ killActive'
      \/ pc = "be.stop" /\ pc' = "be.save" /\ placed /\ UNCHANGED killActive
      \/ pc = "be.stop" /\ pc' = "idle" /\ UNCHANGED killActive
  BY DEF EntryStop, BreakevenStop, GotoOnly, Goto, Abort, Leave, LatchInMemory, safetyVars
<1>4. \A t \in TradeIds : trades[t].status = "OPEN" /\ position.qty # 0 => Guarded(t)'
  BY <1>1, <1>3 DEF GuardInv, Guarded, Placed
<1> QED
  BY <1>1, <1>2, <1>3, <1>4 DEF GuardInv, Placed

\* The stop that is recorded has been placed, and the one that is cancelled
\* afterwards is not the recorded one.
LEMMA SaveStopKeepsGuard ==
  ASSUME IInv, GuardInv, EntrySaveStop \/ BreakevenSave
  PROVE  GuardInv'
<1>1. PICK t \in TradeIds, moved \in BOOLEAN :
        trades[t].status = "OPEN" /\ UpdateStopLoss(t, stopsSent, moved)
  BY DEF EntrySaveStop, BreakevenSave, IInv, ControlRow, IsOpen
<1>2. /\ UNCHANGED <<position, stops, stopsSent, killActive, oldStop>> /\ stopsSent \in 0 .. MaxStops
      /\ pc \in {"en.saveStop", "be.save"} /\ pc' \in {"record", "dedup", "be.cancel"}
      /\ pc' = "be.cancel" => pc = "be.save"
  BY DEF EntrySaveStop, BreakevenSave, GotoOnly, Goto, frameVars, safetyVars, exchangeVars, IInv, AccountInv
<1>3. OnlyChanges(t, "OPEN")
  BY <1>1, <1>2, StopLossUpdateKeepsOpen DEF IInv
<1>4. trades'[t].stopId = stopsSent /\ trades'[t].qty = trades[t].qty
  BY <1>1, StopTypes DEF UpdateStopLoss, IInv, LedgerInv, Trade
<1>5. \A u \in TradeIds : trades'[u].status = "OPEN" => u = t
  BY <1>1, <1>3, OneOpenRow DEF OnlyChanges
<1>6. pc = "be.save" => oldStop < stopsSent /\ oldStop \in Nat /\ stopsSent \in Nat
  BY BoundsAssumption, StopTypes DEF GuardInv, IInv, ProcessTypes
<1>7. position.qty # 0 => Placed(stopsSent) /\ Guarded(t)
  BY <1>1, <1>2 DEF GuardInv
<1>8. position.qty # 0 => Guarded(t)'
  BY <1>2, <1>3, <1>4, <1>7 DEF Guarded, Placed, OnlyChanges
<1>9. pc' = "be.cancel" => oldStop # trades'[t].stopId
  BY <1>2, <1>4, <1>6
<1> QED
  BY <1>2, <1>5, <1>8, <1>9 DEF GuardInv

\* Closing the row, an order that reduces the position, a cancellation.
LEMMA ClosingKeepsGuard ==
  ASSUME IInv, GuardInv, UNCHANGED market,
         \/ KillRecord \/ ExitClose
         \/ \E reply \in Replies, k \in 0 .. MaxQty : KillClose(reply, k) \/ ExitSubmit(reply, k)
         \/ \E lands \in BOOLEAN : ExitCancel(lands)
         \/ \E succeeds, lands \in BOOLEAN : BreakevenCancel(succeeds, lands)
  PROVE  GuardInv'
<1>1. CASE KillRecord \/ ExitClose
  <2>1. trade \in TradeIds /\ trades[trade].status = "OPEN" /\ pc' \in {"record", "ex.cancel"}
    BY <1>1 DEF KillRecord, ExitClose, GotoOnly, Goto, IInv, ControlRow
  <2>2. \E reason \in CloseReasons : CloseTradeRecord(trade, reason)
    BY <1>1 DEF KillRecord, ExitClose, CloseReasons
  <2>3. OnlyChanges(trade, "CLOSED")
    BY <2>1, <2>2, CloseKeepsOrder DEF IInv
  <2>4. \A u \in TradeIds : trades'[u].status # "OPEN"
    BY <2>1, <2>3, OneOpenRow DEF OnlyChanges
  <2> QED
    BY <2>1, <2>4, NothingOpen
<1>2. ASSUME NEW reply \in Replies, NEW k \in 0 .. MaxQty, KillClose(reply, k) \/ ExitSubmit(reply, k)
      PROVE  GuardInv'
  <2>1. /\ UNCHANGED <<trades, stops, stopsSent, killActive>> /\ pc \in {"ks.close", "ex.order"}
        /\ pc' \in {"ks.record", "record", "ex.close", "idle"}
    BY <1>2 DEF KillClose, ExitSubmit, ReduceOrder, GotoOnly, Goto, Abort, Leave, safetyVars
  <2>2. Reduce(trades[trade].side, k) /\ k \in Nat
    BY <1>2, BoundsAssumption DEF KillClose, ExitSubmit, ReduceOrder
  <2>3. position'.qty # 0 => position.qty # 0 /\ position'.side = position.side /\ position'.qty <= position.qty
                             /\ position'.qty \in Nat
    <3>1. position.qty \in Nat /\ position \in [side : Sides, qty : 0 .. MaxQty]
      BY BoundsAssumption, StopTypes DEF IInv, AccountInv
    <3>2. CASE k = position.qty
      BY <2>2, <3>2 DEF Reduce, NoPosition
    <3>3. CASE k # position.qty
      <4>1. position' = [position EXCEPT !.qty = position.qty - k] /\ (k = 0 \/ k <= position.qty)
        BY <2>2, <3>3 DEF Reduce
      <4>2. position'.qty = position.qty - k /\ position'.side = position.side
        BY <3>1, <4>1
      <4> QED
        BY <2>2, <3>1, <3>3, <4>1, <4>2
    <3> QED
      BY <3>2, <3>3
  <2>4. \A t \in TradeIds : trades[t].status = "OPEN" /\ position'.qty # 0 => Guarded(t)'
    <3> SUFFICES ASSUME NEW t \in TradeIds, trades[t].status = "OPEN", position'.qty # 0
                 PROVE  Guarded(t)'
      OBVIOUS
    <3>1. Guarded(t) /\ trades[t].qty \in Nat /\ position.qty \in Nat
      BY <2>3, BoundsAssumption, StopTypes DEF GuardInv, Trade
    <3> QED
      BY <2>1, <2>3, <3>1 DEF Guarded, Placed
  <2> QED
    BY <2>1, <2>4 DEF GuardInv
<1>3. ASSUME NEW lands \in BOOLEAN, ExitCancel(lands)
      PROVE  GuardInv'
  <2>1. UNCHANGED trades /\ pc = "ex.cancel" /\ pc' = "record"
    BY <1>3 DEF ExitCancel, GotoOnly, Goto
  <2>2. \A u \in TradeIds : trades'[u].status # "OPEN"
    BY <2>1 DEF GuardInv
  <2> QED
    BY <2>1, <2>2, NothingOpen
<1>4. ASSUME NEW succeeds \in BOOLEAN, NEW lands \in BOOLEAN, BreakevenCancel(succeeds, lands)
      PROVE  GuardInv'
  <2>1. /\ UNCHANGED <<trades, position, killActive>> /\ pc = "be.cancel" /\ pc' \in {"dedup", "idle"}
        /\ \A s \in stops : s.id # oldStop => s \in stops'
    BY <1>4 DEF BreakevenCancel, CancelStop, GotoOnly, Goto, Abort, Leave, safetyVars
  <2>2. \A t \in TradeIds : trades[t].status = "OPEN" /\ position.qty # 0 => Guarded(t)'
    BY <2>1 DEF GuardInv, Guarded, Placed
  <2> QED
    BY <2>1, <2>2 DEF GuardInv
<1> QED
  BY <1>1, <1>2, <1>3, <1>4

\* One step of any handler, or a stutter, keeps the guard.
LEMMA NextKeepsGuard ==
  ASSUME IInv, StopsInv, GuardInv, "crash" \notin Faults, [Next]_vars
  PROVE  GuardInv'
<1>1. CASE Process /\ UNCHANGED market
  <2>1. CASE RunOnce \/ Start
    BY <1>1, <2>1, RunnerKeepsGuard
  <2>2. CASE Reconciler
    BY <1>1, <2>2, ReconcilerKeepsGuard
  <2>3. CASE Entry
    BY <1>1, <2>3, LocalKeepsGuard, EntryKeepsGuard, StopOrderKeepsGuard, SaveStopKeepsGuard DEF Entry
  <2>4. CASE Unprotected
    BY <1>1, <2>4, LocalKeepsGuard, ClosingKeepsGuard DEF Unprotected
  <2>5. CASE Exit
    BY <1>1, <2>5, LocalKeepsGuard, ClosingKeepsGuard DEF Exit
  <2>6. CASE Breakeven
    BY <1>1, <2>6, LocalKeepsGuard, StopOrderKeepsGuard, SaveStopKeepsGuard, ClosingKeepsGuard DEF Breakeven
  <2> QED
    BY <1>1, <2>1, <2>2, <2>3, <2>4, <2>5, <2>6 DEF Process
<1>2. CASE Failure /\ UNCHANGED market
  BY <1>2, RunnerKeepsGuard
<1>3. CASE Environment \/ UNCHANGED vars
  <2>1. UNCHANGED <<trades, reconcilerVars, frameVars, killActive>> /\ (UNCHANGED exchangeVars \/ Account)
    BY <1>3 DEF Environment, OperatorReset, safetyVars, vars
  <2> QED
    BY <2>1, BesideKeepsGuard
<1> QED
  BY <1>1, <1>2, <1>3 DEF Next

\* As long as no process dies, commits may fail: between polls an OPEN row's
\* position is covered by the very stop the row names, or the latch is set.
THEOREM OpenPositionsAreGuarded ==
  ASSUME "crash" \notin Faults
  PROVE  Spec => []RecordedStopGuards
<1>1. Init => GuardInv
  <2> SUFFICES ASSUME Init PROVE GuardInv
    OBVIOUS
  <2>1. pc = "down" /\ \A t \in TradeIds : trades[t].status = "NONE"
    BY DEF Init, ReconcilerInit, LedgerInit, NoTrade
  <2> QED
    BY <2>1 DEF GuardInv
<1>2. IInv /\ StopsInv /\ GuardInv /\ [Next]_vars => GuardInv'
  BY NextKeepsGuard
<1>3. IInv /\ StopsInv /\ GuardInv => RecordedStopGuards
  <2> SUFFICES ASSUME IInv, StopsInv, GuardInv, NEW t \in TradeIds,
                      pc = "idle", trades[t].status = "OPEN", ~Flat, ~killActive
               PROVE  \E s \in stops : s.id = trades[t].stopId /\ s.qty >= position.qty
    BY DEF RecordedStopGuards
  <2>1. Guarded(t) /\ Owned(trades[t].stopId, t)
    BY DEF GuardInv, Flat, StopsInv, StopBooks
  <2>2. PICK s \in stops : s.id = trades[t].stopId
    BY <2>1 DEF Guarded, Placed
  <2>3. s.trade = t /\ s.qty = trades[t].qty /\ s.qty \in Nat /\ position.qty \in Nat
    BY <2>1, <2>2, BoundsAssumption, StopTypes DEF Owned, StopsInv, StopBooks
  <2> QED
    BY <2>1, <2>2, <2>3 DEF Guarded
<1> QED
  BY <1>1, <1>2, <1>3, StopsBooked, PTL DEF Spec

-----------------------------------------------------------------------------

(* The candle of a trade, while nothing dies and every commit succeeds.    *)

\* From the moment a row is OPEN to the record of its candle.
Booking == {"en.stop", "en.saveStop", "ks.store", "ks.close", "ks.record", "record"}

Ordering == {"en.order", "en.execution"}

Executed(row) == row.status \in {"OPEN", "CLOSED"}
Entered(row) == row.status \notin {"NONE", "FAILED"}

CandleInv ==
  /\ pc \in Ordering => trades[trade].candle = cycle.candle
  /\ \A t \in TradeIds : Executed(trades[t]) =>
       trades[t].candle \in processed \/ (pc \in Booking /\ cycle.candle = trades[t].candle)
  /\ OneEntryPerCandle

\* No row is entered, and a candle that is being booked goes on being booked
\* until it is recorded.
LEMMA BookingGoesOn ==
  ASSUME CandleInv,
         \A t \in TradeIds : /\ trades'[t].candle = trades[t].candle
                             /\ Executed(trades'[t]) => Executed(trades[t])
                             /\ Entered(trades'[t]) => Entered(trades[t]),
         processed \subseteq processed',
         pc \in Booking => (pc' \in Booking /\ cycle' = cycle) \/ cycle.candle \in processed',
         pc' \in Ordering => pc \in Ordering /\ UNCHANGED <<trade, cycle, trades>>
  PROVE  CandleInv'
<1>1. \A t \in TradeIds : Executed(trades'[t]) =>
        trades'[t].candle \in processed' \/ (pc' \in Booking /\ cycle'.candle = trades'[t].candle)
  BY DEF CandleInv
<1>2. OneEntryPerCandle'
  BY DEF CandleInv, OneEntryPerCandle, Entered
<1> QED
  BY <1>1, <1>2 DEF CandleInv, Executed

\* The same for a step that leaves the ledger alone.
LEMMA ControlKeepsCandles ==
  ASSUME CandleInv, UNCHANGED <<trades, processed>>,
         pc \in Booking => pc' \in Booking /\ cycle' = cycle,
         pc' \in Ordering => pc \in Ordering /\ UNCHANGED <<trade, cycle>>
  PROVE  CandleInv'
  BY BookingGoesOn

\* The steps of run_once: a cycle ends when its candle is recorded, and an
\* error ends it only where no row has been opened.
LEMMA RunnerKeepsCandles ==
  ASSUME CandleInv, UNCHANGED market, Faults = {}, RunOnce \/ Failure \/ Start
  PROVE  CandleInv'
<1>1. CASE Finish
  <2>1. /\ UNCHANGED trades /\ processed \subseteq processed' /\ cycle.candle \in processed'
        /\ pc' = "idle"
    BY <1>1 DEF Finish, RecordCycle, Leave
  <2> QED
    BY <2>1, BookingGoesOn DEF Ordering
<1>2. CASE FinishTwice
  <2>1. UNCHANGED <<trades, processed>> /\ cycle.candle \in processed /\ pc' = "idle"
    BY <1>2 DEF FinishTwice, IsCycleProcessed, Abort, Leave, safetyVars
  <2> QED
    BY <2>1, BookingGoesOn DEF Ordering
<1>3. CASE \/ Poll \/ RunReconciled \/ NoBreakeven \/ CallBreakeven \/ SkipDuplicate
           \/ NothingToDo \/ CallExit \/ CallEntry \/ CallRaises \/ ExactStopRaises \/ Start
  <2>1. UNCHANGED <<trades, processed>> /\ pc \notin Booking
    BY <1>3 DEF Poll, RunReconciled, NoBreakeven, CallBreakeven, SkipDuplicate, NothingToDo,
         CallExit, CallEntry, CallRaises, ExactStopRaises, Start, NetworkCall, LoadKillSwitch,
         safetyVars, Booking
  <2>2. pc' \notin Ordering
    BY <1>3 DEF Poll, RunReconciled, NoBreakeven, CallBreakeven, SkipDuplicate, NothingToDo,
         CallExit, CallEntry, CallRaises, ExactStopRaises, Start, CallReconcile, GotoOnly, Goto,
         Invoke, Abort, Leave, Ordering
  <2> QED
    BY <2>1, <2>2, ControlKeepsCandles
<1> QED
  BY <1>1, <1>2, <1>3 DEF RunOnce, Failure, DatabaseFailsAfterStop, Crash

\* reconcile closes rows, and never stands between an order and its record.
LEMMA ReconcilerKeepsCandles ==
  ASSUME IInv, CandleInv, Reconciler
  PROVE  CandleInv'
<1>1. UNCHANGED processed /\ pc \in {"rec.positions", "rec.decide"} /\ pc' \in {"rec.decide"} \cup Callers
  BY DEF Reconciler, Reconcile, ReadPositions, ReconcileDecide, SeenExposure, CloseLocalRecord, SeenFlat,
         Return, safetyVars, IInv, ControlCycle
<1>2. pc \notin Booking /\ pc' \notin Ordering
  BY <1>1 DEF Booking, Ordering, Callers
<1>3. CASE UNCHANGED trades
  BY <1>1, <1>2, <1>3, ControlKeepsCandles
<1>4. CASE CloseLocalRecord
  <2> DEFINE t == ActiveTrade
  <2>0. t \in TradeIds /\ trades[t].status = "OPEN" /\ CloseFromHistory(t)
    BY <1>4 DEF CloseLocalRecord, IsOpen
  <2>1. PICK reason \in CloseReasons : CloseTradeRecord(t, reason)
    BY <2>0, HistoryGivesReason
  <2> HIDE DEF t
  <2>2. \A u \in TradeIds : /\ trades'[u].candle = trades[u].candle
                            /\ Executed(trades'[u]) => Executed(trades[u])
                            /\ Entered(trades'[u]) => Entered(trades[u])
    BY <2>0, <2>1, StopTypes DEF CloseTradeRecord, IInv, LedgerInv, Trade, Executed, Entered
  <2> QED
    BY <1>1, <1>2, <2>2, BookingGoesOn
<1> QED
  BY <1>3, <1>4 DEF Reconciler, Reconcile, ReadPositions, ReconcileDecide, SeenExposure, SeenFlat

\* A row is created for a candle that is not processed, beside rows that are
\* all closed and recorded.
LEMMA CreateKeepsCandles ==
  ASSUME IInv, CandleInv, EntryCreate
  PROVE  CandleInv'
<1>1. PICK t \in TradeIds : CreateTradeRecord(t, cycle.signal, cycle.candle) /\ trade' = t
  BY DEF EntryCreate
<1>2. /\ ActiveIds = {} /\ cycle.signal \in Sides /\ cycle.candle \in 0 .. MaxCandle
      /\ cycle.candle \notin processed
  BY DEF EntryCreate, IInv, ControlAccount, ControlCycle, InEntry, ProcessTypes
<1>3. /\ trades'[t].status = "PENDING" /\ trades'[t].candle = cycle.candle
      /\ \A u \in TradeIds \ {t} : trades'[u] = trades[u]
  BY <1>1, <1>2, CreateKeepsOrder DEF IInv
<1>4. pc = "en.create" /\ pc' = "en.order" /\ UNCHANGED <<cycle, processed>>
  BY DEF EntryCreate, Goto, safetyVars
<1>5. \A u \in TradeIds : Entered(trades[u]) => Executed(trades[u]) /\ trades[u].candle \in processed
  <2> SUFFICES ASSUME NEW u \in TradeIds, Entered(trades[u])
               PROVE  Executed(trades[u]) /\ trades[u].candle \in processed
    OBVIOUS
  <2>1. trades[u].status \in Statuses /\ ~IsActive(u)
    BY <1>2, StopTypes DEF ActiveIds, Trade
  <2>2. Executed(trades[u])
    BY <2>1 DEF Entered, Executed, IsActive, ActiveStatuses, Statuses
  <2> QED
    BY <1>4, <2>2 DEF CandleInv, Booking
<1>6. OneEntryPerCandle'
  <2> SUFFICES ASSUME NEW u \in TradeIds, NEW v \in TradeIds,
                      Entered(trades'[u]), Entered(trades'[v]), trades'[u].candle = trades'[v].candle
               PROVE  u = v
    BY DEF OneEntryPerCandle, Entered
  <2> QED
    BY <1>2, <1>3, <1>5 DEF CandleInv, OneEntryPerCandle, Entered
<1> QED
  BY <1>1, <1>3, <1>4, <1>5, <1>6 DEF CandleInv, Executed, Entered

\* The executor.
LEMMA ExecutorKeepsCandles ==
  ASSUME IInv, CandleInv, Entry \/ Unprotected \/ Exit \/ Breakeven
  PROVE  CandleInv'
<1>1. CASE EntryCreate
  BY <1>1, CreateKeepsCandles
<1>2. CASE EntryExecution
  <2>1. PICK onTick \in BOOLEAN : UpdateTradeExecution(trade, fill, onTick)
    BY <1>2 DEF EntryExecution
  <2>2. /\ trade \in TradeIds /\ trades[trade].status = "PENDING"
        /\ pc = "en.execution" /\ pc' = "en.stop" /\ UNCHANGED <<cycle, processed>>
    BY <1>2 DEF EntryExecution, GotoOnly, Goto, frameVars, safetyVars, IInv, ControlRow
  <2>3. \A u \in TradeIds : /\ trades'[u].candle = trades[u].candle
                            /\ Entered(trades'[u]) => Entered(trades[u])
                            /\ u # trade => trades'[u] = trades[u]
    BY <2>1, <2>2, StopTypes DEF UpdateTradeExecution, IInv, LedgerInv, Trade, Entered
  <2>4. \A u \in TradeIds : Executed(trades'[u]) =>
          trades'[u].candle \in processed' \/ (pc' \in Booking /\ cycle'.candle = trades'[u].candle)
    BY <2>2, <2>3 DEF CandleInv, Booking, Ordering
  <2>5. OneEntryPerCandle'
    BY <2>3 DEF CandleInv, OneEntryPerCandle, Entered
  <2> QED
    BY <2>2, <2>4, <2>5 DEF CandleInv, Executed, Ordering
<1>3. ASSUME NEW t \in TradeIds, trades[t].status \in {"PENDING", "OPEN"},
             \/ MarkTradeFailed(t) /\ trades[t].status = "PENDING"
             \/ \E reason : CloseTradeRecord(t, reason) /\ trades[t].status = "OPEN"
             \/ \E id, moved : UpdateStopLoss(t, id, moved)
      PROVE  \A u \in TradeIds : /\ trades'[u].candle = trades[u].candle
                                 /\ Executed(trades'[u]) => Executed(trades[u])
                                 /\ Entered(trades'[u]) => Entered(trades[u])
  <2> DEFINE Kept(u) == /\ trades'[u].candle = trades[u].candle
                        /\ Executed(trades'[u]) => Executed(trades[u])
                        /\ Entered(trades'[u]) => Entered(trades[u])
  <2>1. trades \in [TradeIds -> Trade] /\ trades[t] \in Trade
    BY <1>3, StopTypes DEF IInv, LedgerInv
  <2>2. CASE MarkTradeFailed(t) /\ trades[t].status = "PENDING"
    <3>1. \A u \in TradeIds : Kept(u)
      BY <2>1, <2>2 DEF MarkTradeFailed, Trade, Executed, Entered
    <3> QED
      BY <3>1
  <2>3. ASSUME NEW reason, CloseTradeRecord(t, reason), trades[t].status = "OPEN"
        PROVE  \A u \in TradeIds : Kept(u)
    BY <2>1, <2>3 DEF CloseTradeRecord, Trade, Executed, Entered
  <2>4. ASSUME NEW id, NEW moved, UpdateStopLoss(t, id, moved)
        PROVE  \A u \in TradeIds : Kept(u)
    BY <2>1, <2>4 DEF UpdateStopLoss, Trade, Executed, Entered
  <2> QED
    BY <1>3, <2>2, <2>3, <2>4
<1>4. CASE EntryFailed \/ EntrySaveStop \/ KillRecord \/ ExitClose \/ BreakevenSave
  <2>1. \A u \in TradeIds : /\ trades'[u].candle = trades[u].candle
                            /\ Executed(trades'[u]) => Executed(trades[u])
                            /\ Entered(trades'[u]) => Entered(trades[u])
    BY <1>3, <1>4 DEF EntryFailed, EntrySaveStop, KillRecord, ExitClose, BreakevenSave, IInv, ControlRow,
                      IsOpen
  <2>2. UNCHANGED processed
    BY <1>4 DEF EntryFailed, EntrySaveStop, KillRecord, ExitClose, BreakevenSave, safetyVars
  <2>3. pc \in Booking => pc' \in Booking /\ cycle' = cycle
    BY <1>4 DEF EntryFailed, EntrySaveStop, KillRecord, ExitClose, BreakevenSave, GotoOnly, Goto, frameVars,
                Booking
  <2>4. pc' \notin Ordering
    BY <1>4 DEF EntryFailed, EntrySaveStop, KillRecord, ExitClose, BreakevenSave, GotoOnly, Goto,
                Abort, Leave, Ordering
  <2> QED
    BY <2>1, <2>2, <2>3, <2>4, BookingGoesOn
<1>5. CASE \/ \E reply \in Replies, k \in 0 .. MaxQty : EntrySubmit(reply, k)
  <2>1. /\ UNCHANGED <<trades, processed>> /\ pc = "en.order"
        /\ pc' \in Ordering => UNCHANGED <<trade, cycle>>
    BY <1>5 DEF EntrySubmit, GotoOnly, Goto, frameVars, Abort, Leave, safetyVars, Ordering
  <2> QED
    BY <2>1, ControlKeepsCandles DEF Ordering, Booking
<1>6. CASE \/ EntryReconciled \/ EntryCanOpen \/ EntryStopRefused \/ KillStore \/ ExitReconciled
           \/ \E triggered \in BOOLEAN : BreakevenReconciled(triggered)
           \/ \E placed, lands \in BOOLEAN : EntryStop(placed, lands) \/ BreakevenStop(placed, lands)
           \/ \E reply \in Replies, k \in 0 .. MaxQty : KillClose(reply, k) \/ ExitSubmit(reply, k)
           \/ \E lands \in BOOLEAN : ExitCancel(lands)
           \/ \E succeeds, lands \in BOOLEAN : BreakevenCancel(succeeds, lands)
  <2>1. UNCHANGED <<trades, processed>>
    BY <1>6 DEF EntryReconciled, EntryCanOpen, EntryStopRefused, KillStore, ExitReconciled,
         BreakevenReconciled, EntryStop, BreakevenStop, KillClose, ExitSubmit, ExitCancel, BreakevenCancel,
         LatchInMemory, StoreLatch, safetyVars
  <2>2. pc \in Booking => pc' \in Booking /\ cycle' = cycle
    BY <1>6 DEF EntryReconciled, EntryCanOpen, EntryStopRefused, KillStore, ExitReconciled,
         BreakevenReconciled, EntryStop, BreakevenStop, KillClose, ExitSubmit, ExitCancel, BreakevenCancel,
         GotoOnly, Goto, frameVars, Booking
  <2>3. pc' \notin Ordering
    BY <1>6 DEF EntryReconciled, EntryCanOpen, EntryStopRefused, KillStore, ExitReconciled,
         BreakevenReconciled, EntryStop, BreakevenStop, KillClose, ExitSubmit, ExitCancel, BreakevenCancel,
         GotoOnly, Goto, Abort, Leave, Ordering
  <2> QED
    BY <2>1, <2>2, <2>3, ControlKeepsCandles
<1> QED
  BY <1>1, <1>2, <1>4, <1>5, <1>6 DEF Entry, Unprotected, Exit, Breakeven

\* One step of any handler, or a stutter, keeps the candles apart.
LEMMA NextKeepsCandles ==
  ASSUME IInv, CandleInv, Faults = {}, [Next]_vars
  PROVE  CandleInv'
<1>1. CASE (Process \/ Failure) /\ UNCHANGED market
  BY <1>1, RunnerKeepsCandles, ReconcilerKeepsCandles, ExecutorKeepsCandles DEF Process
<1>2. CASE Environment \/ UNCHANGED vars
  <2>1. UNCHANGED <<trades, processed, pc, trade, cycle>>
    BY <1>2 DEF Environment, OperatorReset, safetyVars, reconcilerVars, frameVars, vars
  <2> QED
    BY <2>1, ControlKeepsCandles
<1> QED
  BY <1>1, <1>2 DEF Next

\* As long as no process dies and every commit succeeds, a candle starts at
\* most one trade whose order was not rejected.
THEOREM CandlesTradeOnce ==
  ASSUME Faults = {}
  PROVE  Spec => []OneEntryPerCandle
<1>1. Init => CandleInv
  <2> SUFFICES ASSUME Init PROVE CandleInv
    OBVIOUS
  <2>1. pc = "down" /\ \A t \in TradeIds : trades[t].status = "NONE"
    BY DEF Init, ReconcilerInit, LedgerInit, NoTrade
  <2> QED
    BY <2>1 DEF CandleInv, Ordering, Executed, OneEntryPerCandle
<1>2. IInv /\ CandleInv /\ [Next]_vars => CandleInv'
  BY NextKeepsCandles
<1>3. CandleInv => OneEntryPerCandle
  BY DEF CandleInv
<1> QED
  BY <1>1, <1>2, <1>3, InvariantHolds, PTL DEF Spec
=============================================================================
