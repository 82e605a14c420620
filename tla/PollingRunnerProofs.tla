------------------------ MODULE PollingRunnerProofs ------------------------

(***************************************************************************)
(* Invariance proofs for the trading core, for every number of rows, stop  *)
(* orders and candles, every order size and every set of faults; and its   *)
(* refinement: the steps of the runner, seen through the ledger, the       *)
(* position and the order in flight, are steps of OneTradeAtATime.         *)
(***************************************************************************)
EXTENDS PollingRunner, TLAPS

-----------------------------------------------------------------------------
(* What the transactions of the ledger preserve, whoever calls them.  The  *)
(* proofs about the runner cite these lemmas instead of the rows.          *)

\* Rows are created in order, and an active row is the newest one.
LedgerOrder ==
  /\ \A t, u \in TradeIds : u < t /\ trades[u].status = "NONE" => trades[t].status = "NONE"
  /\ \A t, u \in TradeIds : t < u /\ IsActive(t) => trades[u].status = "NONE"

OpenHasQuantity ==
  \A t \in TradeIds : trades[t].status = "OPEN" => trades[t].qty \in 1 .. MaxQty

LedgerInv ==
  /\ trades \in [TradeIds -> Trade]
  /\ LedgerOrder
  /\ OpenHasQuantity

\* Only the row t differs, and it now has this status.
OnlyChanges(t, status) ==
  /\ trades'[t].status = status
  /\ trades'[t].side = trades[t].side
  /\ \A u \in TradeIds \ {t} : trades'[u] = trades[u]

-----------------------------------------------------------------------------
\* The empty ledger satisfies the invariant.
LEMMA LedgerStarts == LedgerInit => LedgerInv
  BY BoundsAssumption
     DEF LedgerInit, LedgerInv, LedgerOrder, OpenHasQuantity, NoTrade, Trade, Sides,
         Statuses, CloseReasons, IsActive, ActiveStatuses

\* A step that leaves the rows alone leaves everything known of them alone.
LEMMA LedgerUntouched ==
  ASSUME LedgerInv, UNCHANGED trades
  PROVE  /\ LedgerInv'
         /\ ActiveIds' = ActiveIds
         /\ ActiveTrade' = ActiveTrade
  BY DEF LedgerInv, LedgerOrder, OpenHasQuantity, IsActive, ActiveIds, ActiveTrade

\* get_active_trade returns the one active row, or None when there is none.
LEMMA ActiveTradeIsTheActiveOne ==
  ASSUME LedgerInv
  PROVE  /\ ActiveIds = {} => ActiveTrade = 0
         /\ \A t \in TradeIds : IsActive(t) => ActiveTrade = t
         /\ ActiveTrade # 0 => ActiveTrade \in TradeIds /\ IsActive(ActiveTrade)
         /\ ActiveTrade = 0 => ActiveIds = {}
         /\ IsOpen(ActiveTrade) => trades[ActiveTrade].status = "OPEN"
<1>1. ActiveIds = {} => ActiveTrade = 0
  BY DEF ActiveTrade
<1>2. ASSUME NEW t \in TradeIds, IsActive(t)
      PROVE  ActiveTrade = t /\ ActiveIds = {t}
  <2>1. ActiveIds = {t}
    <3>1. ASSUME NEW u \in TradeIds, IsActive(u) PROVE u = t
      BY <1>2, <3>1 DEF LedgerInv, LedgerOrder, IsActive, ActiveStatuses, TradeIds
    <3>2. QED
      BY <1>2, <3>1 DEF ActiveIds
  <2>2. ActiveTrade = CHOOSE u \in {t} : \A v \in {t} : v <= u
    BY <2>1 DEF ActiveTrade
  <2>3. \A v \in {t} : v <= t
    BY DEF TradeIds
  <2>4. QED
    BY <2>1, <2>2, <2>3
<1>3. ActiveIds # {} => \E t \in TradeIds : IsActive(t)
  BY DEF ActiveIds
<1>4. 0 \notin TradeIds
  BY DEF TradeIds
<1>5. QED
  BY <1>1, <1>2, <1>3, <1>4 DEF IsOpen

-----------------------------------------------------------------------------
\* create_trade_record on a ledger without active rows.
LEMMA CreateKeepsOrder ==
  ASSUME LedgerInv, ActiveIds = {},
         NEW t \in TradeIds, NEW side \in Sides, NEW candle \in 0 .. MaxCandle,
         CreateTradeRecord(t, side, candle)
  PROVE  /\ LedgerInv'
         /\ trades[t].status = "NONE"
         /\ trades'[t].status = "PENDING"
         /\ trades'[t].side = side
         /\ trades'[t].candle = candle
         /\ \A u \in TradeIds \ {t} : trades'[u] = trades[u]
<1> DEFINE row == [NoTrade EXCEPT !.status = "PENDING", !.side = side, !.candle = candle]
<1>1. NoTrade \in Trade
  BY BoundsAssumption DEF NoTrade, Trade, Statuses, Sides, CloseReasons
<1>2. row \in Trade /\ row.status = "PENDING" /\ row.side = side /\ row.candle = candle
  BY <1>1 DEF Trade, Statuses
<1> HIDE DEF row
<1>3. trades' = [trades EXCEPT ![t] = row] /\ IsNextId(t)
  BY DEF CreateTradeRecord, row
<1>4. /\ trades' \in [TradeIds -> Trade]
      /\ trades'[t] = row
      /\ \A u \in TradeIds \ {t} : trades'[u] = trades[u]
  BY <1>2, <1>3 DEF LedgerInv
<1>5. \A u \in TradeIds : ~IsActive(u)
  BY DEF ActiveIds
<1>6. LedgerOrder'
  <2>1. \A u \in TradeIds : t < u => trades[u].status = "NONE"
    BY <1>3 DEF IsNextId, LedgerInv, LedgerOrder
  <2>2. QED
    BY <1>2, <1>3, <1>4, <1>5, <2>1
       DEF IsNextId, LedgerOrder, LedgerInv, IsActive, ActiveStatuses, TradeIds
<1>7. OpenHasQuantity'
  BY <1>2, <1>4 DEF LedgerInv, OpenHasQuantity
<1>8. QED
  BY <1>2, <1>3, <1>4, <1>6, <1>7 DEF LedgerInv, IsNextId

\* A change of one existing row that keeps it active or makes it inactive
\* keeps the order of the rows.
LEMMA RowUpdateKeepsOrder ==
  ASSUME LedgerInv, NEW t \in TradeIds, NEW row \in Trade,
         trades' = [trades EXCEPT ![t] = row],
         IsActive(t), row.status # "NONE",
         row.status = "OPEN" => row.qty \in 1 .. MaxQty
  PROVE  LedgerInv'
<1>1. /\ trades' \in [TradeIds -> Trade]
      /\ trades'[t] = row
      /\ \A u \in TradeIds \ {t} : trades'[u] = trades[u]
  BY DEF LedgerInv
<1>2. LedgerOrder'
  BY <1>1 DEF LedgerInv, LedgerOrder, IsActive, ActiveStatuses, TradeIds
<1>3. OpenHasQuantity'
  BY <1>1 DEF LedgerInv, OpenHasQuantity
<1>4. QED
  BY <1>1, <1>2, <1>3 DEF LedgerInv

\* update_trade_execution of a PENDING row with a confirmed fill.
LEMMA ExecutionOpens ==
  ASSUME LedgerInv, NEW t \in TradeIds, NEW qty \in 1 .. MaxQty, NEW onTick \in BOOLEAN,
         trades[t].status = "PENDING", UpdateTradeExecution(t, qty, onTick)
  PROVE  LedgerInv' /\ OnlyChanges(t, "OPEN")
<1> DEFINE row == [trades[t] EXCEPT !.status = "OPEN", !.qty = qty, !.onTick = onTick]
<1>1. trades[t] \in Trade
  BY DEF LedgerInv
<1>2. row \in Trade /\ row.status = "OPEN" /\ row.qty = qty /\ row.side = trades[t].side
  <2>1. qty \in 0 .. MaxQty
    BY BoundsAssumption
  <2>2. QED
    BY <1>1, <2>1 DEF Trade, Statuses
<1>3. trades' = [trades EXCEPT ![t] = row]
  BY DEF UpdateTradeExecution, LedgerInv
<1> HIDE DEF row
<1>4. IsActive(t)
  BY DEF IsActive, ActiveStatuses
<1>5. LedgerInv'
  BY <1>2, <1>3, <1>4, RowUpdateKeepsOrder
<1>6. QED
  BY <1>2, <1>3, <1>5 DEF LedgerInv, OnlyChanges

\* update_stop_loss of an OPEN row.
LEMMA StopLossUpdateKeepsOpen ==
  ASSUME LedgerInv, NEW t \in TradeIds, NEW id \in 0 .. MaxStops, NEW moved \in BOOLEAN,
         trades[t].status = "OPEN", UpdateStopLoss(t, id, moved)
  PROVE  LedgerInv' /\ OnlyChanges(t, "OPEN")
<1> DEFINE row == [trades[t] EXCEPT !.stopId = id, !.moved = moved]
<1>1. trades[t] \in Trade
  BY DEF LedgerInv
<1>2. row \in Trade /\ row.status = "OPEN" /\ row.qty = trades[t].qty /\ row.side = trades[t].side
  BY <1>1 DEF Trade
<1>3. trades' = [trades EXCEPT ![t] = row]
  BY DEF UpdateStopLoss, LedgerInv
<1> HIDE DEF row
<1>4. IsActive(t) /\ trades[t].qty \in 1 .. MaxQty
  BY DEF IsActive, ActiveStatuses, LedgerInv, OpenHasQuantity
<1>5. LedgerInv'
  BY <1>2, <1>3, <1>4, RowUpdateKeepsOrder
<1>6. QED
  BY <1>2, <1>3, <1>5 DEF LedgerInv, OnlyChanges

\* close_trade_record of an OPEN row.
LEMMA CloseKeepsOrder ==
  ASSUME LedgerInv, NEW t \in TradeIds, NEW reason \in CloseReasons,
         trades[t].status = "OPEN", CloseTradeRecord(t, reason)
  PROVE  LedgerInv' /\ OnlyChanges(t, "CLOSED")
<1> DEFINE row == [trades[t] EXCEPT !.status = "CLOSED", !.reason = reason]
<1>1. trades[t] \in Trade
  BY DEF LedgerInv
<1>2. row \in Trade /\ row.status = "CLOSED" /\ row.side = trades[t].side
  BY <1>1 DEF Trade, Statuses
<1>3. trades' = [trades EXCEPT ![t] = row]
  BY DEF CloseTradeRecord, LedgerInv
<1> HIDE DEF row
<1>4. IsActive(t)
  BY DEF IsActive, ActiveStatuses
<1>5. LedgerInv'
  BY <1>2, <1>3, <1>4, RowUpdateKeepsOrder
<1>6. QED
  BY <1>2, <1>3, <1>5 DEF LedgerInv, OnlyChanges

\* mark_trade_failed of a PENDING row.
LEMMA FailureKeepsOrder ==
  ASSUME LedgerInv, NEW t \in TradeIds,
         trades[t].status = "PENDING", MarkTradeFailed(t)
  PROVE  LedgerInv' /\ OnlyChanges(t, "FAILED")
<1> DEFINE row == [trades[t] EXCEPT !.status = "FAILED"]
<1>1. trades[t] \in Trade
  BY DEF LedgerInv
<1>2. row \in Trade /\ row.status = "FAILED" /\ row.side = trades[t].side
  BY <1>1 DEF Trade, Statuses
<1>3. trades' = [trades EXCEPT ![t] = row]
  BY DEF MarkTradeFailed, LedgerInv
<1> HIDE DEF row
<1>4. IsActive(t)
  BY DEF IsActive, ActiveStatuses
<1>5. LedgerInv'
  BY <1>2, <1>3, <1>4, RowUpdateKeepsOrder
<1>6. QED
  BY <1>2, <1>3, <1>5 DEF LedgerInv, OnlyChanges

-----------------------------------------------------------------------------

(* The inductive invariant, in named parts. *)

AccountInv ==
  /\ position \in [side : Sides, qty : 0 .. MaxQty]
  /\ position.qty = 0 => position = NoPosition
  /\ stops \subseteq Stop
  /\ stopsSent \in 0 .. MaxStops
  /\ stopFills \subseteq StopIds
  /\ finished \subseteq StopIds
  /\ exitFills \subseteq TradeIds

SafetyTypes ==
  /\ killActive \in BOOLEAN
  /\ killStored \in BOOLEAN
  /\ processed \subseteq Candles

ProcessTypes ==
  /\ pc \in RunnerStates
  /\ returnTo \in Callers \cup {"none"}
  /\ seen \in [side : Sides, qty : 0 .. MaxQty]
  /\ rec \in RecActions
  /\ cycle \in [candle : 0 .. MaxCandle, signal : Signals]
  /\ trade \in 0 .. MaxTrades
  /\ fill \in 0 .. MaxQty
  /\ oldStop \in 0 .. MaxStops

MarketType == market \in [candle : Candles, signal : Signals]

\* The window of execute_entry from its call to its order.
InEntry ==
  \/ pc \in {"en.reconciled", "en.canOpen", "en.create"}
  \/ pc \in {"rec.positions", "rec.decide"} /\ returnTo = "en.reconciled"

\* Where control stands determines what is known of the frame and the row.
ControlCycle ==
  /\ pc \notin {"down", "idle"} => cycle.candle \in Candles
  /\ pc \in {"rec.positions", "rec.decide"} => returnTo \in Callers
  /\ InEntry => cycle.signal \in Sides /\ cycle.candle \notin processed /\ ~killActive

ControlAccount ==
  /\ pc = "en.create" => ActiveIds = {} /\ stops = {}
  /\ pc \in {"en.create", "en.order", "en.failed"} => position.qty = 0

ControlRow ==
  /\ pc \in {"en.order", "en.failed", "en.execution"}
       => trade \in TradeIds /\ trades[trade].status = "PENDING"
  /\ pc = "en.execution" => fill \in 1 .. MaxQty
  /\ pc \in {"en.stop", "en.saveStop", "ks.store", "ks.close", "ks.record",
             "ex.order", "ex.close"}
       => trade \in TradeIds /\ trades[trade].status = "OPEN"
  /\ pc \in {"be.stop", "be.save"} => IsOpen(ActiveTrade)

\* A running process has loaded whatever latch is stored, and latches its own
\* memory before it stores.
LatchLoaded ==
  /\ killStored /\ pc # "down" => killActive
  /\ pc = "ks.store" => killActive

IInv ==
  /\ LedgerInv
  /\ AccountInv
  /\ SafetyTypes
  /\ ProcessTypes
  /\ MarketType
  /\ ControlCycle
  /\ ControlAccount
  /\ ControlRow
  /\ LatchLoaded
  /\ NoStopOutlivesItsTrade

-----------------------------------------------------------------------------

(* What the account operations preserve. *)

\* What the history says of a close is one of the reasons.
LEMMA HistoryGivesReason ==
  ASSUME NEW t, CloseFromHistory(t)
  PROVE  \E reason \in CloseReasons : CloseTradeRecord(t, reason)
<1>1. PICK listed \in Listings(trades[t].stopId) : CloseTradeRecord(t, ExternalCloseReason(t, listed))
  BY DEF CloseFromHistory
<1>2. ExternalCloseReason(t, listed) \in CloseReasons
  BY DEF ExternalCloseReason, CloseReasons
<1>3. QED
  BY <1>1, <1>2

\* reduceOnly orders keep the position within one sized entry, never enlarge
\* it and never reopen a flat one.
LEMMA ReduceShrinks ==
  ASSUME AccountInv, NEW side \in Sides, NEW k \in Nat, Reduce(side, k)
  PROVE  /\ position' \in [side : Sides, qty : 0 .. MaxQty]
         /\ exitFills' \subseteq TradeIds
         /\ position'.qty = 0 => position' = NoPosition
         /\ position.qty = 0 => position'.qty = 0
<1>1. NoPosition \in [side : Sides, qty : 0 .. MaxQty] /\ NoPosition.qty = 0
  BY BoundsAssumption DEF NoPosition, Sides
<1>2. CASE k = position.qty
  BY <1>1, <1>2 DEF Reduce, AccountInv, Credited
<1>3. CASE k # position.qty
  <2>1. position' = [position EXCEPT !.qty = position.qty - k]
    BY <1>3 DEF Reduce
  <2>2. position.qty - k \in 1 .. MaxQty /\ (position.qty = 0 => k = 0)
    BY <1>3, BoundsAssumption DEF Reduce, AccountInv
  <2>3. exitFills' \subseteq TradeIds
    BY <1>3 DEF Reduce, AccountInv, Credited
  <2>4. QED
    BY <2>1, <2>2, <2>3, BoundsAssumption DEF AccountInv
<1>4. QED
  BY <1>2, <1>3

\* A closing market order.
LEMMA ReduceOrderKeeps ==
  ASSUME AccountInv, NEW side \in Sides, NEW qty \in 0 .. MaxQty, NEW k \in 0 .. MaxQty,
         ReduceOrder(side, qty, k)
  PROVE  AccountInv' /\ UNCHANGED <<stops, stopsSent, stopFills, finished>>
<1>1. k \in Nat
  BY BoundsAssumption
<1>2. QED
  BY <1>1, ReduceShrinks DEF ReduceOrder, AccountInv

\* A stop placed for the newest row keeps stops with their trades.
LEMMA StopOrderKeeps ==
  ASSUME LedgerInv, AccountInv, NoStopOutlivesItsTrade, UNCHANGED trades,
         NEW t \in TradeIds, trades[t].status = "OPEN", NEW lands \in BOOLEAN,
         StopOrder(t, lands)
  PROVE  AccountInv' /\ NoStopOutlivesItsTrade'
<1> DEFINE new == [id |-> stopsSent + 1, trade |-> t, side |-> trades[t].side, qty |-> trades[t].qty]
<1>1. stopsSent + 1 \in StopIds /\ stopsSent' \in 0 .. MaxStops
  BY BoundsAssumption DEF StopOrder, AccountInv, StopIds
<1>2. trades[t].side \in Sides /\ trades[t].qty \in 1 .. MaxQty
  BY DEF LedgerInv, OpenHasQuantity, Trade
<1>3. new \in Stop /\ new.trade = t
  BY <1>1, <1>2 DEF Stop
<1> HIDE DEF new
<1>4. stops' = stops \/ stops' = stops \cup {new}
  BY DEF StopOrder, new
<1>5. \A u \in TradeIds : u > t => trades[u].status = "NONE"
  BY DEF LedgerInv, LedgerOrder, IsActive, ActiveStatuses, TradeIds
<1>6. NoStopOutlivesItsTrade'
  BY <1>3, <1>4, <1>5 DEF NoStopOutlivesItsTrade
<1>7. AccountInv'
  BY <1>1, <1>3, <1>4 DEF AccountInv, StopOrder
<1>8. QED
  BY <1>6, <1>7

\* Whatever the account does by itself only removes stops and exposure.
LEMMA AccountKeeps ==
  ASSUME AccountInv, NoStopOutlivesItsTrade, UNCHANGED trades, Account
  PROVE  /\ AccountInv'
         /\ NoStopOutlivesItsTrade'
         /\ stops' \subseteq stops
         /\ position.qty = 0 => position'.qty = 0
<1>1. CASE ClosedOutside
  <2>1. position.side \in Sides /\ position.qty \in Nat
    BY BoundsAssumption DEF AccountInv
  <2>2. QED
    BY <1>1, <2>1, ReduceShrinks DEF ClosedOutside, AccountInv, NoStopOutlivesItsTrade
<1>2. ASSUME NEW s \in stops, StopTriggers(s)
      PROVE  /\ AccountInv'
             /\ stops' \subseteq stops
             /\ position.qty = 0 => position'.qty = 0
  <2> DEFINE k == IF position.side # s.side THEN 0
                  ELSE IF s.qty < position.qty THEN s.qty ELSE position.qty
  <2>1. s \in Stop
    BY DEF AccountInv
  <2>2. s.side \in Sides /\ s.id \in StopIds /\ k \in Nat
    BY <2>1, BoundsAssumption DEF Stop, AccountInv
  <2>3. Reduce(s.side, k) /\ stops' = stops \ {s} /\ stopsSent' = stopsSent
    BY <1>2 DEF StopTriggers
  <2>4. stopFills' \subseteq StopIds /\ finished' \subseteq StopIds
    BY <1>2, <2>2 DEF StopTriggers, AccountInv
  <2> HIDE DEF k
  <2>5. QED
    BY <2>2, <2>3, <2>4, ReduceShrinks DEF AccountInv
<1>3. ASSUME NEW s \in stops, OrphanCancelled(s)
      PROVE  AccountInv' /\ stops' \subseteq stops /\ position' = position
  BY <1>3 DEF OrphanCancelled, AccountInv
<1>4. /\ AccountInv'
      /\ stops' \subseteq stops
      /\ position.qty = 0 => position'.qty = 0
  BY <1>1, <1>2, <1>3, ReduceShrinks DEF Account, ClosedOutside, AccountInv
<1>5. NoStopOutlivesItsTrade'
  BY <1>4 DEF NoStopOutlivesItsTrade
<1>6. QED
  BY <1>4, <1>5
-----------------------------------------------------------------------------

(* The initial states. *)

(* An empty account and an empty ledger satisfy the invariant.               *)
LEMMA InitEstablishesInv == Init => IInv
<1> SUFFICES ASSUME Init PROVE IInv
  OBVIOUS
<1> USE BoundsAssumption DEF Init
<1>1. LedgerInv
  BY LedgerStarts
<1>2. NoPosition \in [side : Sides, qty : 0 .. MaxQty]
  BY DEF NoPosition, Sides
<1>3. AccountInv /\ NoStopOutlivesItsTrade
  BY <1>2 DEF ExchangeInit, AccountInv, NoStopOutlivesItsTrade
<1>4. SafetyTypes
  BY DEF SafetyInit, SafetyTypes
<1>5. ProcessTypes
  BY <1>2 DEF ReconcilerInit, FrameInit, NoCycle, ProcessTypes, RunnerStates, RecActions, Signals
<1>6. MarketType
  BY DEF MarketType, Candles
<1>7. ControlCycle /\ ControlAccount /\ ControlRow /\ LatchLoaded
  BY DEF ReconcilerInit, ControlCycle, ControlAccount, ControlRow, LatchLoaded, InEntry
<1>8. QED
  BY <1>1, <1>3, <1>4, <1>5, <1>6, <1>7 DEF IInv

-----------------------------------------------------------------------------

(* Steps that change neither the ledger nor the account. *)

\* For such a step it is enough to look at the process and the latch.
LEMMA QuietStep ==
  ASSUME IInv, UNCHANGED <<trades, exchangeVars, market>>,
         SafetyTypes', ProcessTypes', ControlCycle', LatchLoaded',
         ControlAccount', ControlRow'
  PROVE  IInv'
<1>1. LedgerInv'
  BY LedgerUntouched DEF IInv
<1>2. AccountInv' /\ NoStopOutlivesItsTrade' /\ MarketType'
  BY DEF IInv, exchangeVars, AccountInv, NoStopOutlivesItsTrade, MarketType
<1>3. QED
  BY <1>1, <1>2 DEF IInv

\* Outside a cycle nothing is left in the frame and nothing is required.
LEMMA LeaveClears ==
  ASSUME NEW where \in {"idle", "down"}, Leave(where)
  PROVE  ProcessTypes' /\ ControlCycle' /\ ControlAccount' /\ ControlRow' /\ pc' = where
<1>1. NoPosition \in [side : Sides, qty : 0 .. MaxQty]
  BY BoundsAssumption DEF NoPosition, Sides
<1>2. ProcessTypes'
  BY <1>1, BoundsAssumption
     DEF Leave, NoCycle, ProcessTypes, RunnerStates, RecActions, Signals
<1>3. ControlCycle' /\ ControlAccount' /\ ControlRow'
  BY DEF Leave, ControlCycle, ControlAccount, ControlRow, InEntry
<1>4. QED
  BY <1>2, <1>3 DEF Leave

\* An exception or a return out of run_once.
LEMMA LeaveKeeps ==
  ASSUME IInv, NEW where \in {"idle", "down"}, Leave(where),
         UNCHANGED <<trades, exchangeVars, market>>,
         SafetyTypes', LatchLoaded'
  PROVE  IInv'
  BY LeaveClears, QuietStep

\* The same without a change of the latch.
LEMMA AbortKeeps ==
  ASSUME IInv, Abort, pc # "down", UNCHANGED <<trades, exchangeVars, safetyVars, market>>
  PROVE  IInv'
<1>1. SafetyTypes' /\ LatchLoaded'
  BY DEF IInv, SafetyTypes, LatchLoaded, safetyVars, Abort, Leave
<1>2. QED
  BY <1>1, LeaveKeeps DEF Abort

\* Control moves to a place where nothing is required of the row.
LEMMA GotoPlainKeeps ==
  ASSUME IInv, pc \notin {"down", "idle"},
         NEW where \in {"record", "dedup"}, GotoOnly(where),
         UNCHANGED <<trades, exchangeVars, safetyVars, market>>
  PROVE  IInv'
<1>1. ProcessTypes'
  BY DEF GotoOnly, Goto, frameVars, IInv, ProcessTypes, RunnerStates, RecActions
<1>2. SafetyTypes' /\ LatchLoaded'
  BY DEF GotoOnly, Goto, safetyVars, IInv, SafetyTypes, LatchLoaded
<1>3. ControlCycle' /\ ControlAccount' /\ ControlRow'
  BY DEF GotoOnly, Goto, frameVars, IInv, ControlCycle, ControlAccount, ControlRow, InEntry
<1>4. QED
  BY <1>1, <1>2, <1>3, QuietStep

\* A call of reconcile within a cycle; the one of execute_entry is made with
\* a signal, for a candle not processed, and with the latch open.
LEMMA CallKeeps ==
  ASSUME IInv, pc \notin {"down", "idle"},
         NEW caller \in Callers, CallReconcile(caller),
         UNCHANGED <<trades, exchangeVars, safetyVars, frameVars, market>>,
         caller = "en.reconciled"
           => cycle.signal \in Sides /\ cycle.candle \notin processed /\ ~killActive
  PROVE  IInv'
<1>1. ProcessTypes'
  BY DEF CallReconcile, frameVars, IInv, ProcessTypes, RunnerStates, RecActions
<1>2. SafetyTypes' /\ LatchLoaded'
  BY DEF CallReconcile, safetyVars, IInv, SafetyTypes, LatchLoaded
<1>3. ControlCycle' /\ ControlAccount' /\ ControlRow'
  BY DEF CallReconcile, frameVars, safetyVars, IInv, ControlCycle, ControlAccount, ControlRow, InEntry
<1>4. QED
  BY <1>1, <1>2, <1>3, QuietStep

\* The steps of run_once.
LEMMA RunOnceKeeps ==
  ASSUME IInv, RunOnce, UNCHANGED market
  PROVE  IInv'
<1>1. CASE Poll
  <2>1. ProcessTypes'
    BY <1>1, BoundsAssumption
       DEF Poll, CallReconcile, IInv, ProcessTypes, MarketType, RunnerStates, Callers, RecActions, Candles
  <2>2. SafetyTypes' /\ LatchLoaded'
    BY <1>1 DEF Poll, CallReconcile, safetyVars, IInv, SafetyTypes, LatchLoaded
  <2>3. ControlCycle' /\ ControlAccount' /\ ControlRow'
    BY <1>1 DEF Poll, CallReconcile, IInv, MarketType, Callers, ControlCycle, ControlAccount,
                ControlRow, InEntry
  <2>4. QED
    BY <1>1, <2>1, <2>2, <2>3, QuietStep DEF Poll
<1>2. CASE RunReconciled /\ Refused
  BY <1>2, GotoPlainKeeps DEF RunReconciled
<1>3. CASE RunReconciled /\ ~Refused
  <2>1. ProcessTypes'
    BY <1>3, BoundsAssumption
       DEF RunReconciled, Goto, IInv, ProcessTypes, RunnerStates, RecActions, IsOpen, TradeIds
  <2>2. SafetyTypes' /\ LatchLoaded'
    BY <1>3 DEF RunReconciled, Goto, safetyVars, IInv, SafetyTypes, LatchLoaded
  <2>3. ControlCycle' /\ ControlAccount' /\ ControlRow'
    BY <1>3 DEF RunReconciled, Goto, IInv, ControlCycle, ControlAccount, ControlRow, InEntry
  <2>4. QED
    BY <1>3, <2>1, <2>2, <2>3, QuietStep DEF RunReconciled
<1>4. CASE NoBreakeven \/ NothingToDo
  BY <1>4, GotoPlainKeeps DEF NoBreakeven, NothingToDo
<1>5. CASE CallBreakeven \/ CallExit
  BY <1>5, AbortKeeps, CallKeeps DEF CallBreakeven, CallExit, Invoke, Callers
<1>6. CASE CallEntry
  <2>1. ~killActive => cycle.signal \in Sides /\ cycle.candle \notin processed
    BY <1>6 DEF CallEntry, IInv, ProcessTypes, Signals, Sides, IsCycleProcessed
  <2>2. QED
    BY <1>6, <2>1, AbortKeeps, CallKeeps DEF CallEntry, Invoke, Callers
<1>7. CASE SkipDuplicate \/ FinishTwice
  BY <1>7, AbortKeeps DEF SkipDuplicate, FinishTwice, Abort
<1>8. CASE Finish
  <2>1. SafetyTypes' /\ LatchLoaded'
    BY <1>8 DEF Finish, RecordCycle, Leave, IInv, SafetyTypes, LatchLoaded, ControlCycle
  <2>2. QED
    BY <1>8, <2>1, LeaveKeeps DEF Finish
<1>9. QED
  BY <1>1, <1>2, <1>3, <1>4, <1>5, <1>6, <1>7, <1>8 DEF RunOnce

\* reconcile: it only ever closes an OPEN row.
LEMMA ReconcilerKeeps ==
  ASSUME IInv, Reconciler, UNCHANGED market
  PROVE  IInv'
<1>1. CASE ReadPositions
  <2>1. ProcessTypes'
    BY <1>1 DEF Reconciler, ReadPositions, OpenPosition, frameVars, IInv, AccountInv,
                ProcessTypes, RunnerStates
  <2>2. SafetyTypes' /\ LatchLoaded'
    BY <1>1 DEF Reconciler, ReadPositions, safetyVars, IInv, SafetyTypes, LatchLoaded
  <2>3. ControlCycle' /\ ControlAccount' /\ ControlRow'
    BY <1>1 DEF Reconciler, ReadPositions, safetyVars, frameVars, IInv, ControlCycle,
                ControlAccount, ControlRow, InEntry
  <2>4. QED
    BY <1>1, <2>1, <2>2, <2>3, QuietStep DEF Reconciler, ReadPositions
<1>2. ASSUME pc = "rec.decide", NEW action \in RecActions, Return(action),
             UNCHANGED <<exchangeVars, safetyVars, frameVars, market>>
      PROVE  /\ AccountInv' /\ SafetyTypes' /\ ProcessTypes' /\ MarketType'
             /\ ControlCycle' /\ ControlAccount' /\ ControlRow' /\ LatchLoaded'
  <2>1. NoPosition \in [side : Sides, qty : 0 .. MaxQty]
    BY BoundsAssumption DEF NoPosition, Sides
  <2>2. ProcessTypes'
    BY <1>2, <2>1 DEF Return, frameVars, IInv, ProcessTypes, ControlCycle, RunnerStates
  <2>3. AccountInv' /\ SafetyTypes' /\ MarketType'
    BY <1>2 DEF exchangeVars, safetyVars, IInv, AccountInv, SafetyTypes, MarketType
  <2>4. pc' \in Callers
    BY <1>2 DEF Return, IInv, ControlCycle
  <2>5. ControlCycle' /\ LatchLoaded'
    BY <1>2, <2>4 DEF Return, safetyVars, frameVars, Callers, IInv, ControlCycle, LatchLoaded, InEntry
  <2>6. ControlAccount' /\ ControlRow'
    BY <2>4 DEF Callers, ControlAccount, ControlRow
  <2>7. QED
    BY <2>2, <2>3, <2>5, <2>6
<1>3. CASE ReconcileDecide
  <2>1. \E action \in RecActions : Return(action)
    BY <1>3 DEF ReconcileDecide, SeenExposure, CloseLocalRecord, SeenFlat, RecActions
  <2>2. LedgerInv' /\ NoStopOutlivesItsTrade'
    <3>1. CASE UNCHANGED trades
      BY <1>3, <3>1, LedgerUntouched
         DEF ReconcileDecide, exchangeVars, IInv, NoStopOutlivesItsTrade
    <3>2. CASE CloseLocalRecord
      <4> DEFINE t == ActiveTrade
      <4>1. t \in TradeIds /\ trades[t].status = "OPEN" /\ CloseFromHistory(t)
        BY <3>2 DEF CloseLocalRecord, IsOpen
      <4>2. PICK reason \in CloseReasons : CloseTradeRecord(t, reason)
        BY <4>1, HistoryGivesReason
      <4> HIDE DEF t
      <4>3. LedgerInv' /\ OnlyChanges(t, "CLOSED")
        BY <4>1, <4>2, CloseKeepsOrder DEF IInv
      <4>4. NoStopOutlivesItsTrade'
        BY <1>3, <4>1, <4>3 DEF ReconcileDecide, exchangeVars, IInv, OnlyChanges, NoStopOutlivesItsTrade
      <4>5. QED
        BY <4>3, <4>4
    <3>3. QED
      BY <1>3, <3>1, <3>2 DEF ReconcileDecide, SeenExposure, SeenFlat
  <2>3. QED
    BY <1>2, <1>3, <2>1, <2>2 DEF Reconciler, ReconcileDecide, IInv
<1>4. QED
  BY <1>1, <1>3 DEF Reconciler, Reconcile
-----------------------------------------------------------------------------

(* The executor. *)

\* Only the control state, the ledger row and the frame move: the account
\* and the safety state are as before.
LEMMA LocalStep ==
  ASSUME IInv, UNCHANGED <<exchangeVars, safetyVars, market>>, pc # "down", pc' # "ks.store",
         LedgerInv', NEW t \in TradeIds, trades[t].status # "NONE", NEW status \in Statuses,
         OnlyChanges(t, status), status # "NONE",
         ProcessTypes', ControlCycle', ControlAccount', ControlRow'
  PROVE  IInv'
<1>1. AccountInv' /\ SafetyTypes' /\ MarketType' /\ LatchLoaded'
  BY DEF exchangeVars, safetyVars, IInv, AccountInv, SafetyTypes, MarketType, LatchLoaded
<1>2. NoStopOutlivesItsTrade'
  BY DEF exchangeVars, IInv, OnlyChanges, NoStopOutlivesItsTrade
<1>3. QED
  BY <1>1, <1>2 DEF IInv

(* The entry's reading of the exchange only moves the runner.               *)
LEMMA EntryReconciledKeeps ==
  ASSUME IInv, EntryReconciled \/ EntryCanOpen, UNCHANGED market
  PROVE  IInv'
<1>1. CASE GotoOnly("record")
  BY <1>1, GotoPlainKeeps DEF EntryReconciled, EntryCanOpen
<1>2. CASE ~GotoOnly("record")
  <2>1. ProcessTypes'
    BY <1>2 DEF EntryReconciled, EntryCanOpen, GotoOnly, Goto, frameVars, IInv, ProcessTypes,
                RunnerStates, RecActions
  <2>2. SafetyTypes' /\ LatchLoaded'
    BY <1>2 DEF EntryReconciled, EntryCanOpen, GotoOnly, Goto, safetyVars, IInv, SafetyTypes, LatchLoaded
  <2>3. ControlCycle' /\ ControlRow'
    BY <1>2 DEF EntryReconciled, EntryCanOpen, GotoOnly, Goto, frameVars, safetyVars, IInv,
                ControlCycle, ControlRow, InEntry
  <2>4. ControlAccount'
    <3>1. CASE EntryReconciled
      BY <1>2, <3>1 DEF EntryReconciled, GotoOnly, Goto, ControlAccount
    <3>2. CASE EntryCanOpen
      <4>1. position.qty = 0 /\ stops = {} /\ ActiveTrade = 0
        BY <1>2, <3>2 DEF EntryCanOpen, OpenPosition, OpenOrders
      <4>2. ActiveIds = {} /\ ActiveIds' = ActiveIds
        BY <3>2, <4>1, ActiveTradeIsTheActiveOne, LedgerUntouched DEF EntryCanOpen, IInv
      <4>3. QED
        BY <3>2, <4>1, <4>2 DEF EntryCanOpen, exchangeVars, ControlAccount
    <3>3. QED
      BY <3>1, <3>2
  <2>5. QED
    BY <2>1, <2>2, <2>3, <2>4, QuietStep DEF EntryReconciled, EntryCanOpen
<1>3. QED
  BY <1>1, <1>2

(* The PENDING row is the only active one: the entry started from a flat ledger. *)
LEMMA EntryCreateKeeps ==
  ASSUME IInv, EntryCreate, UNCHANGED market
  PROVE  IInv'
<1>1. PICK t \in TradeIds : CreateTradeRecord(t, cycle.signal, cycle.candle) /\ trade' = t
  BY DEF EntryCreate
<1>2. /\ ActiveIds = {} /\ stops = {} /\ position.qty = 0
      /\ cycle.signal \in Sides /\ cycle.candle \in Candles /\ cycle.candle \in 0 .. MaxCandle
  BY DEF EntryCreate, IInv, ControlAccount, ControlCycle, InEntry, ProcessTypes
<1>3. LedgerInv' /\ trades'[t].status = "PENDING"
  BY <1>1, <1>2, CreateKeepsOrder DEF IInv
<1>4. AccountInv' /\ SafetyTypes' /\ MarketType' /\ LatchLoaded'
  BY DEF EntryCreate, Goto, exchangeVars, safetyVars, IInv, AccountInv, SafetyTypes, MarketType, LatchLoaded
<1>5. NoStopOutlivesItsTrade'
  BY <1>2 DEF EntryCreate, exchangeVars, NoStopOutlivesItsTrade
<1>6. ProcessTypes'
  BY <1>1, BoundsAssumption
     DEF EntryCreate, Goto, IInv, ProcessTypes, RunnerStates, RecActions, TradeIds
<1>7. ControlCycle' /\ ControlAccount' /\ ControlRow'
  BY <1>1, <1>2, <1>3
     DEF EntryCreate, Goto, exchangeVars, safetyVars, ControlCycle, ControlAccount, ControlRow, InEntry
<1>8. QED
  BY <1>3, <1>4, <1>5, <1>6, <1>7 DEF IInv

\* The entry order: a fill opens at most the sized quantity on a flat account.
LEMMA EntrySubmitKeeps ==
  ASSUME IInv, NEW reply \in Replies, NEW k \in 0 .. MaxQty, EntrySubmit(reply, k), UNCHANGED market
  PROVE  IInv'
<1>1. /\ position.qty = 0 /\ trade \in TradeIds /\ trades[trade].status = "PENDING"
      /\ trades[trade].side \in Sides
  BY DEF EntrySubmit, IInv, ControlAccount, ControlRow, LedgerInv, Trade
<1>2. /\ position' = IF k = 0 THEN position ELSE [side |-> trades[trade].side, qty |-> k]
  BY <1>1, BoundsAssumption
     DEF EntrySubmit, EntryOrder, AfterMarket, IInv, AccountInv
<1>3. AccountInv' /\ NoStopOutlivesItsTrade' /\ SafetyTypes' /\ MarketType'
  BY <1>1, <1>2 DEF EntrySubmit, EntryOrder, safetyVars, IInv, AccountInv, NoStopOutlivesItsTrade,
                     SafetyTypes, MarketType
<1>4. LedgerInv'
  BY LedgerUntouched DEF EntrySubmit, IInv
<1>5. CASE reply = "filled"
  <2>1. k \in 1 .. MaxQty
    BY <1>5, BoundsAssumption DEF EntrySubmit, ReplyPossible
  <2>2. ProcessTypes'
    BY <1>5, <2>1 DEF EntrySubmit, Goto, IInv, ProcessTypes, RunnerStates, RecActions
  <2>3. ControlCycle' /\ ControlAccount' /\ ControlRow' /\ LatchLoaded'
    BY <1>1, <1>5, <2>1 DEF EntrySubmit, Goto, safetyVars, IInv, ControlCycle, ControlAccount,
                     ControlRow, LatchLoaded, InEntry
  <2>4. QED
    BY <1>3, <1>4, <2>2, <2>3 DEF IInv
<1>6. CASE reply = "rejected"
  <2>1. k = 0
    BY <1>6 DEF EntrySubmit, ReplyPossible
  <2>2. ProcessTypes'
    BY <1>6 DEF EntrySubmit, GotoOnly, Goto, frameVars, IInv, ProcessTypes, RunnerStates, RecActions
  <2>3. ControlCycle' /\ ControlAccount' /\ ControlRow' /\ LatchLoaded'
    BY <1>1, <1>2, <1>6, <2>1 DEF EntrySubmit, GotoOnly, Goto, frameVars, safetyVars, IInv,
                     ControlCycle, ControlAccount, ControlRow, LatchLoaded, InEntry
  <2>4. QED
    BY <1>3, <1>4, <2>2, <2>3 DEF IInv
<1>7. CASE Abort
  <2>1. ProcessTypes' /\ ControlCycle' /\ ControlAccount' /\ ControlRow' /\ pc' = "idle"
    BY <1>7, LeaveClears DEF Abort
  <2>2. LatchLoaded'
    BY <2>1 DEF EntrySubmit, safetyVars, IInv, LatchLoaded
  <2>3. QED
    BY <1>3, <1>4, <2>1, <2>2 DEF IInv
<1>8. QED
  BY <1>5, <1>6, <1>7 DEF EntrySubmit
\* A rejected order's row fails, and the process leaves the cycle.
LEMMA EntryFailedKeeps ==
  ASSUME IInv, EntryFailed, UNCHANGED market
  PROVE  IInv'
<1>1. trade \in TradeIds /\ trades[trade].status = "PENDING"
  BY DEF EntryFailed, IInv, ControlRow
<1>2. LedgerInv' /\ OnlyChanges(trade, "FAILED")
  BY <1>1, FailureKeepsOrder DEF EntryFailed, IInv
<1>3. ProcessTypes' /\ ControlCycle' /\ ControlAccount' /\ ControlRow' /\ pc' = "idle"
  BY LeaveClears DEF EntryFailed, Abort
<1>4. QED
  BY <1>1, <1>2, <1>3, LocalStep DEF EntryFailed, Statuses

(* The stop's creation turns the PENDING row into the OPEN one it guards.    *)
LEMMA EntryExecutionKeeps ==
  ASSUME IInv, EntryExecution, UNCHANGED market
  PROVE  IInv'
<1>1. PICK onTick \in BOOLEAN : UpdateTradeExecution(trade, fill, onTick)
  BY DEF EntryExecution
<1>2. trade \in TradeIds /\ trades[trade].status = "PENDING" /\ fill \in 1 .. MaxQty
  BY DEF EntryExecution, IInv, ControlRow
<1>3. LedgerInv' /\ OnlyChanges(trade, "OPEN")
  BY <1>1, <1>2, ExecutionOpens DEF IInv
<1>4. ProcessTypes'
  BY DEF EntryExecution, GotoOnly, Goto, frameVars, IInv, ProcessTypes, RunnerStates, RecActions
<1>5. ControlCycle' /\ ControlAccount' /\ ControlRow'
  BY <1>2, <1>3 DEF EntryExecution, GotoOnly, Goto, frameVars, safetyVars, IInv, OnlyChanges,
                    ControlCycle, ControlAccount, ControlRow, InEntry
<1>6. QED
  BY <1>2, <1>3, <1>4, <1>5, LocalStep DEF EntryExecution, GotoOnly, Goto, Statuses

\* The protective stop and what follows when it cannot be placed or saved.
LEMMA EntryStopKeeps ==
  ASSUME IInv, UNCHANGED market,
         \/ \E placed, lands \in BOOLEAN : EntryStop(placed, lands)
         \/ EntryStopRefused
         \/ EntrySaveStopFails
         \/ KillStore
  PROVE  IInv'
<1>1. UNCHANGED trades /\ trade \in TradeIds /\ trades[trade].status = "OPEN"
  BY DEF EntryStop, EntryStopRefused, EntrySaveStopFails, KillStore, IInv, ControlRow
<1>2. LedgerInv' /\ MarketType'
  BY <1>1, LedgerUntouched DEF IInv, MarketType
<1>3. AccountInv' /\ NoStopOutlivesItsTrade'
  <2>1. CASE UNCHANGED exchangeVars
    BY <1>1, <2>1 DEF exchangeVars, IInv, AccountInv, NoStopOutlivesItsTrade
  <2>2. ASSUME NEW lands \in BOOLEAN, StopOrder(trade, lands)
        PROVE  AccountInv' /\ NoStopOutlivesItsTrade'
    BY <1>1, <2>2, StopOrderKeeps DEF IInv
  <2>3. QED
    BY <2>1, <2>2 DEF EntryStop, EntryStopRefused, EntrySaveStopFails, KillStore
<1>4. /\ pc \in {"en.stop", "en.saveStop", "ks.store"}
      /\ \E where \in {"en.saveStop", "ks.store", "ks.close"} : GotoOnly(where)
      /\ \/ UNCHANGED safetyVars /\ pc' = "en.saveStop"
         \/ LatchInMemory
         \/ pc = "ks.store" /\ pc' = "ks.close" /\ StoreLatch
  BY DEF EntryStop, EntryStopRefused, EntrySaveStopFails, KillStore, GotoOnly, Goto
<1>5. ProcessTypes'
  BY <1>4 DEF GotoOnly, Goto, frameVars, IInv, ProcessTypes, RunnerStates, RecActions
<1>6. ControlCycle' /\ ControlAccount' /\ ControlRow'
  BY <1>1, <1>4 DEF GotoOnly, Goto, frameVars, IInv, ControlCycle, ControlAccount, ControlRow, InEntry
<1>7. SafetyTypes'
  BY <1>4 DEF safetyVars, LatchInMemory, StoreLatch, IInv, SafetyTypes
<1>8. LatchLoaded'
  BY <1>4 DEF safetyVars, LatchInMemory, StoreLatch, IInv, LatchLoaded
<1>9. QED
  BY <1>2, <1>3, <1>5, <1>6, <1>7, <1>8 DEF IInv

(* The last write of an entry names the live stop on the trade it opened.    *)
LEMMA EntrySaveStopKeeps ==
  ASSUME IInv, EntrySaveStop, UNCHANGED market
  PROVE  IInv'
<1>1. trade \in TradeIds /\ trades[trade].status = "OPEN" /\ stopsSent \in 0 .. MaxStops
  BY DEF EntrySaveStop, IInv, ControlRow, AccountInv
<1>2. LedgerInv' /\ OnlyChanges(trade, "OPEN")
  BY <1>1, StopLossUpdateKeepsOpen DEF EntrySaveStop, IInv
<1>3. ProcessTypes'
  BY DEF EntrySaveStop, GotoOnly, Goto, frameVars, IInv, ProcessTypes, RunnerStates, RecActions
<1>4. ControlCycle' /\ ControlAccount' /\ ControlRow'
  BY DEF EntrySaveStop, GotoOnly, Goto, frameVars, safetyVars, IInv, ControlCycle, ControlAccount,
         ControlRow, InEntry
<1>5. QED
  BY <1>1, <1>2, <1>3, <1>4, LocalStep DEF EntrySaveStop, GotoOnly, Goto, Statuses

\* The three closing records: of the exit and of the emergency close.
LEMMA ClosingRecordKeeps ==
  ASSUME IInv, KillRecord \/ ExitClose, UNCHANGED market
  PROVE  IInv'
<1>1. trade \in TradeIds /\ trades[trade].status = "OPEN"
  BY DEF KillRecord, ExitClose, IInv, ControlRow
<1>2. \E reason \in CloseReasons : CloseTradeRecord(trade, reason)
  BY DEF KillRecord, ExitClose, CloseReasons
<1>3. LedgerInv' /\ OnlyChanges(trade, "CLOSED")
  BY <1>1, <1>2, CloseKeepsOrder DEF IInv
<1>4. pc # "down" /\ \E where \in {"record", "ex.cancel"} : GotoOnly(where)
  BY DEF KillRecord, ExitClose
<1>5. ProcessTypes'
  BY <1>4 DEF GotoOnly, Goto, frameVars, IInv, ProcessTypes, RunnerStates, RecActions
<1>6. ControlCycle' /\ ControlAccount' /\ ControlRow'
  BY <1>4 DEF KillRecord, ExitClose, GotoOnly, Goto, frameVars, safetyVars, IInv, ControlCycle,
              ControlAccount, ControlRow, InEntry
<1>7. QED
  BY <1>1, <1>3, <1>4, <1>5, <1>6, LocalStep DEF KillRecord, ExitClose, GotoOnly, Goto, Statuses

\* Closing market orders, of execute_exit and of the emergency close.
LEMMA ClosingOrderKeeps ==
  ASSUME IInv, NEW reply \in Replies, NEW k \in 0 .. MaxQty,
         KillClose(reply, k) \/ ExitSubmit(reply, k), UNCHANGED market
  PROVE  IInv'
<1>1. /\ trade \in TradeIds /\ trades[trade].status = "OPEN" /\ fill \in 0 .. MaxQty
      /\ trades[trade].side \in Sides /\ trades[trade].qty \in 0 .. MaxQty
  BY DEF KillClose, ExitSubmit, IInv, ControlRow, LedgerInv, Trade, ProcessTypes
<1>2. UNCHANGED <<trades, safetyVars>> /\ pc \in {"ks.close", "ex.order"}
  BY DEF KillClose, ExitSubmit
<1>3. AccountInv' /\ NoStopOutlivesItsTrade'
  BY <1>1, <1>2, ReduceOrderKeeps DEF KillClose, ExitSubmit, IInv, NoStopOutlivesItsTrade
<1>4. LedgerInv' /\ SafetyTypes' /\ MarketType'
  BY <1>2, LedgerUntouched DEF safetyVars, IInv, SafetyTypes, MarketType
<1>5. CASE \E where \in {"ks.record", "ex.close", "record"} : GotoOnly(where)
  <2>1. ProcessTypes'
    BY <1>5 DEF GotoOnly, Goto, frameVars, IInv, ProcessTypes, RunnerStates, RecActions
  <2>2. ControlCycle' /\ ControlAccount' /\ ControlRow' /\ LatchLoaded'
    BY <1>1, <1>2, <1>5 DEF GotoOnly, Goto, frameVars, safetyVars, IInv, ControlCycle, ControlAccount,
                ControlRow, LatchLoaded, InEntry
  <2>3. QED
    BY <1>3, <1>4, <2>1, <2>2 DEF IInv
<1>6. CASE Abort
  <2>1. ProcessTypes' /\ ControlCycle' /\ ControlAccount' /\ ControlRow' /\ pc' = "idle"
    BY <1>6, LeaveClears DEF Abort
  <2>2. LatchLoaded'
    BY <1>2, <2>1 DEF safetyVars, IInv, LatchLoaded
  <2>3. QED
    BY <1>3, <1>4, <2>1, <2>2 DEF IInv
<1>7. QED
  BY <1>5, <1>6 DEF KillClose, ExitSubmit

\* Cancellations only remove stops.
LEMMA CancellationKeeps ==
  ASSUME IInv, UNCHANGED market,
         \/ \E lands \in BOOLEAN : ExitCancel(lands)
         \/ \E succeeds, lands \in BOOLEAN : BreakevenCancel(succeeds, lands)
  PROVE  IInv'
<1>1. /\ stops' \subseteq stops /\ UNCHANGED <<position, stopsSent, stopFills, finished, exitFills>>
      /\ UNCHANGED <<trades, safetyVars>> /\ pc \in {"ex.cancel", "be.cancel"}
  BY DEF ExitCancel, BreakevenCancel, CancelStop
<1>2. LedgerInv' /\ AccountInv' /\ NoStopOutlivesItsTrade' /\ SafetyTypes' /\ MarketType'
  BY <1>1, LedgerUntouched DEF safetyVars, IInv, AccountInv, NoStopOutlivesItsTrade, SafetyTypes,
                              MarketType
<1>3. CASE \E where \in {"record", "dedup"} : GotoOnly(where)
  <2>1. ProcessTypes'
    BY <1>3 DEF GotoOnly, Goto, frameVars, IInv, ProcessTypes, RunnerStates, RecActions
  <2>2. ControlCycle' /\ ControlAccount' /\ ControlRow' /\ LatchLoaded'
    BY <1>1, <1>3 DEF GotoOnly, Goto, frameVars, safetyVars, IInv, ControlCycle, ControlAccount,
                ControlRow, LatchLoaded, InEntry
  <2>3. QED
    BY <1>2, <2>1, <2>2 DEF IInv
<1>4. CASE Abort
  <2>1. ProcessTypes' /\ ControlCycle' /\ ControlAccount' /\ ControlRow' /\ pc' = "idle"
    BY <1>4, LeaveClears DEF Abort
  <2>2. LatchLoaded'
    BY <1>1, <2>1 DEF safetyVars, IInv, LatchLoaded
  <2>3. QED
    BY <1>2, <2>1, <2>2 DEF IInv
<1>5. QED
  BY <1>3, <1>4 DEF ExitCancel, BreakevenCancel

(* A reading that decides the exit changes neither the account nor the ledger. *)
LEMMA ExitReconciledKeeps ==
  ASSUME IInv, ExitReconciled, UNCHANGED market
  PROVE  IInv'
<1>1. CASE GotoOnly("record")
  BY <1>1, GotoPlainKeeps DEF ExitReconciled
<1>2. CASE ~GotoOnly("record")
  <2>1. /\ trade' = ActiveTrade /\ ActiveTrade \in TradeIds /\ trades[ActiveTrade].status = "OPEN"
        /\ Goto("ex.order") /\ UNCHANGED <<cycle, fill, oldStop>>
    BY <1>2 DEF ExitReconciled, IsOpen
  <2>2. ProcessTypes'
    BY <2>1, BoundsAssumption DEF Goto, IInv, ProcessTypes, RunnerStates, RecActions, TradeIds
  <2>3. SafetyTypes' /\ LatchLoaded'
    BY <2>1 DEF ExitReconciled, Goto, safetyVars, IInv, SafetyTypes, LatchLoaded
  <2>4. ControlCycle' /\ ControlAccount' /\ ControlRow'
    BY <2>1 DEF ExitReconciled, Goto, IInv, ControlCycle, ControlAccount, ControlRow, InEntry
  <2>5. QED
    BY <2>2, <2>3, <2>4, QuietStep DEF ExitReconciled
<1>3. QED
  BY <1>1, <1>2

(* The reading before a breakeven carries the recorded stop into the move.   *)
LEMMA BreakevenReconciledKeeps ==
  ASSUME IInv, NEW triggered \in BOOLEAN, BreakevenReconciled(triggered), UNCHANGED market
  PROVE  IInv'
<1>1. CASE GotoOnly("dedup")
  BY <1>1, GotoPlainKeeps DEF BreakevenReconciled
<1>2. CASE ~GotoOnly("dedup")
  <2>1. /\ oldStop' = trades[ActiveTrade].stopId /\ IsOpen(ActiveTrade)
        /\ trades[ActiveTrade].stopId \in 0 .. MaxStops
        /\ Goto("be.stop") /\ UNCHANGED <<cycle, trade, fill>>
    BY <1>2 DEF BreakevenReconciled, IsOpen, IInv, LedgerInv, Trade
  <2>2. ProcessTypes'
    BY <2>1 DEF Goto, IInv, ProcessTypes, RunnerStates, RecActions
  <2>3. SafetyTypes' /\ LatchLoaded'
    BY <2>1 DEF BreakevenReconciled, Goto, safetyVars, IInv, SafetyTypes, LatchLoaded
  <2>4. IsOpen(ActiveTrade)'
    BY <2>1, LedgerUntouched DEF BreakevenReconciled, IInv, IsOpen
  <2>5. ControlCycle' /\ ControlAccount' /\ ControlRow'
    BY <2>1, <2>4 DEF BreakevenReconciled, Goto, safetyVars, IInv, ControlCycle, ControlAccount,
                      ControlRow, InEntry
  <2>6. QED
    BY <2>2, <2>3, <2>5, QuietStep DEF BreakevenReconciled
<1>3. QED
  BY <1>1, <1>2

\* The breakeven stop is placed for the one OPEN row.
LEMMA BreakevenStopKeeps ==
  ASSUME IInv, NEW placed \in BOOLEAN, NEW lands \in BOOLEAN, BreakevenStop(placed, lands), UNCHANGED market
  PROVE  IInv'
<1>1. ActiveTrade \in TradeIds /\ trades[ActiveTrade].status = "OPEN"
  BY DEF BreakevenStop, IInv, ControlRow, IsOpen
<1>2. AccountInv' /\ NoStopOutlivesItsTrade'
  BY <1>1, StopOrderKeeps DEF BreakevenStop, IInv
<1>3. LedgerInv' /\ SafetyTypes' /\ MarketType' /\ IsOpen(ActiveTrade)'
  BY <1>1, LedgerUntouched DEF BreakevenStop, safetyVars, IInv, SafetyTypes, MarketType, IsOpen
<1>4. CASE GotoOnly("be.save")
  <2>1. ProcessTypes'
    BY <1>4 DEF GotoOnly, Goto, frameVars, IInv, ProcessTypes, RunnerStates, RecActions
  <2>2. ControlCycle' /\ ControlAccount' /\ ControlRow' /\ LatchLoaded'
    BY <1>3, <1>4 DEF BreakevenStop, GotoOnly, Goto, frameVars, safetyVars, IInv, ControlCycle,
                ControlAccount, ControlRow, LatchLoaded, InEntry
  <2>3. QED
    BY <1>2, <1>3, <2>1, <2>2 DEF IInv
<1>5. CASE Abort
  <2>1. ProcessTypes' /\ ControlCycle' /\ ControlAccount' /\ ControlRow' /\ pc' = "idle"
    BY <1>5, LeaveClears DEF Abort
  <2>2. LatchLoaded'
    BY <2>1 DEF BreakevenStop, safetyVars, IInv, LatchLoaded
  <2>3. QED
    BY <1>2, <1>3, <2>1, <2>2 DEF IInv
<1>6. QED
  BY <1>4, <1>5 DEF BreakevenStop

(* Saving a moved stop replaces the cancelled one on the same trade.         *)
LEMMA BreakevenSaveKeeps ==
  ASSUME IInv, BreakevenSave, UNCHANGED market
  PROVE  IInv'
<1> DEFINE t == ActiveTrade
<1>1. t \in TradeIds /\ trades[t].status = "OPEN" /\ stopsSent \in 0 .. MaxStops
  BY DEF BreakevenSave, IInv, ControlRow, AccountInv, IsOpen
<1>2. UpdateStopLoss(t, stopsSent, TRUE)
  BY DEF BreakevenSave
<1> HIDE DEF t
<1>3. LedgerInv' /\ OnlyChanges(t, "OPEN")
  BY <1>1, <1>2, StopLossUpdateKeepsOpen DEF IInv
<1>4. \E where \in {"be.cancel", "dedup"} : GotoOnly(where)
  BY DEF BreakevenSave
<1>5. ProcessTypes'
  BY <1>4 DEF GotoOnly, Goto, frameVars, IInv, ProcessTypes, RunnerStates, RecActions
<1>6. ControlCycle' /\ ControlAccount' /\ ControlRow'
  BY <1>4 DEF BreakevenSave, GotoOnly, Goto, frameVars, safetyVars, IInv, ControlCycle,
              ControlAccount, ControlRow, InEntry
<1>7. pc = "be.save" /\ pc' # "ks.store"
  BY <1>4 DEF BreakevenSave, GotoOnly, Goto
<1>8. QED
  BY <1>1, <1>3, <1>5, <1>6, <1>7, LocalStep DEF BreakevenSave, Statuses
-----------------------------------------------------------------------------

(* Failures, restarts and the environment. *)

(* A raised call, or a crash, ends the work in flight and writes nothing false. *)
LEMMA FailureKeeps ==
  ASSUME IInv, Failure, UNCHANGED market
  PROVE  IInv'
<1>1. CASE CallRaises \/ ExactStopRaises
  BY <1>1, AbortKeeps DEF CallRaises, ExactStopRaises, NetworkCall, DatabaseCall
<1>2. CASE DatabaseFailsAfterStop /\ EntrySaveStopFails
  BY <1>2, EntryStopKeeps
<1>3. CASE DatabaseFailsAfterStop /\ KillRecordFails
  BY <1>3, GotoPlainKeeps DEF KillRecordFails
<1>4. CASE Crash
  <2>1. SafetyTypes' /\ LatchLoaded'
    BY <1>4 DEF Crash, Leave, IInv, SafetyTypes, LatchLoaded
  <2>2. QED
    BY <1>4, <2>1, LeaveKeeps DEF Crash
<1>5. QED
  BY <1>1, <1>2, <1>3, <1>4 DEF Failure, DatabaseFailsAfterStop

\* A new process loads the latch before it does anything else.
LEMMA StartKeeps ==
  ASSUME IInv, Start, UNCHANGED market
  PROVE  IInv'
<1>1. SafetyTypes' /\ LatchLoaded'
  BY DEF Start, LoadKillSwitch, Leave, IInv, SafetyTypes, LatchLoaded
<1>2. QED
  BY <1>1, LeaveKeeps DEF Start

\* What happens around the process.
LEMMA EnvironmentKeeps ==
  ASSUME IInv, Environment
  PROVE  IInv'
<1>1. CASE Account /\ UNCHANGED <<trades, reconcilerVars, safetyVars, frameVars, market>>
  <2>1. /\ AccountInv' /\ NoStopOutlivesItsTrade' /\ stops' \subseteq stops
        /\ position.qty = 0 => position'.qty = 0
    BY <1>1, AccountKeeps DEF IInv
  <2>2. LedgerInv' /\ ActiveIds' = ActiveIds /\ ActiveTrade' = ActiveTrade
    BY <1>1, LedgerUntouched DEF IInv
  <2>3. SafetyTypes' /\ ProcessTypes' /\ MarketType' /\ LatchLoaded' /\ ControlCycle'
    BY <1>1 DEF reconcilerVars, safetyVars, frameVars, IInv, SafetyTypes, ProcessTypes, MarketType,
                LatchLoaded, ControlCycle, InEntry
  <2>4. ControlAccount' /\ ControlRow'
    BY <1>1, <2>1, <2>2 DEF reconcilerVars, frameVars, IInv, ControlAccount, ControlRow, IsOpen
  <2>5. QED
    BY <2>1, <2>2, <2>3, <2>4 DEF IInv
<1>2. CASE OperatorReset /\ UNCHANGED <<trades, exchangeVars, reconcilerVars, frameVars, market>>
  <2>1. SafetyTypes' /\ ProcessTypes' /\ ControlCycle' /\ LatchLoaded'
    BY <1>2 DEF OperatorReset, reconcilerVars, frameVars, IInv, SafetyTypes, ProcessTypes,
                ControlCycle, LatchLoaded, InEntry
  <2>2. ControlAccount' /\ ControlRow'
    BY <1>2, LedgerUntouched DEF exchangeVars, reconcilerVars, frameVars, IInv, ControlAccount,
                                 ControlRow, IsOpen
  <2>3. QED
    BY <1>2, <2>1, <2>2, QuietStep
<1>3. CASE NewCandle /\ UNCHANGED <<trades, exchangeVars, reconcilerVars, safetyVars, frameVars>>
  <2>1. MarketType'
    BY <1>3, BoundsAssumption DEF NewCandle, IInv, MarketType, Candles
  <2>2. LedgerInv' /\ ActiveIds' = ActiveIds /\ ActiveTrade' = ActiveTrade
    BY <1>3, LedgerUntouched DEF IInv
  <2>3. /\ AccountInv' /\ SafetyTypes' /\ ProcessTypes' /\ LatchLoaded' /\ ControlCycle'
        /\ NoStopOutlivesItsTrade'
    BY <1>3 DEF exchangeVars, reconcilerVars, safetyVars, frameVars, IInv, AccountInv, SafetyTypes,
                ProcessTypes, LatchLoaded, ControlCycle, InEntry, NoStopOutlivesItsTrade
  <2>4. ControlAccount' /\ ControlRow'
    BY <1>3, <2>2 DEF exchangeVars, reconcilerVars, frameVars, IInv, ControlAccount, ControlRow, IsOpen
  <2>5. QED
    BY <2>1, <2>2, <2>3, <2>4 DEF IInv
<1>4. QED
  BY <1>1, <1>2, <1>3 DEF Environment

-----------------------------------------------------------------------------

(* The invariant is inductive. *)

(* One step of any handler, or a stutter, preserves the invariant.           *)
LEMMA NextKeepsInv ==
  ASSUME IInv, [Next]_vars
  PROVE  IInv'
<1>1. CASE Process /\ UNCHANGED market
  <2>1. CASE RunOnce
    BY <1>1, <2>1, RunOnceKeeps
  <2>2. CASE Reconciler
    BY <1>1, <2>2, ReconcilerKeeps
  <2>3. CASE Entry
    BY <1>1, <2>3, EntryReconciledKeeps, EntryCreateKeeps, EntrySubmitKeeps, EntryFailedKeeps,
       EntryExecutionKeeps, EntryStopKeeps, EntrySaveStopKeeps
       DEF Entry
  <2>4. CASE Unprotected
    BY <1>1, <2>4, EntryStopKeeps, ClosingRecordKeeps, ClosingOrderKeeps DEF Unprotected
  <2>5. CASE Exit
    BY <1>1, <2>5, ExitReconciledKeeps, ClosingRecordKeeps, ClosingOrderKeeps, CancellationKeeps
       DEF Exit
  <2>6. CASE Breakeven
    BY <1>1, <2>6, BreakevenReconciledKeeps, BreakevenStopKeeps, BreakevenSaveKeeps, CancellationKeeps
       DEF Breakeven
  <2>7. CASE Start
    BY <1>1, <2>7, StartKeeps
  <2>8. QED
    BY <1>1, <2>1, <2>2, <2>3, <2>4, <2>5, <2>6, <2>7 DEF Process
<1>2. CASE Failure /\ UNCHANGED market
  BY <1>2, FailureKeeps
<1>3. CASE Environment
  BY <1>3, EnvironmentKeeps
<1>4. CASE UNCHANGED vars
  <2>1. LedgerInv' /\ ActiveIds' = ActiveIds /\ ActiveTrade' = ActiveTrade
    BY <1>4, LedgerUntouched DEF IInv, vars
  <2>2. /\ AccountInv' /\ SafetyTypes' /\ ProcessTypes' /\ MarketType' /\ LatchLoaded'
        /\ ControlCycle' /\ NoStopOutlivesItsTrade'
    BY <1>4 DEF vars, exchangeVars, reconcilerVars, safetyVars, frameVars, IInv, AccountInv,
                SafetyTypes, ProcessTypes, MarketType, LatchLoaded, ControlCycle, InEntry,
                NoStopOutlivesItsTrade
  <2>3. ControlAccount' /\ ControlRow'
    BY <1>4, <2>1 DEF vars, exchangeVars, reconcilerVars, frameVars, IInv, ControlAccount, ControlRow,
                      IsOpen
  <2>4. QED
    BY <2>1, <2>2, <2>3 DEF IInv
<1>5. QED
  BY <1>1, <1>2, <1>3, <1>4 DEF Next

(* Every reachable state of the runner satisfies the inductive invariant.    *)
THEOREM InvariantHolds == Spec => []IInv
<1>1. IInv /\ [Next]_vars => IInv'
  BY NextKeepsInv
<1>2. QED
  BY InitEstablishesInv, <1>1, PTL DEF Spec

-----------------------------------------------------------------------------

(* What follows from it. *)

\* Every variable keeps its type; the position never exceeds one sized entry.
THEOREM TypeCorrect == Spec => []TypeOK
<1>1. IInv => TypeOK
  BY DEF IInv, LedgerInv, AccountInv, SafetyTypes, ProcessTypes, MarketType, TypeOK
<1>2. QED
  BY InvariantHolds, <1>1, PTL

\* get_active_trade never has two rows to choose from.
THEOREM OneActiveTrade == Spec => []AtMostOneActive
<1>1. IInv => AtMostOneActive
  BY DEF IInv, LedgerInv, LedgerOrder, IsActive, ActiveStatuses, TradeIds, AtMostOneActive
<1>2. QED
  BY InvariantHolds, <1>1, PTL

\* No stop order is left open once a later trade has been recorded.
THEOREM StopsEndWithTheirTrade == Spec => []NoStopOutlivesItsTrade
<1>1. IInv => NoStopOutlivesItsTrade
  BY DEF IInv
<1>2. QED
  BY InvariantHolds, <1>1, PTL

-----------------------------------------------------------------------------

(* How ledger operations look from the abstract specification. *)

\* An unchanged ledger looks unchanged.
LEMMA SameLedgerSameView ==
  ASSUME UNCHANGED trades
  PROVE  RecordView' = RecordView
  BY DEF RecordView

\* A change of one row's status is a change of that record's status.
LEMMA RowChangeInView ==
  ASSUME LedgerInv, LedgerInv', NEW t \in TradeIds, NEW status, OnlyChanges(t, status)
  PROVE  /\ RecordView[t].status = trades[t].status
         /\ RecordView' = [RecordView EXCEPT ![t] = [status |-> status, side |-> RecordView[t].side]]
  BY DEF OnlyChanges, RecordView

\* A step that moves neither the ledger nor the position and is not about an
\* order in flight is a stutter.
LEMMA QuietIsStutter ==
  ASSUME UNCHANGED <<trades, position>>, pc # "en.order", pc' # "en.order"
  PROVE  UNCHANGED Abstract!vars
  BY SameLedgerSameView DEF Abstract!vars, InFlight

-----------------------------------------------------------------------------
\* The PENDING record precedes its order, on a flat account without active
\* records.
LEMMA CreateIsSubmit ==
  ASSUME IInv, EntryCreate
  PROVE  Abstract!Next
<1>1. PICK t \in TradeIds : CreateTradeRecord(t, cycle.signal, cycle.candle) /\ trade' = t
  BY DEF EntryCreate
<1>2. /\ ActiveIds = {} /\ position.qty = 0
      /\ cycle.signal \in Sides /\ cycle.candle \in 0 .. MaxCandle
  BY DEF EntryCreate, IInv, ControlAccount, ControlCycle, InEntry, ProcessTypes
<1>3. /\ trades[t].status = "NONE"
      /\ trades'[t].status = "PENDING" /\ trades'[t].side = cycle.signal
      /\ \A u \in TradeIds \ {t} : trades'[u] = trades[u]
  BY <1>1, <1>2, CreateKeepsOrder DEF IInv
<1>4. RecordView' = [RecordView EXCEPT ![t] = [status |-> "PENDING", side |-> cycle.signal]]
  BY <1>3 DEF RecordView
<1>5. \A u \in TradeIds : RecordView[u].status = trades[u].status
  BY DEF RecordView
<1>6. \A u \in TradeIds : trades[u].status \notin {"PENDING", "OPEN"}
  BY <1>2 DEF ActiveIds, IsActive, ActiveStatuses
<1>7. \A u \in TradeIds : u < t => trades[u].status # "NONE"
  BY <1>1 DEF CreateTradeRecord, IsNextId
<1>8. InFlight' = t /\ UNCHANGED position
  BY <1>1 DEF EntryCreate, Goto, InFlight, exchangeVars
<1>9. Abstract!Submit(t, cycle.signal)
  BY <1>2, <1>3, <1>4, <1>5, <1>6, <1>7, <1>8 DEF Abstract!Submit, Abstract!Ids, TradeIds
<1>10. QED
  BY <1>2, <1>9 DEF Abstract!Next, Abstract!Ids, Abstract!Directions, TradeIds, Sides

\* The order executes in part or in full, or it is lost.
LEMMA SubmitIsExecuteOrLost ==
  ASSUME IInv, NEW reply \in Replies, NEW k \in 0 .. MaxQty, EntrySubmit(reply, k)
  PROVE  Abstract!Next
<1>1. /\ position.qty = 0 /\ trade \in TradeIds /\ trade # 0
      /\ InFlight = trade /\ InFlight' = 0 /\ RecordView' = RecordView
  BY SameLedgerSameView
     DEF EntrySubmit, IInv, ControlAccount, ControlRow, InFlight, GotoOnly, Goto, Abort, Leave, TradeIds
<1>2. CASE k = 0
  <2>1. Abstract!Lost
    BY <1>1, <1>2 DEF EntrySubmit, EntryOrder, Abstract!Lost
  <2>2. QED
    BY <2>1 DEF Abstract!Next
<1>3. CASE k # 0
  <2>1. position' = [side |-> RecordView[trade].side, qty |-> k]
    BY <1>1, <1>3 DEF EntrySubmit, EntryOrder, AfterMarket, RecordView
  <2>2. Abstract!Execute(k)
    BY <1>1, <2>1 DEF Abstract!Execute
  <2>3. k \in 1 .. MaxQty
    BY <1>3, BoundsAssumption
  <2>4. QED
    BY <2>2, <2>3 DEF Abstract!Next
<1>4. QED
  BY <1>2, <1>3

\* FAILED is recorded on a flat account only.
LEMMA FailedIsReject ==
  ASSUME IInv, EntryFailed
  PROVE  Abstract!Next
<1>1. trade \in TradeIds /\ trades[trade].status = "PENDING" /\ position.qty = 0
  BY DEF EntryFailed, IInv, ControlRow, ControlAccount
<1>2. LedgerInv' /\ OnlyChanges(trade, "FAILED")
  BY <1>1, FailureKeepsOrder DEF EntryFailed, IInv
<1>3. InFlight = 0 /\ InFlight' = 0 /\ UNCHANGED position
  BY DEF EntryFailed, Abort, Leave, InFlight, exchangeVars
<1>4. Abstract!Reject(trade)
  BY <1>1, <1>2, <1>3, RowChangeInView DEF IInv, Abstract!Reject, Abstract!SetStatus
<1>5. QED
  BY <1>1, <1>4 DEF Abstract!Next, Abstract!Ids, TradeIds

(* A stop accepted by the exchange is the abstract trade's confirmation.     *)
LEMMA ExecutionIsConfirm ==
  ASSUME IInv, EntryExecution
  PROVE  Abstract!Next
<1>1. PICK onTick \in BOOLEAN : UpdateTradeExecution(trade, fill, onTick)
  BY DEF EntryExecution
<1>2. trade \in TradeIds /\ trades[trade].status = "PENDING" /\ fill \in 1 .. MaxQty
  BY DEF EntryExecution, IInv, ControlRow
<1>3. LedgerInv' /\ OnlyChanges(trade, "OPEN")
  BY <1>1, <1>2, ExecutionOpens DEF IInv
<1>4. InFlight = 0 /\ InFlight' = 0 /\ UNCHANGED position
  BY DEF EntryExecution, GotoOnly, Goto, InFlight, exchangeVars
<1>5. Abstract!Confirm(trade)
  BY <1>2, <1>3, <1>4, RowChangeInView DEF IInv, Abstract!Confirm, Abstract!SetStatus
<1>6. QED
  BY <1>2, <1>5 DEF Abstract!Next, Abstract!Ids, TradeIds

\* Recording a stop order is invisible.
LEMMA StopRecordIsStutter ==
  ASSUME IInv, EntrySaveStop \/ BreakevenSave
  PROVE  UNCHANGED Abstract!vars
<1>1. PICK t \in TradeIds, moved \in BOOLEAN :
         trades[t].status = "OPEN" /\ UpdateStopLoss(t, stopsSent, moved)
  BY DEF EntrySaveStop, BreakevenSave, IInv, ControlRow, IsOpen
<1>2. LedgerInv' /\ OnlyChanges(t, "OPEN")
  BY <1>1, StopLossUpdateKeepsOpen DEF IInv, AccountInv
<1>3. RecordView' = RecordView
  BY <1>1, <1>2 DEF OnlyChanges, RecordView
<1>4. InFlight = 0 /\ InFlight' = 0 /\ UNCHANGED position
  BY DEF EntrySaveStop, BreakevenSave, GotoOnly, Goto, InFlight, exchangeVars
<1>5. QED
  BY <1>3, <1>4 DEF Abstract!vars

\* Every closing record is of an OPEN row.
LEMMA ClosingIsClose ==
  ASSUME IInv, KillRecord \/ ExitClose \/ (pc = "rec.decide" /\ CloseLocalRecord /\ UNCHANGED exchangeVars)
  PROVE  Abstract!Next
<1>1. PICK t \in TradeIds, reason \in CloseReasons :
         trades[t].status = "OPEN" /\ CloseTradeRecord(t, reason)
  BY HistoryGivesReason DEF KillRecord, ExitClose, CloseLocalRecord, CloseReasons, IInv, ControlRow, IsOpen
<1>2. LedgerInv' /\ OnlyChanges(t, "CLOSED")
  BY <1>1, CloseKeepsOrder DEF IInv
<1>3. InFlight = 0 /\ InFlight' = 0 /\ UNCHANGED position
  BY DEF KillRecord, ExitClose, CloseLocalRecord, Return, GotoOnly, Goto, InFlight, exchangeVars,
         IInv, ControlCycle, Callers
<1>4. Abstract!Close(t)
  BY <1>1, <1>2, <1>3, RowChangeInView DEF IInv, Abstract!Close, Abstract!SetStatus
<1>5. QED
  BY <1>1, <1>4 DEF Abstract!Next, Abstract!Ids, TradeIds

\* Whatever reduces the position is a Shrink.
LEMMA ReduceIsShrink ==
  ASSUME IInv, NEW side, NEW k \in Nat, Reduce(side, k), UNCHANGED <<trades, InFlight>>
  PROVE  [Abstract!Next]_(Abstract!vars)
<1>1. position.qty \in Nat /\ position.qty \in 0 .. MaxQty /\ position = [side |-> position.side, qty |-> position.qty]
  BY BoundsAssumption DEF IInv, AccountInv
<1>2. CASE UNCHANGED position
  BY <1>2, SameLedgerSameView DEF Abstract!vars
<1>3. CASE k = position.qty /\ position' # position
  <2>1. position' = NoPosition /\ position.qty > 0
    BY <1>1, <1>3 DEF Reduce, IInv, AccountInv
  <2>2. Abstract!Shrink(0)
    BY <2>1, SameLedgerSameView DEF NoPosition, Abstract!Shrink, Abstract!NoExposure
  <2>3. 0 \in 0 .. MaxQty
    BY BoundsAssumption
  <2>4. QED
    BY <2>2, <2>3 DEF Abstract!Next
<1>4. CASE k # position.qty /\ position' # position
  <2> DEFINE rest == position.qty - k
  <2>1. position' = [position EXCEPT !.qty = rest] /\ k <= position.qty /\ k # 0
    BY <1>1, <1>4 DEF Reduce, IInv, AccountInv
  <2>2. rest \in 0 .. MaxQty /\ rest < position.qty /\ rest # 0
    BY <1>1, <1>4, <2>1, BoundsAssumption
  <2>3. position' = [side |-> position.side, qty |-> rest]
    BY <1>1, <2>1
  <2>4. Abstract!Shrink(rest)
    BY <2>2, <2>3, SameLedgerSameView DEF Abstract!Shrink
  <2>5. QED
    BY <2>2, <2>4 DEF Abstract!Next
<1>5. QED
  BY <1>2, <1>3, <1>4
-----------------------------------------------------------------------------

(* Every step. *)

\* Reconciliation closes a row or is invisible.
LEMMA ReconcilerImplements ==
  ASSUME IInv, Reconciler
  PROVE  [Abstract!Next]_(Abstract!vars)
<1>1. pc # "en.order" /\ pc' # "en.order" /\ UNCHANGED position
  BY DEF Reconciler, Reconcile, ReadPositions, ReconcileDecide, SeenExposure, CloseLocalRecord,
         SeenFlat, Return, exchangeVars, IInv, ControlCycle, Callers
<1>2. CASE UNCHANGED trades
  BY <1>1, <1>2, QuietIsStutter
<1>3. CASE ReconcileDecide /\ CloseLocalRecord
  BY <1>3, ClosingIsClose DEF ReconcileDecide
<1>4. QED
  BY <1>2, <1>3 DEF Reconciler, Reconcile, ReadPositions, ReconcileDecide, SeenExposure, SeenFlat

\* Closing orders only shrink the position.
LEMMA ClosingOrderImplements ==
  ASSUME IInv, NEW reply \in Replies, NEW k \in 0 .. MaxQty,
         KillClose(reply, k) \/ ExitSubmit(reply, k)
  PROVE  [Abstract!Next]_(Abstract!vars)
<1>1. UNCHANGED trades /\ Reduce(trades[trade].side, k) /\ k \in Nat
  BY BoundsAssumption DEF KillClose, ExitSubmit, ReduceOrder
<1>2. UNCHANGED InFlight
  BY DEF KillClose, ExitSubmit, GotoOnly, Goto, Abort, Leave, InFlight
<1>3. QED
  BY <1>1, <1>2, ReduceIsShrink

\* So does what the account does by itself.
LEMMA EnvironmentImplements ==
  ASSUME IInv, Environment
  PROVE  [Abstract!Next]_(Abstract!vars)
<1>1. UNCHANGED <<trades, InFlight>>
  BY DEF Environment, reconcilerVars, frameVars, InFlight
<1>2. CASE UNCHANGED position
  BY <1>1, <1>2, SameLedgerSameView DEF Abstract!vars
<1>3. ASSUME NEW s \in stops, StopTriggers(s)
      PROVE  [Abstract!Next]_(Abstract!vars)
  <2> DEFINE k == IF position.side # s.side THEN 0
                  ELSE IF s.qty < position.qty THEN s.qty ELSE position.qty
  <2>1. k \in Nat
    BY BoundsAssumption DEF IInv, AccountInv, Stop
  <2>2. Reduce(s.side, k)
    BY <1>3 DEF StopTriggers
  <2> HIDE DEF k
  <2>3. QED
    BY <1>1, <2>1, <2>2, ReduceIsShrink
<1>4. CASE ClosedOutside
  BY <1>1, <1>4, ReduceIsShrink, BoundsAssumption DEF ClosedOutside, IInv, AccountInv
<1>5. QED
  BY <1>2, <1>3, <1>4 DEF Environment, Account, OrphanCancelled, exchangeVars

\* A crash with the entry order in flight loses the order; any other failure
\* is invisible.
LEMMA FailureImplements ==
  ASSUME IInv, Failure
  PROVE  [Abstract!Next]_(Abstract!vars)
<1>1. UNCHANGED <<trades, position>> /\ pc' # "en.order"
  BY DEF Failure, CallRaises, ExactStopRaises, DatabaseFailsAfterStop, EntrySaveStopFails,
         KillRecordFails, Crash, Abort, Leave, GotoOnly, Goto, exchangeVars
<1>2. CASE pc # "en.order"
  BY <1>1, <1>2, QuietIsStutter
<1>3. CASE pc = "en.order"
  <2>1. InFlight # 0 /\ InFlight' = 0
    BY <1>1, <1>3 DEF InFlight, IInv, ControlRow, TradeIds
  <2>2. Abstract!Lost
    BY <1>1, <2>1, SameLedgerSameView DEF Abstract!Lost
  <2>3. QED
    BY <2>2 DEF Abstract!Next
<1>4. QED
  BY <1>2, <1>3

(* Each step of the runner is a step of the abstract trade, or changes none of it. *)
LEMMA StepImplements ==
  ASSUME IInv, [Next]_vars
  PROVE  [Abstract!Next]_(Abstract!vars)
<1>1. CASE RunOnce
  BY <1>1, QuietIsStutter
     DEF RunOnce, Poll, RunReconciled, NoBreakeven, CallBreakeven, SkipDuplicate, NothingToDo, CallExit,
         CallEntry, Finish, FinishTwice, Invoke, CallReconcile, Abort, Leave, GotoOnly, Goto, exchangeVars
<1>2. CASE Reconciler
  BY <1>2, ReconcilerImplements
<1>3. CASE Entry
  <2>1. CASE EntryReconciled \/ EntryCanOpen \/ EntryStopRefused
    BY <2>1, QuietIsStutter
       DEF EntryReconciled, EntryCanOpen, EntryStopRefused, GotoOnly, Goto, exchangeVars
  <2>2. CASE \E placed, lands \in BOOLEAN : EntryStop(placed, lands)
    BY <2>2, QuietIsStutter DEF EntryStop, StopOrder, GotoOnly, Goto
  <2>3. QED
    BY <1>3, <2>1, <2>2, CreateIsSubmit, SubmitIsExecuteOrLost, FailedIsReject, ExecutionIsConfirm,
       StopRecordIsStutter
       DEF Entry
<1>4. CASE Unprotected
  <2>1. CASE KillStore
    BY <2>1, QuietIsStutter DEF KillStore, GotoOnly, Goto, exchangeVars
  <2>2. QED
    BY <1>4, <2>1, ClosingIsClose, ClosingOrderImplements DEF Unprotected
<1>5. CASE Exit
  <2>1. CASE ExitReconciled
    BY <2>1, QuietIsStutter DEF ExitReconciled, GotoOnly, Goto, exchangeVars, frameVars, InFlight
  <2>2. CASE \E lands \in BOOLEAN : ExitCancel(lands)
    BY <2>2, QuietIsStutter DEF ExitCancel, CancelStop, GotoOnly, Goto
  <2>3. QED
    BY <1>5, <2>1, <2>2, ClosingIsClose, ClosingOrderImplements DEF Exit
<1>6. CASE Breakeven
  <2>1. CASE \E triggered \in BOOLEAN : BreakevenReconciled(triggered)
    BY <2>1, QuietIsStutter DEF BreakevenReconciled, GotoOnly, Goto, exchangeVars
  <2>2. CASE \E placed, lands \in BOOLEAN : BreakevenStop(placed, lands)
    BY <2>2, QuietIsStutter DEF BreakevenStop, StopOrder, GotoOnly, Goto, Abort, Leave
  <2>3. CASE \E succeeds, lands \in BOOLEAN : BreakevenCancel(succeeds, lands)
    BY <2>3, QuietIsStutter DEF BreakevenCancel, CancelStop, GotoOnly, Goto, Abort, Leave
  <2>4. QED
    BY <1>6, <2>1, <2>2, <2>3, StopRecordIsStutter DEF Breakeven
<1>7. CASE Start
  BY <1>7, QuietIsStutter DEF Start, Leave, exchangeVars
<1>8. CASE UNCHANGED vars
  BY <1>8, SameLedgerSameView DEF vars, exchangeVars, reconcilerVars, frameVars, Abstract!vars, InFlight
<1>9. QED
  BY <1>1, <1>2, <1>3, <1>4, <1>5, <1>6, <1>7, <1>8, FailureImplements, EnvironmentImplements
     DEF Next, Process

\* The trading core implements the abstract promise.
THEOREM ImplementsOneTradeAtATime == Spec => KeepsOneTradeAtATime
<1>1. Init => Abstract!Init
  BY DEF Init, LedgerInit, NoTrade, ExchangeInit, NoPosition, ReconcilerInit, Abstract!Init,
         Abstract!Ids, Abstract!NoExposure, RecordView, InFlight, TradeIds
<1>2. IInv /\ [Next]_vars => [Abstract!Next]_(Abstract!vars)
  BY StepImplements
<1>3. QED
  BY <1>1, <1>2, InvariantHolds, PTL DEF Spec, KeepsOneTradeAtATime, Abstract!Spec

-----------------------------------------------------------------------------

(* Who creates records. *)

\* create_trade_record is reached only in execute_entry.
LEMMA OnlyEntryCreates ==
  ASSUME IInv, [Next]_vars, NEW t \in TradeIds, Created(t)
  PROVE  EntryCreate
<1>1. RecordView[t].status = "NONE" /\ RecordView'[t].status # "NONE" /\ t \in Abstract!Ids
  BY DEF Created, RecordView, Abstract!Ids, TradeIds
<1>2. ~UNCHANGED RecordView /\ ~UNCHANGED trades
  BY <1>1 DEF RecordView
<1>3. Abstract!Next
  BY <1>2, StepImplements DEF Abstract!vars
<1>4. ASSUME NEW u \in Abstract!Ids, Abstract!Confirm(u) \/ Abstract!Reject(u) \/ Abstract!Close(u)
      PROVE  FALSE
  BY <1>1, <1>4 DEF Abstract!Confirm, Abstract!Reject, Abstract!Close, Abstract!SetStatus, RecordView,
                    Abstract!Ids, TradeIds
<1>5. \E u \in Abstract!Ids, side \in Abstract!Directions : Abstract!Submit(u, side)
  BY <1>2, <1>3, <1>4 DEF Abstract!Next, Abstract!Execute, Abstract!Lost, Abstract!Shrink
<1>6. pc' = "en.order"
  BY <1>5 DEF Abstract!Submit, InFlight, Abstract!Ids
<1>7. ~RunOnce /\ ~Start /\ ~Failure /\ ~Environment /\ ~UNCHANGED vars
  BY <1>2
     DEF RunOnce, Poll, RunReconciled, NoBreakeven, CallBreakeven, SkipDuplicate, NothingToDo, CallExit,
         CallEntry, Finish, FinishTwice, Start, Failure, CallRaises, ExactStopRaises,
         DatabaseFailsAfterStop, EntrySaveStopFails, KillRecordFails, Crash, Environment, vars
<1>8. ~Reconciler
  BY <1>2, <1>6
     DEF Reconciler, Reconcile, ReadPositions, ReconcileDecide, SeenExposure, CloseLocalRecord, SeenFlat,
         Return, IInv, ControlCycle, Callers
<1>9. ~Unprotected /\ ~Exit /\ ~Breakeven
  BY <1>2, <1>6
     DEF Unprotected, KillStore, KillRecord, KillClose, Exit, ExitReconciled, ExitClose, ExitSubmit,
         ExitCancel, Breakeven, BreakevenReconciled, BreakevenStop, BreakevenSave, BreakevenCancel,
         GotoOnly, Goto
<1>10. Entry
  BY <1>7, <1>8, <1>9 DEF Next, Process
<1>11. QED
  BY <1>2, <1>6, <1>10
     DEF Entry, EntryReconciled, EntryCanOpen, EntrySubmit, EntryFailed, EntryExecution, EntryStop,
         EntryStopRefused, EntrySaveStop, Abort, Leave, GotoOnly, Goto

\* A stored kill switch keeps every process, this one and its successors, from
\* starting a trade.
THEOREM LatchedMeansNoEntry == Spec => KilledStaysOut
<1>1. IInv /\ [Next]_vars => [killStored => \A t \in TradeIds : ~Created(t)]_vars
  <2> SUFFICES ASSUME IInv, [Next]_vars, killStored, NEW t \in TradeIds, Created(t) PROVE FALSE
    OBVIOUS
  <2>1. pc = "en.create"
    BY OnlyEntryCreates DEF EntryCreate
  <2>2. QED
    BY <2>1 DEF IInv, ControlCycle, InEntry, LatchLoaded
<1>2. QED
  BY <1>1, InvariantHolds, PTL DEF Spec, KilledStaysOut

\* The candle of a new record has no processed_cycles row.
THEOREM ProcessedCandleNeverTrades == Spec => ProcessedCandleIsDone
<1>1. IInv /\ [Next]_vars
        => [\A t \in TradeIds : Created(t) => trades'[t].candle \notin processed]_vars
  <2> SUFFICES ASSUME IInv, [Next]_vars, NEW t \in TradeIds, Created(t)
               PROVE  trades'[t].candle \notin processed
    OBVIOUS
  <2>1. EntryCreate
    BY OnlyEntryCreates
  <2>2. PICK u \in TradeIds : CreateTradeRecord(u, cycle.signal, cycle.candle)
    BY <2>1 DEF EntryCreate
  <2>3. /\ ActiveIds = {} /\ cycle.signal \in Sides /\ cycle.candle \in 0 .. MaxCandle
        /\ cycle.candle \notin processed
    BY <2>1 DEF EntryCreate, IInv, ControlAccount, ControlCycle, InEntry, ProcessTypes
  <2>4. trades'[u].candle = cycle.candle /\ \A v \in TradeIds \ {u} : trades'[v] = trades[v]
    BY <2>2, <2>3, CreateKeepsOrder DEF IInv
  <2>5. QED
    BY <2>3, <2>4 DEF Created
<1>2. QED
  BY <1>1, InvariantHolds, PTL DEF Spec, ProcessedCandleIsDone
=============================================================================
