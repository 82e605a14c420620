-------------------------- MODULE FuturesExchange --------------------------
(***************************************************************************)
(* The Binance USD-M account as seen through BinanceFuturesClient, for the *)
(* one symbol the runner trades in one-way mode.  The exchange itself is   *)
(* external; a call of BinanceFuturesClient is its effect on the account   *)
(* together with the outcome create_order or cancel_order reports.         *)
(***************************************************************************)
EXTENDS TradeService

CONSTANT HistoryLimit   \* orders get_recent_orders returns: 100 in the code

ASSUME HistoryAssumption == HistoryLimit \in Nat \ {0}

VARIABLES
  position,    \* positionAmt as side and size; size 0 is flat
  stops,       \* open STOP_MARKET reduceOnly orders
  stopsSent,   \* stop ids already used (the code draws fresh UUIDs)
  stopFills,   \* stop ids that triggered and reduced the position
  finished,    \* stop ids the order history has as FILLED, FINISHED or TRIGGERED
  exitFills    \* trades with an account fill on their closing side

exchangeVars == <<position, stops, stopsSent, stopFills, finished, exitFills>>

Stop == [id : StopIds, trade : TradeIds, side : Sides, qty : 1 .. MaxQty]

NoPosition == [side |-> "LONG", qty |-> 0]

Flat == position.qty = 0

ExchangeInit ==
  /\ position = NoPosition
  /\ stops = {}
  /\ stopsSent = 0
  /\ stopFills = {}
  /\ finished = {}
  /\ exitFills = {}

(***************************************************************************)
(* What create_order reports for a MARKET order of which k units executed: *)
(*   filled    the fill is confirmed (directly, by the lookup after an     *)
(*             uncertain submission, or by _confirmed_fill)                *)
(*   rejected  BinanceOrderRejectedError                                   *)
(*   unknown   BinanceUnknownOrderStateError: the lookup failed too        *)
(*   raised    any other error: a rate limit, or a fill that could not be  *)
(*             confirmed                                                   *)
(***************************************************************************)
Replies == {"filled", "rejected", "unknown", "raised"}

ReplyPossible(reply, k) ==
  /\ reply = "filled" => k > 0
  /\ reply = "rejected" => k = 0

\* A market order without reduceOnly, in one-way mode.
AfterMarket(p, side, k) ==
  IF p.qty = 0 \/ p.side = side THEN [side |-> side, qty |-> p.qty + k]
  ELSE IF k < p.qty THEN [p EXCEPT !.qty = p.qty - k]
  ELSE IF k = p.qty THEN NoPosition
  ELSE [side |-> side, qty |-> k - p.qty]

\* Fills on the closing side count for every row created before them.  (So do
\* those of a later entry on that side, but the row is closed by then.)
Credited(side) == {t \in TradeIds : trades[t].status # "NONE" /\ trades[t].side = side}

\* A reduceOnly order closing k units of a position on side `side`.
Reduce(side, k) ==
  /\ k = 0 \/ (position.side = side /\ k <= position.qty)
  /\ position' = IF k = position.qty THEN NoPosition
                 ELSE [position EXCEPT !.qty = position.qty - k]
  /\ exitFills' = IF k = 0 THEN exitFills ELSE exitFills \cup Credited(side)

EntryOrder(side, k) ==
  /\ position' = IF k = 0 THEN position ELSE AfterMarket(position, side, k)
  /\ UNCHANGED <<stops, stopsSent, stopFills, finished, exitFills>>

ReduceOrder(side, qty, k) ==
  /\ k <= qty
  /\ Reduce(side, k)
  /\ UNCHANGED <<stops, stopsSent, stopFills, finished>>

\* A STOP_MARKET order under a fresh id, accepted by the exchange or not.
StopOrder(t, lands) ==
  /\ stopsSent < MaxStops
  /\ stopsSent' = stopsSent + 1
  /\ stops' = IF lands
                THEN stops \cup {[id |-> stopsSent + 1, trade |-> t,
                                  side |-> trades[t].side, qty |-> trades[t].qty]}
                ELSE stops
  /\ UNCHANGED <<position, stopFills, finished, exitFills>>

CancelStop(id, lands) ==
  /\ stops' = IF lands THEN {s \in stops : s.id # id} ELSE stops
  /\ UNCHANGED <<position, stopsSent, stopFills, finished, exitFills>>

\* Variant for the sensitivity check: get_open_positions misses the position.
PositionMissed == NoPosition

\* Variant for the sensitivity check: conditional orders are not listed.
RegularOrdersOnly == {}

\* get_open_positions and get_open_orders: the account as it is now.
OpenPosition == position

OpenOrders == stops

\* get_recent_orders: the newest HistoryLimit conditional orders for certain,
\* and older ones as long as those sent since were not all accepted.
Listings(id) == {listed \in BOOLEAN : stopsSent - id < HistoryLimit => listed}

-----------------------------------------------------------------------------
(* What the account does by itself or by its owner's hand. *)

\* The mark price reaches a stop.  reduceOnly: it closes at most what is
\* open on its side, and when nothing is it ends without a fill, as EXPIRED or
\* as a conditional order that was TRIGGERED.
StopTriggers(s) ==
  LET k == IF position.side # s.side THEN 0
           ELSE IF s.qty < position.qty THEN s.qty ELSE position.qty
  IN /\ s \in stops
     /\ stops' = stops \ {s}
     /\ Reduce(s.side, k)
     /\ stopFills' = IF k > 0 THEN stopFills \cup {s.id} ELSE stopFills
     /\ finished' = finished \cup {s.id} \/ (k = 0 /\ UNCHANGED finished)
     /\ UNCHANGED stopsSent

\* A manual close or a liquidation.
ClosedOutside ==
  /\ ~Flat
  /\ Reduce(position.side, position.qty)
  /\ UNCHANGED <<stops, stopsSent, stopFills, finished>>

\* The operator removes a stop left behind after the position is gone.
OrphanCancelled(s) ==
  /\ Flat
  /\ s \in stops
  /\ stops' = stops \ {s}
  /\ UNCHANGED <<position, stopsSent, stopFills, finished, exitFills>>

Account == \/ \E s \in stops : StopTriggers(s) \/ OrphanCancelled(s)
           \/ ClosedOutside
=============================================================================
