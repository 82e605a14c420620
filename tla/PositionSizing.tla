---------------------------- MODULE PositionSizing ----------------------------
(***************************************************************************)
(* The arithmetic of one position (positions/manager.py and the rounding   *)
(* of exchange/binance_client.py): the planned stop and quantity, the stop *)
(* recomputed from the fill, the move to breakeven.  Prices, quantities    *)
(* and money are integers; a rate or a multiple is a fraction num / den.   *)
(* The code computes with Decimal, so the results are exact here too.      *)
(***************************************************************************)
EXTENDS Integers

CONSTANTS
  Prices, Atrs, Equities,       \* values that occur
  Tick, Step, MinNotional,      \* the symbol's filters
  RiskRate,                     \* RISK_PER_TRADE_PCT / 100, a fraction
  MaxNotional,
  AtrMultiple, BreakevenR       \* fractions

Fractions == [num : Nat \ {0}, den : Nat \ {0}]

ASSUME SizingAssumption ==
  /\ Prices \cup Atrs \cup Equities \cup {Tick, Step, MaxNotional} \subseteq Nat \ {0}
  /\ MinNotional \in Nat
  /\ {RiskRate, AtrMultiple, BreakevenR} \subseteq Fractions

VARIABLES
  phase,      \* IDLE, PLANNED, or filled: GUARDED by a stop, UNGUARDED because none
              \* could be computed, REFUSED because the exchange takes no stop at 0
  order,      \* the intent and the plan made from it
  entry,      \* average price of the fill
  initialStop, stop,   \* initial_stop_price, current_stop_price
  price       \* the mark price of the latest poll

sizing_vars == <<phase, order, entry, initialStop, stop, price>>

Sides == {"LONG", "SHORT"}
NoOrder == [side |-> "NONE", expected |-> 0, atr |-> 0, equity |-> 0, plannedStop |-> 0, quantity |-> 0]

Distance(a, b) == IF a < b THEN b - a ELSE a - b

(* _floor_to_step and normalize_price: a fraction to a multiple of a step. *)
RoundDown(num, den, step) == step * (num \div (den * step))
RoundUp(num, den, step) == -RoundDown(-num, den, step)

\* Variant for the sensitivity check: always down.
NormalizeDown(side, num, den) == RoundDown(num, den, Tick)

NormalizePrice(side, num, den) ==
  IF side = "LONG" THEN RoundDown(num, den, Tick) ELSE RoundUp(num, den, Tick)

(* calculate_initial_stop: the distance is AtrMultiple * atr.  The stop    *)
(* must be positive before it is rounded; rounded down it may still be 0.  *)
\* Variant for the sensitivity check: the sides are swapped.
StopNumeratorSwapped(side, from, atr) ==
  from * AtrMultiple.den + (IF side = "SHORT" THEN -1 ELSE 1) * atr * AtrMultiple.num

StopNumerator(side, from, atr) ==
  from * AtrMultiple.den + (IF side = "LONG" THEN -1 ELSE 1) * atr * AtrMultiple.num

StopExists(side, from, atr) == StopNumerator(side, from, atr) > 0

InitialStop(side, from, atr) ==
  NormalizePrice(side, StopNumerator(side, from, atr), AtrMultiple.den)

(* calculate_position_size: the risk over the stop distance, capped by the *)
(* notional, rounded down to the step.                                     *)
\* Variant for the sensitivity check: the cap is forgotten.
SizeByRisk(equity, from, plannedStop) ==
  RoundDown(equity * RiskRate.num, RiskRate.den * Distance(from, plannedStop), Step)

PositionSize(equity, from, plannedStop) ==
  LET distance == Distance(from, plannedStop)
  IN IF equity * RiskRate.num * from > MaxNotional * RiskRate.den * distance
       THEN RoundDown(MaxNotional, from, Step)
       ELSE RoundDown(equity * RiskRate.num, RiskRate.den * distance, Step)

Acceptable(quantity, from) == quantity > 0 /\ quantity * from >= MinNotional

(* create_trade_record refuses a row whose stop is not positive.           *)
\* Variant for the sensitivity check: it takes any row.
AnyRow(plannedStop) == TRUE

Recordable(plannedStop) == plannedStop > 0

(* calculate_risk_amount.                                                  *)
RiskAmount(quantity, from, to) == quantity * Distance(from, to)

(* should_move_to_breakeven, get_breakeven_stop_price, and the comparison  *)
(* of _manage_breakeven that says the stop has been moved already.         *)
AlreadyMoved(side) == IF side = "LONG" THEN stop >= entry ELSE stop <= entry

\* Variant for the sensitivity check: any price triggers.
TriggeredAlways(side, current) == current > 0

BreakevenTriggered(side, current) ==
  LET trigger == Distance(entry, initialStop) * BreakevenR.num
  IN IF side = "LONG" THEN current * BreakevenR.den >= entry * BreakevenR.den + trigger
     ELSE current * BreakevenR.den <= entry * BreakevenR.den - trigger

BreakevenStop(side) == NormalizePrice(side, entry, 1)

-----------------------------------------------------------------------------
SizingInit ==
  /\ phase = "IDLE"
  /\ order = NoOrder
  /\ entry = 0 /\ initialStop = 0 /\ stop = 0 /\ price = 0

(* execute_entry up to the order: a plan that the manager or the ledger    *)
(* refuses changes nothing.                                                *)
Plan ==
  /\ phase = "IDLE"
  /\ \E side \in Sides, expected \in Prices, atr \in Atrs, equity \in Equities :
       /\ StopExists(side, expected, atr)
       /\ LET plannedStop == InitialStop(side, expected, atr)
              quantity == PositionSize(equity, expected, plannedStop)
          IN /\ Acceptable(quantity, expected)
             /\ Recordable(plannedStop)
             /\ order' = [side |-> side, expected |-> expected, atr |-> atr, equity |-> equity,
                          plannedStop |-> plannedStop, quantity |-> quantity]
  /\ phase' = "PLANNED"
  /\ UNCHANGED <<entry, initialStop, stop, price>>

(* The stop of a filled order.                                             *)
\* Variant for the sensitivity check: the planned stop is kept.
PlannedStopKept(fill) == order.plannedStop

FillStop(fill) == InitialStop(order.side, fill, order.atr)

(* The market order fills at some price and the stop is computed again     *)
(* from it.  Where that raises, no stop is asked for; a stop rounded to 0  *)
(* is asked for and the exchange refuses the trigger price.                *)
Fill ==
  /\ phase = "PLANNED"
  /\ entry' \in Prices
  /\ \/ /\ ~StopExists(order.side, entry', order.atr)
        /\ phase' = "UNGUARDED"
        /\ stop' = 0
     \/ /\ StopExists(order.side, entry', order.atr)
        /\ stop' = FillStop(entry')
        /\ phase' = IF stop' > 0 THEN "GUARDED" ELSE "REFUSED"
  /\ initialStop' = stop'
  /\ UNCHANGED <<order, price>>

(* A poll reads the price and may move the stop to breakeven.  The price   *)
(* is read before the reconciliation that precedes the order: price is the *)
(* one the decision used, which the market may have left since.            *)
Poll ==
  /\ phase = "GUARDED"
  /\ price' \in Prices
  /\ stop' = IF ~AlreadyMoved(order.side) /\ BreakevenTriggered(order.side, price')
               THEN BreakevenStop(order.side) ELSE stop
  /\ UNCHANGED <<phase, order, entry, initialStop>>

SizingNext == Plan \/ Fill \/ Poll

SizingSpec == SizingInit /\ [][SizingNext]_sizing_vars

-----------------------------------------------------------------------------
(* Properties.                                                             *)

(* Money at risk and notional of every plan stay within their limits, in   *)
(* spite of roundings of the stop and of the quantity.                     *)
PlanWithinLimits ==
  phase # "IDLE" =>
    /\ RiskAmount(order.quantity, order.expected, order.plannedStop) * RiskRate.den
         <= order.equity * RiskRate.num
    /\ order.quantity * order.expected <= MaxNotional

(* A fill at another price than expected does not raise the risk by a tick *)
(* per unit or more, because the stop moves with the fill.                 *)
FilledRiskWithinATick ==
  phase = "GUARDED" =>
    RiskAmount(order.quantity, entry, initialStop)
      < RiskAmount(order.quantity, order.expected, order.plannedStop) + order.quantity * Tick

(* The first stop is strictly on the losing side of the fill, whatever the *)
(* rounding.                                                               *)
StopOnLosingSide ==
  phase = "GUARDED" => IF order.side = "LONG" THEN initialStop < entry ELSE initialStop > entry

(* Only slippage can leave a filled position without a stop, whether none  *)
(* could be computed or it was rounded to 0: a LONG filled below the price *)
(* it was planned at.  A plan whose own stop rounds to 0 never gets as far *)
(* as an order.                                                            *)
UnguardedOnlyBySlippage ==
  phase \in {"UNGUARDED", "REFUSED"} => order.side = "LONG" /\ entry < order.expected

(* A guarding stop only moves towards the price, and never to a price that *)
(* the market had already passed when the poll read it.                    *)
StopOnlyTightens ==
  [][phase = "GUARDED" /\ stop' # stop =>
       IF order.side = "LONG" THEN stop' > stop /\ stop' < price'
       ELSE stop' < stop /\ stop' > price']_sizing_vars
=============================================================================
