------------------------ MODULE PositionReconciler ------------------------
(***************************************************************************)
(* PositionReconciler.reconcile (positions/reconciliation.py), called by   *)
(* the runner and by every operation of the executor.  The position is     *)
(* read first and the orders, the ledger and the history afterwards, so    *)
(* the decision may rest on a position that is gone by then.               *)
(***************************************************************************)
EXTENDS FuturesExchange

VARIABLES
  pc,          \* where the runner process stands; "down" when there is none
  returnTo,    \* the caller waiting for reconcile
  seen,        \* the position get_open_positions returned
  rec          \* the action reconcile returned

reconcilerVars == <<pc, returnTo, seen, rec>>

Callers == {"run.reconciled", "be.reconciled", "ex.reconciled", "en.reconciled"}

RecActions == {"NONE", "MANUAL_REVIEW", "ACTIVE_POSITION",
               "CLOSED_LOCAL_RECORD", "NO_EXPOSURE"}

ReconcilerInit ==
  /\ pc = "down"
  /\ returnTo = "none"
  /\ seen = NoPosition
  /\ rec = "NONE"

CallReconcile(caller) ==
  /\ pc' = "rec.positions"
  /\ returnTo' = caller
  /\ rec' = "NONE"
  /\ UNCHANGED seen

\* reconciliation.blocked and reconciliation.action != "ACTIVE_POSITION"
Refused == rec = "MANUAL_REVIEW"

ReadPositions ==
  /\ pc = "rec.positions"
  /\ pc' = "rec.decide"
  /\ seen' = OpenPosition
  /\ UNCHANGED <<trades, exchangeVars, returnTo, rec>>

Return(action) ==
  /\ pc' = returnTo
  /\ returnTo' = "none"
  /\ seen' = NoPosition
  /\ rec' = action

\* Variant for the sensitivity check: any exit fill counts as the stop.
AnyFillIsTheStop(t, listed) == IF t \in exitFills THEN "STOP_LOSS" ELSE "EXTERNAL_CLOSE"

\* _resolve_external_close: the recorded stop is listed as finished and there
\* is some fill on the closing side, whichever order it belongs to.
ExternalCloseReason(t, listed) ==
  IF listed /\ trades[t].stopId \in finished /\ t \in exitFills
    THEN "STOP_LOSS" ELSE "EXTERNAL_CLOSE"

\* The history is read and the row closed with the reason it gives.
CloseFromHistory(t) ==
  \E listed \in Listings(trades[t].stopId) : CloseTradeRecord(t, ExternalCloseReason(t, listed))

SeenExposure ==
  /\ seen.qty > 0
  /\ Return(IF ActiveTrade = 0 THEN "MANUAL_REVIEW"
            ELSE IF trades[ActiveTrade].side # seen.side THEN "MANUAL_REVIEW"
            ELSE "ACTIVE_POSITION")
  /\ UNCHANGED trades

\* Variant for the sensitivity check: open orders take precedence.
CloseWhenNoOrders ==
  /\ seen.qty = 0
  /\ IsOpen(ActiveTrade)
  /\ IF OpenOrders = {}
       THEN /\ CloseFromHistory(ActiveTrade)
            /\ Return("CLOSED_LOCAL_RECORD")
       ELSE Return("MANUAL_REVIEW") /\ UNCHANGED trades

CloseLocalRecord ==
  /\ seen.qty = 0
  /\ IsOpen(ActiveTrade)
  /\ CloseFromHistory(ActiveTrade)
  /\ Return("CLOSED_LOCAL_RECORD")

SeenFlat ==
  /\ seen.qty = 0
  /\ ~IsOpen(ActiveTrade)
  /\ Return(IF ActiveTrade # 0 \/ OpenOrders # {} THEN "MANUAL_REVIEW" ELSE "NO_EXPOSURE")
  /\ UNCHANGED trades

ReconcileDecide ==
  /\ pc = "rec.decide"
  /\ SeenExposure \/ CloseLocalRecord \/ SeenFlat
  /\ UNCHANGED exchangeVars

Reconcile == ReadPositions \/ ReconcileDecide
=============================================================================
