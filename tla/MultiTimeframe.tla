---------------------------- MODULE MultiTimeframe ----------------------------
(***************************************************************************)
(* Causal access to candles of several timeframes                          *)
(* (exchange/multi_timeframe.py).  A frame is the set of its candles: the  *)
(* code sorts every frame by open_time and refuses two candles with the    *)
(* same one, so a set and its order by `open` are the whole table.  Times  *)
(* are natural numbers; a candle is visible once its close lies strictly   *)
(* before the moment of the view.                                          *)
(***************************************************************************)
EXTENDS Integers

(* What _normalize accepts. *)
Normalizable(frame) == \A c, d \in frame : c.open = d.open => c = d

(* The part of a frame that may be shown at asOf.                          *)
\* Variants for the sensitivity check: a candle is shown once it has opened;
\* only a window of the newest two is shown.
VisibleOnceOpen(frame, asOf) == {c \in frame : c.open < asOf}

VisibleWindow(frame, asOf) ==
  {c \in frame : /\ c.close < asOf
                 /\ \A d, e \in frame : c.open < d.open /\ d.open < e.open => e.close >= asOf}

Visible(frame, asOf) == {c \in frame : c.close < asOf}

\* Variant for the sensitivity check: the slowest frame shows the candle
\* under way.
ViewOfOpenDay(market, asOf) ==
  [tf \in DOMAIN market |->
     IF tf = "1d" THEN VisibleOnceOpen(market[tf], asOf) ELSE Visible(market[tf], asOf)]

ViewAt(market, asOf) == [tf \in DOMAIN market |-> Visible(market[tf], asOf)]

(* The moments a backtest steps through: just after a close.               *)
EventTimes(market) ==
  UNION {{c.close + 1 : c \in market[tf]} : tf \in DOMAIN market}

(* The newest row, and the row before it.                                  *)
Latest(frame) == CHOOSE c \in frame : \A d \in frame : d.open <= c.open

Before(frame, candle) == {c \in frame : c.open < candle.open}

(* The first row that opens at a moment or later: none or one.             *)
FirstFrom(frame, at) ==
  {c \in frame : /\ c.open >= at
                 /\ \A d \in frame : d.open >= at => c.open <= d.open}
=============================================================================
