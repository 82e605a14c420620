------------------------------- MODULE Strategy2 -------------------------------
(***************************************************************************)
(* The candidate machine of Strategy 2 (strategies/strategy_2): a setup on *)
(* the middle timeframe in the direction of the daily trend, confirmed on  *)
(* the hourly one.  A state of the machine is a record; every method is an *)
(* operator from a state (and a view of the market) to a state.  Time 0    *)
(* stands for None.  Of a candle only what the rules look at is kept: the  *)
(* SQZMOM colour on the 1h and 4h frames, the side of EMA 10 against EMA   *)
(* 55 on the 1d frame ("none" while they are equal or undefined).  The     *)
(* configured setup_expiration_bars is a parameter, None by default.  One  *)
(* field of a state is not in the code: trendTime, the daily candle that   *)
(* daily_trend read last, which says whether it had closed.                *)
(***************************************************************************)
EXTENDS MultiTimeframe

Sides == {"LONG", "SHORT"}
Timeframes == {"1h", "4h", "1d"}
Phases == {"WAITING_FOR_SETUP", "WAITING_FOR_CONFIRMATION", "CANDIDATE",
           "POSITION_OPEN"}
Colors == {"dark_red", "light_red", "dark_green", "light_green", "neutral"}
None == 0

(* A candidate is identified by its side and its two candles; its context  *)
(* also shows the daily candle of the moment.                              *)
Candidates == [side : Sides, setup : Nat, confirmation : Nat, trend : Nat]
NoCandidate == [side |-> "none", setup |-> None, confirmation |-> None, trend |-> None]

Fresh ==
  [phase |-> "WAITING_FOR_SETUP", side |-> "none", setupTime |-> None, trendTime |-> None,
   candidate |-> NoCandidate, lastSetup |-> None, lastConfirmation |-> None,
   lastManagement |-> None, entryTime |-> None, bars |-> 0, waited |-> 0]

(* Everything is forgotten, the candles already seen included.             *)
\* Variant for the sensitivity check: only the position is forgotten.
ResetPosition(s) ==
  [s EXCEPT !.phase = "WAITING_FOR_CONFIRMATION", !.entryTime = None]

Reset(s) == Fresh

(* A reversal: the last two colours turn from dark to light.               *)
Turns(from, to) ==
  IF from = "dark_red" /\ to = "light_red" THEN "LONG"
  ELSE IF from = "dark_green" /\ to = "light_green" THEN "SHORT" ELSE "none"

SqzmomReversal(frame) ==
  IF frame = {} \/ Before(frame, Latest(frame)) = {} THEN "none"
  ELSE Turns(Latest(Before(frame, Latest(frame))).mark, Latest(frame).mark)

DailyTrend(frame) == IF frame = {} THEN "none" ELSE Latest(frame).mark

DailyCandle(frame) == IF frame = {} THEN None ELSE Latest(frame).close

(* The first half of evaluate: a setup candle is looked at once.  It       *)
(* starts a setup, or it ages the one that waits for its confirmation.     *)
StartSetup(s, time, side) ==
  [s EXCEPT !.phase = "WAITING_FOR_CONFIRMATION", !.side = side, !.setupTime = time]

\* Variant for the sensitivity check: the setup lives one candle too long.
AgeSetupLate(s, expiration) ==
  IF expiration # None /\ s.waited + 1 > expiration
    THEN [Reset(s) EXCEPT !.lastSetup = s.lastSetup]
    ELSE [s EXCEPT !.waited = @ + 1]

AgeSetup(s, expiration) ==
  IF expiration # None /\ s.waited + 1 >= expiration
    THEN [Reset(s) EXCEPT !.lastSetup = s.lastSetup]
    ELSE [s EXCEPT !.waited = @ + 1]

TrendRead(s, view) ==
  IF s.phase = "WAITING_FOR_SETUP" THEN DailyCandle(view["1d"]) ELSE s.trendTime

SeeSetup(s, expiration, view) ==
  IF view["4h"] = {} \/ Latest(view["4h"]).close = s.lastSetup THEN s
  ELSE LET time == Latest(view["4h"]).close
           seen == [s EXCEPT !.lastSetup = time, !.trendTime = TrendRead(s, view)]
           side == SqzmomReversal(view["4h"])
       IN CASE s.phase = "WAITING_FOR_SETUP" ->
                 IF side # "none" /\ side = DailyTrend(view["1d"])
                   THEN StartSetup(seen, time, side) ELSE seen
            [] s.phase = "WAITING_FOR_CONFIRMATION" -> AgeSetup(seen, expiration)
            [] OTHER -> seen

(* The second half: a confirmation candle is looked at once; it must have  *)
(* closed after the setup and turn the same way.                           *)
SeeConfirmation(s, view) ==
  IF \/ s.phase # "WAITING_FOR_CONFIRMATION"
     \/ view["1h"] = {}
     \/ Latest(view["1h"]).close = s.lastConfirmation
  THEN s
  ELSE LET time == Latest(view["1h"]).close
           seen == [s EXCEPT !.lastConfirmation = time]
       IN IF time > s.setupTime /\ SqzmomReversal(view["1h"]) = s.side
            THEN [seen EXCEPT !.phase = "CANDIDATE",
                    !.candidate = [side |-> s.side, setup |-> s.setupTime,
                                   confirmation |-> time, trend |-> DailyCandle(view["1d"])]]
            ELSE seen

Evaluate(s, expiration, view) ==
  IF s.phase = "POSITION_OPEN" THEN s
  ELSE SeeConfirmation(SeeSetup(s, expiration, view), view)

(* _reversal_context: a candidate's setup candle and its predecessor can   *)
(* be found in the frame again; the code raises otherwise.                 *)
ContextFound(candidate, view) ==
  \E c \in view["4h"] : c.close = candidate.setup /\ Before(view["4h"], c) # {}

ResolveCandidate(s, approved) ==
  IF approved THEN [s EXCEPT !.phase = "POSITION_OPEN", !.side = s.candidate.side]
  ELSE Reset(s)

MarkEntry(s, time) == [s EXCEPT !.entryTime = time]

(* management_payload: there is something to review once a management      *)
(* candle has closed after the entry; each candle counts once.             *)
\* Variant for the sensitivity check: the candle is not remembered.
ReviewDueAgain(s, view) ==
  /\ view["4h"] # {}
  /\ s.entryTime # None
  /\ Latest(view["4h"]).close > s.entryTime

ReviewDue(s, view) ==
  /\ view["4h"] # {}
  /\ Latest(view["4h"]).close # s.lastManagement
  /\ s.entryTime # None
  /\ Latest(view["4h"]).close > s.entryTime

ManagementPayload(s, view) ==
  [s EXCEPT !.lastManagement = Latest(view["4h"]).close, !.bars = @ + 1]
=============================================================================
