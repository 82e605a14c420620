------------------------ MODULE Strategy2BacktestProofs ------------------------
(***************************************************************************)
(* Proofs about the backtest of Strategy 2, for every length of the        *)
(* candles and of the market, every market and every decision of the       *)
(* review service.                                                         *)
(***************************************************************************)
EXTENDS Strategy2Backtest, FiniteSetTheorems, WellFoundedInduction, TLAPS

(* A nonempty set of naturals has a least element.                         *)
LEMMA LeastExists ==
  ASSUME NEW S \in SUBSET Nat, S # {}
  PROVE  \E m \in S : \A n \in S : m <= n
<1>1. PICK m \in S : \A n \in S : ~(<<n, m>> \in OpToRel(<, Nat))
  BY NatLessThanWellFounded, WFMin, Zenon
<1>2. \A n \in S : ~(n < m)
  BY <1>1 DEF OpToRel
<1> QED
  BY <1>2

(* A frame whose candles open before a bound has a last candle.            *)
LEMMA LatestIsLast ==
  ASSUME NEW frame, frame # {}, NEW bound \in Nat,
         \A c \in frame : c.open \in 0..bound
  PROVE  Latest(frame) \in frame /\ \A d \in frame : d.open <= Latest(frame).open
<1> DEFINE S == {bound - c.open : c \in frame}
<1>1. S \in SUBSET Nat /\ S # {}
  OBVIOUS
<1>2. PICK m \in S : \A n \in S : m <= n
  BY <1>1, LeastExists
<1>3. PICK c \in frame : m = bound - c.open
  OBVIOUS
<1>4. \A d \in frame : d.open <= c.open
  <2>1. SUFFICES ASSUME NEW d \in frame PROVE d.open <= c.open
    OBVIOUS
  <2>2. bound - c.open <= bound - d.open
    BY <1>2, <1>3
  <2> QED
    BY <2>2
<1> QED
  BY <1>4 DEF Latest

-----------------------------------------------------------------------------
(* The market: every frame holds candles of its timeframe that opened at   *)
(* `at` or before and close within the market.                             *)
FrameOK(tf, frame, at) ==
  /\ frame \subseteq CandlesOf(tf) /\ Normalizable(frame)
  /\ \A c \in frame : c.close = c.open + Length(tf) - 1 /\ c.close < End /\ c.open <= at

MarketOK(m, at) ==
  /\ DOMAIN m = Timeframes
  /\ \A tf \in Timeframes : FrameOK(tf, m[tf], at)

(* The lengths are positive.                                               *)
LEMMA Lengths == End \in Nat /\ \A tf \in Timeframes : Length(tf) \in Nat \ {0}
<1>1. \A a, b \in Nat \ {0} : a * b \in Nat \ {0}
  OBVIOUS
<1>2. Length("1h") = Hour /\ Length("4h") = Hour * SetupHours /\ Length("1d") = Hour * DayHours
  BY DEF Length
<1>3. {Hour, SetupHours, DayHours, Hours} \subseteq Nat \ {0}
  BY MarketAssumption
<1>4. /\ Hour * SetupHours \in Nat \ {0} /\ Hour * DayHours \in Nat \ {0}
      /\ Hour * Hours \in Nat \ {0}
  BY <1>1, <1>3
<1> QED
  BY <1>2, <1>3, <1>4 DEF Timeframes, End

(* A frame goes on by at most one candle, which opens at the event.        *)
LEMMA NextFrameOK ==
  ASSUME NEW tf \in Timeframes, NEW frame, NEW at \in Times, FrameOK(tf, frame, at),
         \A c \in frame : c.open < at,
         NEW next \in NextFrames(tf, frame, at)
  PROVE  frame \subseteq next /\ FrameOK(tf, next, at)
<1>1. CASE ~Opens(tf, at)
  BY <1>1 DEF NextFrames
<1>2. CASE Opens(tf, at)
  <2>1. PICK mark \in Marks(tf) : next = frame \cup {Candle(tf, at, mark)}
    BY <1>2 DEF NextFrames
  <2> DEFINE new == Candle(tf, at, mark)
  <2>2. at \in Nat /\ Length(tf) \in Nat \ {0} /\ at + Length(tf) <= End /\ End \in Nat
    BY <1>2, Lengths DEF Opens, Times
  <2>3. new.open = at /\ new.close = at + Length(tf) - 1 /\ new.mark = mark
    BY DEF Candle
  <2>4. at \in Times /\ at + Length(tf) - 1 \in Times
    BY <2>2 DEF Times
  <2>5. new \in CandlesOf(tf)
    BY <2>1, <2>4 DEF Candle, CandlesOf
  <2>8. next = frame \cup {new}
    BY <2>1
  <2> HIDE DEF new
  <2>6. Normalizable(next)
    BY <2>2, <2>3, <2>8 DEF FrameOK, Normalizable, CandlesOf, Times
  <2>7. \A c \in next : c.close = c.open + Length(tf) - 1 /\ c.close < End /\ c.open <= at
    BY <2>2, <2>3, <2>8 DEF FrameOK
  <2> QED
    BY <2>5, <2>8, <2>6, <2>7 DEF FrameOK
<1> QED
  BY <1>1, <1>2

(* What a view shows had closed, and a later view shows it too.            *)
LEMMA ViewShowsClosed ==
  ASSUME NEW m, NEW at \in Times, MarketOK(m, at)
  PROVE  /\ DOMAIN ViewAt(m, at) = Timeframes
         /\ \A tf \in Timeframes :
              /\ ViewAt(m, at)[tf] = Visible(m[tf], at)
              /\ \A c \in ViewAt(m, at)[tf] :
                   c \in m[tf] /\ c.open \in 0..End /\ c.close \in Times /\ c.close < at
BY DEF ViewAt, Visible, MarketOK, FrameOK, CandlesOf, Times

-----------------------------------------------------------------------------
(* The candidate machine.  SetupIn says of a setup that its candle and the *)
(* one before it are shown, which ContextFound asks of a candidate.        *)
SetupIn(frame, time) == \E c \in frame : c.close = time /\ Before(frame, c) # {}

CandidateOK(candidate, frame, at) ==
  /\ candidate.side \in Sides
  /\ candidate.setup \in Times /\ candidate.confirmation \in Times
  /\ candidate.setup < candidate.confirmation /\ candidate.confirmation < at
  /\ candidate.trend \in Times /\ candidate.trend < at
  /\ SetupIn(frame, candidate.setup)

MachineOK(s, frame, at) ==
  /\ s \in StrategyStates
  /\ \A time \in CandlesSeen(s) : time = None \/ time < at
  /\ s.phase = "WAITING_FOR_CONFIRMATION" => s.side \in Sides /\ SetupIn(frame, s.setupTime)
  /\ s.phase = "CANDIDATE" => CandidateOK(s.candidate, frame, at)

(* The initial machine.                                                    *)
LEMMA FreshOK ==
  ASSUME NEW frame, NEW at
  PROVE  MachineOK(Fresh, frame, at) /\ Fresh.phase = "WAITING_FOR_SETUP"
<1>1. 0 \in Times
  BY Lengths DEF Times
<1>2. Fresh \in StrategyStates
  BY <1>1 DEF Fresh, StrategyStates, Phases, None
<1> QED
  BY <1>2 DEF Fresh, MachineOK, CandlesSeen, None

(* As time goes on what a machine knows remains true.                      *)
LEMMA MachineLater ==
  ASSUME NEW s, NEW frame, NEW later, frame \subseteq later, NEW at \in Times, NEW then \in Times,
         at <= then, MachineOK(s, frame, at)
  PROVE  MachineOK(s, later, then)
<1>1. \A time : SetupIn(frame, time) => SetupIn(later, time)
  BY DEF SetupIn, Before
<1>2. \A time \in Times : time < at => time < then
  BY DEF Times
<1>3. /\ s.setupTime \in Times /\ s.lastSetup \in Times /\ s.lastConfirmation \in Times
      /\ s.lastManagement \in Times /\ s.trendTime \in Times
  BY DEF MachineOK, StrategyStates
<1>4. \A time \in CandlesSeen(s) : time = None \/ time < then
  BY <1>2, <1>3 DEF MachineOK, CandlesSeen
<1>5. \A c : CandidateOK(c, frame, at) => CandidateOK(c, later, then)
  BY <1>1, <1>2 DEF CandidateOK
<1> QED
  BY <1>1, <1>4, <1>5 DEF MachineOK

(* A reversal is shown by two candles.                                     *)
LEMMA ReversalHasContext ==
  ASSUME NEW frame, SqzmomReversal(frame) # "none", Latest(frame) \in frame
  PROVE  /\ SqzmomReversal(frame) \in Sides
         /\ SetupIn(frame, Latest(frame).close)
BY DEF SqzmomReversal, Turns, Sides, SetupIn

(* The daily candle shown has closed.                                      *)
LEMMA DailyCandleClosed ==
  ASSUME NEW m, NEW at \in Times, MarketOK(m, at)
  PROVE  /\ DailyCandle(ViewAt(m, at)["1d"]) \in Times
         /\ \/ DailyCandle(ViewAt(m, at)["1d"]) = None
            \/ DailyCandle(ViewAt(m, at)["1d"]) < at
<1> DEFINE daily == ViewAt(m, at)["1d"]
<1>1. "1d" \in Timeframes /\ End \in Nat
  BY Lengths DEF Timeframes
<1>2. \A c \in daily : c.open \in 0..End /\ c.close \in Times /\ c.close < at
  BY <1>1, ViewShowsClosed
<1> HIDE DEF daily
<1>3. CASE daily = {}
  BY <1>1, <1>3 DEF DailyCandle, None, Times, daily
<1>4. CASE daily # {}
  <2>1. Latest(daily) \in daily
    BY <1>1, <1>2, <1>4, LatestIsLast
  <2> QED
    BY <1>2, <1>4, <2>1 DEF DailyCandle, daily
<1> QED
  BY <1>3, <1>4

(* So has the one the trend was read from.                                 *)
LEMMA TrendReadClosed ==
  ASSUME NEW m, NEW at \in Times, MarketOK(m, at), NEW s, NEW frame, MachineOK(s, frame, at)
  PROVE  /\ TrendRead(s, ViewAt(m, at)) \in Times
         /\ TrendRead(s, ViewAt(m, at)) = None \/ TrendRead(s, ViewAt(m, at)) < at
<1>1. s.trendTime \in Times /\ (s.trendTime = None \/ s.trendTime < at)
  BY DEF MachineOK, StrategyStates, CandlesSeen
<1> QED
  BY <1>1, DailyCandleClosed DEF TrendRead

(* The first half of evaluate.                                             *)
LEMMA SeeSetupOK ==
  ASSUME NEW m, NEW at \in Times, MarketOK(m, at), NEW s, NEW exp,
         MachineOK(s, ViewAt(m, at)["4h"], at), s.phase # "CANDIDATE"
  PROVE  /\ MachineOK(SeeSetup(s, exp, ViewAt(m, at)), ViewAt(m, at)["4h"], at)
         /\ SeeSetup(s, exp, ViewAt(m, at)).phase # "CANDIDATE"
<1> DEFINE view == ViewAt(m, at)
           frame == view["4h"]
           result == SeeSetup(s, exp, view)
<1>1. SUFFICES ASSUME frame # {}, Latest(frame).close # s.lastSetup
               PROVE  MachineOK(result, frame, at) /\ result.phase # "CANDIDATE"
  BY DEF SeeSetup
<1> DEFINE time == Latest(frame).close
           read == TrendRead(s, view)
           seen == [s EXCEPT !.lastSetup = time, !.trendTime = read]
           side == SqzmomReversal(frame)
<1>2. Latest(frame) \in frame /\ time \in Times /\ time < at
  <2>1. "4h" \in Timeframes /\ End \in Nat
    BY Lengths DEF Timeframes
  <2>2. \A c \in frame : c.open \in 0..End /\ c.close \in Times /\ c.close < at
    BY <2>1, ViewShowsClosed
  <2> HIDE DEF view
  <2> QED
    BY <1>1, <2>1, <2>2, LatestIsLast
<1>3. MachineOK(s, frame, at) /\ s \in StrategyStates
  BY DEF MachineOK
<1>4. result = CASE s.phase = "WAITING_FOR_SETUP" ->
                      IF side # "none" /\ side = DailyTrend(view["1d"])
                        THEN StartSetup(seen, time, side) ELSE seen
                 [] s.phase = "WAITING_FOR_CONFIRMATION" -> AgeSetup(seen, exp)
                 [] OTHER -> seen
  BY <1>1 DEF SeeSetup
<1>10. read \in Times /\ (read = None \/ read < at)
  BY <1>3, TrendReadClosed
<1> HIDE DEF view, result, side, read
<1>5. /\ seen \in StrategyStates /\ seen.phase = s.phase
      /\ seen.lastSetup = time /\ seen.setupTime = s.setupTime /\ seen.side = s.side
      /\ seen.lastConfirmation = s.lastConfirmation /\ seen.lastManagement = s.lastManagement
      /\ seen.trendTime = read
  BY <1>2, <1>3, <1>10 DEF StrategyStates
<1>6. MachineOK(seen, frame, at)
  BY <1>2, <1>3, <1>5, <1>10 DEF MachineOK, CandlesSeen
<1>7. CASE s.phase = "WAITING_FOR_SETUP" /\ side # "none" /\ side = DailyTrend(view["1d"])
  <2>1. side \in Sides /\ SetupIn(frame, time)
    BY <1>2, <1>7, ReversalHasContext DEF side
  <2>2. result = [seen EXCEPT !.phase = "WAITING_FOR_CONFIRMATION", !.side = side, !.setupTime = time]
    BY <1>4, <1>7 DEF StartSetup
  <2> HIDE DEF seen, time
  <2>3. result \in StrategyStates /\ result.phase = "WAITING_FOR_CONFIRMATION"
    BY <1>2, <1>5, <2>1, <2>2 DEF StrategyStates, Phases
  <2>4. /\ result.side = side /\ result.setupTime = time /\ result.lastSetup = seen.lastSetup
        /\ result.lastConfirmation = seen.lastConfirmation
        /\ result.lastManagement = seen.lastManagement /\ result.trendTime = seen.trendTime
    BY <1>5, <2>2 DEF StrategyStates
  <2> QED
    BY <1>2, <1>6, <2>1, <2>3, <2>4 DEF MachineOK, CandlesSeen
<1>8. CASE s.phase = "WAITING_FOR_CONFIRMATION"
  <2>1. result = AgeSetup(seen, exp)
    BY <1>4, <1>8
  <2>2. CASE result = [Reset(seen) EXCEPT !.lastSetup = seen.lastSetup]
    <3>1. Fresh \in StrategyStates /\ Fresh.phase = "WAITING_FOR_SETUP"
      BY FreshOK DEF MachineOK
    <3>2. seen.lastSetup \in Times /\ (seen.lastSetup = None \/ seen.lastSetup < at)
      BY <1>5, <1>6 DEF StrategyStates, MachineOK, CandlesSeen
    <3> HIDE DEF seen
    <3>3. /\ result \in StrategyStates /\ result.phase = "WAITING_FOR_SETUP"
          /\ result.lastSetup = seen.lastSetup /\ result.setupTime = Fresh.setupTime
          /\ result.lastConfirmation = Fresh.lastConfirmation
          /\ result.lastManagement = Fresh.lastManagement /\ result.trendTime = Fresh.trendTime
      BY <2>2, <3>1, <3>2 DEF Reset, StrategyStates
    <3> QED
      BY <3>2, <3>3 DEF MachineOK, CandlesSeen, Fresh
  <2>3. CASE result = [seen EXCEPT !.waited = @ + 1]
    <3> HIDE DEF seen
    <3>1. /\ result \in StrategyStates /\ result.phase = seen.phase
          /\ result.lastSetup = seen.lastSetup /\ result.setupTime = seen.setupTime
          /\ result.lastConfirmation = seen.lastConfirmation
          /\ result.lastManagement = seen.lastManagement /\ result.side = seen.side
          /\ result.trendTime = seen.trendTime
      BY <1>5, <2>3 DEF StrategyStates
    <3> QED
      BY <1>5, <1>6, <3>1 DEF MachineOK, CandlesSeen
  <2> QED
    BY <2>1, <2>2, <2>3 DEF AgeSetup
<1>9. CASE result = seen
  BY <1>5, <1>6, <1>9
<1> QED
  BY <1>4, <1>7, <1>8, <1>9

(* The second half.                                                        *)
LEMMA SeeConfirmationOK ==
  ASSUME NEW m, NEW at \in Times, MarketOK(m, at), NEW s, NEW frame,
         MachineOK(s, frame, at), s.phase # "CANDIDATE"
  PROVE  MachineOK(SeeConfirmation(s, ViewAt(m, at)), frame, at)
<1> DEFINE hourly == ViewAt(m, at)["1h"]
           result == SeeConfirmation(s, ViewAt(m, at))
           time == Latest(hourly).close
           seen == [s EXCEPT !.lastConfirmation = time]
           day == DailyCandle(ViewAt(m, at)["1d"])
           candidate == [side |-> s.side, setup |-> s.setupTime, confirmation |-> time,
                         trend |-> day]
<1>1. SUFFICES ASSUME s.phase = "WAITING_FOR_CONFIRMATION", hourly # {}
               PROVE  MachineOK(result, frame, at)
  BY DEF SeeConfirmation
<1>2. time \in Times /\ time < at
  <2>1. "1h" \in Timeframes /\ End \in Nat
    BY Lengths DEF Timeframes
  <2>2. \A c \in hourly : c.open \in 0..End /\ c.close \in Times /\ c.close < at
    BY <2>1, ViewShowsClosed
  <2> HIDE DEF hourly
  <2> QED
    BY <1>1, <2>1, <2>2, LatestIsLast
<1>3. \/ result = s
      \/ result = seen
      \/ /\ time > s.setupTime
         /\ result = [seen EXCEPT !.phase = "CANDIDATE", !.candidate = candidate]
  BY DEF SeeConfirmation
<1>8. day \in Times /\ (day = None \/ day < at)
  BY DailyCandleClosed
<1> HIDE DEF hourly, result, time, day
<1>4. s \in StrategyStates /\ s.side \in Sides /\ s.setupTime \in Times
  BY <1>1 DEF MachineOK, StrategyStates
<1>5. /\ seen \in StrategyStates /\ seen.phase = s.phase
      /\ seen.lastSetup = s.lastSetup /\ seen.setupTime = s.setupTime /\ seen.side = s.side
      /\ seen.lastConfirmation = time /\ seen.lastManagement = s.lastManagement
      /\ seen.trendTime = s.trendTime
  BY <1>2, <1>4 DEF StrategyStates
<1> HIDE DEF seen
<1>6. MachineOK(seen, frame, at)
  BY <1>1, <1>2, <1>5 DEF MachineOK, CandlesSeen
<1>7. CASE time > s.setupTime /\ result = [seen EXCEPT !.phase = "CANDIDATE", !.candidate = candidate]
  <2>1. candidate \in Candidates
    BY <1>2, <1>4, <1>8, Lengths DEF Candidates, Times
  <2>2. CandidateOK(candidate, frame, at)
    BY <1>1, <1>2, <1>4, <1>7, <1>8 DEF CandidateOK, MachineOK, Times, None
  <2> HIDE DEF candidate
  <2>3. /\ result \in StrategyStates /\ result.phase = "CANDIDATE" /\ result.candidate = candidate
        /\ result.lastSetup = seen.lastSetup /\ result.setupTime = seen.setupTime
        /\ result.lastConfirmation = seen.lastConfirmation
        /\ result.lastManagement = seen.lastManagement /\ result.trendTime = seen.trendTime
    BY <1>5, <1>7, <2>1 DEF StrategyStates, Phases
  <2> QED
    BY <1>6, <2>2, <2>3 DEF MachineOK, CandlesSeen
<1> QED
  BY <1>3, <1>6, <1>7

(* evaluate keeps what is known of the machine.                            *)
LEMMA EvaluateOK ==
  ASSUME NEW m, NEW at \in Times, MarketOK(m, at), NEW s, NEW exp,
         MachineOK(s, ViewAt(m, at)["4h"], at), s.phase # "CANDIDATE"
  PROVE  MachineOK(Evaluate(s, exp, ViewAt(m, at)), ViewAt(m, at)["4h"], at)
BY SeeSetupOK, SeeConfirmationOK DEF Evaluate

(* The setups of a machine that is never in a position and never forgets   *)
(* which setup candle it has seen: each is later than those before.        *)
InOrder(s, frame) ==
  /\ s.phase # "POSITION_OPEN"
  /\ s.lastSetup = None \/ \E c \in frame : c.close = s.lastSetup
  /\ s.phase = "WAITING_FOR_CONFIRMATION" => s.setupTime <= s.lastSetup

(* A setup that is under way after evaluate was before, or it is new.      *)
LEMMA SetupsInOrder ==
  ASSUME NEW m, NEW at \in Times, MarketOK(m, at), NEW s, NEW exp,
         MachineOK(s, ViewAt(m, at)["4h"], at), s.phase # "CANDIDATE",
         InOrder(s, ViewAt(m, at)["4h"]),
         NEW e, e = Evaluate(s, exp, ViewAt(m, at))
  PROVE  /\ s.lastSetup <= e.lastSetup
         /\ e.phase # "POSITION_OPEN"
         /\ e.lastSetup = None \/ \E c \in ViewAt(m, at)["4h"] : c.close = e.lastSetup
         /\ e.phase \in {"WAITING_FOR_CONFIRMATION", "CANDIDATE"} =>
              /\ e.setupTime <= e.lastSetup
              /\ \/ s.phase = "WAITING_FOR_CONFIRMATION" /\ e.setupTime = s.setupTime
                 \/ e.setupTime > s.lastSetup
         /\ e.phase = "CANDIDATE" => e.candidate.setup = e.setupTime
<1> DEFINE view == ViewAt(m, at)
           frame == view["4h"]
           time == Latest(frame).close
           r == SeeSetup(s, exp, view)
           seen == [s EXCEPT !.lastSetup = time, !.trendTime = TrendRead(s, view)]
           side == SqzmomReversal(frame)
<1>1. s \in StrategyStates /\ s.lastSetup \in Times /\ s.setupTime \in Times
  BY DEF MachineOK, StrategyStates
<1>2. MachineOK(r, frame, at) /\ r.phase # "CANDIDATE"
  BY SeeSetupOK
<1>3. /\ s.lastSetup <= r.lastSetup
      /\ r.phase # "POSITION_OPEN"
      /\ r.lastSetup = None \/ \E c \in frame : c.close = r.lastSetup
      /\ r.phase = "WAITING_FOR_CONFIRMATION" =>
           /\ r.setupTime <= r.lastSetup
           /\ \/ s.phase = "WAITING_FOR_CONFIRMATION" /\ r.setupTime = s.setupTime
              \/ r.setupTime > s.lastSetup
  <2>1. CASE r = s
    BY <1>1, <2>1 DEF InOrder, Times
  <2>2. CASE frame # {} /\ time # s.lastSetup
    <3>1. "4h" \in Timeframes /\ End \in Nat
      BY Lengths DEF Timeframes
    <3>2. \A c \in frame : /\ c.open \in 0..End /\ c.close \in Times
                           /\ c.close = c.open + Length("4h") - 1
      BY <3>1, ViewShowsClosed DEF MarketOK, FrameOK
    <3>3. r = CASE s.phase = "WAITING_FOR_SETUP" ->
                     IF side # "none" /\ side = DailyTrend(view["1d"])
                       THEN StartSetup(seen, time, side) ELSE seen
                [] s.phase = "WAITING_FOR_CONFIRMATION" -> AgeSetup(seen, exp)
                [] OTHER -> seen
      BY <2>2 DEF SeeSetup
    <3>4. s.phase # "POSITION_OPEN"
          /\ (s.lastSetup = None \/ \E c \in frame : c.close = s.lastSetup)
      BY DEF InOrder
    <3>5. Length("4h") \in Nat
      BY <3>1, Lengths
    <3>14. TrendRead(s, view) \in Times
      BY TrendReadClosed
    <3> HIDE DEF view, r, side
    <3>6. Latest(frame) \in frame /\ \A d \in frame : d.open <= Latest(frame).open
      BY <2>2, <3>1, <3>2, LatestIsLast
    <3>7. time \in Times /\ s.lastSetup < time
      BY <1>1, <2>2, <3>2, <3>4, <3>5, <3>6 DEF Times, None
    <3>8. /\ seen \in StrategyStates /\ seen.phase = s.phase
          /\ seen.lastSetup = time /\ seen.setupTime = s.setupTime
      BY <1>1, <3>7, <3>14 DEF StrategyStates
    <3>9. \E c \in frame : c.close = time
      BY <3>6
    <3>10. s.phase = "WAITING_FOR_CONFIRMATION" => s.setupTime <= s.lastSetup
      BY DEF InOrder
    <3> HIDE DEF seen, time
    <3>11. CASE r = seen
      BY <1>1, <3>4, <3>7, <3>8, <3>9, <3>10, <3>11 DEF Times
    <3>12. CASE r = StartSetup(seen, time, side)
      <4>1. r.setupTime = time /\ r.lastSetup = time /\ r.phase = "WAITING_FOR_CONFIRMATION"
        BY <3>8, <3>12 DEF StartSetup, StrategyStates
      <4> QED
        BY <1>1, <3>7, <3>9, <4>1 DEF Times
    <3>13. CASE s.phase = "WAITING_FOR_CONFIRMATION" /\ r = AgeSetup(seen, exp)
      <4>1. CASE r = [Reset(seen) EXCEPT !.lastSetup = seen.lastSetup]
        <5>1. r.lastSetup = time /\ r.phase = "WAITING_FOR_SETUP"
          BY <3>8, <4>1 DEF Reset, Fresh
        <5> QED
          BY <1>1, <3>7, <3>9, <5>1 DEF Times
      <4>2. CASE r = [seen EXCEPT !.waited = @ + 1]
        <5>1. r.lastSetup = time /\ r.setupTime = s.setupTime /\ r.phase = s.phase
          BY <3>8, <4>2 DEF StrategyStates
        <5> QED
          BY <1>1, <3>7, <3>9, <3>10, <3>13, <5>1 DEF Times
      <4> QED
        BY <3>13, <4>1, <4>2 DEF AgeSetup
    <3> QED
      BY <3>3, <3>11, <3>12, <3>13
  <2> QED
    BY <2>1, <2>2 DEF SeeSetup
<1>4. e = SeeConfirmation(r, view)
  BY DEF Evaluate, InOrder
<1> HIDE DEF r, view
<1>5. r \in StrategyStates
  BY <1>2 DEF MachineOK
<1>6. /\ e.lastSetup = r.lastSetup /\ e.setupTime = r.setupTime
      /\ e.phase = r.phase \/ (r.phase = "WAITING_FOR_CONFIRMATION" /\ e.phase = "CANDIDATE"
                               /\ e.candidate.setup = e.setupTime)
  BY <1>4, <1>5 DEF SeeConfirmation, StrategyStates
<1> QED
  BY <1>2, <1>3, <1>6 DEF view

-----------------------------------------------------------------------------
(* The inductive invariant.  Between two events no machine is left in      *)
(* CANDIDATE, and the census' setups are in order.                         *)
SetupsShown == ViewAt(market, now)["4h"]

ClockOK == expiration \in Expirations /\ now \in Times /\ MarketOK(market, now)

StrategyOK == MachineOK(strategy, SetupsShown, now) /\ strategy.phase # "CANDIDATE"

Positions == [side : Sides \cup {"none"}, setup : Times, decided : Times, entry : Times]

ReviewsOK ==
  /\ reviews \subseteq CandidateTimes
  /\ \A r \in reviews : r.setup < r.confirmation /\ r.confirmation < r.at /\ r.trend < r.at

BacktestOK ==
  /\ StrategyOK
  /\ position \in Positions
  /\ ReviewsOK
  /\ status \in {"RUNNING", "ABORTED"}

CensusOK ==
  /\ MachineOK(census, SetupsShown, now) /\ census.phase # "CANDIDATE"
  /\ InOrder(census, SetupsShown)
  /\ found \subseteq Candidates
  /\ \A c \in found : /\ c.setup <= census.lastSetup
                      /\ census.phase = "WAITING_FOR_CONFIRMATION" => c.setup < census.setupTime
  /\ \A c \in found : c.setup < c.confirmation /\ c.confirmation < now /\ c.trend < now
  /\ CensusOnePerSetup
  /\ censusStatus = "RUNNING"

IInv == ClockOK /\ BacktestOK /\ CensusOK

(* The first state.                                                        *)
LEMMA InitInv == Init => IInv
<1> SUFFICES ASSUME Init PROVE IInv
  OBVIOUS
<1>1. 0 \in Times /\ End \in Nat
  BY Lengths DEF Times
<1>2. PICK hourly \in NextFrames("1h", {}, 0), setup \in NextFrames("4h", {}, 0),
           daily \in NextFrames("1d", {}, 0) : market = Market(hourly, setup, daily)
  BY DEF Init
<1>3. \A tf \in Timeframes : FrameOK(tf, {}, 0)
  BY DEF FrameOK, Normalizable
<1>4. FrameOK("1h", hourly, 0) /\ FrameOK("4h", setup, 0) /\ FrameOK("1d", daily, 0)
  <2>1. "1h" \in Timeframes /\ "4h" \in Timeframes /\ "1d" \in Timeframes
    BY DEF Timeframes
  <2> QED
    BY <1>1, <1>2, <1>3, <2>1, NextFrameOK
<1>5. ClockOK
  BY <1>1, <1>2, <1>4 DEF Init, ClockOK, Market, MarketOK, Timeframes
<1>6. strategy = Fresh /\ census = Fresh /\ position = Flat /\ reviews = {} /\ found = {}
      /\ status = "RUNNING" /\ censusStatus = "RUNNING"
  BY DEF Init
<1>7. BacktestOK
  BY <1>1, <1>6, FreshOK DEF BacktestOK, StrategyOK, Positions, Flat, ReviewsOK, None
<1>8. CensusOK
  BY <1>6, FreshOK DEF CensusOK, InOrder, CensusOnePerSetup, Fresh
<1> QED
  BY <1>5, <1>7, <1>8 DEF IInv

(* Time goes on: the next event is later, and shows what was shown before. *)
LEMMA AdvanceOK ==
  ASSUME ClockOK, Advance
  PROVE  ClockOK' /\ now < now' /\ SetupsShown \subseteq SetupsShown'
<1>1. PICK hourly \in NextFrames("1h", market["1h"], now'),
           setup \in NextFrames("4h", market["4h"], now'),
           daily \in NextFrames("1d", market["1d"], now') : market' = Market(hourly, setup, daily)
  BY DEF Advance
<1>2. now' \in EventTimes(market) /\ now' > now /\ expiration' = expiration
  BY DEF Advance, NextEvents
<1>3. now' \in Times
  <2>1. PICK tf \in Timeframes : \E c \in market[tf] : now' = c.close + 1
    BY <1>2 DEF EventTimes, ClockOK, MarketOK
  <2>3. PICK c \in market[tf] : now' = c.close + 1
    BY <2>1
  <2>2. c.close \in Times /\ c.close < End
    BY DEF ClockOK, MarketOK, FrameOK, CandlesOf
  <2> QED
    BY <2>2, <2>3, Lengths DEF Times
<1>4. now \in Times
  BY DEF ClockOK
<1>5. \A tf \in Timeframes : /\ FrameOK(tf, market[tf], now)
                             /\ FrameOK(tf, market[tf], now')
                             /\ \A c \in market[tf] : c.open < now'
  BY <1>2, <1>3, <1>4 DEF ClockOK, MarketOK, FrameOK, CandlesOf, Times
<1>6. "1h" \in Timeframes /\ "4h" \in Timeframes /\ "1d" \in Timeframes
  BY DEF Timeframes
<1>7. FrameOK("1h", hourly, now') /\ FrameOK("4h", setup, now') /\ FrameOK("1d", daily, now')
      /\ market["4h"] \subseteq setup
  BY <1>3, <1>5, <1>6, NextFrameOK
<1>8. ClockOK'
  BY <1>1, <1>2, <1>3, <1>7 DEF ClockOK, MarketOK, Market, Timeframes
<1>9. SetupsShown \subseteq SetupsShown'
  <2>1. market'["4h"] = setup
    BY <1>1, <1>6 DEF Market
  <2>2. DOMAIN market' = Timeframes /\ DOMAIN market = Timeframes
    BY <1>1 DEF Market, ClockOK, MarketOK
  <2>3. SetupsShown = Visible(market["4h"], now) /\ SetupsShown' = Visible(setup, now')
    BY <1>6, <2>1, <2>2 DEF SetupsShown, ViewAt, Visible
  <2> QED
    BY <1>2, <1>3, <1>4, <1>5, <1>6, <1>7, <2>3 DEF Visible, FrameOK, CandlesOf, Times
<1> QED
  BY <1>2, <1>8, <1>9

(* What was known of both machines is still known at the event.            *)
LEMMA MachinesAdvance ==
  ASSUME IInv, Advance
  PROVE  /\ now' \in Times /\ MarketOK(market', now') /\ now < now'
         /\ MachineOK(strategy, SetupsShown', now')
         /\ MachineOK(census, SetupsShown', now') /\ InOrder(census, SetupsShown')
<1>1. ClockOK' /\ now < now' /\ SetupsShown \subseteq SetupsShown'
  BY AdvanceOK DEF IInv
<1>2. now \in Times /\ now' \in Times /\ now <= now' /\ MarketOK(market', now')
  BY <1>1 DEF ClockOK, IInv, Times
<1>3. MachineOK(strategy, SetupsShown, now) /\ MachineOK(census, SetupsShown, now)
      /\ InOrder(census, SetupsShown)
  BY DEF IInv, BacktestOK, StrategyOK, CensusOK
<1>4. MachineOK(strategy, SetupsShown', now') /\ MachineOK(census, SetupsShown', now')
  BY <1>1, <1>2, <1>3, MachineLater
<1> QED
  BY <1>1, <1>2, <1>3, <1>4 DEF InOrder

(* The census at an event.                                                 *)
LEMMA EnumerateInv ==
  ASSUME IInv, Advance, Enumerate(ViewAt(market', now'))
  PROVE  CensusOK'
<1> DEFINE view == ViewAt(market', now')
           frame == view["4h"]
           s == Evaluate(census, expiration, view)
<1>1. /\ now' \in Times /\ MarketOK(market', now')
      /\ MachineOK(census, frame, now') /\ InOrder(census, frame) /\ census.phase # "CANDIDATE"
      /\ now < now' /\ now \in Times
  BY MachinesAdvance DEF SetupsShown, IInv, CensusOK, ClockOK
<1>2. MachineOK(s, frame, now')
  BY <1>1, EvaluateOK
<1>3. /\ census.lastSetup <= s.lastSetup
      /\ s.phase # "POSITION_OPEN"
      /\ s.lastSetup = None \/ \E c \in frame : c.close = s.lastSetup
      /\ s.phase \in {"WAITING_FOR_CONFIRMATION", "CANDIDATE"} =>
           /\ s.setupTime <= s.lastSetup
           /\ \/ census.phase = "WAITING_FOR_CONFIRMATION" /\ s.setupTime = census.setupTime
              \/ s.setupTime > census.lastSetup
      /\ s.phase = "CANDIDATE" => s.candidate.setup = s.setupTime
  BY <1>1, SetupsInOrder
<1>4. /\ found \subseteq Candidates
      /\ \A c \in found : /\ c.setup \in Nat /\ c.setup <= census.lastSetup
                          /\ census.phase = "WAITING_FOR_CONFIRMATION" => c.setup < census.setupTime
      /\ CensusOnePerSetup
      /\ \A c \in found : /\ c.confirmation \in Nat /\ c.trend \in Nat
                          /\ c.setup < c.confirmation /\ c.confirmation < now /\ c.trend < now
      /\ censusStatus = "RUNNING"
      /\ census.lastSetup \in Times /\ census.setupTime \in Times
      /\ s \in StrategyStates /\ s.lastSetup \in Times /\ s.setupTime \in Times
  BY <1>1, <1>2 DEF IInv, CensusOK, Candidates, MachineOK, StrategyStates
<1>10. s.phase = "CANDIDATE" => ContextFound(s.candidate, view)
  BY <1>2 DEF MachineOK, CandidateOK, SetupIn, ContextFound
<1>5. /\ IF s.phase = "CANDIDATE"
           THEN found' = found \cup {s.candidate} /\ census' = StayFlat(s)
           ELSE census' = s /\ found' = found
      /\ censusStatus' = "RUNNING"
  <2>1. \/ s.phase # "CANDIDATE" /\ census' = s /\ UNCHANGED <<found, censusStatus>>
        \/ ListCandidate(s)
        \/ s.phase = "CANDIDATE" /\ ~ContextFound(s.candidate, view)
    BY <1>4 DEF Enumerate
  <2> HIDE DEF s, view
  <2> QED
    BY <1>4, <1>10, <2>1 DEF ListCandidate
<1>6. SetupsShown' = frame
  BY DEF SetupsShown
<1> HIDE DEF view, frame, s
<1>7. \A c \in found : /\ c.setup <= s.lastSetup
                       /\ s.phase \in {"WAITING_FOR_CONFIRMATION", "CANDIDATE"} => c.setup < s.setupTime
  BY <1>3, <1>4 DEF Times
<1>11. \A c \in found : c.setup < c.confirmation /\ c.confirmation < now' /\ c.trend < now'
  BY <1>1, <1>4 DEF Times
<1>8. CASE s.phase = "CANDIDATE"
  <2>1. found' = found \cup {s.candidate} /\ census' = StayFlat(s)
    BY <1>5, <1>8
  <2>2. CandidateOK(s.candidate, frame, now') /\ s.candidate \in Candidates \cup {NoCandidate}
    BY <1>2, <1>8 DEF MachineOK, StrategyStates
  <2>3. s.candidate \in Candidates
    BY <2>2 DEF CandidateOK, NoCandidate, Sides
  <2>4. /\ census' \in StrategyStates /\ census'.phase = "WAITING_FOR_SETUP"
        /\ census'.lastSetup = s.lastSetup /\ census'.lastConfirmation = s.lastConfirmation
        /\ census'.setupTime = None /\ census'.lastManagement = None
        /\ census'.trendTime = None
    BY <1>4, <2>1, FreshOK DEF StayFlat, Reset, StrategyStates, Fresh, MachineOK
  <2>5. MachineOK(census', frame, now')
    BY <1>2, <2>4 DEF MachineOK, CandlesSeen
  <2>6. InOrder(census', frame)
    BY <1>3, <2>4 DEF InOrder
  <2>7. \A c \in found' : c.setup <= census'.lastSetup
    BY <1>3, <1>7, <1>8, <2>1, <2>4
  <2>8. CensusOnePerSetup'
    BY <1>3, <1>4, <1>7, <1>8, <2>1, Lengths DEF CensusOnePerSetup, Times
  <2>9. \A c \in found' : c.setup < c.confirmation /\ c.confirmation < now' /\ c.trend < now'
    BY <1>11, <2>1, <2>2 DEF CandidateOK
  <2> QED
    BY <1>4, <1>5, <1>6, <2>1, <2>3, <2>4, <2>5, <2>6, <2>7, <2>8, <2>9 DEF CensusOK
<1>9. CASE s.phase # "CANDIDATE"
  <2>1. census' = s /\ found' = found
    BY <1>5, <1>9
  <2>2. InOrder(s, frame)
    BY <1>3 DEF InOrder
  <2>3. CensusOnePerSetup'
    BY <1>4, <2>1 DEF CensusOnePerSetup
  <2> QED
    BY <1>2, <1>4, <1>5, <1>6, <1>7, <1>9, <1>11, <2>1, <2>2, <2>3 DEF CensusOK
<1> QED
  BY <1>8, <1>9

(* A review asks about a candidate that evaluate has just returned.        *)
LEMMA ReviewInv ==
  ASSUME ReviewsOK, now' \in Times, NEW candidate, NEW frame,
         CandidateOK(candidate, frame, now'), Review(candidate)
  PROVE  ReviewsOK'
<1> DEFINE new == [side |-> candidate.side, setup |-> candidate.setup,
                   confirmation |-> candidate.confirmation, trend |-> candidate.trend,
                   at |-> now']
<1>1. reviews' = reviews \cup {new}
  BY DEF Review
<1>2. new \in CandidateTimes /\ new.setup < new.confirmation /\ new.confirmation < new.at
      /\ new.trend < new.at
  BY DEF CandidateOK, CandidateTimes
<1> QED
  BY <1>1, <1>2 DEF ReviewsOK

(* The backtest at an event without a position.                            *)
LEMMA LookForEntryInv ==
  ASSUME IInv, Advance, LookForEntry(ViewAt(market', now'))
  PROVE  BacktestOK'
<1> DEFINE view == ViewAt(market', now')
           frame == view["4h"]
           s == Evaluate(strategy, expiration, view)
<1>1. /\ now' \in Times /\ MarketOK(market', now')
      /\ MachineOK(strategy, frame, now') /\ strategy.phase # "CANDIDATE"
  BY MachinesAdvance DEF SetupsShown, IInv, BacktestOK, StrategyOK
<1>2. MachineOK(s, frame, now')
  BY <1>1, EvaluateOK
<1>3. /\ position \in Positions /\ ReviewsOK /\ status \in {"RUNNING", "ABORTED"}
  BY DEF IInv, BacktestOK
<1>4. \/ NoCandidateNow(s)
      \/ EntryUnavailable(s) \/ EntryRejected(s) \/ EntryApproved(s)
      \/ s.phase = "CANDIDATE" /\ ~ContextFound(s.candidate, view)
  BY DEF LookForEntry
<1>5. SetupsShown' = frame
  BY DEF SetupsShown
<1>6. s.phase = "CANDIDATE" => CandidateOK(s.candidate, frame, now')
  BY <1>2 DEF MachineOK
<1>7. s.phase = "CANDIDATE" => ContextFound(s.candidate, view)
  BY <1>6 DEF CandidateOK, SetupIn, ContextFound
<1>8. MachineOK(Fresh, frame, now') /\ Fresh.phase # "CANDIDATE"
  BY FreshOK
<1> HIDE DEF s, frame
<1>9. CASE NoCandidateNow(s)
  BY <1>2, <1>3, <1>5, <1>9 DEF NoCandidateNow, BacktestOK, StrategyOK, ReviewsOK
<1>10. CASE EntryUnavailable(s) \/ EntryRejected(s)
  <2>1. /\ s.phase = "CANDIDATE" /\ Review(s.candidate) /\ position' = position
        /\ strategy' = Fresh /\ (status' = "ABORTED" \/ status' = status)
    BY <1>10 DEF EntryUnavailable, EntryRejected, ResolveCandidate, Reset
  <2>2. ReviewsOK'
    BY <1>1, <1>3, <1>6, <2>1, ReviewInv
  <2> QED
    BY <1>3, <1>5, <1>8, <2>1, <2>2 DEF BacktestOK, StrategyOK
<1>11. CASE EntryApproved(s)
  <2>1. s.phase = "CANDIDATE" /\ Review(s.candidate) /\ status' = status
    BY <1>11 DEF EntryApproved
  <2>2. ReviewsOK'
    BY <1>1, <1>3, <1>6, <2>1, ReviewInv
  <2>3. CASE strategy' = Reset(strategy) /\ UNCHANGED position
    BY <1>3, <1>5, <1>8, <2>1, <2>2, <2>3 DEF BacktestOK, StrategyOK, Reset
  <2>4. CASE \E bar \in NextOpen(market'["1h"], now') :
               /\ strategy' = MarkEntry(ResolveCandidate(s, TRUE), bar.open)
               /\ position' = [side |-> s.candidate.side, setup |-> s.candidate.setup,
                               decided |-> now', entry |-> bar.open]
    <3>1. PICK bar \in NextOpen(market'["1h"], now') :
            /\ strategy' = MarkEntry(ResolveCandidate(s, TRUE), bar.open)
            /\ position' = [side |-> s.candidate.side, setup |-> s.candidate.setup,
                            decided |-> now', entry |-> bar.open]
      BY <2>4
    <3>2. bar.open \in Times
      BY <1>1 DEF NextOpen, FirstFrom, MarketOK, FrameOK, CandlesOf, Timeframes
    <3>3. s.candidate.side \in Sides /\ s.candidate.setup \in Times
      BY <1>6, <2>1 DEF CandidateOK
    <3>4. position' \in Positions
      BY <1>1, <3>1, <3>2, <3>3 DEF Positions
    <3>5. s \in StrategyStates
      BY <1>2 DEF MachineOK
    <3>6. strategy' = [[s EXCEPT !.phase = "POSITION_OPEN", !.side = s.candidate.side]
                         EXCEPT !.entryTime = bar.open]
      BY <3>1 DEF MarkEntry, ResolveCandidate
    <3>7. /\ strategy' \in StrategyStates /\ strategy'.phase = "POSITION_OPEN"
          /\ strategy'.lastSetup = s.lastSetup /\ strategy'.setupTime = s.setupTime
          /\ strategy'.lastConfirmation = s.lastConfirmation
          /\ strategy'.lastManagement = s.lastManagement
          /\ strategy'.trendTime = s.trendTime
      BY <3>2, <3>3, <3>5, <3>6 DEF StrategyStates, Phases
    <3>8. MachineOK(strategy', frame, now')
      BY <1>2, <3>7 DEF MachineOK, CandlesSeen
    <3> QED
      BY <1>3, <1>5, <2>1, <2>2, <3>4, <3>7, <3>8 DEF BacktestOK, StrategyOK
  <2> QED
    BY <1>11, <2>3, <2>4 DEF EntryApproved
<1> QED
  BY <1>4, <1>7, <1>9, <1>10, <1>11

(* The backtest at an event with a position.                               *)
LEMMA ManageInv ==
  ASSUME IInv, Advance, Manage(ViewAt(market', now'))
  PROVE  BacktestOK'
<1> DEFINE view == ViewAt(market', now')
           frame == view["4h"]
<1>1. /\ now' \in Times /\ MarketOK(market', now')
      /\ MachineOK(strategy, frame, now') /\ strategy.phase # "CANDIDATE"
  BY MachinesAdvance DEF SetupsShown, IInv, BacktestOK, StrategyOK
<1>2. position \in Positions /\ ReviewsOK /\ status \in {"RUNNING", "ABORTED"}
  BY DEF IInv, BacktestOK
<1>3. SetupsShown' = frame
  BY DEF SetupsShown
<1>4. CASE NothingToReview(view)
  BY <1>1, <1>2, <1>3, <1>4 DEF NothingToReview, backtest_vars, BacktestOK, StrategyOK, ReviewsOK
<1>5. CASE Hold(view)
  <2> DEFINE time == Latest(frame).close
  <2>1. /\ frame # {} /\ UNCHANGED <<position, reviews, trades, status>>
        /\ strategy' = [strategy EXCEPT !.lastManagement = time, !.bars = @ + 1]
    BY <1>5 DEF Hold, ReviewDue, ManagementPayload
  <2>2. time \in Times /\ time < now'
    <3>1. "4h" \in Timeframes /\ End \in Nat
      BY Lengths DEF Timeframes
    <3>2. \A c \in frame : c.open \in 0..End /\ c.close \in Times /\ c.close < now'
      BY <1>1, <3>1, ViewShowsClosed
    <3> HIDE DEF frame
    <3> QED
      BY <2>1, <3>1, <3>2, LatestIsLast
  <2> HIDE DEF frame, view, time
  <2>3. strategy \in StrategyStates
    BY <1>1 DEF MachineOK
  <2>4. /\ strategy' \in StrategyStates /\ strategy'.phase = strategy.phase
        /\ strategy'.side = strategy.side
        /\ strategy'.lastSetup = strategy.lastSetup /\ strategy'.setupTime = strategy.setupTime
        /\ strategy'.lastConfirmation = strategy.lastConfirmation
        /\ strategy'.lastManagement = time /\ strategy'.trendTime = strategy.trendTime
    <3>1. strategy' = [strategy EXCEPT !.lastManagement = time, !.bars = @ + 1]
      BY <2>1
    <3>2. strategy.bars + 1 \in Nat
      BY <2>3 DEF StrategyStates
    <3>3. strategy' \in StrategyStates
      BY <2>2, <2>3, <3>1, <3>2 DEF StrategyStates
    <3> QED
      BY <2>3, <3>1, <3>3 DEF StrategyStates
  <2>5. MachineOK(strategy', frame, now')
    BY <1>1, <2>2, <2>4 DEF MachineOK, CandlesSeen
  <2> QED
    BY <1>1, <1>2, <1>3, <2>1, <2>4, <2>5 DEF BacktestOK, StrategyOK, ReviewsOK
<1>6. CASE Exit(view)
  <2>1. strategy' = Fresh /\ position' = Flat /\ UNCHANGED <<reviews, status>>
    BY <1>6 DEF Exit, Reset
  <2>2. Flat \in Positions
    BY Lengths DEF Flat, Positions, None, Times
  <2> QED
    BY <1>2, <1>3, <2>1, <2>2, FreshOK DEF BacktestOK, StrategyOK, ReviewsOK
<1> QED
  BY <1>4, <1>5, <1>6 DEF Manage

-----------------------------------------------------------------------------
(* The invariant holds at every event of every market.                     *)
THEOREM BacktestInvariant == Spec => []IInv
<1>1. ASSUME IInv, [Next]_vars PROVE IInv'
  <2>1. CASE Event
    <3>1. /\ Advance /\ Enumerate(ViewAt(market', now'))
          /\ LookForEntry(ViewAt(market', now')) \/ Manage(ViewAt(market', now'))
      BY <2>1 DEF Event
    <3>2. ClockOK'
      BY <1>1, <3>1, AdvanceOK DEF IInv
    <3>3. BacktestOK'
      BY <1>1, <3>1, LookForEntryInv, ManageInv
    <3>4. CensusOK'
      BY <1>1, <3>1, EnumerateInv
    <3> QED
      BY <3>2, <3>3, <3>4 DEF IInv
  <2>2. CASE UNCHANGED vars
    <3>1. /\ expiration' = expiration /\ now' = now /\ market' = market
          /\ strategy' = strategy /\ position' = position /\ reviews' = reviews
          /\ status' = status /\ census' = census /\ found' = found
          /\ censusStatus' = censusStatus
      BY <2>2 DEF vars, market_vars, backtest_vars, census_vars
    <3>2. SetupsShown' = SetupsShown
      BY <3>1 DEF SetupsShown
    <3>3. ClockOK'
      BY <1>1, <3>1 DEF IInv, ClockOK
    <3>4. BacktestOK'
      BY <1>1, <3>1, <3>2 DEF IInv, BacktestOK, StrategyOK, ReviewsOK
    <3>5. CensusOK'
      BY <1>1, <3>1, <3>2 DEF IInv, CensusOK, CensusOnePerSetup
    <3> QED
      BY <3>3, <3>4, <3>5 DEF IInv
  <2> QED
    BY <1>1, <2>1, <2>2 DEF Next
<1> QED
  BY InitInv, <1>1, PTL DEF Spec

(* Every variable keeps its type; no two candles of a frame open together. *)
THEOREM TypeCorrect == Spec => []TypeOK
<1>1. IInv => TypeOK
  BY DEF IInv, ClockOK, MarketOK, FrameOK, BacktestOK, StrategyOK, CensusOK, MachineOK, Positions,
     ReviewsOK, TypeOK
<1> QED
  BY <1>1, BacktestInvariant, PTL

(* Neither program ever looks at a candle that has not closed, in any of   *)
(* the three timeframes.                                                   *)
THEOREM NoLookAhead == Spec => []DecisionsUseClosedCandles
<1>1. IInv => DecisionsUseClosedCandles
  BY DEF IInv, BacktestOK, StrategyOK, CensusOK, MachineOK, ReviewsOK, DecisionsUseClosedCandles
<1> QED
  BY <1>1, BacktestInvariant, PTL

(* The context of a candidate is always found: neither the backtest nor    *)
(* the census raises.                                                      *)
THEOREM ContextAlwaysFound == Spec => []ContextReconstructible
<1>1. IInv => ContextReconstructible
  BY DEF IInv, BacktestOK, CensusOK, ContextReconstructible
<1> QED
  BY <1>1, BacktestInvariant, PTL

(* The census lists a setup once, however long it waits or how it ends.    *)
THEOREM OneCandidatePerSetup == Spec => []CensusOnePerSetup
<1>1. IInv => CensusOnePerSetup
  BY DEF IInv, CensusOK
<1> QED
  BY <1>1, BacktestInvariant, PTL

(* Setup candles shown that closed after a moment.                         *)
Since(shown, from) == {c \in shown : from < c.close}

(* Candles only open at the event, and those that close before the next    *)
(* event close just before it.                                             *)
LEMMA MarketGrows ==
  ASSUME ClockOK, Advance
  PROVE  \A tf \in Timeframes :
           /\ market[tf] \subseteq market'[tf]
           /\ \A c \in market'[tf] : c \in market[tf] \/ (c.open = now' /\ Opens(tf, now'))
           /\ \A c \in market[tf] : c.close < now' => c.close < now \/ c.close = now' - 1
<1>1. PICK hourly \in NextFrames("1h", market["1h"], now'),
           setup \in NextFrames("4h", market["4h"], now'),
           daily \in NextFrames("1d", market["1d"], now') : market' = Market(hourly, setup, daily)
  BY DEF Advance
<1>2. /\ now' \in Times /\ now' > now /\ now \in Times /\ DOMAIN market = Timeframes
      /\ \A t \in EventTimes(market) : t > now => now' <= t
  BY AdvanceOK DEF Advance, NextEvents, ClockOK, MarketOK
<1>3. ASSUME NEW tf \in Timeframes, NEW next \in NextFrames(tf, market[tf], now')
      PROVE  /\ market[tf] \subseteq next
             /\ \A c \in next : c \in market[tf] \/ (c.open = now' /\ Opens(tf, now'))
  BY <1>3 DEF NextFrames, Candle
<1>4. ASSUME NEW tf \in Timeframes
      PROVE  /\ market[tf] \subseteq market'[tf]
             /\ \A c \in market'[tf] : c \in market[tf] \/ (c.open = now' /\ Opens(tf, now'))
  BY <1>1, <1>3 DEF Market, Timeframes
<1>5. ASSUME NEW tf \in Timeframes, NEW c \in market[tf], c.close < now'
      PROVE  c.close < now \/ c.close = now' - 1
  <2>1. c.close + 1 \in EventTimes(market)
    BY <1>2 DEF EventTimes
  <2>2. c.close \in Times
    BY DEF ClockOK, MarketOK, FrameOK, CandlesOf
  <2> QED
    BY <1>2, <1>5, <2>1, <2>2, Lengths DEF Times
<1> QED
  BY <1>4, <1>5

(* The setup candles shown at a moment.                                    *)
LEMMA ShownOK ==
  ASSUME NEW m, NEW at \in Times, MarketOK(m, at),
         NEW shown, shown = ViewAt(m, at)["4h"]
  PROVE  /\ shown = {c \in m["4h"] : c.close < at}
         /\ \A c \in shown : /\ c.open \in 0..End /\ c.close \in Times /\ c.close < at
                             /\ c.close = c.open + Length("4h") - 1
         /\ \A c, d \in shown : c.open = d.open => c = d
         /\ shown # {} => /\ Latest(shown) \in shown
                          /\ \A c \in shown : c.close <= Latest(shown).close
<1>1. "4h" \in Timeframes /\ End \in Nat /\ Length("4h") \in Nat
  BY Lengths DEF Timeframes
<1>2. FrameOK("4h", m["4h"], at) /\ DOMAIN m = Timeframes
  BY <1>1 DEF MarketOK
<1>3. shown = {c \in m["4h"] : c.close < at}
  BY <1>1, <1>2 DEF ViewAt, Visible
<1>4. \A c \in shown : /\ c.open \in 0..End /\ c.close \in Times /\ c.close < at
                      /\ c.close = c.open + Length("4h") - 1
  BY <1>2, <1>3 DEF FrameOK, CandlesOf, Times
<1>5. \A c, d \in shown : c.open = d.open => c = d
  BY <1>2, <1>3 DEF FrameOK, Normalizable
<1>6. ASSUME shown # {}
      PROVE  /\ Latest(shown) \in shown
             /\ \A c \in shown : c.close <= Latest(shown).close
  <2>1. Latest(shown) \in shown /\ \A d \in shown : d.open <= Latest(shown).open
    BY <1>1, <1>4, <1>6, LatestIsLast
  <2> QED
    BY <1>1, <1>4, <2>1
<1> QED
  BY <1>3, <1>4, <1>5, <1>6

(* An event shows one more setup candle, the last one, or none.            *)
NewCandle(c) ==
  /\ c \notin SetupsShown /\ SetupsShown' = SetupsShown \cup {c}
  /\ now <= c.close /\ c.close \in Times /\ c.close < now'
  /\ Latest(SetupsShown') = c

(* An event shows at most one setup candle that was not shown before.      *)
LEMMA EventShows ==
  ASSUME ClockOK, Advance
  PROVE  SetupsShown' = SetupsShown \/ \E c : NewCandle(c)
<1>1. ClockOK' /\ now < now' /\ SetupsShown \subseteq SetupsShown' /\ now \in Times /\ now' \in Times
  BY AdvanceOK DEF ClockOK
<1>2. /\ SetupsShown = {c \in market["4h"] : c.close < now}
      /\ \A c \in SetupsShown : c.close \in Times /\ c.close < now
  BY <1>1, ShownOK DEF ClockOK, SetupsShown
<1>3. /\ SetupsShown' = {c \in market'["4h"] : c.close < now'}
      /\ \A c \in SetupsShown' : /\ c.open \in 0..End /\ c.close \in Times /\ c.close < now'
                                 /\ c.close = c.open + Length("4h") - 1
      /\ \A c, d \in SetupsShown' : c.open = d.open => c = d
      /\ SetupsShown' # {} => /\ Latest(SetupsShown') \in SetupsShown'
                              /\ \A c \in SetupsShown' : c.close <= Latest(SetupsShown').close
  BY <1>1, ShownOK DEF ClockOK, SetupsShown
<1>4. "4h" \in Timeframes /\ Length("4h") \in Nat \ {0} /\ End \in Nat
  BY Lengths DEF Timeframes
<1>5. \A c \in SetupsShown' : c \in SetupsShown \/ c.close = now' - 1
  <2> SUFFICES ASSUME NEW c \in SetupsShown' PROVE c \in SetupsShown \/ c.close = now' - 1
    OBVIOUS
  <2>1. c \in market["4h"]
    BY <1>1, <1>3, <1>4, MarketGrows DEF Times
  <2> QED
    BY <1>2, <1>3, <1>4, <2>1, MarketGrows
<1>6. CASE \E c \in SetupsShown' : c \notin SetupsShown
  <2>1. PICK c \in SetupsShown' : c \notin SetupsShown
    BY <1>6
  <2>2. c.close = now' - 1 /\ c.close \in Times
    BY <1>3, <1>5, <2>1
  <2>3. \A d \in SetupsShown' : d \notin SetupsShown => d = c
    BY <1>3, <1>4, <1>5, <2>2
  <2>4. Latest(SetupsShown') = c
    <3>1. Latest(SetupsShown') \in SetupsShown' /\ c.close <= Latest(SetupsShown').close
      BY <1>3
    <3>2. Latest(SetupsShown').close = c.close
      BY <1>1, <1>3, <2>2, <3>1 DEF Times
    <3> QED
      BY <1>3, <1>4, <2>2, <3>1, <3>2 DEF Times
  <2> QED
    BY <1>1, <2>1, <2>2, <2>3, <2>4 DEF NewCandle, Times
<1> QED
  BY <1>1, <1>6

(* So the candles since a moment are counted one by one.                   *)
LEMMA SinceAtEvent ==
  ASSUME ClockOK, IsFiniteSet(SetupsShown), NEW from \in Times
  PROVE  /\ IsFiniteSet(Since(SetupsShown, from))
         /\ Cardinality(Since(SetupsShown, from)) \in Nat
         /\ \A c : NewCandle(c) /\ from < c.close =>
              Cardinality(Since(SetupsShown', from)) = Cardinality(Since(SetupsShown, from)) + 1
         /\ \A c : NewCandle(c) /\ ~(from < c.close) =>
              Since(SetupsShown', from) = Since(SetupsShown, from)
<1>1. IsFiniteSet(Since(SetupsShown, from)) /\ Cardinality(Since(SetupsShown, from)) \in Nat
  BY FS_Subset, FS_CardinalityType DEF Since
<1>2. ASSUME NEW c, NewCandle(c), from < c.close
      PROVE  Cardinality(Since(SetupsShown', from)) = Cardinality(Since(SetupsShown, from)) + 1
  <2>1. Since(SetupsShown', from) = Since(SetupsShown, from) \cup {c}
        /\ c \notin Since(SetupsShown, from)
    BY <1>2 DEF Since, NewCandle
  <2> QED
    BY <1>1, <2>1, FS_AddElement
<1>3. ASSUME NEW c, NewCandle(c), ~(from < c.close)
      PROVE  Since(SetupsShown', from) = Since(SetupsShown, from)
  BY <1>3 DEF Since, NewCandle
<1> QED
  BY <1>1, <1>2, <1>3

(* So what has been shown stays finite.                                    *)
LEMMA ShownFinite ==
  ASSUME ClockOK, Advance, IsFiniteSet(SetupsShown)
  PROVE  IsFiniteSet(SetupsShown')
<1>1. \A c : NewCandle(c) => IsFiniteSet(SetupsShown')
  BY FS_AddElement DEF NewCandle
<1> QED
  BY <1>1, EventShows

-----------------------------------------------------------------------------
(* The backtest's machine between two events.  While a setup waits, its    *)
(* age is counted in candles closed since, and it is later than every      *)
(* setup traded so far.                                                    *)
AfterTrades(time) == \A t \in trades : t.setup < time

WaitingOK(s, shown) ==
  /\ s.lastSetup = Latest(shown).close
  /\ s.waited = Cardinality(Since(shown, s.setupTime))
  /\ expiration # None => s.waited < expiration
  /\ AfterTrades(s.setupTime)

FlatOK(s, shown) ==
  /\ s.bars = 0
  /\ s.phase = "WAITING_FOR_SETUP" => s.waited = 0
  /\ s.phase = "WAITING_FOR_CONFIRMATION" => WaitingOK(s, shown)

(* A trade was left to candles that closed after its entry.                *)
TradesBehind == \A t \in trades : t.setup < t.entry /\ \E c \in SetupsShown : c.close > t.entry

TradeTimes == [side : Sides \cup {"none"}, setup : Times, decided : Times, entry : Times,
               exitDecided : Times, exit : Times, path : SUBSET Times, bars : Nat]

(* What evaluate does to the age of a setup.                               *)
LEMMA SeeSetupOrder ==
  ASSUME ClockOK, Advance, IsFiniteSet(SetupsShown),
         trades \subseteq TradeTimes, TradesBehind,
         NEW s, MachineOK(s, SetupsShown, now), FlatOK(s, SetupsShown),
         s.phase \in {"WAITING_FOR_SETUP", "WAITING_FOR_CONFIRMATION"},
         NEW r, r = SeeSetup(s, expiration, ViewAt(market', now'))
  PROVE  /\ r.phase \in {"WAITING_FOR_SETUP", "WAITING_FOR_CONFIRMATION"}
         /\ FlatOK(r, SetupsShown')
<1> DEFINE view == ViewAt(market', now')
           time == Latest(SetupsShown').close
           seen == [s EXCEPT !.lastSetup = time, !.trendTime = TrendRead(s, view)]
           side == SqzmomReversal(SetupsShown')
<1>1. /\ ClockOK' /\ now < now' /\ SetupsShown \subseteq SetupsShown' /\ expiration \in Nat
      /\ now \in Times /\ now' \in Times /\ view["4h"] = SetupsShown' /\ expiration' = expiration
  BY AdvanceOK, MarketAssumption DEF ClockOK, SetupsShown, Advance
<1>2. /\ \A c \in SetupsShown' : c.close \in Times
      /\ SetupsShown' # {} => /\ Latest(SetupsShown') \in SetupsShown'
                              /\ \A c \in SetupsShown' : c.close <= Latest(SetupsShown').close
  BY <1>1, ShownOK DEF ClockOK, SetupsShown
<1>3. /\ \A c \in SetupsShown : c.close \in Times /\ c.close < now
      /\ SetupsShown # {} => Latest(SetupsShown) \in SetupsShown
  BY <1>1, ShownOK DEF ClockOK, SetupsShown
<1>4. /\ s \in StrategyStates /\ s.setupTime \in Times /\ s.lastSetup \in Times
      /\ s.setupTime = None \/ s.setupTime < now
      /\ s.phase = "WAITING_FOR_CONFIRMATION" => SetupsShown # {}
  BY DEF MachineOK, StrategyStates, CandlesSeen, SetupIn
<1>5. CASE SetupsShown' = {} \/ time = s.lastSetup
  <2>1. r = s
    BY <1>1, <1>5 DEF SeeSetup
  <2>2. ASSUME s.phase = "WAITING_FOR_CONFIRMATION" PROVE SetupsShown' = SetupsShown
    <3>1. \A c : ~NewCandle(c)
      BY <1>1, <1>3, <1>4, <1>5, <2>2 DEF NewCandle, FlatOK, WaitingOK, Times
    <3> QED
      BY <3>1, EventShows
  <2> QED
    BY <2>1, <2>2 DEF FlatOK
<1>6. CASE SetupsShown' # {} /\ time # s.lastSetup
  <2>1. r = CASE s.phase = "WAITING_FOR_SETUP" ->
                   IF side # "none" /\ side = DailyTrend(view["1d"])
                     THEN StartSetup(seen, time, side) ELSE seen
              [] s.phase = "WAITING_FOR_CONFIRMATION" -> AgeSetup(seen, expiration)
              [] OTHER -> seen
    BY <1>1, <1>6 DEF SeeSetup
  <2>2. time \in Times
    BY <1>2, <1>6
  <2>7. TrendRead(s, view) \in Times
    <3>1. /\ now' \in Times /\ MarketOK(market', now')
          /\ MachineOK(s, SetupsShown', now')
      BY <1>1, MachineLater DEF ClockOK, Times
    <3> QED
      BY <3>1, TrendReadClosed
  <2> HIDE DEF side, view, time
  <2>3. /\ seen \in StrategyStates /\ seen.phase = s.phase /\ seen.bars = s.bars
        /\ seen.waited = s.waited /\ seen.lastSetup = time /\ seen.setupTime = s.setupTime
    BY <1>4, <2>2, <2>7 DEF StrategyStates
  <2> HIDE DEF seen
  <2>4. CASE s.phase = "WAITING_FOR_SETUP" /\ r = seen
    BY <2>3, <2>4 DEF FlatOK
  <2>5. CASE s.phase = "WAITING_FOR_SETUP" /\ r = StartSetup(seen, time, side)
    <3>1. /\ r.phase = "WAITING_FOR_CONFIRMATION" /\ r.bars = 0 /\ r.waited = 0
          /\ r.lastSetup = time /\ r.setupTime = time
      BY <2>3, <2>5 DEF StartSetup, StrategyStates, FlatOK
    <3>2. Since(SetupsShown', time) = {}
      BY <1>2, <1>6 DEF Since, Times, time
    <3>3. AfterTrades(time)
      BY <1>1, <1>2, <2>2 DEF AfterTrades, TradesBehind, TradeTimes, Times, time
    <3>4. WaitingOK(r, SetupsShown')
      BY <1>1, <3>1, <3>2, <3>3, FS_EmptySet DEF WaitingOK, time, None
    <3> QED
      BY <3>1, <3>4 DEF FlatOK
  <2>6. CASE s.phase = "WAITING_FOR_CONFIRMATION" /\ r = AgeSetup(seen, expiration)
    <3>1. PICK c : NewCandle(c)
      BY <1>6, <2>6, EventShows DEF FlatOK, WaitingOK, time
    <3>2. s.setupTime < c.close
      BY <1>1, <1>3, <1>4, <2>6, <3>1, Lengths DEF NewCandle, Times, MachineOK, SetupIn
    <3>3. Cardinality(Since(SetupsShown', s.setupTime)) = s.waited + 1
      BY <1>4, <2>6, <3>1, <3>2, SinceAtEvent DEF FlatOK, WaitingOK
    <3>4. CASE r = [Reset(seen) EXCEPT !.lastSetup = seen.lastSetup]
      BY <3>4 DEF Reset, Fresh, FlatOK
    <3>5. CASE r = [seen EXCEPT !.waited = @ + 1] /\ ~(expiration # None /\ seen.waited + 1 >= expiration)
      <4>1. /\ r.phase = "WAITING_FOR_CONFIRMATION" /\ r.bars = 0 /\ r.waited = s.waited + 1
            /\ r.lastSetup = time /\ r.setupTime = s.setupTime
        BY <2>3, <2>6, <3>5 DEF StrategyStates, FlatOK
      <4>2. s.waited \in Nat
        BY <1>4 DEF StrategyStates
      <4>3. WaitingOK(r, SetupsShown')
        BY <1>1, <2>3, <2>6, <3>3, <3>5, <4>1, <4>2 DEF FlatOK, WaitingOK, time
      <4> QED
        BY <4>1, <4>3 DEF FlatOK
    <3> QED
      BY <2>6, <3>4, <3>5 DEF AgeSetup
  <2> QED
    BY <2>1, <2>4, <2>5, <2>6
<1> QED
  BY <1>5, <1>6

(* And what it leaves: a setup that still waits, or a candidate made of a  *)
(* setup that has waited.                                                  *)
LEMMA EvaluateOrder ==
  ASSUME IInv, Advance, IsFiniteSet(SetupsShown),
         trades \subseteq TradeTimes, TradesBehind, FlatOK(strategy, SetupsShown),
         strategy.phase \in {"WAITING_FOR_SETUP", "WAITING_FOR_CONFIRMATION"},
         NEW e, e = Evaluate(strategy, expiration, ViewAt(market', now'))
  PROVE  /\ e.phase \in {"WAITING_FOR_SETUP", "WAITING_FOR_CONFIRMATION", "CANDIDATE"}
         /\ e.bars = 0 /\ e \in StrategyStates
         /\ e.phase # "CANDIDATE" => FlatOK(e, SetupsShown')
         /\ e.phase = "CANDIDATE" =>
              WaitingOK(e, SetupsShown') /\ e.candidate.setup = e.setupTime
<1> DEFINE view == ViewAt(market', now')
           r == SeeSetup(strategy, expiration, view)
           time == Latest(view["1h"]).close
           seen == [r EXCEPT !.lastConfirmation = time]
<1>1. r.phase \in {"WAITING_FOR_SETUP", "WAITING_FOR_CONFIRMATION"} /\ FlatOK(r, SetupsShown')
  BY SeeSetupOrder DEF IInv, BacktestOK, StrategyOK
<1>2. r \in StrategyStates
  BY MachinesAdvance, SeeSetupOK DEF IInv, BacktestOK, StrategyOK, SetupsShown, MachineOK
<1>3. e = SeeConfirmation(r, view)
  BY DEF Evaluate
<1>4. \/ e = r
      \/ e = seen
      \/ /\ r.phase = "WAITING_FOR_CONFIRMATION"
         /\ e = [seen EXCEPT !.phase = "CANDIDATE",
                   !.candidate = [side |-> r.side, setup |-> r.setupTime, confirmation |-> time,
                                  trend |-> DailyCandle(view["1d"])]]
  BY <1>3 DEF SeeConfirmation
<1>5. MachineOK(e, SetupsShown', now')
  BY MachinesAdvance, EvaluateOK DEF IInv, BacktestOK, StrategyOK, SetupsShown
<1>6. e \in StrategyStates
  BY <1>5 DEF MachineOK
<1> HIDE DEF r, view, time
<1>7. CASE e = r
  BY <1>1, <1>2, <1>7 DEF FlatOK
<1>8. CASE e = seen
  <2>1. /\ e.phase = r.phase /\ e.bars = r.bars /\ e.waited = r.waited
        /\ e.lastSetup = r.lastSetup /\ e.setupTime = r.setupTime
    BY <1>2, <1>8 DEF StrategyStates
  <2> QED
    BY <1>1, <1>6, <2>1 DEF FlatOK, WaitingOK
<1>9. CASE /\ r.phase = "WAITING_FOR_CONFIRMATION"
           /\ e = [seen EXCEPT !.phase = "CANDIDATE",
                     !.candidate = [side |-> r.side, setup |-> r.setupTime, confirmation |-> time,
                                    trend |-> DailyCandle(view["1d"])]]
  <2>1. /\ e.phase = "CANDIDATE" /\ e.bars = r.bars /\ e.waited = r.waited
        /\ e.lastSetup = r.lastSetup /\ e.setupTime = r.setupTime
        /\ e.candidate.setup = r.setupTime
    BY <1>2, <1>9 DEF StrategyStates
  <2> QED
    BY <1>1, <1>6, <1>9, <2>1 DEF FlatOK, WaitingOK
<1> QED
  BY <1>4, <1>7, <1>8, <1>9

(* Division with a remainder.                                              *)
LEMMA DivMod ==
  ASSUME NEW a \in Int, NEW b \in Nat \ {0}
  PROVE  a = b * (a \div b) + (a % b) /\ a % b \in 0..(b-1) /\ a \div b \in Int
<1>1. a \div b \in Int
  OBVIOUS
<1>2. a % b \in 0..(b-1)
  OBVIOUS
<1>3. a = b * (a \div b) + (a % b)
  OBVIOUS
<1> QED
  BY <1>1, <1>2, <1>3

(* A multiple leaves no remainder.                                         *)
LEMMA MultipleOf ==
  ASSUME NEW b \in Nat \ {0}, NEW q \in Int
  PROVE  (b * q) % b = 0
OBVIOUS

(* Products regroup.                                                       *)
LEMMA Regroup ==
  ASSUME NEW a \in Int, NEW b \in Int, NEW c \in Int
  PROVE  (a * b) * c = a * (b * c)
OBVIOUS

(* What is a multiple of several hours is a multiple of an hour, and two   *)
(* of them are an hour apart.                                              *)
LEMMA WholeHours ==
  ASSUME NEW hour \in Nat \ {0}, NEW hours \in Nat \ {0}, NEW a \in Nat, a % (hour * hours) = 0
  PROVE  a % hour = 0
<1> DEFINE n == hour * hours
           q == a \div n
<1>1. n \in Nat \ {0} /\ a % n = 0
  OBVIOUS
<1> HIDE DEF n
<1>2. a = n * q /\ q \in Int
  <2>1. a = n * (a \div n) + (a % n) /\ a \div n \in Int
    BY <1>1, DivMod
  <2> QED
    BY <1>1, <2>1
<1> HIDE DEF q
<1>3. hours * q \in Int /\ a = hour * (hours * q)
  <2>1. (hour * hours) * q = hour * (hours * q)
    BY <1>2, Regroup
  <2> QED
    BY <1>2, <2>1 DEF n
<1> QED
  BY <1>3, MultipleOf

(* Two different whole hours lie at least an hour apart.                   *)
LEMMA HoursApart ==
  ASSUME NEW hour \in Nat \ {0}, NEW a \in Nat, NEW b \in Nat, a % hour = 0, b % hour = 0, a < b
  PROVE  a + hour <= b
<1> DEFINE p == a \div hour
           q == b \div hour
<1>1. a = hour * p /\ b = hour * q /\ p \in Int /\ q \in Int
  BY DivMod
<1> HIDE DEF p, q
<1>2. p < q
  BY <1>1
<1>3. p + 1 <= q
  BY <1>1, <1>2
<1>4. hour * (p + 1) <= hour * q
  BY <1>1, <1>3
<1> QED
  BY <1>1, <1>4

(* Candles open at full hours.                                             *)
FramesAligned == \A tf \in Timeframes : \A c \in market[tf] : c.open % Hour = 0

(* A candle of any frame opens on a whole hour.                            *)
LEMMA OpensAligned ==
  ASSUME NEW tf \in Timeframes, NEW at \in Times, Opens(tf, at)
  PROVE  at % Hour = 0
<1>1. /\ Hour \in Nat \ {0} /\ SetupHours \in Nat \ {0} /\ DayHours \in Nat \ {0}
      /\ at \in Nat /\ at % Length(tf) = 0
  BY MarketAssumption DEF Opens, Times
<1>2. Length(tf) \in {Hour, Hour * SetupHours, Hour * DayHours}
  BY DEF Length, Timeframes
<1> QED
  BY <1>1, <1>2, WholeHours

(* What an event changes in the market: nothing that closed before it.     *)
LEMMA MarketAtEvent ==
  ASSUME ClockOK, Advance, FramesAligned
  PROVE  /\ FramesAligned'
         /\ \A tf \in Timeframes, from \in Times, to \in Times : to <= now' =>
              {c \in market'[tf] : from < c.close /\ c.close < to}
                = {c \in market[tf] : from < c.close /\ c.close < to}
         /\ \A from \in Times, to \in Times : to <= now' =>
              {c \in market'["1h"] : from <= c.open /\ c.open < to}
                = {c \in market["1h"] : from <= c.open /\ c.open < to}
         /\ \A tf \in Timeframes : \A bar \in FirstFrom(market'[tf], now') :
              bar.open = now' /\ bar \in market'[tf]
<1>1. ClockOK' /\ now' \in Times
  BY AdvanceOK DEF ClockOK
<1>2. \A tf \in Timeframes : /\ market[tf] \subseteq market'[tf]
                             /\ \A c \in market'[tf] : c \in market[tf] \/ (c.open = now' /\ Opens(tf, now'))
  BY MarketGrows
<1>3. \A tf \in Timeframes : \A c \in market'[tf] :
        c.open \in Times /\ c.close = c.open + Length(tf) - 1 /\ c.open <= now'
  BY <1>1 DEF ClockOK, MarketOK, FrameOK, CandlesOf
<1>4. \A tf \in Timeframes : Length(tf) \in Nat \ {0}
  BY Lengths
<1>5. FramesAligned'
  BY <1>1, <1>2, OpensAligned DEF FramesAligned
<1>6. ASSUME NEW tf \in Timeframes, NEW from \in Times, NEW to \in Times, to <= now'
      PROVE  {c \in market'[tf] : from < c.close /\ c.close < to}
               = {c \in market[tf] : from < c.close /\ c.close < to}
  <2>1. \A c \in market'[tf] : c.close < to => c \in market[tf]
    BY <1>1, <1>2, <1>3, <1>4, <1>6 DEF Times
  <2> QED
    BY <1>2, <2>1
<1>7. ASSUME NEW from \in Times, NEW to \in Times, to <= now'
      PROVE  {c \in market'["1h"] : from <= c.open /\ c.open < to}
               = {c \in market["1h"] : from <= c.open /\ c.open < to}
  <2>1. \A c \in market'["1h"] : c.open < to => c \in market["1h"]
    BY <1>1, <1>2, <1>7 DEF Times, Timeframes
  <2> QED
    BY <1>2, <2>1 DEF Timeframes
<1>8. \A tf \in Timeframes : \A bar \in FirstFrom(market'[tf], now') :
        bar.open = now' /\ bar \in market'[tf]
  BY <1>1, <1>3 DEF FirstFrom, Times
<1> QED
  BY <1>5, <1>6, <1>7, <1>8

-----------------------------------------------------------------------------
(* The second inductive invariant, relative to the first: what the machine *)
(* knows of its setup or of its position, what is behind the trades, and   *)
(* what the reviews were asked about.                                      *)
PositionOK ==
  /\ strategy.entryTime = position.entry /\ position.entry # None /\ position.entry <= now
  /\ position.setup < position.entry /\ position.decided <= position.entry
  /\ strategy.bars = Cardinality(Since(SetupsShown, position.entry))
  /\ \A c \in SetupsShown : c.close > position.entry =>
       strategy.lastManagement = Latest(SetupsShown).close
  /\ \A t \in trades : t.exit <= position.entry /\ t.setup < position.setup

StrategyInOrder ==
  /\ position = Flat => /\ strategy.phase \in {"WAITING_FOR_SETUP", "WAITING_FOR_CONFIRMATION"}
                        /\ FlatOK(strategy, SetupsShown)
  /\ position # Flat => strategy.phase = "POSITION_OPEN" /\ PositionOK

PathOf(t) == {c.open : c \in {d \in market["1h"] : t.entry <= d.open /\ d.open < t.exit}}

TradeOK(t) ==
  /\ t.decided <= t.entry /\ t.entry < t.exitDecided /\ t.exitDecided <= t.exit /\ t.exit <= now
  /\ t.path = PathOf(t)
  /\ t.bars = Cardinality(ClosedBetween("4h", t.entry, t.exitDecided))

Apart(t, u) == (t.exit <= u.entry \/ u.exit <= t.entry) /\ t.setup # u.setup

TradesOK ==
  /\ trades \subseteq TradeTimes /\ TradesBehind
  /\ \A t \in trades : TradeOK(t)
  /\ \A t, u \in trades : t # u => Apart(t, u)

ReviewInTime(r) ==
  /\ r.at <= now
  /\ expiration # None => Cardinality(ClosedBetween("4h", r.setup, r.at)) < expiration

ReviewsInTime == \A r \in reviews : ReviewInTime(r)

OrderInv ==
  /\ FramesAligned /\ IsFiniteSet(SetupsShown)
  /\ StrategyInOrder /\ TradesOK /\ ReviewsInTime

(* The candles between a moment and the event are those shown since then.  *)
LEMMA ShownSince ==
  ASSUME NEW m, NEW at \in Times, MarketOK(m, at), NEW from,
         NEW shown, shown = ViewAt(m, at)["4h"]
  PROVE  {c \in m["4h"] : from < c.close /\ c.close < at} = Since(shown, from)
BY ShownOK DEF Since

(* Trades and reviews of the past are not touched by an event.             *)
LEMMA TradesStayOK ==
  ASSUME ClockOK, Advance, OrderInv, NEW t \in trades
  PROVE  TradeOK(t)' /\ t \in TradeTimes /\ t.setup < t.entry
         /\ \E c \in SetupsShown' : c.close > t.entry
<1>1. /\ ClockOK' /\ now < now' /\ SetupsShown \subseteq SetupsShown' /\ now \in Times /\ now' \in Times
  BY AdvanceOK DEF ClockOK
<1>2. t \in TradeTimes /\ TradeOK(t) /\ t.setup < t.entry /\ \E c \in SetupsShown : c.close > t.entry
  BY DEF OrderInv, TradesOK, TradesBehind
<1>3. /\ t.entry \in Times /\ t.exit \in Times /\ t.exitDecided \in Times
      /\ t.exit <= now' /\ t.exitDecided <= now' /\ t.exit <= now /\ t.exitDecided <= t.exit
  BY <1>1, <1>2 DEF TradeTimes, TradeOK, Times
<1>4. PathOf(t)' = PathOf(t)
  <2>1. {c \in market'["1h"] : t.entry <= c.open /\ c.open < t.exit}
          = {c \in market["1h"] : t.entry <= c.open /\ c.open < t.exit}
    BY <1>3, MarketAtEvent DEF OrderInv
  <2> QED
    BY <2>1 DEF PathOf
<1>5. ClosedBetween("4h", t.entry, t.exitDecided)' = ClosedBetween("4h", t.entry, t.exitDecided)
  <2>1. {c \in market'["4h"] : t.entry < c.close /\ c.close < t.exitDecided}
          = {c \in market["4h"] : t.entry < c.close /\ c.close < t.exitDecided}
    BY <1>3, MarketAtEvent DEF OrderInv, Timeframes
  <2> QED
    BY <2>1 DEF ClosedBetween
<1>6. TradeOK(t)'
  <2>1. t.exit <= now'
    BY <1>3
  <2> QED
    BY <1>2, <1>4, <1>5, <2>1 DEF TradeOK
<1> QED
  BY <1>1, <1>2, <1>6

(* What has been asked of the review service stays in its time.            *)
LEMMA ReviewsStayOK ==
  ASSUME ClockOK, Advance, OrderInv, ReviewsOK, NEW r \in reviews
  PROVE  ReviewInTime(r)'
<1>1. /\ ClockOK' /\ now < now' /\ now \in Times /\ now' \in Times /\ expiration' = expiration
  BY AdvanceOK DEF ClockOK, Advance
<1>2. r.at \in Times /\ r.setup \in Times /\ r.at <= now
  BY DEF OrderInv, ReviewsInTime, ReviewInTime, ReviewsOK, CandidateTimes
<1>3. {c \in market'["4h"] : r.setup < c.close /\ c.close < r.at}
        = {c \in market["4h"] : r.setup < c.close /\ c.close < r.at}
  BY <1>1, <1>2, MarketAtEvent DEF OrderInv, Timeframes, Times
<1>4. r.at <= now'
  BY <1>1, <1>2 DEF Times
<1> QED
  BY <1>1, <1>2, <1>3, <1>4 DEF OrderInv, ReviewsInTime, ReviewInTime, ClosedBetween

(* A review is asked while the setup is young enough.                      *)
LEMMA ReviewOrder ==
  ASSUME ClockOK, Advance, OrderInv, ReviewsOK,
         NEW e, WaitingOK(e, SetupsShown'), e.candidate.setup = e.setupTime,
         Review(e.candidate)
  PROVE  ReviewsInTime'
<1>1. /\ ClockOK' /\ now' \in Times /\ expiration' = expiration
  BY AdvanceOK DEF ClockOK, Advance
<1>2. {c \in market'["4h"] : e.setupTime < c.close /\ c.close < now'} = Since(SetupsShown', e.setupTime)
  BY <1>1, ShownSince DEF ClockOK, SetupsShown
<1>3. \A r \in reviews' : r \in reviews \/ (r.setup = e.setupTime /\ r.at = now')
  BY DEF Review
<1>4. ASSUME NEW r \in reviews', r.setup = e.setupTime, r.at = now'
      PROVE  ReviewInTime(r)'
  <2>1. ClosedBetween("4h", r.setup, r.at)' = Since(SetupsShown', e.setupTime)
    BY <1>2, <1>4 DEF ClosedBetween
  <2>2. expiration # None => Cardinality(Since(SetupsShown', e.setupTime)) < expiration
    BY DEF WaitingOK
  <2> QED
    BY <1>1, <1>4, <2>1, <2>2 DEF ReviewInTime, Times
<1>5. \A r \in reviews' : ReviewInTime(r)'
  BY <1>3, <1>4, ReviewsStayOK
<1> QED
  BY <1>5 DEF ReviewsInTime

(* An event without a position.                                            *)
LEMMA LookForEntryOrder ==
  ASSUME IInv, IInv', Advance, OrderInv, LookForEntry(ViewAt(market', now'))
  PROVE  StrategyInOrder' /\ TradesOK' /\ ReviewsInTime'
<1> DEFINE view == ViewAt(market', now')
           e == Evaluate(strategy, expiration, view)
<1>1. /\ ClockOK /\ ClockOK' /\ now < now' /\ now \in Times /\ now' \in Times
      /\ expiration' = expiration /\ ReviewsOK
  BY AdvanceOK DEF IInv, ClockOK, Advance, BacktestOK
<1>2. position = Flat
  BY DEF LookForEntry
<1>3. /\ e.phase \in {"WAITING_FOR_SETUP", "WAITING_FOR_CONFIRMATION", "CANDIDATE"}
      /\ e.bars = 0 /\ e \in StrategyStates
      /\ e.phase # "CANDIDATE" => FlatOK(e, SetupsShown')
      /\ e.phase = "CANDIDATE" =>
           WaitingOK(e, SetupsShown') /\ e.candidate.setup = e.setupTime
  BY <1>2, EvaluateOrder DEF OrderInv, StrategyInOrder, TradesOK
<1>4. MachineOK(e, SetupsShown', now')
  BY MachinesAdvance, EvaluateOK DEF IInv, BacktestOK, StrategyOK, SetupsShown
<1>5. \/ NoCandidateNow(e)
      \/ EntryUnavailable(e) \/ EntryRejected(e) \/ EntryApproved(e)
  <2>1. status' # "RAISED"
    BY DEF IInv, BacktestOK
  <2> QED
    BY <2>1 DEF LookForEntry
<1> HIDE DEF e, view
<1>6. trades' = trades
  BY <1>5 DEF NoCandidateNow, EntryUnavailable, EntryRejected, EntryApproved
<1>7. TradesOK'
  <2>1. \A t \in trades : TradeOK(t)' /\ t \in TradeTimes /\ t.setup < t.entry
                         /\ \E c \in SetupsShown' : c.close > t.entry
    BY <1>1, TradesStayOK
  <2>2. \A t, u \in trades : t # u => Apart(t, u)
    BY DEF OrderInv, TradesOK
  <2> QED
    BY <1>6, <2>1, <2>2 DEF TradesOK, TradesBehind, Apart
<1>8. CASE NoCandidateNow(e)
  <2>1. strategy' = e /\ e.phase # "CANDIDATE" /\ position' = position /\ reviews' = reviews
    BY <1>8 DEF NoCandidateNow
  <2>2. FlatOK(strategy, SetupsShown)'
    BY <1>1, <1>3, <1>6, <2>1 DEF FlatOK, WaitingOK, AfterTrades
  <2>3. ReviewsInTime'
    BY <1>1, <2>1, ReviewsStayOK DEF ReviewsInTime
  <2> QED
    BY <1>2, <1>3, <1>7, <2>1, <2>2, <2>3 DEF StrategyInOrder, Flat
<1>9. ASSUME e.phase = "CANDIDATE", Review(e.candidate) PROVE ReviewsInTime'
  BY <1>1, <1>3, <1>9, ReviewOrder
<1>10. ASSUME strategy' = Fresh, position' = position PROVE StrategyInOrder'
  <2>1. FlatOK(strategy, SetupsShown)' /\ strategy'.phase = "WAITING_FOR_SETUP"
    BY <1>10 DEF FlatOK, Fresh
  <2> QED
    BY <1>2, <1>10, <2>1 DEF StrategyInOrder, Flat
<1>11. CASE EntryUnavailable(e) \/ EntryRejected(e)
  <2>1. e.phase = "CANDIDATE" /\ Review(e.candidate) /\ position' = position /\ strategy' = Fresh
    BY <1>11 DEF EntryUnavailable, EntryRejected, ResolveCandidate, Reset
  <2> QED
    BY <1>7, <1>9, <1>10, <2>1
<1>12. CASE EntryApproved(e)
  <2>1. e.phase = "CANDIDATE" /\ Review(e.candidate)
    BY <1>12 DEF EntryApproved
  <2>2. CASE strategy' = Reset(strategy) /\ UNCHANGED position
    BY <1>7, <1>9, <1>10, <2>1, <2>2 DEF Reset
  <2>3. CASE \E bar \in NextOpen(market'["1h"], now') :
               /\ strategy' = MarkEntry(ResolveCandidate(e, TRUE), bar.open)
               /\ position' = [side |-> e.candidate.side, setup |-> e.candidate.setup,
                               decided |-> now', entry |-> bar.open]
    <3>1. PICK bar \in NextOpen(market'["1h"], now') :
            /\ strategy' = MarkEntry(ResolveCandidate(e, TRUE), bar.open)
            /\ position' = [side |-> e.candidate.side, setup |-> e.candidate.setup,
                            decided |-> now', entry |-> bar.open]
      BY <2>3
    <3>2. bar.open = now'
      BY <1>1, MarketAtEvent DEF NextOpen, OrderInv, Timeframes
    <3>3. /\ position'.entry = now' /\ position'.decided = now' /\ position'.setup = e.setupTime
          /\ now' # None
      BY <1>1, <1>3, <2>1, <3>1, <3>2 DEF None, Times
    <3>4. position' # Flat
      BY <3>3 DEF Flat
    <3>5. strategy'.phase = "POSITION_OPEN" /\ strategy'.entryTime = now' /\ strategy'.bars = 0
      BY <1>3, <3>1, <3>2 DEF MarkEntry, ResolveCandidate, StrategyStates
    <3>6. e.setupTime \in Times /\ e.setupTime < now'
      BY <1>1, <1>3, <1>4, <2>1 DEF MachineOK, CandidateOK, StrategyStates, Times
    <3>7. \A c \in SetupsShown' : c.close \in Times /\ c.close < now'
      BY <1>1, ShownOK DEF ClockOK, SetupsShown
    <3>8. Cardinality(Since(SetupsShown', now')) = 0
      <4>1. Since(SetupsShown', now') = {}
        BY <1>1, <3>7 DEF Since, Times
      <4> QED
        BY <4>1, FS_EmptySet
    <3>9. \A t \in trades : t.exit <= now' /\ t.setup < e.setupTime
      <4>1. \A t \in trades : t.exit \in Times /\ t.exit <= now
        BY DEF OrderInv, TradesOK, TradeOK, TradeTimes
      <4> QED
        BY <1>1, <1>3, <2>1, <4>1 DEF WaitingOK, AfterTrades, Times
    <3>10. PositionOK'
      BY <1>1, <1>6, <3>3, <3>5, <3>6, <3>7, <3>8, <3>9 DEF PositionOK, Times
    <3>11. StrategyInOrder'
      BY <3>4, <3>5, <3>10 DEF StrategyInOrder
    <3> QED
      BY <1>7, <1>9, <2>1, <3>11
  <2> QED
    BY <1>12, <2>2, <2>3 DEF EntryApproved
<1> QED
  BY <1>5, <1>8, <1>11, <1>12

(* A review is due exactly when a candle that closed after the entry is    *)
(* shown for the first time.                                               *)
LEMMA ReviewDueOnce ==
  ASSUME IInv, Advance, OrderInv, position # Flat
  PROVE  /\ ReviewDue(strategy, ViewAt(market', now')) =>
              /\ \E c \in SetupsShown' : c.close > position.entry
              /\ Cardinality(Since(SetupsShown', position.entry)) = strategy.bars + 1
         /\ ~ReviewDue(strategy, ViewAt(market', now')) =>
              /\ Since(SetupsShown', position.entry) = Since(SetupsShown, position.entry)
              /\ \A c \in SetupsShown' : c.close > position.entry =>
                   strategy.lastManagement = Latest(SetupsShown').close
<1> DEFINE view == ViewAt(market', now')
           due == ReviewDue(strategy, view)
<1>1. /\ ClockOK /\ ClockOK' /\ now < now' /\ now \in Times /\ now' \in Times
      /\ IsFiniteSet(SetupsShown) /\ position.entry \in Times
  BY AdvanceOK DEF IInv, ClockOK, BacktestOK, Positions, OrderInv
<1>2. PositionOK
  BY DEF OrderInv, StrategyInOrder
<1>3. due <=> /\ SetupsShown' # {}
              /\ Latest(SetupsShown').close # strategy.lastManagement
              /\ Latest(SetupsShown').close > position.entry
  BY <1>2 DEF ReviewDue, PositionOK, SetupsShown
<1>4. /\ \A c \in SetupsShown' : c.close \in Times
      /\ SetupsShown' # {} => /\ Latest(SetupsShown') \in SetupsShown'
                              /\ \A c \in SetupsShown' : c.close <= Latest(SetupsShown').close
  BY <1>1, ShownOK DEF ClockOK, SetupsShown
<1>5. /\ strategy.lastManagement \in Times
      /\ strategy.lastManagement = None \/ strategy.lastManagement < now
  BY DEF IInv, BacktestOK, StrategyOK, MachineOK, StrategyStates, CandlesSeen
<1> HIDE DEF due, view
<1>6. CASE SetupsShown' = SetupsShown
  <2>1. ~due
    BY <1>2, <1>3, <1>4, <1>6 DEF PositionOK
  <2> QED
    BY <1>2, <1>6, <2>1 DEF PositionOK, due, view
<1>7. ASSUME NEW c, NewCandle(c), c.close > position.entry
      PROVE  due /\ Cardinality(Since(SetupsShown', position.entry)) = strategy.bars + 1
             /\ c \in SetupsShown'
  <2>1. c \in SetupsShown' /\ Latest(SetupsShown') = c /\ now <= c.close /\ c.close \in Times
    BY <1>7 DEF NewCandle
  <2>2. c.close # strategy.lastManagement
    BY <1>1, <1>5, <1>7, <2>1 DEF None, Times
  <2>3. due
    BY <1>3, <1>7, <2>1, <2>2
  <2>4. Cardinality(Since(SetupsShown', position.entry)) = strategy.bars + 1
    BY <1>1, <1>2, <1>7, <2>1, SinceAtEvent DEF PositionOK, Times
  <2> QED
    BY <2>1, <2>3, <2>4
<1>8. ASSUME NEW c, NewCandle(c), ~(c.close > position.entry)
      PROVE  /\ ~due /\ Since(SetupsShown', position.entry) = Since(SetupsShown, position.entry)
             /\ \A d \in SetupsShown' : ~(d.close > position.entry)
  <2>1. c \in SetupsShown' /\ Latest(SetupsShown') = c /\ c.close \in Times
    BY <1>8 DEF NewCandle
  <2>2. ~due
    BY <1>3, <1>8, <2>1
  <2>3. Since(SetupsShown', position.entry) = Since(SetupsShown, position.entry)
    BY <1>1, <1>8, <2>1, SinceAtEvent DEF Times
  <2>4. \A d \in SetupsShown' : ~(d.close > position.entry)
    BY <1>1, <1>4, <1>8, <2>1 DEF Times
  <2> QED
    BY <2>2, <2>3, <2>4
<1>9. CASE \E c : NewCandle(c)
  <2>1. PICK c : NewCandle(c)
    BY <1>9
  <2>2. CASE c.close > position.entry
    BY <1>7, <2>1, <2>2 DEF due, view
  <2>3. CASE ~(c.close > position.entry)
    BY <1>8, <2>1, <2>3 DEF due, view
  <2> QED
    BY <2>2, <2>3
<1> QED
  BY <1>1, <1>6, <1>9, EventShows

(* An event with a position.                                               *)
LEMMA ManageOrder ==
  ASSUME IInv, IInv', Advance, OrderInv, Manage(ViewAt(market', now'))
  PROVE  StrategyInOrder' /\ TradesOK' /\ ReviewsInTime'
<1> DEFINE view == ViewAt(market', now')
<1>1. /\ ClockOK /\ ClockOK' /\ now < now' /\ now \in Times /\ now' \in Times
      /\ position \in Positions /\ strategy \in StrategyStates /\ ReviewsOK
  BY AdvanceOK DEF IInv, ClockOK, BacktestOK, StrategyOK, MachineOK
<1>2. position # Flat /\ strategy.phase = "POSITION_OPEN" /\ PositionOK
  BY DEF Manage, OrderInv, StrategyInOrder
<1>3. \A t \in trades : TradeOK(t)' /\ t \in TradeTimes /\ t.setup < t.entry
                         /\ \E c \in SetupsShown' : c.close > t.entry
  BY <1>1, TradesStayOK
<1>4. \A t, u \in trades : t # u => Apart(t, u)
  BY DEF OrderInv, TradesOK
<1>5. ReviewsInTime'
  <2>1. reviews' = reviews
    BY DEF Manage, NothingToReview, Hold, Exit, backtest_vars
  <2> QED
    BY <1>1, <2>1, ReviewsStayOK DEF ReviewsInTime
<1>6. trades' = trades => TradesOK'
  BY <1>3, <1>4 DEF TradesOK, TradesBehind, Apart
<1>7. /\ position.entry \in Times /\ position.decided \in Times /\ position.setup \in Times
      /\ position.entry < now' /\ strategy.bars \in Nat
      /\ \A t \in trades : t.exit \in Times /\ t.entry \in Times /\ t.setup \in Times
  BY <1>1, <1>2, <1>3 DEF PositionOK, Positions, StrategyStates, TradeTimes, Times
<1>8. SetupsShown' = view["4h"]
  BY DEF SetupsShown
<1>9. CASE NothingToReview(view)
  <2>1. ~ReviewDue(strategy, view) /\ position' = position /\ strategy' = strategy /\ trades' = trades
    BY <1>9 DEF NothingToReview, backtest_vars
  <2>2. PositionOK'
    <3>1. /\ Since(SetupsShown', position.entry) = Since(SetupsShown, position.entry)
          /\ \A c \in SetupsShown' : c.close > position.entry =>
               strategy.lastManagement = Latest(SetupsShown').close
      BY <1>2, <2>1, ReviewDueOnce
    <3>2. position.entry <= now'
      BY <1>1, <1>7 DEF Times
    <3> QED
      BY <1>2, <2>1, <3>1, <3>2 DEF PositionOK
  <2> QED
    BY <1>2, <1>5, <1>6, <2>1, <2>2 DEF StrategyInOrder, Flat
<1>10. CASE Hold(view)
  <2>1. /\ ReviewDue(strategy, view) /\ position' = position /\ trades' = trades
        /\ strategy' = ManagementPayload(strategy, view)
    BY <1>10 DEF Hold
  <2>2. /\ strategy'.phase = strategy.phase /\ strategy'.entryTime = strategy.entryTime
        /\ strategy'.bars = strategy.bars + 1
        /\ strategy'.lastManagement = Latest(SetupsShown').close
    BY <1>1, <1>8, <2>1 DEF ManagementPayload, StrategyStates
  <2>3. PositionOK'
    <3>1. Cardinality(Since(SetupsShown', position.entry)) = strategy.bars + 1
      BY <1>2, <2>1, ReviewDueOnce
    <3>2. position.entry <= now'
      BY <1>1, <1>7 DEF Times
    <3> QED
      BY <1>2, <2>1, <2>2, <3>1, <3>2 DEF PositionOK
  <2> QED
    BY <1>2, <1>5, <1>6, <2>1, <2>2, <2>3 DEF StrategyInOrder, Flat
<1>11. CASE Exit(view)
  <2>1. PICK bar \in NextOpen(market'["4h"], now') :
          trades' = trades \cup
            {[side |-> position.side, setup |-> position.setup,
              decided |-> position.decided, entry |-> position.entry,
              exitDecided |-> now', exit |-> bar.open,
              path |-> {c.open : c \in Path(market'["1h"], position.entry, now')},
              bars |-> ManagementPayload(strategy, view).bars]}
    BY <1>11 DEF Exit
  <2>2. bar.open = now' /\ bar \in market'["4h"]
    BY <1>1, <2>1, MarketAtEvent DEF NextOpen, OrderInv, Timeframes
  <2>3. ManagementPayload(strategy, view).bars = strategy.bars + 1
    BY <1>1 DEF ManagementPayload, StrategyStates
  <2>4. Cardinality(Since(SetupsShown', position.entry)) = strategy.bars + 1
        /\ \E c \in SetupsShown' : c.close > position.entry
    BY <1>2, <1>11, ReviewDueOnce DEF Exit
  <2> DEFINE path == {c.open : c \in Path(market'["1h"], position.entry, now')}
  <2>5. /\ path = {c.open : c \in {d \in market'["1h"] : position.entry <= d.open /\ d.open < now'}}
        /\ path \subseteq Times
    <3>1. now' % Hour = 0 /\ \A c \in market'["1h"] : c.open % Hour = 0
      BY <1>1, <2>2, MarketAtEvent DEF OrderInv, FramesAligned, Timeframes
    <3>2. \A c \in market'["1h"] : c.open \in Times /\ c.close = c.open + Hour - 1
      BY <1>1 DEF ClockOK, MarketOK, FrameOK, CandlesOf, Length, Timeframes
    <3>3. Hour \in Nat \ {0} /\ now' \in Nat
      BY <1>1, MarketAssumption DEF Times
    <3>4. \A c \in market'["1h"] : c.close < now' <=> c.open < now'
      <4>1. TAKE c \in market'["1h"]
      <4>2. c.open \in Nat
        BY <3>2 DEF Times
      <4>3. c.open < now' => c.open + Hour <= now'
        BY <3>1, <3>3, <4>2, HoursApart
      <4> QED
        BY <3>2, <3>3, <4>2, <4>3
    <3>5. Path(market'["1h"], position.entry, now')
            = {d \in market'["1h"] : position.entry <= d.open /\ d.open < now'}
      BY <1>7, <3>2, <3>4 DEF Path, Times
    <3> QED
      BY <3>2, <3>5
  <2>6. {c \in market'["4h"] : position.entry < c.close /\ c.close < now'}
          = Since(SetupsShown', position.entry)
    BY <1>1, ShownSince DEF ClockOK, SetupsShown
  <2> HIDE DEF path
  <2>7. PICK new : /\ trades' = trades \cup {new}
                   /\ new = [side |-> position.side, setup |-> position.setup,
                             decided |-> position.decided, entry |-> position.entry,
                             exitDecided |-> now', exit |-> now', path |-> path,
                             bars |-> strategy.bars + 1]
    BY <2>1, <2>2, <2>3 DEF path
  <2>8. new \in TradeTimes
    BY <1>1, <1>7, <2>5, <2>7 DEF TradeTimes, Positions
  <2>9. /\ new.decided = position.decided /\ new.entry = position.entry /\ new.exitDecided = now'
        /\ new.exit = now' /\ new.path = path /\ new.bars = strategy.bars + 1
        /\ new.setup = position.setup
    BY <2>7
  <2>10. TradeOK(new)'
    <3>1. PathOf(new)' = path
      BY <2>5, <2>9 DEF PathOf
    <3>2. ClosedBetween("4h", new.entry, new.exitDecided)' = Since(SetupsShown', position.entry)
      BY <2>6, <2>9 DEF ClosedBetween
    <3>3. /\ new.decided <= new.entry /\ new.entry < new.exitDecided
          /\ new.exitDecided <= new.exit /\ new.exit <= now'
      BY <1>1, <1>2, <1>7, <2>9 DEF PositionOK, Times
    <3> QED
      BY <2>4, <2>9, <3>1, <3>2, <3>3 DEF TradeOK
  <2>11. \A t \in trades : Apart(t, new) /\ Apart(new, t)
    BY <1>2, <1>7, <2>9 DEF Apart, PositionOK, Times
  <2>12. TradesOK'
    <3>1. new.setup < new.entry /\ \E c \in SetupsShown' : c.close > new.entry
      BY <1>2, <2>4, <2>9 DEF PositionOK
    <3>2. \A t \in trades' : t = new \/ t \in trades
      BY <2>7
    <3>3. \A t, u \in trades' : t # u => Apart(t, u)
      BY <1>4, <2>11, <3>2
    <3>4. trades' \subseteq TradeTimes /\ TradesBehind'
      BY <1>3, <2>8, <3>1, <3>2 DEF TradesBehind
    <3>5. \A t \in trades' : TradeOK(t)'
      BY <1>3, <2>10, <3>2
    <3> QED
      BY <3>3, <3>4, <3>5 DEF TradesOK, Apart
  <2>13. StrategyInOrder'
    <3>1. strategy' = Fresh /\ position' = Flat
      BY <1>11 DEF Exit, Reset
    <3> QED
      BY <3>1 DEF StrategyInOrder, FlatOK, Fresh
  <2> QED
    BY <1>5, <2>12, <2>13
<1> QED
  BY <1>9, <1>10, <1>11 DEF Manage

(* The first state, and a step that changes nothing.                       *)
LEMMA OrderInit == Init => OrderInv
<1> SUFFICES ASSUME Init PROVE OrderInv
  OBVIOUS
<1>1. ClockOK /\ 0 \in Times /\ now = 0
  BY InitInv, Lengths DEF Init, IInv, Times
<1>2. FramesAligned
  <2>1. PICK hourly \in NextFrames("1h", {}, 0), setup \in NextFrames("4h", {}, 0),
             daily \in NextFrames("1d", {}, 0) : market = Market(hourly, setup, daily)
    BY DEF Init
  <2>2. \A c \in hourly \cup setup \cup daily : c.open = 0
    BY <2>1 DEF NextFrames, Candle
  <2>3. 0 % Hour = 0
    BY MarketAssumption
  <2> QED
    BY <2>1, <2>2, <2>3 DEF FramesAligned, Market, Timeframes
<1>3. IsFiniteSet(SetupsShown)
  <2>1. \A c \in SetupsShown : c.close \in Times /\ c.close < 0
    BY <1>1, ShownOK DEF ClockOK, SetupsShown
  <2>2. SetupsShown = {}
    BY <2>1 DEF Times
  <2> QED
    BY <2>2, FS_EmptySet
<1>4. strategy = Fresh /\ position = Flat /\ reviews = {} /\ trades = {}
  BY DEF Init
<1>5. StrategyInOrder
  BY <1>4 DEF StrategyInOrder, FlatOK, Fresh
<1>6. TradesOK /\ ReviewsInTime
  BY <1>4 DEF TradesOK, TradesBehind, ReviewsInTime
<1> QED
  BY <1>2, <1>3, <1>5, <1>6 DEF OrderInv

(* A step that changes nothing changes none of it.                         *)
LEMMA OrderStutter == OrderInv /\ UNCHANGED vars => OrderInv'
<1> SUFFICES ASSUME OrderInv, UNCHANGED vars PROVE OrderInv'
  OBVIOUS
<1>1. /\ expiration' = expiration /\ now' = now /\ market' = market
      /\ strategy' = strategy /\ position' = position /\ reviews' = reviews /\ trades' = trades
  BY DEF vars, market_vars, backtest_vars
<1>2. SetupsShown' = SetupsShown
  BY <1>1 DEF SetupsShown
<1>3. FramesAligned' /\ IsFiniteSet(SetupsShown')
  BY <1>1, <1>2 DEF OrderInv, FramesAligned
<1>4. StrategyInOrder'
  BY <1>1, <1>2 DEF OrderInv, StrategyInOrder, FlatOK, WaitingOK, AfterTrades, PositionOK
<1>5. TradesOK'
  BY <1>1, <1>2 DEF OrderInv, TradesOK, TradesBehind, TradeOK, Apart, PathOf, ClosedBetween
<1>6. ReviewsInTime'
  BY <1>1 DEF OrderInv, ReviewsInTime, ReviewInTime, ClosedBetween
<1> QED
  BY <1>3, <1>4, <1>5, <1>6 DEF OrderInv

(* The second invariant holds at every event, too.                         *)
THEOREM OrderInvariant == Spec => []OrderInv
<1>1. ASSUME IInv, IInv', OrderInv, [Next]_vars PROVE OrderInv'
  <2>1. CASE Event
    <3>1. /\ Advance
          /\ LookForEntry(ViewAt(market', now')) \/ Manage(ViewAt(market', now'))
      BY <2>1 DEF Event
    <3>2. FramesAligned' /\ IsFiniteSet(SetupsShown')
      BY <1>1, <3>1, MarketAtEvent, ShownFinite DEF IInv, OrderInv
    <3>3. StrategyInOrder' /\ TradesOK' /\ ReviewsInTime'
      BY <1>1, <3>1, LookForEntryOrder, ManageOrder
    <3> QED
      BY <3>2, <3>3 DEF OrderInv
  <2> QED
    BY <1>1, <2>1, OrderStutter DEF Next
<1> QED
  BY <1>1, OrderInit, BacktestInvariant, PTL DEF Spec

(* A fill never precedes its decision, trades do not overlap, and a trade  *)
(* lives through exactly the hours between its fills.                      *)
THEOREM TradesStayInOrder == Spec => []TradesInOrder
<1>1. OrderInv => TradesInOrder
  BY DEF OrderInv, TradesOK, TradeOK, PathOf, Apart, StrategyInOrder, PositionOK, TradesInOrder
<1> QED
  BY <1>1, OrderInvariant, PTL

(* No setup is traded twice, although the machine forgets it at every exit.*)
THEOREM SetupsTradedOnce == Spec => []SetupTradedOnce
<1>1. IInv /\ OrderInv => SetupTradedOnce
  <2> SUFFICES ASSUME IInv, OrderInv PROVE SetupTradedOnce
    OBVIOUS
  <2>1. \A t \in trades : position # Flat => t.setup < position.setup /\ t.setup \in Times
    BY DEF OrderInv, TradesOK, TradeTimes, StrategyInOrder, PositionOK
  <2>2. position.setup \in Times
    BY DEF IInv, BacktestOK, Positions
  <2>3. \A t \in trades : position # Flat => position.setup # t.setup
    BY <2>1, <2>2 DEF Times
  <2>4. \A t, u \in trades : t.setup = u.setup => t = u
    BY DEF OrderInv, TradesOK, Apart
  <2> QED
    BY <2>3, <2>4 DEF SetupTradedOnce
<1> QED
  BY <1>1, BacktestInvariant, OrderInvariant, PTL

(* The bars reported with a trade are the management candles that closed   *)
(* while it was open.                                                      *)
THEOREM BarsCounted == Spec => []BarsCountClosedCandles
<1>1. IInv /\ OrderInv => BarsCountClosedCandles
  <2> SUFFICES ASSUME IInv, OrderInv PROVE BarsCountClosedCandles
    OBVIOUS
  <2>1. ClosedBetween("4h", position.entry, now) = Since(SetupsShown, position.entry)
    BY ShownSince DEF IInv, ClockOK, SetupsShown, ClosedBetween
  <2> QED
    BY <2>1 DEF OrderInv, StrategyInOrder, PositionOK, TradesOK, TradeOK, BarsCountClosedCandles
<1> QED
  BY <1>1, BacktestInvariant, OrderInvariant, PTL

(* No review is ever asked about a setup that has expired.                 *)
THEOREM ExpiryHolds == Spec => []ExpiryRespected
<1>1. OrderInv => ExpiryRespected
  BY DEF OrderInv, ReviewsInTime, ReviewInTime, ExpiryRespected
<1> QED
  BY <1>1, OrderInvariant, PTL
=============================================================================
