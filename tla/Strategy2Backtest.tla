--------------------------- MODULE Strategy2Backtest ---------------------------
(***************************************************************************)
(* The full backtest of Strategy 2 (backtest/strategy_2_engine.py) and the *)
(* candidate census (backtest/strategy_2_candidates.py) over the same      *)
(* market.  One step is one event: the hour ends, the census evaluates its *)
(* strategy, and the backtest evaluates its own, asks for a review and     *)
(* opens or closes its position.  The decisions of the review service are  *)
(* arbitrary (module AIDecisions says how they come about).                *)
(*                                                                         *)
(* The programs read a frozen market; here a candle is chosen when it      *)
(* opens, with the colour it will have at its close, so `market` always    *)
(* contains candles that are not closed yet.  Nothing looks further ahead  *)
(* than the candle that opens at the event.                                *)
(***************************************************************************)
EXTENDS Strategy2, FiniteSets

CONSTANTS
  Hour,         \* length of a 1h candle; a candle closes 1 before the next opens
  SetupHours,   \* length of a 4h candle, in hours
  DayHours,     \* length of a 1d candle, in hours
  Hours,        \* length of the market, in hours
  HourlyFrom,   \* the hour at which the 1h frame begins
  HourMarks, SetupMarks,   \* colours that occur
  TrendMarks,              \* daily trends that occur
  Expirations              \* configurations of setup_expiration_bars

ASSUME MarketAssumption ==
  /\ {Hour, SetupHours, DayHours, Hours} \subseteq Nat \ {0}
  /\ Hour > 1
  /\ HourlyFrom \in Nat /\ HourlyFrom % SetupHours = 0
  /\ HourMarks \subseteq Colors /\ SetupMarks \subseteq Colors
  /\ TrendMarks \subseteq Sides \cup {"none"}
  /\ Expirations \subseteq Nat

VARIABLES
  expiration, \* setup_expiration_bars of both programs
  now,        \* the event under way, or 0 at the start
  market,     \* [timeframe -> candles opened so far]
  strategy,   \* the backtest's Strategy2 instance
  position,   \* the backtest's position
  reviews,    \* ENTRY requests sent: candidates with the event they were sent at
  trades,     \* closed trades
  status,     \* RUNNING, ABORTED by a missing ENTRY decision, or RAISED
  census,     \* the census' Strategy2 instance
  found,      \* the candidates the census lists
  censusStatus  \* RUNNING, or RAISED

market_vars == <<expiration, now, market>>
backtest_vars == <<strategy, position, reviews, trades, status>>
census_vars == <<census, found, censusStatus>>
vars == <<market_vars, backtest_vars, census_vars>>

End == Hour * Hours

Length(tf) ==
  CASE tf = "1h" -> Hour [] tf = "4h" -> Hour * SetupHours [] tf = "1d" -> Hour * DayHours

Marks(tf) ==
  CASE tf = "1h" -> HourMarks [] tf = "4h" -> SetupMarks [] tf = "1d" -> TrendMarks

Flat == [side |-> "none", setup |-> None, decided |-> None, entry |-> None]

(* calculate_sqzmom_color: a light colour follows a value of its own sign, *)
(* so it never follows the colour of the other sign.                       *)
MayFollow(from, to) ==
  /\ to = "light_red" => from \notin {"dark_green", "light_green"}
  /\ to = "light_green" => from \notin {"dark_red", "light_red"}

(* A frame at a moment: the candle of its timeframe that opens there, if   *)
(* one does and it closes within the market, is added.                     *)
Opens(tf, at) ==
  /\ at % Length(tf) = 0
  /\ at + Length(tf) <= End
  /\ tf = "1h" => at >= Hour * HourlyFrom

Candle(tf, at, mark) == [open |-> at, close |-> at + Length(tf) - 1, mark |-> mark]

NextFrames(tf, frame, at) ==
  IF Opens(tf, at)
    THEN {frame \cup {Candle(tf, at, mark)} :
            mark \in {m \in Marks(tf) : tf = "1d" \/ frame = {}
                                        \/ MayFollow(Latest(frame).mark, m)}}
    ELSE {frame}

Market(hourly, setup, daily) ==
  [tf \in Timeframes |->
     CASE tf = "1h" -> hourly [] tf = "4h" -> setup [] tf = "1d" -> daily]

(* Time goes on to the next close, where new candles open.                 *)
NextEvents == {t \in EventTimes(market) : t > now /\ \A u \in EventTimes(market) : u > now => t <= u}

Advance ==
  /\ now' \in NextEvents
  /\ UNCHANGED expiration
  /\ \E hourly \in NextFrames("1h", market["1h"], now'),
        setup \in NextFrames("4h", market["4h"], now'),
        daily \in NextFrames("1d", market["1d"], now') :
       market' = Market(hourly, setup, daily)

-----------------------------------------------------------------------------
(* The census: every candidate is listed and the strategy reset, but the   *)
(* candles it has seen stay seen.                                          *)

\* Variant for the sensitivity check: the seen candles are forgotten.
ForgetAll(s) == Reset(s)

StayFlat(s) ==
  [Reset(s) EXCEPT !.lastSetup = s.lastSetup, !.lastConfirmation = s.lastConfirmation]

ListCandidate(s) ==
  /\ s.phase = "CANDIDATE"
  /\ found' = found \cup {s.candidate}
  /\ census' = StayFlat(s)
  /\ UNCHANGED censusStatus

(* The census ends, too, when evaluate raises.                             *)
Enumerate(view) ==
  LET s == Evaluate(census, expiration, view)
  IN \/ /\ censusStatus = "RAISED"
        /\ UNCHANGED census_vars
     \/ /\ censusStatus = "RUNNING"
        /\ \/ s.phase # "CANDIDATE" /\ census' = s /\ UNCHANGED <<found, censusStatus>>
           \/ ContextFound(s.candidate, view) /\ ListCandidate(s)
           \/ /\ s.phase = "CANDIDATE" /\ ~ContextFound(s.candidate, view)
              /\ censusStatus' = "RAISED"
              /\ UNCHANGED <<census, found>>

-----------------------------------------------------------------------------
(* The backtest.                                                           *)

\* Variants for the sensitivity check: the bar that has just closed counts;
\* a bar is made up where the market ends.
NextOpenAtClose(frame, at) == FirstFrom(frame, at - Hour)

NextOpenInvented(frame, at) ==
  IF FirstFrom(frame, at) # {} THEN FirstFrom(frame, at) ELSE {Candle("1h", at + Hour, "neutral")}

NextOpen(frame, at) == FirstFrom(frame, at)

Review(candidate) ==
  reviews' = reviews \cup
    {[side |-> candidate.side, setup |-> candidate.setup,
      confirmation |-> candidate.confirmation, trend |-> candidate.trend, at |-> now']}

NoCandidateNow(s) ==
  /\ s.phase # "CANDIDATE"
  /\ strategy' = s
  /\ UNCHANGED <<position, reviews, trades, status>>

EntryUnavailable(s) ==
  /\ s.phase = "CANDIDATE"
  /\ Review(s.candidate)
  /\ strategy' = ResolveCandidate(s, FALSE)
  /\ status' = "ABORTED"
  /\ UNCHANGED <<position, trades>>

EntryRejected(s) ==
  /\ s.phase = "CANDIDATE"
  /\ Review(s.candidate)
  /\ strategy' = ResolveCandidate(s, FALSE)
  /\ UNCHANGED <<position, trades, status>>

(* The position opens at the next hourly open; without one everything is   *)
(* forgotten (NO_NEXT_BAR).                                                *)
EntryApproved(s) ==
  LET approved == ResolveCandidate(s, TRUE)
      bars == NextOpen(market'["1h"], now')
  IN /\ s.phase = "CANDIDATE"
     /\ Review(s.candidate)
     /\ \/ /\ bars = {}
           /\ strategy' = Reset(strategy)
           /\ UNCHANGED position
        \/ \E bar \in bars :
             /\ strategy' = MarkEntry(approved, bar.open)
             /\ position' = [side |-> s.candidate.side, setup |-> s.candidate.setup,
                             decided |-> now', entry |-> bar.open]
     /\ UNCHANGED <<trades, status>>

NothingToReview(view) ==
  /\ ~ReviewDue(strategy, view)
  /\ UNCHANGED backtest_vars

(* The hourly candles a position has lived through, for its MFE and MAE.   *)
Path(hourly, entry, at) == {c \in hourly : c.open >= entry /\ c.close < at}

(* HOLD, an unavailable EXIT decision, or EXIT without a next bar.         *)
Hold(view) ==
  /\ ReviewDue(strategy, view)
  /\ strategy' = ManagementPayload(strategy, view)
  /\ UNCHANGED <<position, reviews, trades, status>>

Exit(view) ==
  /\ ReviewDue(strategy, view)
  /\ \E bar \in NextOpen(market'["4h"], now') :
       trades' = trades \cup
         {[side |-> position.side, setup |-> position.setup,
           decided |-> position.decided, entry |-> position.entry,
           exitDecided |-> now', exit |-> bar.open,
           path |-> {c.open : c \in Path(market'["1h"], position.entry, now')},
           bars |-> ManagementPayload(strategy, view).bars]}
  /\ strategy' = Reset(strategy)
  /\ position' = Flat
  /\ UNCHANGED <<reviews, status>>

(* evaluate raises, and the program ends, when the context of a candidate  *)
(* cannot be reconstructed from the view.                                  *)
LookForEntry(view) ==
  /\ position = Flat
  /\ LET s == Evaluate(strategy, expiration, view)
     IN \/ NoCandidateNow(s)
        \/ /\ ContextFound(s.candidate, view)
           /\ EntryUnavailable(s) \/ EntryRejected(s) \/ EntryApproved(s)
        \/ /\ s.phase = "CANDIDATE" /\ ~ContextFound(s.candidate, view)
           /\ status' = "RAISED"
           /\ UNCHANGED <<strategy, position, reviews, trades>>

Manage(view) ==
  /\ position # Flat
  /\ NothingToReview(view) \/ Hold(view) \/ Exit(view)

Event ==
  /\ status = "RUNNING"
  /\ Advance
  /\ LET view == ViewAt(market', now')
     IN Enumerate(view) /\ (LookForEntry(view) \/ Manage(view))

Init ==
  /\ expiration \in Expirations
  /\ now = 0
  /\ \E hourly \in NextFrames("1h", {}, 0), setup \in NextFrames("4h", {}, 0),
        daily \in NextFrames("1d", {}, 0) :
       market = Market(hourly, setup, daily)
  /\ strategy = Fresh /\ census = Fresh
  /\ position = Flat
  /\ reviews = {} /\ trades = {} /\ found = {}
  /\ status = "RUNNING" /\ censusStatus = "RUNNING"

Next == Event

Spec == Init /\ [][Next]_vars

-----------------------------------------------------------------------------
(* Properties.                                                             *)

ClosedBetween(tf, from, to) == {c \in market[tf] : from < c.close /\ c.close < to}

(* The variables have their types.                                         *)
Times == 0..End
CandidateTimes ==
  [side : Sides, setup : Times, confirmation : Times, trend : Times, at : Times]
CandlesOf(tf) == [open : Times, close : Times, mark : Marks(tf)]
StrategyStates ==
  [phase : Phases, side : Sides \cup {"none"}, setupTime : Times, trendTime : Times,
   candidate : Candidates \cup {NoCandidate}, lastSetup : Times,
   lastConfirmation : Times, lastManagement : Times, entryTime : Times,
   bars : Nat, waited : Nat]

TypeOK ==
  /\ expiration \in Expirations
  /\ now \in Times
  /\ DOMAIN market = Timeframes
  /\ \A tf \in Timeframes : market[tf] \subseteq CandlesOf(tf) /\ Normalizable(market[tf])
  /\ strategy \in StrategyStates /\ census \in StrategyStates
  /\ position \in [side : Sides \cup {"none"}, setup : Times, decided : Times, entry : Times]
  /\ reviews \subseteq CandidateTimes
  /\ found \subseteq Candidates
  /\ status \in {"RUNNING", "ABORTED", "RAISED"}
  /\ censusStatus \in {"RUNNING", "RAISED"}

(* No look-ahead: every candle of the three timeframes that a strategy has *)
(* looked at had closed by the event, the daily one its trend was read     *)
(* from and the one in a candidate's context included; a review is asked   *)
(* about a setup, then a confirmation, then the event (view_at must not    *)
(* show a candle of a slower timeframe early).                             *)
CandlesSeen(s) ==
  {s.setupTime, s.lastSetup, s.lastConfirmation, s.lastManagement, s.trendTime}

DecisionsUseClosedCandles ==
  /\ \A s \in {strategy, census} : \A time \in CandlesSeen(s) : time = None \/ time < now
  /\ \A r \in reviews : r.setup < r.confirmation /\ r.confirmation < r.at /\ r.trend < r.at
  /\ \A c \in found : c.setup < c.confirmation /\ c.confirmation < now /\ c.trend < now

(* The context of every candidate can be reconstructed, however long the   *)
(* setup has waited for its confirmation, in the backtest and in the       *)
(* census.                                                                 *)
ContextReconstructible == status # "RAISED" /\ censusStatus # "RAISED"

(* A fill never precedes the decision it carries out; trades do not        *)
(* overlap; a trade's path is exactly the hours from its entry to its exit.*)
TradesInOrder ==
  /\ \A t \in trades :
       /\ t.decided <= t.entry /\ t.entry < t.exitDecided /\ t.exitDecided <= t.exit
       /\ t.path = {c.open : c \in {d \in market["1h"] : t.entry <= d.open /\ d.open < t.exit}}
  /\ \A t, u \in trades : t # u => t.exit <= u.entry \/ u.exit <= t.entry
  /\ position # Flat => position.decided <= position.entry
                        /\ \A t \in trades : t.exit <= position.entry

(* One setup is traded at most once, although resolve_candidate and reset  *)
(* forget which setup candle was seen: a position outlives its setup       *)
(* candle, because only a later management candle can end it.              *)
SetupTradedOnce ==
  /\ \A t, u \in trades : t.setup = u.setup => t = u
  /\ \A t \in trades : position # Flat => position.setup # t.setup

(* bars_since_entry counts the management candles closed since the entry,  *)
(* whatever the EXIT reviews said or whether they were available.          *)
BarsCountClosedCandles ==
  /\ position # Flat =>
       strategy.bars = Cardinality(ClosedBetween("4h", position.entry, now))
  /\ \A t \in trades : t.bars = Cardinality(ClosedBetween("4h", t.entry, t.exitDecided))

(* An expiring setup is confirmed only while fewer than that many setup    *)
(* candles have closed after it.                                           *)
ExpiryRespected ==
  expiration # None =>
    \A r \in reviews : Cardinality(ClosedBetween("4h", r.setup, r.at)) < expiration

(* The census lists one candidate per setup.                               *)
CensusOnePerSetup == \A c, d \in found : c.setup = d.setup => c = d
=============================================================================
