---------------------------- MODULE CandleDownload ----------------------------
(***************************************************************************)
(* get_candles (exchange/market_data.py): pages of candles are requested   *)
(* backwards in time, joined, and filtered once the last page is there.    *)
(* Time goes on between any two steps; candle k opens at k * Interval and  *)
(* closes 1 before the next one opens.  A fetched candle remembers whether *)
(* it had closed when it was fetched: only then are its prices final.      *)
(***************************************************************************)
EXTENDS Integers, FiniteSets, FiniteSetsExt

CONSTANTS
  Interval,        \* length of a candle
  Horizon,         \* bound of the clock
  FirstCandle,     \* when the market begins: the open of its first candle
  MaxPerRequest,   \* 1500 in the code
  Limits,          \* numbers of candles asked for
  StartTimes, EndTimes   \* requested range; None leaves a side open

ASSUME DownloadAssumption ==
  /\ {Interval, MaxPerRequest} \cup Limits \subseteq Nat \ {0}
  /\ {Horizon, FirstCandle} \cup StartTimes \cup EndTimes \subseteq Nat
  /\ FirstCandle > 1 /\ FirstCandle % Interval = 0

None == 0

VARIABLES
  clock,
  step,        \* IDLE, FETCH, FILTER, DONE
  limit, start, end,   \* the request
  remaining, cursor, pages,   \* locals of the loop
  first,       \* the time of the first page
  downloaded   \* the result

request_vars == <<limit, start, end>>
loop_vars == <<remaining, cursor, pages, first>>
download_vars == <<clock, step, request_vars, loop_vars, downloaded>>

CloseOf(open) == open + Interval - 1

(* futures_klines: the newest `size` candles that have opened by endTime;  *)
(* the last one may still be open.                                         *)
OpensUpTo(time) == {t \in FirstCandle..time : t % Interval = 0}

NewestOf(opens, size) == {t \in opens : Cardinality({u \in opens : u > t}) < size}

Klines(upTo, size) ==
  {[open |-> t, close |-> CloseOf(t), final |-> CloseOf(t) < clock] :
     t \in NewestOf(OpensUpTo(IF upTo = None \/ upTo > clock THEN clock ELSE upTo), size)}

TimePasses ==
  /\ clock < Horizon
  /\ clock' = clock + 1
  /\ UNCHANGED <<step, request_vars, loop_vars, downloaded>>

Request ==
  /\ step = "IDLE"
  /\ limit' \in Limits /\ start' \in StartTimes /\ end' \in EndTimes
  /\ end' # None => start' <= end'
  /\ step' = "FETCH"
  /\ remaining' = limit' /\ cursor' = end' /\ pages' = {} /\ first' = 0
  /\ UNCHANGED <<clock, downloaded>>

BatchSize == IF remaining < MaxPerRequest THEN remaining ELSE MaxPerRequest

(* The next page ends before the oldest candle of this one.                *)
\* Variant for the sensitivity check: the oldest candle is fetched again.
CursorOn(batch) == Min({c.open : c \in batch})

CursorBefore(batch) == Min({c.open : c \in batch}) - 1

(* One turn of the loop; it ends with the first page that is not full.     *)
(* (Time 0 stands for None, so the market begins later than that.)         *)
Fetch ==
  /\ step = "FETCH" /\ remaining > 0
  /\ first' = IF first = 0 THEN clock ELSE first
  /\ LET batch == Klines(cursor, BatchSize)
     IN IF batch = {}
          THEN /\ step' = "FILTER"
               /\ UNCHANGED <<remaining, cursor, pages>>
          ELSE /\ pages' = batch \cup {c \in pages : \A d \in batch : d.open # c.open}
               /\ remaining' = remaining - Cardinality(batch)
               /\ cursor' = CursorBefore(batch)
               /\ step' = IF Cardinality(batch) < BatchSize \/ remaining' = 0
                            THEN "FILTER" ELSE "FETCH"
  /\ UNCHANGED <<clock, request_vars, downloaded>>

(* The candles outside the requested range and those still open are dropped;  *)
(* open or closed is decided now, not when a page was fetched.             *)
Filter ==
  /\ step = "FILTER"
  /\ downloaded' = {c \in pages : /\ c.open >= start
                                  /\ end # None => c.close <= end
                                  /\ c.close < clock}
  /\ step' = "DONE"
  /\ UNCHANGED <<clock, request_vars, loop_vars>>

DownloadInit ==
  /\ clock = FirstCandle
  /\ step = "IDLE"
  /\ limit = 0 /\ start = None /\ end = None
  /\ remaining = 0 /\ cursor = None /\ pages = {} /\ first = 0
  /\ downloaded = {}

DownloadNext == TimePasses \/ Request \/ Fetch \/ Filter

DownloadSpec == DownloadInit /\ [][DownloadNext]_download_vars

-----------------------------------------------------------------------------
(* Properties.                                                             *)

Opens(set) == {c.open : c \in set}

(* Paging loses nothing although time goes on between the pages: the       *)
(* result holds every candle in range that had closed when the first page  *)
(* was fetched, up to the limit counted back from the newest candle, and   *)
(* no candle twice.                                                        *)
Asked == NewestOf(OpensUpTo(IF end = None \/ end > first THEN first ELSE end), limit)

PagesComplete ==
  step = "DONE" =>
    /\ {t \in Asked : /\ t >= start
                      /\ CloseOf(t) < first
                      /\ end # None => CloseOf(t) <= end} \subseteq Opens(downloaded)
    /\ Cardinality(Opens(downloaded)) = Cardinality(downloaded)

(* What DECISIONS.md says of downloads: only candles that have closed.     *)
OnlyFinalCandles == \A c \in downloaded : c.final
=============================================================================
