------------------------------ MODULE Indicators ------------------------------
(***************************************************************************)
(* From market candles to SQZMOM colours and signals of Strategy 1         *)
(* (strategies/candles.py, strategies/indicators.py, strategy_1).  A table *)
(* is a sequence of candles [open, high, low, close] in integer prices.    *)
(* Prices are multiplied by Unit, in which every Heikin-Ashi average of    *)
(* the longest table is an integer, and the momentum by 4L * L(L+1), so    *)
(* all comparisons are exact.  ATR, bands and squeeze state do not enter a *)
(* signal and are left out.                                                *)
(***************************************************************************)
EXTENDS Integers, SequencesExt

CONSTANTS
  Length,       \* window of rolling and linreg, 20 in the code
  MaxCandles    \* bound: length of the longest table

ASSUME LengthAssumption == Length \in Nat /\ Length > 1 /\ MaxCandles \in Nat \ {0}

Unit == 4 * 2 ^ MaxCandles

Greatest(S) == CHOOSE x \in S : \A y \in S : y <= x
Least(S) == CHOOSE x \in S : \A y \in S : x <= y

SumOver(lo, hi, f) ==
  LET sum[i \in (lo - 1)..hi] == IF i < lo THEN 0 ELSE sum[i - 1] + f[i] IN sum[hi]

(* The same table, each row of which TLC computes once.                    *)
Rows(table) == table \o <<>>

(* add_heikin_ashi: ha_open is the mean of the previous row's ha_open and  *)
(* ha_close; high and low are stretched to cover both.                     *)
HaClose(candles, i) ==
  (Unit \div 4) * (candles[i].open + candles[i].high + candles[i].low + candles[i].close)

HaOpen(candles) ==
  LET haOpen[i \in 1..Len(candles)] ==
        IF i = 1 THEN (Unit \div 2) * (candles[1].open + candles[1].close)
        ELSE (haOpen[i - 1] + HaClose(candles, i - 1)) \div 2
  IN Rows(haOpen)

AddHeikinAshi(candles) ==
  LET haOpen == HaOpen(candles)
  IN Rows([i \in 1..Len(candles) |->
        [high  |-> Greatest({Unit * candles[i].high, haOpen[i], HaClose(candles, i)}),
         low   |-> Least({Unit * candles[i].low, haOpen[i], HaClose(candles, i)}),
         close |-> HaClose(candles, i)]])

(* The close less the mean of the channel's midpoint and the moving        *)
(* average, over the window that ends at a row.                            *)
Deviation(ha, i) ==
  LET window == (i - Length + 1)..i
  IN 4 * Length * ha[i].close
     - Length * (Greatest({ha[j].high : j \in window}) + Least({ha[j].low : j \in window}))
     - 2 * SumOver(i - Length + 1, i, [j \in window |-> ha[j].close])

(* linreg: the value at the end of the least-squares line over the window. *)
Linreg(series, i) ==
  SumOver(0, Length - 1,
          [j \in 0..(Length - 1) |-> (6 * j - 2 * Length + 4) * series[i - Length + 1 + j]])

(* NaN before the first full window over rows of full windows.             *)
Defined(i) == i >= 2 * Length - 1

Sqzmom(ha) ==
  LET deviation == Rows([i \in 1..Len(ha) |-> IF i < Length THEN 0 ELSE Deviation(ha, i)])
  IN Rows([i \in 1..Len(ha) |-> IF Defined(i) THEN Linreg(deviation, i) ELSE 0])

(* calculate_sqzmom_color compares a row with the one before it; a row     *)
(* without a predecessor, and a value of zero, are neutral.                *)
\* Variant for the sensitivity check: a row is compared with the next one.
ColorLookingAhead(sqzmom, i) ==
  IF ~(Defined(i) /\ (i + 1) \in DOMAIN sqzmom) THEN "neutral"
  ELSE CASE sqzmom[i] > 0 /\ sqzmom[i + 1] < sqzmom[i]  -> "dark_green"
         [] sqzmom[i] > 0 /\ sqzmom[i + 1] >= sqzmom[i] -> "light_green"
         [] sqzmom[i] < 0 /\ sqzmom[i + 1] > sqzmom[i]  -> "dark_red"
         [] sqzmom[i] < 0 /\ sqzmom[i + 1] <= sqzmom[i] -> "light_red"
         [] OTHER -> "neutral"

SqzmomColor(sqzmom, i) ==
  IF ~(Defined(i) /\ Defined(i - 1)) THEN "neutral"
  ELSE CASE sqzmom[i] > 0 /\ sqzmom[i] > sqzmom[i - 1]  -> "dark_green"
         [] sqzmom[i] > 0 /\ sqzmom[i] <= sqzmom[i - 1] -> "light_green"
         [] sqzmom[i] < 0 /\ sqzmom[i] < sqzmom[i - 1]  -> "dark_red"
         [] sqzmom[i] < 0 /\ sqzmom[i] >= sqzmom[i - 1] -> "light_red"
         [] OTHER -> "neutral"

PrepareCandles(candles) ==
  LET sqzmom == Sqzmom(AddHeikinAshi(candles))
  IN Rows([i \in 1..Len(candles) |-> SqzmomColor(sqzmom, i)])

(* Strategy 1: the signal of a row from its colour and the one before it.  *)
Reversal(from, to) ==
  CASE from = "dark_red" /\ to = "light_red"     -> "LONG"
    [] from = "dark_green" /\ to = "light_green" -> "SHORT"
    [] OTHER -> "NONE"

(* The live signal looks at the last two rows of the table it is given.    *)
GenerateSignal(colors) ==
  IF Len(colors) < 2 THEN "NONE"
  ELSE Reversal(colors[Len(colors) - 1], colors[Len(colors)])

(* The historical signals look at every row of the whole table.            *)
HistoricalReversals(colors) ==
  LET signals[i \in 0..Len(colors)] ==
        IF i < 2 THEN <<>>
        ELSE IF Reversal(colors[i - 1], colors[i]) = "NONE" THEN signals[i - 1]
        ELSE Append(signals[i - 1], [at |-> i, side |-> Reversal(colors[i - 1], colors[i])])
  IN signals[Len(colors)]
=============================================================================
