------------------------ MODULE SignalBacktestProofs ------------------------
(***************************************************************************)
(* Why the signals of a table are not repainted, and what the backtest     *)
(* does with them: for every window length, table, cost model and month,   *)
(* the history agrees with the live signals, the trades tile the time, are *)
(* final and are never better than the market, and the two statistics      *)
(* count the same trades.  The loops of the code are recursive functions;  *)
(* what holds of every turn is shown by the least turn it fails on.        *)
(***************************************************************************)
EXTENDS SignalBacktest, SequenceTheorems, FiniteSetTheorems, WellFoundedInduction, TLAPS

-----------------------------------------------------------------------------
(* Loops.                                                                  *)

(* A nonempty set of naturals has a least element.                         *)
LEMMA LeastExists ==
  ASSUME NEW S \in SUBSET Nat, S # {}
  PROVE  \E m \in S : \A n \in S : m <= n
<1>1. PICK m \in S : \A n \in S : ~(<<n, m>> \in OpToRel(<, Nat))
  BY NatLessThanWellFounded, WFMin, Zenon
<1>2. \A n \in S : ~(n < m)
  BY <1>1 DEF OpToRel
<1> QED
  BY <1>2

(* Induction over the turns of a loop.                                     *)
LEMMA Induction ==
  ASSUME NEW n \in Nat, NEW S, 0 \in S, \A i \in 1..n : i - 1 \in S => i \in S
  PROVE  \A i \in 0..n : i \in S
<1> DEFINE T == {i \in 0..n : i \notin S}
<1> SUFFICES ASSUME T # {} PROVE FALSE
  OBVIOUS
<1>1. T \in SUBSET Nat
  OBVIOUS
<1>2. PICK m \in T : \A k \in T : m <= k
  BY <1>1, LeastExists
<1>3. m \in 1..n /\ m - 1 \in 0..n
  BY <1>2
<1>4. m - 1 \in S
  BY <1>2, <1>3
<1> QED
  BY <1>2, <1>3, <1>4

(* A recursive function over the turns of a loop exists.                   *)
IsLoop(n, V, base, step) == n \in Nat /\ base \in V /\ step \in [1..n -> [V -> V]]

(* Such a function exists and stays in V.                                  *)
LEMMA Recursion ==
  ASSUME NEW n, NEW V, NEW base, NEW step, IsLoop(n, V, base, step)
  PROVE  \E f \in [0..n -> V] : f[0] = base /\ \A i \in 1..n : f[i] = step[i][f[i - 1]]
<1>0. n \in Nat /\ base \in V /\ step \in [1..n -> [V -> V]]
  BY DEF IsLoop
<1> DEFINE Good(k, f) == f[0] = base /\ \A i \in 1..k : f[i] = step[i][f[i - 1]]
           S == {k \in 0..n : \E f \in [0..k -> V] : Good(k, f)}
<1>1. 0 \in S
  <2> DEFINE g == [i \in 0..0 |-> base]
  <2>1. g \in [0..0 -> V] /\ g[0] = base /\ \A i \in 1..0 : g[i] = step[i][g[i - 1]]
    BY <1>0
  <2> HIDE DEF g
  <2>2. 0 \in 0..n
    BY <1>0
  <2> QED
    BY <2>1, <2>2
<1>2. ASSUME NEW k \in 1..n, k - 1 \in S PROVE k \in S
  <2>1. PICK f \in [0..(k - 1) -> V] : Good(k - 1, f)
    BY <1>2
  <2> DEFINE g == [i \in 0..k |-> IF i = k THEN step[k][f[k - 1]] ELSE f[i]]
  <2>2. step[k][f[k - 1]] \in V
    <3>1. f[k - 1] \in V /\ step[k] \in [V -> V]
      BY <1>0
    <3> QED
      BY <3>1
  <2>3. g \in [0..k -> V]
    BY <2>2
  <2>4. g[0] = base
    BY <1>0, <2>1
  <2>5. ASSUME NEW i \in 1..k PROVE g[i] = step[i][g[i - 1]]
    <3>1. g[i - 1] = f[i - 1]
      BY <1>0
    <3>2. CASE i = k
      BY <3>1, <3>2
    <3>3. CASE i # k
      <4>1. i \in 1..(k - 1) /\ g[i] = f[i]
        BY <1>0, <3>3
      <4> QED
        BY <2>1, <3>1, <4>1
    <3> QED
      BY <3>2, <3>3
  <2> HIDE DEF g
  <2>6. k \in 0..n
    BY <1>0
  <2> QED
    BY <2>3, <2>4, <2>5, <2>6
<1>3. n \in S
  <2> HIDE DEF S
  <2>1. \A i \in 0..n : i \in S
    BY <1>0, <1>1, <1>2, Induction
  <2> QED
    BY <1>0, <2>1
<1> QED
  BY <1>3

(* A table that has been computed once is the same table.                  *)
LEMMA RowsSame ==
  ASSUME NEW n \in Nat, NEW V, NEW f \in [1..n -> V]
  PROVE  Rows(f) = f /\ Len(f) = n /\ DOMAIN f = 1..n /\ f \in Seq(V)
<1>1. f \in Seq(V)
  BY SeqDef
<1>2. f \o <<>> = f
  BY <1>1, ConcatEmptySeq
<1> QED
  BY <1>1, <1>2 DEF Rows

-----------------------------------------------------------------------------
(* Tables that grow keep their rows, from Heikin-Ashi to the colours.      *)

(* Numbers of a table are integers.                                        *)
LEMMA CandleNumbers ==
  ASSUME NEW before \in Seq(Shapes), NEW i \in 1..Len(before)
  PROVE  /\ before[i].open \in Nat \ {0} /\ before[i].high \in Nat
         /\ before[i].low \in Nat /\ before[i].close \in Nat
         /\ HaClose(before, i) \in Int
<1>1. before[i] \in Shapes
  BY ElementOfSeq
<1>2. /\ before[i] \in [open : Nat, high : Nat, low : Nat \ {0}, close : Nat]
      /\ before[i].open \in before[i].low..before[i].high
  BY <1>1, BacktestAssumption
<1>3. Unit \in Int /\ Unit \div 4 \in Int
  <2>1. Unit \in Int
    BY LengthAssumption DEF Unit
  <2> QED
    BY <2>1
<1>4. HaClose(before, i) \in Int
  BY <1>2, <1>3 DEF HaClose
<1> QED
  BY <1>2, <1>4

(* What the loop of add_heikin_ashi computes, row by row.                  *)
HaOpenRow(before, h, i) ==
  IF i = 1 THEN (Unit \div 2) * (before[1].open + before[1].close)
  ELSE (h[i - 1] + HaClose(before, i - 1)) \div 2

(* The loop computes the rows, and they are integers.                      *)
LEMMA HaOpenFacts ==
  ASSUME NEW before \in Seq(Shapes)
  PROVE  /\ HaOpen(before) \in [1..Len(before) -> Int]
         /\ \A i \in 1..Len(before) : HaOpen(before)[i] = HaOpenRow(before, HaOpen(before), i)
<1> DEFINE n == Len(before)
           IsTable(h) == h = [i \in 1..n |-> HaOpenRow(before, h, i)]
           haOpen == CHOOSE h : IsTable(h)
<1>1. n \in Nat
  BY LenProperties
<1>2. Unit \in Int /\ Unit \div 2 \in Int
  <2>1. Unit \in Int
    BY LengthAssumption DEF Unit
  <2> QED
    BY <2>1
<1>3. ASSUME NEW i \in 1..n, NEW h, i # 1 => h[i - 1] \in Int
      PROVE  HaOpenRow(before, h, i) \in Int
  <2>1. CASE i = 1
    BY <1>2, <2>1, CandleNumbers DEF HaOpenRow
  <2>2. CASE i # 1
    <3>1. i - 1 \in 1..Len(before)
      BY <1>1, <2>2
    <3>2. h[i - 1] \in Int /\ HaClose(before, i - 1) \in Int
      BY <1>3, <2>2, <3>1, CandleNumbers
    <3> QED
      BY <2>2, <3>2 DEF HaOpenRow
  <2> QED
    BY <2>1, <2>2
<1>4. \E h : IsTable(h)
  <2> DEFINE step == [i \in 1..n |-> [v \in Int |-> HaOpenRow(before, [j \in {i - 1} |-> v], i)]]
  <2>1. step \in [1..n -> [Int -> Int]]
    <3>1. ASSUME NEW i \in 1..n, NEW v \in Int PROVE HaOpenRow(before, [j \in {i - 1} |-> v], i) \in Int
      <4>1. [j \in {i - 1} |-> v][i - 1] \in Int
        OBVIOUS
      <4> QED
        BY <1>3, <4>1
    <3> QED
      BY <3>1
  <2>2. ASSUME NEW i \in 1..n, NEW v \in Int, NEW f, f[i - 1] = v
        PROVE  step[i][v] = HaOpenRow(before, f, i)
    BY <2>2 DEF HaOpenRow
  <2> HIDE DEF step
  <2>3. PICK f \in [0..n -> Int] : f[0] = 0 /\ \A i \in 1..n : f[i] = step[i][f[i - 1]]
    <3>1. IsLoop(n, Int, 0, step)
      BY <1>1, <2>1 DEF IsLoop
    <3> QED
      BY <3>1, Recursion
  <2> DEFINE h == [i \in 1..n |-> f[i]]
  <2>4. ASSUME NEW i \in 1..n PROVE h[i] = HaOpenRow(before, h, i)
    <3>1. f[i] = HaOpenRow(before, f, i)
      BY <1>1, <2>2, <2>3
    <3>2. HaOpenRow(before, f, i) = HaOpenRow(before, h, i)
      BY <1>1 DEF HaOpenRow
    <3> QED
      BY <3>1, <3>2
  <2>5. h = [i \in 1..n |-> HaOpenRow(before, h, i)]
    BY <2>4
  <2> QED
    BY <2>5
<1>5. IsTable(haOpen)
  BY <1>4
<1>6. \A i \in 1..n : haOpen[i] = HaOpenRow(before, haOpen, i)
  <2> HIDE DEF haOpen
  <2> QED
    BY <1>5
<1>7. DOMAIN haOpen = 1..n /\ haOpen = [i \in 1..n |-> haOpen[i]]
  <2> HIDE DEF haOpen
  <2> QED
    BY <1>5
<1>8. HaOpen(before) = Rows(haOpen)
  BY DEF HaOpen, HaOpenRow
<1> HIDE DEF haOpen
<1>9. \A i \in 1..n : haOpen[i] \in Int
  <2> DEFINE S == {i \in 0..n : i = 0 \/ haOpen[i] \in Int}
  <2>1. 0 \in S
    BY <1>1
  <2>2. ASSUME NEW i \in 1..n, i - 1 \in S PROVE i \in S
    <3>1. i # 1 => haOpen[i - 1] \in Int
      BY <2>2
    <3>2. haOpen[i] \in Int
      BY <1>3, <1>6, <3>1
    <3> QED
      BY <1>1, <3>2
  <2> HIDE DEF S
  <2>3. \A i \in 0..n : i \in S
    BY <1>1, <2>1, <2>2, Induction
  <2> QED
    BY <1>1, <2>3 DEF S
<1>10. haOpen \in [1..n -> Int]
  BY <1>7, <1>9
<1>11. HaOpen(before) = haOpen
  BY <1>1, <1>8, <1>10, RowsSame
<1> QED
  BY <1>6, <1>10, <1>11

(* The same for a table given by its rows.                                 *)
LEMMA TableSame ==
  ASSUME NEW n \in Nat, NEW f, f = [i \in 1..n |-> f[i]]
  PROVE  Rows(f) = f /\ Len(f) = n /\ DOMAIN f = 1..n /\ f \in Seq({f[i] : i \in 1..n})
<1>1. f \in [1..n -> {f[i] : i \in 1..n}]
  OBVIOUS
<1> QED
  BY <1>1, RowsSame

(* One candle more.                                                        *)
LEMMA Longer ==
  ASSUME NEW before \in Seq(Shapes), NEW candle \in Shapes,
         NEW table, table = Append(before, candle)
  PROVE  /\ table \in Seq(Shapes) /\ Len(before) \in Nat /\ Len(table) = Len(before) + 1
         /\ \A i \in 1..Len(before) : table[i] = before[i]
BY AppendProperties, LenProperties

(* A row of add_heikin_ashi does not change when candles follow it.        *)
LEMMA HaOpenStays ==
  ASSUME NEW before \in Seq(Shapes), NEW candle \in Shapes,
         NEW table, table = Append(before, candle)
  PROVE  \A i \in 1..Len(before) : HaOpen(table)[i] = HaOpen(before)[i]
<1> DEFINE n == Len(before)
           h == HaOpen(before)
           g == HaOpen(table)
           S == {i \in 0..n : i = 0 \/ g[i] = h[i]}
<1>1. /\ table \in Seq(Shapes) /\ n \in Nat /\ Len(table) = n + 1
      /\ \A i \in 1..n : table[i] = before[i]
  BY Longer
<1>2. \A i \in 1..n : h[i] = HaOpenRow(before, h, i)
  BY HaOpenFacts
<1>3. \A i \in 1..n : g[i] = HaOpenRow(table, g, i)
  <2>1. \A i \in 1..Len(table) : g[i] = HaOpenRow(table, g, i)
    BY <1>1, HaOpenFacts
  <2> QED
    BY <1>1, <2>1
<1>4. \A i \in 1..n : HaClose(table, i) = HaClose(before, i)
  BY <1>1 DEF HaClose
<1> HIDE DEF g, h
<1>5. 0 \in S
  BY <1>1
<1>6. ASSUME NEW i \in 1..n, i - 1 \in S PROVE i \in S
  <2>1. CASE i = 1
    <3>1. g[1] = (Unit \div 2) * (table[1].open + table[1].close)
      BY <1>3, <2>1 DEF HaOpenRow
    <3>2. h[1] = (Unit \div 2) * (before[1].open + before[1].close)
      BY <1>2, <2>1 DEF HaOpenRow
    <3>3. table[1] = before[1]
      BY <1>1, <2>1
    <3> QED
      BY <1>1, <2>1, <3>1, <3>2, <3>3
  <2>2. CASE i # 1
    <3>1. i - 1 \in 1..n /\ g[i - 1] = h[i - 1]
      BY <1>1, <1>6, <2>2
    <3>2. g[i] = (g[i - 1] + HaClose(table, i - 1)) \div 2
      BY <1>3, <2>2 DEF HaOpenRow
    <3>3. h[i] = (h[i - 1] + HaClose(before, i - 1)) \div 2
      BY <1>2, <2>2 DEF HaOpenRow
    <3>4. HaClose(table, i - 1) = HaClose(before, i - 1)
      BY <1>4, <3>1
    <3> QED
      BY <1>1, <3>1, <3>2, <3>3, <3>4
  <2> QED
    BY <2>1, <2>2
<1> HIDE DEF S
<1>7. \A i \in 0..n : i \in S
  BY <1>1, <1>5, <1>6, Induction
<1> QED
  BY <1>1, <1>7 DEF S, g, h

(* Nor do its high, low and close.                                         *)
LEMMA HeikinAshiStays ==
  ASSUME NEW before \in Seq(Shapes), NEW candle \in Shapes,
         NEW table, table = Append(before, candle)
  PROVE  /\ Len(AddHeikinAshi(before)) = Len(before)
         /\ \A i \in 1..Len(before) : AddHeikinAshi(table)[i] = AddHeikinAshi(before)[i]
<1> DEFINE Row(c, i) ==
             [high  |-> Greatest({Unit * c[i].high, HaOpen(c)[i], HaClose(c, i)}),
              low   |-> Least({Unit * c[i].low, HaOpen(c)[i], HaClose(c, i)}),
              close |-> HaClose(c, i)]
           Ha(c) == [i \in 1..Len(c) |-> Row(c, i)]
<1>1. /\ table \in Seq(Shapes) /\ Len(before) \in Nat /\ Len(table) = Len(before) + 1
      /\ \A i \in 1..Len(before) : table[i] = before[i]
  BY Longer
<1>2. ASSUME NEW c, Len(c) \in Nat
      PROVE  AddHeikinAshi(c) = Ha(c) /\ Len(Ha(c)) = Len(c)
  <2>1. AddHeikinAshi(c) = Rows(Ha(c))
    BY DEF AddHeikinAshi
  <2>2. Ha(c) = [i \in 1..Len(c) |-> Ha(c)[i]]
    OBVIOUS
  <2> HIDE DEF Ha
  <2> QED
    BY <1>2, <2>1, <2>2, TableSame
<1>3. ASSUME NEW i \in 1..Len(before)
      PROVE  Row(table, i) = Row(before, i)
  <2>1. HaOpen(table)[i] = HaOpen(before)[i] /\ HaClose(table, i) = HaClose(before, i)
    BY <1>1, HaOpenStays DEF HaClose
  <2> QED
    BY <1>1, <2>1
<1> HIDE DEF Row
<1>4. \A i \in 1..Len(before) : Ha(table)[i] = Ha(before)[i]
  BY <1>1, <1>3
<1> HIDE DEF Ha
<1>5. AddHeikinAshi(before) = Ha(before) /\ Len(Ha(before)) = Len(before)
  BY <1>1, <1>2
<1>6. AddHeikinAshi(table) = Ha(table)
  <2>1. Len(table) \in Nat
    BY <1>1
  <2> QED
    BY <1>2, <2>1
<1> QED
  BY <1>4, <1>5, <1>6

(* Neither does the momentum, nor the colour.                              *)
LEMMA SqzmomStays ==
  ASSUME NEW n \in Nat, NEW ha, NEW more, Len(ha) = n, Len(more) = n + 1,
         \A i \in 1..n : more[i] = ha[i]
  PROVE  \A i \in 1..n : Sqzmom(more)[i] = Sqzmom(ha)[i]
<1> DEFINE Dev(h) == [i \in 1..Len(h) |-> IF i < Length THEN 0 ELSE Deviation(h, i)]
           Sqz(h) == [i \in 1..Len(h) |-> IF Defined(i) THEN Linreg(Dev(h), i) ELSE 0]
<1>1. ASSUME NEW h, Len(h) \in Nat PROVE Sqzmom(h) = Sqz(h)
  <2>1. Rows(Dev(h)) = Dev(h)
    <3>1. Dev(h) = [i \in 1..Len(h) |-> Dev(h)[i]]
      OBVIOUS
    <3> HIDE DEF Dev
    <3> QED
      BY <1>1, <3>1, TableSame
  <2>2. Sqzmom(h) = Rows(Sqz(h))
    BY <2>1 DEF Sqzmom
  <2>3. Sqz(h) = [i \in 1..Len(h) |-> Sqz(h)[i]]
    OBVIOUS
  <2> HIDE DEF Sqz
  <2> QED
    BY <1>1, <2>2, <2>3, TableSame
<1>2. Length \in Nat /\ Length > 1
  BY LengthAssumption
<1>3. ASSUME NEW i \in 1..n, i >= Length PROVE Deviation(more, i) = Deviation(ha, i)
  <2> DEFINE window == (i - Length + 1)..i
  <2>1. \A j \in window : more[j] = ha[j] 
    BY <1>2, <1>3
  <2>2. [j \in window |-> more[j].close] = [j \in window |-> ha[j].close]
    BY <2>1
  <2>3. /\ {more[j].high : j \in window} = {ha[j].high : j \in window}
        /\ {more[j].low : j \in window} = {ha[j].low : j \in window}
    BY <2>1
  <2>4. more[i] = ha[i]
    BY <1>2
  <2> HIDE DEF window
  <2> QED
    BY <2>2, <2>3, <2>4 DEF Deviation, window
<1>4. \A i \in 1..n : Dev(more)[i] = Dev(ha)[i]
  BY <1>2, <1>3
<1> HIDE DEF Dev
<1>5. ASSUME NEW i \in 1..n, Defined(i) PROVE Linreg(Dev(more), i) = Linreg(Dev(ha), i)
  <2>1. \A j \in 0..(Length - 1) : i - Length + 1 + j \in 1..n
    BY <1>2, <1>5 DEF Defined
  <2>2. [j \in 0..(Length - 1) |-> (6 * j - 2 * Length + 4) * Dev(more)[i - Length + 1 + j]]
        = [j \in 0..(Length - 1) |-> (6 * j - 2 * Length + 4) * Dev(ha)[i - Length + 1 + j]]
    BY <1>4, <2>1
  <2> QED
    BY <2>2 DEF Linreg
<1>6. \A i \in 1..n : Sqz(more)[i] = Sqz(ha)[i]
  BY <1>5
<1> HIDE DEF Sqz
<1> QED
  BY <1>1, <1>6

(* So a row keeps its colour when candles follow it: no repainting.        *)
LEMMA ColorsStay ==
  ASSUME NEW before \in Seq(Shapes), NEW candle \in Shapes,
         NEW table, table = Append(before, candle)
  PROVE  /\ Len(PrepareCandles(before)) = Len(before) /\ Len(PrepareCandles(table)) = Len(table)
         /\ \A i \in 1..Len(before) : PrepareCandles(table)[i] = PrepareCandles(before)[i]
<1> DEFINE Sqz(c) == Sqzmom(AddHeikinAshi(c))
           Colors(c) == [i \in 1..Len(c) |-> SqzmomColor(Sqz(c), i)]
           n == Len(before)
<1>1. /\ table \in Seq(Shapes) /\ n \in Nat /\ Len(table) = n + 1
  BY Longer
<1>2. ASSUME NEW c, Len(c) \in Nat
      PROVE  PrepareCandles(c) = Colors(c) /\ Len(Colors(c)) = Len(c)
  <2>1. PrepareCandles(c) = Rows(Colors(c))
    BY DEF PrepareCandles
  <2>2. Colors(c) = [i \in 1..Len(c) |-> Colors(c)[i]]
    OBVIOUS
  <2> HIDE DEF Colors
  <2> QED
    BY <1>2, <2>1, <2>2, TableSame
<1>3. Len(AddHeikinAshi(before)) = n
  BY HeikinAshiStays
<1> DEFINE ha == AddHeikinAshi(before)
           more == AddHeikinAshi(table)
<1>4. \A i \in 1..n : more[i] = ha[i]
  BY HeikinAshiStays
<1>5. Len(AddHeikinAshi(table)) = n + 1
  <2>1. Len(AddHeikinAshi(table)) = Len(table)
    BY <1>1, HeikinAshiStays
  <2> QED
    BY <1>1, <2>1
<1>6. \A i \in 1..n : Sqz(table)[i] = Sqz(before)[i]
  <2>1. Len(ha) = n /\ Len(more) = n + 1
    BY <1>3, <1>5
  <2> HIDE DEF ha, more, n
  <2>2. \A i \in 1..n : Sqzmom(more)[i] = Sqzmom(ha)[i]
    BY <1>1, <1>4, <2>1, SqzmomStays
  <2> QED
    BY <2>2 DEF ha, more
<1>7. ASSUME NEW i \in 1..n
      PROVE  SqzmomColor(Sqz(table), i) = SqzmomColor(Sqz(before), i)
  <2>1. Defined(i - 1) => i - 1 \in 1..n
    BY <1>1, LengthAssumption DEF Defined
  <2> HIDE DEF Sqz
  <2>2. Sqz(table)[i] = Sqz(before)[i] /\ (Defined(i - 1) => Sqz(table)[i - 1] = Sqz(before)[i - 1])
    BY <1>6, <2>1
  <2> QED
    BY <2>2 DEF SqzmomColor
<1> HIDE DEF Sqz
<1>8. \A i \in 1..n : Colors(table)[i] = Colors(before)[i]
  BY <1>1, <1>7
<1> HIDE DEF Colors
<1>9. PrepareCandles(before) = Colors(before) /\ Len(Colors(before)) = Len(before)
  BY <1>1, <1>2
<1>10. PrepareCandles(table) = Colors(table) /\ Len(Colors(table)) = Len(table)
  <2>1. Len(table) \in Nat
    BY <1>1
  <2> QED
    BY <1>2, <2>1
<1> QED
  BY <1>8, <1>9, <1>10

-----------------------------------------------------------------------------
(* The historical signals of a table.                                      *)

(* The signal of a row, wherever the table ends.                           *)
SignalAt(colors, i) == IF i < 2 THEN "NONE" ELSE Reversal(colors[i - 1], colors[i])

Signals == [at : Nat, side : {"LONG", "SHORT"}]

(* One turn of the loop of detect_historical_reversals.                    *)
Noted(colors, history, i) ==
  IF i < 2 THEN <<>>
  ELSE IF Reversal(colors[i - 1], colors[i]) = "NONE" THEN history
  ELSE Append(history, [at |-> i, side |-> Reversal(colors[i - 1], colors[i])])

(* A turn notes signals.                                                   *)
LEMMA NotedType ==
  ASSUME NEW colors, NEW history \in Seq(Signals), NEW i \in Nat
  PROVE  Noted(colors, history, i) \in Seq(Signals)
<1> DEFINE side == Reversal(colors[i - 1], colors[i])
<1>1. side \in {"LONG", "SHORT", "NONE"}
  BY DEF Reversal
<1>2. side # "NONE" => [at |-> i, side |-> side] \in Signals
  BY <1>1 DEF Signals
<1>3. <<>> \in Seq(Signals)
  BY EmptySeq
<1> HIDE DEF side
<1>4. side # "NONE" => Append(history, [at |-> i, side |-> side]) \in Seq(Signals)
  BY <1>2, AppendProperties
<1> QED
  BY <1>3, <1>4 DEF Noted, side

(* What the loop has after each row, the last of which is the result.      *)
IsHistory(colors, h) ==
  /\ h \in [0..Len(colors) -> Seq(Signals)]
  /\ h[0] = <<>>
  /\ \A i \in 1..Len(colors) : h[i] = Noted(colors, h[i - 1], i)

(* The loop computes a history, and returns its last state.                *)
LEMMA HistoryFacts ==
  ASSUME NEW colors, Len(colors) \in Nat
  PROVE  \E h : IsHistory(colors, h) /\ HistoricalReversals(colors) = h[Len(colors)]
<1> DEFINE n == Len(colors)
           IsTable(h) == h = [i \in 0..n |-> Noted(colors, h[i - 1], i)]
           signals == CHOOSE h : IsTable(h)
<1>1. HistoricalReversals(colors) = signals[n]
  BY DEF HistoricalReversals, Noted
<1>2. \E h : IsTable(h)
  <2> DEFINE step == [i \in 1..n |-> [v \in Seq(Signals) |-> Noted(colors, v, i)]]
  <2>1. step \in [1..n -> [Seq(Signals) -> Seq(Signals)]]
    BY NotedType
  <2>2. IsLoop(n, Seq(Signals), <<>>, step)
    BY <2>1, EmptySeq DEF IsLoop
  <2>3. \A i \in 1..n : \A v \in Seq(Signals) : step[i][v] = Noted(colors, v, i)
    OBVIOUS
  <2> HIDE DEF step
  <2>4. PICK f \in [0..n -> Seq(Signals)] : f[0] = <<>> /\ \A i \in 1..n : f[i] = step[i][f[i - 1]]
    BY <2>2, Recursion
  <2>5. \A i \in 0..n : f[i] = Noted(colors, f[i - 1], i)
    <3>1. ASSUME NEW i \in 1..n PROVE f[i] = Noted(colors, f[i - 1], i)
      <4>1. f[i - 1] \in Seq(Signals)
        OBVIOUS
      <4> QED
        BY <2>3, <2>4, <4>1
    <3>2. f[0] = Noted(colors, f[0 - 1], 0)
      BY <2>4 DEF Noted
    <3> QED
      BY <3>1, <3>2
  <2>6. f = [i \in 0..n |-> Noted(colors, f[i - 1], i)]
    BY <2>5
  <2> QED
    BY <2>6
<1>3. IsTable(signals)
  BY <1>2
<1> HIDE DEF signals
<1>4. /\ DOMAIN signals = 0..n /\ signals = [i \in 0..n |-> signals[i]]
      /\ \A i \in 0..n : signals[i] = Noted(colors, signals[i - 1], i)
  BY <1>3
<1>5. signals[0] = <<>>
  <2>1. 0 \in 0..n
    OBVIOUS
  <2>2. signals[0] = Noted(colors, signals[0 - 1], 0)
    BY <1>4, <2>1
  <2> QED
    BY <2>2 DEF Noted
<1>6. \A i \in 0..n : signals[i] \in Seq(Signals)
  <2> DEFINE S == {i \in 0..n : signals[i] \in Seq(Signals)}
  <2>1. 0 \in S
    <3>1. signals[0] \in Seq(Signals)
      BY <1>5, EmptySeq
    <3>2. 0 \in 0..n
      OBVIOUS
    <3> QED
      BY <3>1, <3>2
  <2>2. ASSUME NEW i \in 1..n, i - 1 \in S PROVE i \in S
    <3>0. i \in 0..n /\ i \in Nat
      OBVIOUS
    <3>1. signals[i] = Noted(colors, signals[i - 1], i) /\ i \in 0..n /\ i \in Nat
      BY <1>4, <3>0
    <3> QED
      BY <2>2, <3>1, NotedType
  <2> HIDE DEF S
  <2>3. \A i \in 0..n : i \in S
    BY <2>1, <2>2, Induction
  <2> QED
    BY <2>3 DEF S
<1>7. IsHistory(colors, signals)
  <2>1. \A i \in 1..n : i \in 0..n
    OBVIOUS
  <2>2. \A i \in 1..n : signals[i] = Noted(colors, signals[i - 1], i)
    BY <1>4, <2>1
  <2>3. signals \in [0..n -> Seq(Signals)]
    BY <1>4, <1>6
  <2> QED
    BY <1>5, <2>2, <2>3 DEF IsHistory
<1> QED
  BY <1>1, <1>7

(* Which rows the historical signals are, and in which order.              *)
InOrderUpTo(history, last) ==
  /\ \A k \in 1..Len(history) : history[k].at \in 2..last
  /\ \A k, l \in 1..Len(history) : k < l => history[k].at < history[l].at

RowsWithSignal(colors, last) ==
  {[at |-> i, side |-> SignalAt(colors, i)] : i \in {j \in 1..last : SignalAt(colors, j) # "NONE"}}

HistoryUpTo(colors, history, last) ==
  /\ InOrderUpTo(history, last)
  /\ {history[k] : k \in 1..Len(history)} = RowsWithSignal(colors, last)

(* A turn extends the history by the signal of its row, if it has one.     *)
LEMMA NotedInOrder ==
  ASSUME NEW colors, NEW history \in Seq(Signals), NEW i \in Nat \ {0},
         HistoryUpTo(colors, history, i - 1)
  PROVE  HistoryUpTo(colors, Noted(colors, history, i), i)
<1> DEFINE noted == Noted(colors, history, i)
<1> USE DEF HistoryUpTo
<1> SUFFICES InOrderUpTo(noted, i) /\ {noted[k] : k \in 1..Len(noted)} = RowsWithSignal(colors, i)
  OBVIOUS
<1>0. noted = Noted(colors, history, i)
  OBVIOUS
<1> HIDE DEF noted
<1> DEFINE side == SignalAt(colors, i)
<1>1. side = "NONE" => RowsWithSignal(colors, i) = RowsWithSignal(colors, i - 1)
  BY DEF RowsWithSignal
<1>2. side # "NONE" => RowsWithSignal(colors, i) = RowsWithSignal(colors, i - 1) \cup {[at |-> i, side |-> side]}
  <2> SUFFICES ASSUME side # "NONE"
               PROVE  RowsWithSignal(colors, i) = RowsWithSignal(colors, i - 1) \cup {[at |-> i, side |-> side]}
    OBVIOUS
  <2>1. {j \in 1..i : SignalAt(colors, j) # "NONE"} = {j \in 1..(i - 1) : SignalAt(colors, j) # "NONE"} \cup {i}
    OBVIOUS
  <2> QED
    BY <2>1 DEF RowsWithSignal
<1>3. CASE i < 2
  <2>1. noted = <<>> /\ side = "NONE" /\ i = 1
    BY <1>0, <1>3 DEF Noted, SignalAt
  <2>2. RowsWithSignal(colors, 0) = {}
    BY DEF RowsWithSignal
  <2>3. RowsWithSignal(colors, i) = {} 
    BY <1>1, <2>1, <2>2
  <2>4. Len(noted) = 0
    BY <2>1
  <2> QED
    BY <2>3, <2>4 DEF InOrderUpTo
<1>4. CASE i >= 2 /\ side = "NONE"
  <2>1. noted = history
    BY <1>0, <1>4 DEF Noted, SignalAt
  <2> QED
    BY <1>1, <1>4, <2>1 DEF InOrderUpTo
<1>5. CASE i >= 2 /\ side # "NONE"
  <2> DEFINE new == [at |-> i, side |-> side]
             n == Len(history)
  <2>1. noted = Append(history, new) /\ new \in Signals /\ new.at = i
    BY <1>0, <1>5 DEF Noted, SignalAt, Signals, Reversal
  <2> HIDE DEF new
  <2>2. /\ n \in Nat /\ Len(noted) = n + 1 /\ noted[n + 1] = new
        /\ \A k \in 1..n : noted[k] = history[k]
    BY <2>1, AppendProperties, LenProperties
  <2>3. {noted[k] : k \in 1..Len(noted)} = {history[k] : k \in 1..n} \cup {new}
    <3> HIDE DEF n
    <3>1. \A k \in 1..(n + 1) : k \in 1..n \/ k = n + 1
      BY <2>2
    <3> QED
      BY <2>2, <3>1
  <2>4. InOrderUpTo(noted, i)
    <3> HIDE DEF n
    <3>1. \A k \in 1..n : history[k].at \in 2..(i - 1)
      BY DEF InOrderUpTo, n
    <3>2. \A k, l \in 1..n : k < l => history[k].at < history[l].at
      BY DEF InOrderUpTo, n
    <3>3. \A k \in 1..(n + 1) : (k \in 1..n /\ noted[k] = history[k]) \/ (k = n + 1 /\ noted[k] = new)
      BY <2>2
    <3>4. \A k \in 1..(n + 1) : noted[k].at \in 2..i
      <4>1. \A at \in 2..(i - 1) : at \in 2..i
        OBVIOUS
      <4>2. i \in 2..i
        BY <1>5
      <4> QED
        BY <2>1, <3>1, <3>3, <4>1, <4>2
    <3>5. ASSUME NEW k \in 1..(n + 1), NEW l \in 1..(n + 1), k < l PROVE noted[k].at < noted[l].at
      <4>1. k \in 1..n /\ noted[k] = history[k]
        BY <2>2, <3>5
      <4>2. CASE l \in 1..n
        BY <2>2, <3>2, <3>5, <4>1, <4>2
      <4>3. CASE l = n + 1
        BY <2>1, <2>2, <3>1, <4>1, <4>3
      <4> QED
        BY <2>2, <4>2, <4>3
    <3> QED
      BY <2>2, <3>4, <3>5 DEF InOrderUpTo
  <2> QED
    BY <1>2, <1>5, <2>3, <2>4 DEF new
<1> QED
  BY <1>3, <1>4, <1>5

(* So the history is the signals of the rows, in the order of the rows.    *)
LEMMA HistoryInOrder ==
  ASSUME NEW colors, Len(colors) \in Nat, NEW history, history = HistoricalReversals(colors)
  PROVE  history \in Seq(Signals) /\ HistoryUpTo(colors, history, Len(colors))
<1> DEFINE n == Len(colors)
<1>1. PICK h : IsHistory(colors, h) /\ history = h[n]
  BY HistoryFacts
<1>2. /\ \A i \in 0..n : h[i] \in Seq(Signals)
      /\ h[0] = <<>> /\ \A i \in 1..n : h[i] = Noted(colors, h[i - 1], i)
  BY <1>1 DEF IsHistory
<1> DEFINE S == {i \in 0..n : HistoryUpTo(colors, h[i], i)}
<1>3. 0 \in S
  <2>1. Len(h[0]) = 0
    BY <1>2
  <2>2. RowsWithSignal(colors, 0) = {}
    BY DEF RowsWithSignal
  <2> QED
    BY <2>1, <2>2 DEF InOrderUpTo, HistoryUpTo
<1>4. ASSUME NEW i \in 1..n, i - 1 \in S PROVE i \in S
  <2>1. h[i - 1] \in Seq(Signals) /\ h[i] = Noted(colors, h[i - 1], i) /\ i \in Nat \ {0} /\ i \in 0..n
    BY <1>2
  <2>2. HistoryUpTo(colors, h[i - 1], i - 1)
    BY <1>4
  <2>3. HistoryUpTo(colors, h[i], i)
    BY <2>1, <2>2, NotedInOrder
  <2> QED
    BY <2>1, <2>3
<1> HIDE DEF S
<1>5. \A i \in 0..n : i \in S
  BY <1>3, <1>4, Induction
<1>6. n \in S /\ n \in 0..n
  BY <1>5
<1> QED
  BY <1>1, <1>2, <1>6 DEF S

(* The history of a longer table is that of the shorter one and, perhaps,  *)
(* a signal of the last row.                                               *)
LEMMA HistoryGrows ==
  ASSUME NEW colors, NEW more, NEW n \in Nat, Len(colors) = n, Len(more) = n + 1,
         \A i \in 1..n : more[i] = colors[i]
  PROVE  HistoricalReversals(more) = Noted(more, HistoricalReversals(colors), n + 1)
<1>1. PICK h : IsHistory(colors, h) /\ HistoricalReversals(colors) = h[n]
  BY HistoryFacts
<1>2. PICK g : IsHistory(more, g) /\ HistoricalReversals(more) = g[n + 1]
  <2>1. Len(more) \in Nat
    OBVIOUS
  <2> QED
    BY <2>1, HistoryFacts
<1>3. \A i \in 1..n : h[i] = Noted(colors, h[i - 1], i) /\ g[i] = Noted(more, g[i - 1], i)
  <2>1. \A i \in 1..n : i \in 1..(n + 1)
    OBVIOUS
  <2>2. \A i \in 1..(n + 1) : g[i] = Noted(more, g[i - 1], i)
    BY <1>2 DEF IsHistory
  <2> QED
    BY <1>1, <2>1, <2>2 DEF IsHistory
<1>4. h[0] = <<>> /\ g[0] = <<>> /\ g[n + 1] = Noted(more, g[n], n + 1)
  BY <1>1, <1>2 DEF IsHistory
<1> DEFINE S == {i \in 0..n : g[i] = h[i]}
<1>5. 0 \in S
  BY <1>4
<1>6. ASSUME NEW i \in 1..n, i - 1 \in S PROVE i \in S
  <2>1. g[i - 1] = h[i - 1]
    BY <1>6
  <2>2. i < 2 \/ more[i - 1] = colors[i - 1]
    OBVIOUS
  <2>3. Noted(more, g[i - 1], i) = Noted(colors, h[i - 1], i)
    BY <2>1, <2>2 DEF Noted
  <2> QED
    BY <1>3, <2>3
<1> HIDE DEF S
<1>7. \A i \in 0..n : i \in S
  BY <1>5, <1>6, Induction
<1>8. g[n] = h[n]
  BY <1>7 DEF S
<1> QED
  BY <1>1, <1>2, <1>4, <1>8

-----------------------------------------------------------------------------
(* The types of the analysis.  The extremes of a path are those of a set   *)
(* of candles of the table.                                                *)
Extremes(table) ==
  LET some == SUBSET {table[i] : i \in 1..Len(table)}
  IN {Greatest({c.high : c \in P}) : P \in some} \cup {Least({c.low : c \in P}) : P \in some}

Sides == {"LONG", "SHORT"}

Positions == [side : Sides, signalAt : Nat, entry : Nat \ {0},
              entryReference : Nat \ {0}, entryPrice : Int]

Trades(table) ==
  [side : Sides, signalAt : Nat, entry : Nat, exitSignalAt : Nat, exit : Nat,
   entryReference : Nat \ {0}, entryPrice : Int, gross : Int, net : Int,
   highest : Extremes(table), lowest : Extremes(table), result : {"WIN", "LOSS", "BREAKEVEN"}]

States(table) == [position : Positions \cup {NoPosition}, results : Seq(Trades(table))]

(* Rates and costs are naturals.                                           *)
LEMMA Rates ==
  ASSUME NEW rates \in CostModels
  PROVE  /\ RateUnit \in Nat \ {0} /\ CandleHours \in Nat \ {0} /\ FundingHours \in Nat \ {0}
         /\ MonthLength \in Nat \ {0}
         /\ rates.commission \in Nat /\ rates.funding \in Nat
         /\ rates.slippage \in Nat /\ rates.slippage < RateUnit
<1>1. RateUnit \in Nat \ {0} /\ CandleHours \in Nat \ {0} /\ FundingHours \in Nat \ {0} /\ MonthLength \in Nat \ {0}
  BY BacktestAssumption
<1>2. rates \in [commission : Nat, slippage : 0..(RateUnit - 1), funding : Nat]
  BY BacktestAssumption
<1> QED
  BY <1>1, <1>2

(* No position is not a position, and has no side.                         *)
LEMMA NoPositionIsNone == NoPosition \notin Positions /\ NoPosition.side = "NONE"
BY DEF NoPosition, Positions, Sides

(* An execution price is between nothing and twice the market price.       *)
LEMMA SlippedPriceType ==
  ASSUME NEW rates \in CostModels, NEW reference \in Nat \ {0}, NEW order
  PROVE  SlippedPrice(rates, reference, order) \in Nat \ {0}
<1>1. RateUnit - rates.slippage \in Nat \ {0} /\ RateUnit + rates.slippage \in Nat \ {0}
  BY Rates
<1>2. \A a, b \in Nat \ {0} : a * b \in Nat \ {0}
  OBVIOUS
<1>3. CASE order = "BUY"
  BY <1>1, <1>2, <1>3 DEF SlippedPrice
<1>4. CASE order # "BUY"
  BY <1>1, <1>2, <1>4 DEF SlippedPrice
<1> QED
  BY <1>3, <1>4

(* A signal that can be executed opens a position.                         *)
LEMMA OpenedType ==
  ASSUME NEW rates \in CostModels, NEW table \in Seq(Shapes), NEW signal \in Signals,
         Execution(signal) <= Len(table)
  PROVE  Opened(rates, table, signal) \in Positions
<1>1. /\ signal.at \in Nat /\ signal.side \in Sides /\ Execution(signal) = signal.at + 1
      /\ Len(table) \in Nat
  BY LenProperties DEF Signals, Execution, Sides
<1>2. Execution(signal) \in 1..Len(table)
  BY <1>1
<1>3. table[Execution(signal)].open \in Nat \ {0}
  BY <1>2, CandleNumbers
<1>4. SlippedPrice(rates, table[Execution(signal)].open, EntryOrder(signal.side)) \in Int
  BY <1>3, SlippedPriceType
<1> QED
  BY <1>1, <1>2, <1>3, <1>4 DEF Opened, Positions

(* A position closed by a signal that can be executed is a trade.          *)
LEMMA CompletedType ==
  ASSUME NEW rates \in CostModels, NEW table \in Seq(Shapes), NEW signal \in Signals,
         Execution(signal) <= Len(table), NEW position \in Positions
  PROVE  Completed(rates, table, position, signal) \in Trades(table)
<1> DEFINE at == Execution(signal)
           reference == table[at].open
           exitPrice == SlippedPrice(rates, reference, ExitOrder(position.side))
           duration == at - position.entry
           fundingCycles == (duration * CandleHours) \div FundingHours
           net == RateUnit * Gain(position.side, position.entryPrice, exitPrice)
                  - rates.commission * (position.entryPrice + exitPrice)
                  - fundingCycles * rates.funding * position.entryPrice
           path == Path(table, position, at)
<1>1. /\ signal.at \in Nat /\ at = signal.at + 1 /\ Len(table) \in Nat /\ at \in 1..Len(table)
  BY LenProperties DEF Signals, Execution
<1>2. /\ position.side \in Sides /\ position.signalAt \in Nat /\ position.entry \in Nat \ {0}
      /\ position.entryReference \in Nat \ {0} /\ position.entryPrice \in Int
  BY DEF Positions
<1>3. reference \in Nat \ {0}
  BY <1>1, CandleNumbers
<1>4. exitPrice \in Int
  BY <1>3, SlippedPriceType
<1>5. \A a, b \in Int : Gain(position.side, a, b) \in Int
  BY DEF Gain
<1>6. /\ RateUnit \in Int /\ rates.commission \in Int /\ rates.funding \in Int
      /\ CandleHours \in Int /\ FundingHours \in Nat \ {0}
  BY Rates
<1>7. net \in Int
  <2>1. fundingCycles \in Int
    <3>1. duration * CandleHours \in Int
      BY <1>1, <1>2, <1>6
    <3> QED
      BY <1>6, <3>1
  <2> HIDE DEF fundingCycles, exitPrice
  <2>2. Gain(position.side, position.entryPrice, exitPrice) \in Int
    BY <1>2, <1>4, <1>5
  <2>3. \A a, b \in Int : a * b \in Int /\ a - b \in Int /\ a + b \in Int
    OBVIOUS
  <2> QED
    BY <1>2, <1>4, <1>6, <2>1, <2>2, <2>3
<1>8. path \subseteq {table[i] : i \in 1..Len(table)}
  <2>1. \A i \in position.entry..(at - 1) : i \in 1..Len(table)
    BY <1>1, <1>2
  <2> QED
    BY <2>1 DEF Path
<1>9. /\ Greatest({c.high : c \in path}) \in Extremes(table)
      /\ Least({c.low : c \in path}) \in Extremes(table)
  <2> HIDE DEF path
  <2> QED
    BY <1>8 DEF Extremes
<1>10. Gain(position.side, position.entryReference, reference) \in Int
  <2> HIDE DEF reference
  <2>1. position.entryReference \in Int /\ reference \in Int
    BY <1>2, <1>3
  <2> QED
    BY <1>5, <2>1
<1>11. Completed(rates, table, position, signal) =
         [side |-> position.side, signalAt |-> position.signalAt,
          entry |-> position.entry, exitSignalAt |-> signal.at, exit |-> at,
          entryReference |-> position.entryReference, entryPrice |-> position.entryPrice,
          gross |-> Gain(position.side, position.entryReference, reference), net |-> net,
          highest |-> Greatest({c.high : c \in path}), lowest |-> Least({c.low : c \in path}),
          result |-> IF net > 0 THEN "WIN" ELSE IF net < 0 THEN "LOSS" ELSE "BREAKEVEN"]
  BY DEF Completed
<1> HIDE DEF at, reference, exitPrice, duration, fundingCycles, net, path
<1>12. /\ at \in Nat
       /\ (IF net > 0 THEN "WIN" ELSE IF net < 0 THEN "LOSS" ELSE "BREAKEVEN") \in {"WIN", "LOSS", "BREAKEVEN"}
  BY <1>1
<1> QED
  BY <1>1, <1>2, <1>7, <1>9, <1>10, <1>11, <1>12 DEF Trades

(* A turn keeps the types.                                                 *)
LEMMA TurnType ==
  ASSUME NEW rates \in CostModels, NEW table \in Seq(Shapes), NEW signal \in Signals,
         NEW state \in States(table)
  PROVE  Turn(rates, table, state, signal) \in States(table)
<1>1. /\ state.position \in Positions \cup {NoPosition} /\ state.results \in Seq(Trades(table))
  BY DEF States
<1>2. CASE Execution(signal) > Len(table) \/ state.position.side = signal.side
  BY <1>2 DEF Turn
<1>3. CASE ~(Execution(signal) > Len(table) \/ state.position.side = signal.side)
  <2>1. Execution(signal) <= Len(table)
    BY <1>3, LenProperties DEF Execution, Signals
  <2>2. Opened(rates, table, signal) \in Positions
    BY <2>1, OpenedType
  <2> DEFINE results == IF state.position = NoPosition THEN state.results
                        ELSE Append(state.results, Completed(rates, table, state.position, signal))
  <2>3. results \in Seq(Trades(table))
    <3>1. CASE state.position = NoPosition
      BY <1>1, <3>1
    <3>2. CASE state.position # NoPosition
      <4>1. Completed(rates, table, state.position, signal) \in Trades(table)
        BY <1>1, <2>1, <3>2, CompletedType
      <4> QED
        BY <1>1, <3>2, <4>1, AppendProperties
    <3> QED
      BY <3>1, <3>2
  <2>4. Turn(rates, table, state, signal) = [position |-> Opened(rates, table, signal), results |-> results]
    BY <1>3 DEF Turn
  <2> HIDE DEF results
  <2> QED
    BY <2>2, <2>3, <2>4 DEF States
<1> QED
  BY <1>2, <1>3

-----------------------------------------------------------------------------
(* The loop of run_signal_analysis.                                        *)

(* The states of the loop of run_signal_analysis, the last of which is the *)
(* result.                                                                 *)
IsRun(rates, table, signals, f) ==
  /\ f \in [0..Len(signals) -> States(table)]
  /\ f[0] = NoReport
  /\ \A n \in 1..Len(signals) : f[n] = Turn(rates, table, f[n - 1], signals[n])

(* So does the beginning.                                                  *)
LEMMA NoReportType ==
  ASSUME NEW table
  PROVE  NoReport \in States(table)
<1>1. <<>> \in Seq(Trades(table))
  BY EmptySeq
<1> QED
  BY <1>1 DEF NoReport, States

(* The loop takes one turn per signal, and returns its last state.         *)
LEMMA RunFacts ==
  ASSUME NEW rates \in CostModels, NEW table \in Seq(Shapes), NEW signals \in Seq(Signals)
  PROVE  \E f : IsRun(rates, table, signals, f) /\ RunSignalAnalysis(rates, table, signals) = f[Len(signals)]
<1> DEFINE n == Len(signals)
           IsTable(f) == f = [i \in 0..n |-> IF i = 0 THEN NoReport ELSE Turn(rates, table, f[i - 1], signals[i])]
           state == CHOOSE f : IsTable(f)
<1>0. n \in Nat /\ \A i \in 1..n : signals[i] \in Signals
  BY LenProperties, ElementOfSeq
<1>1. RunSignalAnalysis(rates, table, signals) = state[n]
  BY DEF RunSignalAnalysis
<1> HIDE DEF n
<1>2. \E f : IsTable(f)
  <2> DEFINE V == States(table)
             step == [i \in 1..n |-> [v \in V |-> Turn(rates, table, v, signals[i])]]
  <2>1. step \in [1..n -> [V -> V]]
    <3>1. \A i \in 1..n : \A v \in V : Turn(rates, table, v, signals[i]) \in V
      BY <1>0, TurnType
    <3> HIDE DEF V
    <3> QED
      BY <3>1
  <2>2. IsLoop(n, V, NoReport, step)
    BY <1>0, <2>1, NoReportType DEF IsLoop
  <2>3. \A i \in 1..n : \A v \in V : step[i][v] = Turn(rates, table, v, signals[i])
    OBVIOUS
  <2> HIDE DEF step, V
  <2>4. PICK f \in [0..n -> V] : f[0] = NoReport /\ \A i \in 1..n : f[i] = step[i][f[i - 1]]
    BY <2>2, Recursion
  <2>5. \A i \in 0..n : f[i] = IF i = 0 THEN NoReport ELSE Turn(rates, table, f[i - 1], signals[i])
    <3>1. ASSUME NEW i \in 1..n PROVE f[i] = Turn(rates, table, f[i - 1], signals[i])
      <4>1. f[i - 1] \in V
        BY <1>0
      <4> QED
        BY <2>3, <2>4, <4>1
    <3>2. \A i \in 0..n : i = 0 \/ i \in 1..n
      BY <1>0
    <3> QED
      BY <2>4, <3>1, <3>2
  <2>6. f = [i \in 0..n |-> IF i = 0 THEN NoReport ELSE Turn(rates, table, f[i - 1], signals[i])]
    BY <2>5
  <2> QED
    BY <2>6
<1>3. IsTable(state)
  BY <1>2
<1> HIDE DEF state
<1>4. /\ DOMAIN state = 0..n /\ state = [i \in 0..n |-> state[i]]
      /\ \A i \in 0..n : state[i] = IF i = 0 THEN NoReport ELSE Turn(rates, table, state[i - 1], signals[i])
  BY <1>3
<1>5. state[0] = NoReport
  <2>1. 0 \in 0..n
    BY <1>0
  <2> QED
    BY <1>4, <2>1
<1>6. \A i \in 1..n : state[i] = Turn(rates, table, state[i - 1], signals[i])
  <2>1. \A i \in 1..n : i \in 0..n /\ i # 0
    BY <1>0
  <2> QED
    BY <1>4, <2>1
<1>7. \A i \in 0..n : state[i] \in States(table)
  <2> DEFINE S == {i \in 0..n : state[i] \in States(table)}
  <2>1. 0 \in S
    BY <1>0, <1>5, NoReportType
  <2>2. ASSUME NEW i \in 1..n, i - 1 \in S PROVE i \in S
    <3>1. state[i] = Turn(rates, table, state[i - 1], signals[i]) /\ i \in 0..n /\ signals[i] \in Signals
      BY <1>0, <1>6
    <3> QED
      BY <2>2, <3>1, TurnType
  <2> HIDE DEF S
  <2>3. \A i \in 0..n : i \in S
    BY <1>0, <2>1, <2>2, Induction
  <2> QED
    BY <2>3 DEF S
<1>8. IsRun(rates, table, signals, state)
  <2>1. state \in [0..n -> States(table)]
    BY <1>4, <1>7
  <2> QED
    BY <1>5, <1>6, <2>1 DEF IsRun, n
<1> QED
  BY <1>1, <1>8 DEF n

-----------------------------------------------------------------------------
(* What every state of the loop satisfies, when the signals up to a row    *)
(* have been seen: what TradesTile and CostsOnlyHurt need.                 *)
Paid(t) == t.net * t.entryReference <= t.gross * RateUnit * t.entryPrice

PositionFrom(rates, table, position, last) ==
  position # NoPosition =>
    /\ position.entry = position.signalAt + 1
    /\ position.signalAt <= last /\ position.entry <= Len(table)
    /\ position.entryPrice = SlippedPrice(rates, position.entryReference, EntryOrder(position.side))

Analysed(rates, table, state, last) ==
  /\ state \in States(table)
  /\ PositionFrom(rates, table, state.position, last)
  /\ state.position = NoPosition => state.results = <<>>
  /\ Tiles(state.results, state.position)
  /\ \A i \in 1..Len(state.results) : Paid(state.results[i]) /\ state.results[i].exit <= Len(table)

(* Costs only hurt one trade: slippage moves both fills against it,        *)
(* commission and funding are never negative.                              *)
LEMMA Slipped ==
  ASSUME NEW unit \in Nat \ {0}, NEW slippage \in Nat, slippage < unit,
         NEW from \in Nat \ {0}, NEW to \in Nat \ {0}
  PROVE  /\ (to * (unit - slippage) - from * (unit + slippage)) * from * unit
              <= (to - from) * unit * (from * (unit + slippage))
         /\ (from * (unit - slippage) - to * (unit + slippage)) * from * unit
              <= (from - to) * unit * (from * (unit - slippage))
<1> DEFINE up == unit + slippage
           down == unit - slippage
<1>1. up \in Nat /\ down \in Nat /\ down <= up
  OBVIOUS
<1> HIDE DEF up, down
<1>2. \A a \in Nat : \A b, c \in Int : b <= c => a * b <= a * c
  OBVIOUS
<1>3. from * unit \in Nat /\ to * up \in Int /\ to * down \in Int /\ from * up \in Int /\ from * down \in Int
  BY <1>1
<1>4. to * down <= to * up
  BY <1>1, <1>2
<1>5. (from * unit) * (to * down - from * up) <= (from * unit) * (to * up - from * up)
  <2>1. to * down - from * up <= to * up - from * up
    BY <1>3, <1>4
  <2> QED
    BY <1>2, <1>3, <2>1
<1>6. (from * unit) * (from * down - to * up) <= (from * unit) * (from * down - to * down)
  <2>1. from * down - to * up <= from * down - to * down
    BY <1>3, <1>4
  <2> QED
    BY <1>2, <1>3, <2>1
<1>7. \A a, b, c, d, e \in Int :
        /\ (a - b) * c * d = (c * d) * (a - b)
        /\ (c * d) * (a * e - c * e) = (a - c) * d * (c * e)
        /\ (c * d) * (c * e - a * e) = (c - a) * d * (c * e)
  OBVIOUS
<1>8. /\ (to * down - from * up) * from * unit = (from * unit) * (to * down - from * up)
      /\ (from * unit) * (to * up - from * up) = (to - from) * unit * (from * up)
      /\ (from * down - to * up) * from * unit = (from * unit) * (from * down - to * up)
      /\ (from * unit) * (from * down - to * down) = (from - to) * unit * (from * down)
  BY <1>1, <1>3, <1>7
<1> QED
  BY <1>5, <1>6, <1>8 DEF up, down

(* A trade that ends after it began is paid for.                           *)
LEMMA CompletedPaid ==
  ASSUME NEW rates \in CostModels, NEW table \in Seq(Shapes), NEW signal \in Signals,
         Execution(signal) <= Len(table), NEW position \in Positions,
         position.entry <= Execution(signal),
         position.entryPrice = SlippedPrice(rates, position.entryReference, EntryOrder(position.side))
  PROVE  Paid(Completed(rates, table, position, signal))
<1> DEFINE at == Execution(signal)
           to == table[at].open
           from == position.entryReference
           slippage == rates.slippage
           exitPrice == SlippedPrice(rates, to, ExitOrder(position.side))
           entryPrice == position.entryPrice
           cycles == ((at - position.entry) * CandleHours) \div FundingHours
           gain == Gain(position.side, entryPrice, exitPrice)
           gross == Gain(position.side, from, to)
           net == RateUnit * gain - rates.commission * (entryPrice + exitPrice)
                  - cycles * rates.funding * entryPrice
<1>1. /\ signal.at \in Nat /\ at = signal.at + 1 /\ Len(table) \in Nat /\ at \in 1..Len(table)
  BY LenProperties DEF Signals, Execution
<1>2. /\ position.side \in Sides /\ position.entry \in Nat \ {0} /\ from \in Nat \ {0}
  BY DEF Positions
<1>3. to \in Nat \ {0}
  BY <1>1, CandleNumbers
<1>4. exitPrice \in Nat \ {0} /\ entryPrice \in Nat \ {0}
  BY <1>2, <1>3, SlippedPriceType
<1>5. /\ RateUnit \in Nat \ {0} /\ rates.commission \in Nat /\ rates.funding \in Nat
      /\ CandleHours \in Nat \ {0} /\ FundingHours \in Nat \ {0} /\ slippage \in Nat /\ slippage < RateUnit
  BY Rates
<1>6. /\ Completed(rates, table, position, signal).net = net
      /\ Completed(rates, table, position, signal).gross = gross
      /\ Completed(rates, table, position, signal).entryReference = from
      /\ Completed(rates, table, position, signal).entryPrice = entryPrice
  BY DEF Completed
<1>7. /\ exitPrice = to * (IF position.side = "LONG" THEN RateUnit - slippage ELSE RateUnit + slippage)
      /\ entryPrice = from * (IF position.side = "LONG" THEN RateUnit + slippage ELSE RateUnit - slippage)
  BY DEF SlippedPrice, EntryOrder, ExitOrder
<1>8. cycles \in Nat
  <2>1. at - position.entry \in Nat
    BY <1>1, <1>2
  <2> DEFINE hours == (at - position.entry) * CandleHours
  <2>2. hours \in Nat
    <3>1. \A a, b \in Nat : a * b \in Nat
      OBVIOUS
    <3> HIDE DEF at
    <3> QED
      BY <1>5, <2>1, <3>1
  <2> HIDE DEF hours
  <2>3. hours \div FundingHours \in Nat
    BY <1>5, <2>2
  <2> QED
    BY <2>3 DEF hours
<1> HIDE DEF at, to, from, slippage, exitPrice, entryPrice, cycles
<1>9. gain \in Int /\ gross \in Int
  BY <1>2, <1>3, <1>4 DEF Gain
<1>10. gain * from * RateUnit <= gross * RateUnit * entryPrice
  <2>1. CASE position.side = "LONG"
    <3>1. gain = to * (RateUnit - slippage) - from * (RateUnit + slippage) /\ gross = to - from
          /\ entryPrice = from * (RateUnit + slippage)
      BY <1>7, <2>1 DEF Gain
    <3> HIDE DEF gain, gross
    <3>2. (to * (RateUnit - slippage) - from * (RateUnit + slippage)) * from * RateUnit
            <= (to - from) * RateUnit * (from * (RateUnit + slippage))
      BY <1>2, <1>3, <1>5, Slipped
    <3> QED
      BY <3>1, <3>2
  <2>2. CASE position.side = "SHORT"
    <3>1. gain = from * (RateUnit - slippage) - to * (RateUnit + slippage) /\ gross = from - to
          /\ entryPrice = from * (RateUnit - slippage)
      BY <1>7, <2>2 DEF Gain
    <3> HIDE DEF gain, gross
    <3>2. (from * (RateUnit - slippage) - to * (RateUnit + slippage)) * from * RateUnit
            <= (from - to) * RateUnit * (from * (RateUnit - slippage))
      BY <1>2, <1>3, <1>5, Slipped
    <3> QED
      BY <3>1, <3>2
  <2> QED
    BY <1>2, <2>1, <2>2 DEF Sides
<1> HIDE DEF gain, gross
<1>11. net \in Int /\ net <= RateUnit * gain
  <2> DEFINE commission == rates.commission * (entryPrice + exitPrice)
             funding == cycles * rates.funding * entryPrice
  <2>1. \A a, b \in Nat : a * b \in Nat /\ a + b \in Nat
    OBVIOUS
  <2>2. commission \in Nat /\ funding \in Nat
    BY <1>4, <1>5, <1>8, <2>1
  <2>3. RateUnit * gain \in Int
    BY <1>5, <1>9
  <2>4. net = RateUnit * gain - commission - funding
    OBVIOUS
  <2> HIDE DEF commission, funding, net
  <2> QED
    BY <2>2, <2>3, <2>4
<1> HIDE DEF net
<1>12. net * from <= (RateUnit * gain) * from
  <2>1. \A a, b \in Int : \A c \in Nat : a <= b => a * c <= b * c
    OBVIOUS
  <2>2. RateUnit * gain \in Int
    BY <1>5, <1>9
  <2> QED
    BY <1>2, <1>11, <2>1, <2>2
<1>13. (RateUnit * gain) * from = gain * from * RateUnit
  <2>1. \A a, b, c \in Int : (a * b) * c = b * c * a
    OBVIOUS
  <2> QED
    BY <1>2, <1>5, <1>9, <2>1
<1>14. net * from <= gross * RateUnit * entryPrice
  <2>1. \A a, b \in Int : a * b \in Int
    OBVIOUS
  <2>2. net * from \in Int /\ gain * from * RateUnit \in Int /\ gross * RateUnit * entryPrice \in Int
    BY <1>2, <1>4, <1>5, <1>9, <1>11, <2>1
  <2> QED
    BY <1>10, <1>12, <1>13, <2>2
<1> QED
  BY <1>6, <1>14 DEF Paid

(* A trade more: it begins where the last one ended.                       *)
LEMMA TilesOn ==
  ASSUME NEW table, NEW results \in Seq(Trades(table)), NEW position \in Positions,
         Tiles(results, position), position.entry = position.signalAt + 1,
         NEW trade \in Trades(table), NEW next \in Positions,
         trade.side = position.side, trade.signalAt = position.signalAt, trade.entry = position.entry,
         trade.entry < trade.exit, trade.exitSignalAt < trade.exit,
         next.entry = trade.exit, next.side # trade.side
  PROVE  Tiles(Append(results, trade), next)
<1> DEFINE n == Len(results)
           more == Append(results, trade)
<1>1. /\ n \in Nat /\ more \in Seq(Trades(table)) /\ Len(more) = n + 1 /\ more[n + 1] = trade
      /\ \A i \in 1..n : more[i] = results[i]
  BY AppendProperties, LenProperties
<1>2. DOMAIN more = 1..(n + 1) /\ DOMAIN results = 1..n
  BY <1>1, LenProperties
<1>3. trade.signalAt < trade.entry
  BY DEF Positions
<1> HIDE DEF more
<1>4. results # <<>> => n >= 1 /\ Last(results) = results[n]
  BY <1>1, EmptySeq DEF Last
<1>5. Last(more) = trade
  BY <1>1 DEF Last
<1> HIDE DEF n
<1>6. ASSUME NEW i \in 1..(n + 1)
      PROVE  more[i].signalAt < more[i].entry /\ more[i].entry < more[i].exit /\ more[i].exitSignalAt < more[i].exit
  <2>1. CASE i \in 1..n
    BY <1>1, <1>2, <2>1 DEF Tiles
  <2>2. CASE i = n + 1
    BY <1>1, <1>3, <2>2
  <2> QED
    BY <1>1, <2>1, <2>2
<1>7. ASSUME NEW i \in 1..n
      PROVE  more[i].exit = more[i + 1].entry /\ more[i].side # more[i + 1].side
  <2>1. CASE i \in 1..(n - 1)
    <3>1. more[i] = results[i] /\ more[i + 1] = results[i + 1]
      BY <1>1, <2>1
    <3> QED
      BY <2>1, <3>1 DEF Tiles, n
  <2>2. CASE i = n
    <3>1. results # <<>>
      <4>1. results = <<>> => n = 0
        BY DEF n
      <4> QED
        BY <1>1, <2>2, <4>1
    <3>2. position.entry = Last(results).exit /\ position.side # Last(results).side
      BY <3>1 DEF Tiles
    <3> QED
      BY <1>1, <1>4, <2>2, <3>1, <3>2
  <2> QED
    BY <1>1, <2>1, <2>2
<1> QED
  BY <1>1, <1>2, <1>5, <1>6, <1>7 DEF Tiles, more

(* A turn keeps what is known of the loop, for signals in order.           *)
LEMMA TurnAnalysed ==
  ASSUME NEW rates \in CostModels, NEW table \in Seq(Shapes), NEW signal \in Signals,
         NEW last \in Nat, last < signal.at, NEW state, Analysed(rates, table, state, last)
  PROVE  Analysed(rates, table, Turn(rates, table, state, signal), signal.at)
<1> DEFINE position == state.position
           results == state.results
           at == Execution(signal)
<1>1. /\ state \in States(table) /\ PositionFrom(rates, table, position, last) /\ Tiles(results, position)
      /\ position = NoPosition => results = <<>>
      /\ \A i \in 1..Len(results) : Paid(results[i]) /\ results[i].exit <= Len(table)
  BY DEF Analysed
<1>2. /\ signal.at \in Nat /\ signal.side \in Sides /\ at = signal.at + 1 /\ Len(table) \in Nat
      /\ position \in Positions \cup {NoPosition} /\ results \in Seq(Trades(table))
  BY <1>1, LenProperties DEF Signals, Execution, Sides, States
<1>3. CASE at > Len(table) \/ position.side = signal.side
  <2>1. Turn(rates, table, state, signal) = state
    BY <1>3 DEF Turn
  <2>2. PositionFrom(rates, table, position, signal.at)
    BY <1>1, <1>2 DEF PositionFrom, Positions
  <2> QED
    BY <1>1, <2>1, <2>2 DEF Analysed
<1>4. CASE ~(at > Len(table) \/ position.side = signal.side)
  <2> DEFINE next == Opened(rates, table, signal)
             trade == Completed(rates, table, position, signal)
             more == IF position = NoPosition THEN results ELSE Append(results, trade)
  <2>1. Turn(rates, table, state, signal) = [position |-> next, results |-> more]
    BY <1>4 DEF Turn
  <2>2. at <= Len(table)
    BY <1>2, <1>4
  <2>3. next \in Positions /\ Turn(rates, table, state, signal) \in States(table)
    BY <1>1, <2>2, OpenedType, TurnType
  <2>4. /\ next.side = signal.side /\ next.signalAt = signal.at /\ next.entry = at
        /\ next.entryPrice = SlippedPrice(rates, next.entryReference, EntryOrder(next.side))
    BY DEF Opened
  <2>5. PositionFrom(rates, table, next, signal.at) /\ next # NoPosition
    <3>1. next # NoPosition
      BY <2>3, NoPositionIsNone
    <3> QED
      BY <1>2, <2>2, <2>4, <3>1 DEF PositionFrom
  <2>6. CASE position = NoPosition
    <3>1. results = <<>> /\ more = <<>> /\ Len(more) = 0
      BY <1>1, <2>6
    <3>2. Tiles(<<>>, next)
      BY DEF Tiles
    <3> QED
      BY <2>1, <2>3, <2>5, <3>1, <3>2 DEF Analysed
  <2>7. CASE position # NoPosition
    <3>1. position \in Positions
      BY <1>2, <2>7
    <3>2. /\ position.entry = position.signalAt + 1 /\ position.signalAt <= last
          /\ position.entryPrice = SlippedPrice(rates, position.entryReference, EntryOrder(position.side))
      BY <1>1, <2>7 DEF PositionFrom
    <3>3. position.entry < at
      BY <1>2, <3>1, <3>2 DEF Positions
    <3>4. trade \in Trades(table) /\ Paid(trade)
      BY <1>2, <2>2, <3>1, <3>2, <3>3, CompletedType, CompletedPaid DEF Positions
    <3>5. /\ trade.side = position.side /\ trade.signalAt = position.signalAt
          /\ trade.entry = position.entry /\ trade.exit = at /\ trade.exitSignalAt = signal.at
      BY DEF Completed
    <3>6. next.side # trade.side
      BY <1>4, <2>4, <3>5
    <3>7. more = Append(results, trade)
      BY <2>7
    <3> HIDE DEF trade, next, position, results, at, more
    <3>8. Tiles(more, next)
      BY <1>1, <1>2, <2>3, <2>4, <3>1, <3>2, <3>3, <3>4, <3>5, <3>6, <3>7, TilesOn
    <3>9. \A i \in 1..Len(more) : Paid(more[i]) /\ more[i].exit <= Len(table)
      <4>1. /\ Len(results) \in Nat /\ Len(more) = Len(results) + 1 /\ more[Len(results) + 1] = trade
            /\ \A i \in 1..Len(results) : more[i] = results[i]
        BY <1>2, <3>4, <3>7, AppendProperties, LenProperties
      <4>2. \A i \in 1..Len(more) : i \in 1..Len(results) \/ i = Len(results) + 1
        BY <4>1
      <4> QED
        BY <1>1, <2>2, <3>4, <3>5, <4>1, <4>2
    <3> QED
      BY <2>1, <2>3, <2>5, <3>8, <3>9 DEF Analysed
  <2> QED
    BY <2>6, <2>7
<1> QED
  BY <1>3, <1>4

-----------------------------------------------------------------------------
(* What the loop leaves behind, and what a candle more changes.            *)

(* Before any signal there is nothing to settle.                           *)
LEMMA NothingAnalysed ==
  ASSUME NEW rates, NEW table
  PROVE  Analysed(rates, table, NoReport, 0)
<1>1. NoReport.results = <<>> /\ NoReport.position = NoPosition
  BY DEF NoReport
<1>2. Tiles(<<>>, NoPosition)
  BY DEF Tiles
<1>3. PositionFrom(rates, table, NoPosition, 0)
  BY DEF PositionFrom
<1>4. Len(NoReport.results) = 0
  BY <1>1
<1> QED
  BY <1>1, <1>2, <1>3, <1>4, NoReportType DEF Analysed

(* Whatever table and signals in order, the result of the loop is sound.   *)
LEMMA AnalysisHolds ==
  ASSUME NEW rates \in CostModels, NEW table \in Seq(Shapes), NEW signals \in Seq(Signals),
         NEW m \in Nat, InOrderUpTo(signals, m)
  PROVE  \E last \in Nat : Analysed(rates, table, RunSignalAnalysis(rates, table, signals), last)
<1> DEFINE n == Len(signals)
           Seen(i) == IF i = 0 THEN 0 ELSE signals[i].at
<1>1. n \in Nat /\ \A i \in 1..n : signals[i] \in Signals
  BY LenProperties, ElementOfSeq
<1>2. PICK f : IsRun(rates, table, signals, f) /\ RunSignalAnalysis(rates, table, signals) = f[n]
  BY RunFacts
<1>3. f[0] = NoReport /\ \A i \in 1..n : f[i] = Turn(rates, table, f[i - 1], signals[i])
  BY <1>2 DEF IsRun
<1>4. \A i \in 1..n : signals[i].at \in Nat /\ signals[i].at >= 2
  BY <1>1 DEF InOrderUpTo, Signals
<1>5. \A i, j \in 1..n : i < j => signals[i].at < signals[j].at
  BY DEF InOrderUpTo
<1> HIDE DEF n
<1> DEFINE S == {i \in 0..n : Analysed(rates, table, f[i], Seen(i))}
<1>6. 0 \in S
  <2>1. 0 \in 0..n
    BY <1>1
  <2> QED
    BY <1>3, <2>1, NothingAnalysed
<1>7. ASSUME NEW i \in 1..n, i - 1 \in S PROVE i \in S
  <2>1. f[i] = Turn(rates, table, f[i - 1], signals[i]) /\ signals[i] \in Signals /\ i \in 0..n /\ i # 0
    BY <1>1, <1>3
  <2>2. Analysed(rates, table, f[i - 1], Seen(i - 1))
    BY <1>7
  <2>3. Seen(i - 1) \in Nat /\ Seen(i - 1) < signals[i].at
    <3>1. CASE i = 1
      BY <1>4, <3>1
    <3>2. CASE i # 1
      <4>1. i - 1 \in 1..n /\ i - 1 < i /\ i - 1 # 0
        BY <1>1, <3>2
      <4> QED
        BY <1>4, <1>5, <4>1
    <3> QED
      BY <3>1, <3>2
  <2> HIDE DEF Seen
  <2>4. Analysed(rates, table, f[i], signals[i].at)
    BY <2>1, <2>2, <2>3, TurnAnalysed
  <2> QED
    BY <2>1, <2>4 DEF Seen
<1> HIDE DEF S
<1>8. \A i \in 0..n : i \in S
  BY <1>1, <1>6, <1>7, Induction
<1>9. n \in 0..n /\ Seen(n) \in Nat
  BY <1>1, <1>4
<1>10. Analysed(rates, table, f[n], Seen(n))
  BY <1>8, <1>9 DEF S
<1> QED
  BY <1>2, <1>9, <1>10

(* One signal more is one turn more.                                       *)
LEMMA RunAppended ==
  ASSUME NEW rates \in CostModels, NEW table \in Seq(Shapes), NEW signals \in Seq(Signals),
         NEW signal \in Signals
  PROVE  RunSignalAnalysis(rates, table, Append(signals, signal))
           = Turn(rates, table, RunSignalAnalysis(rates, table, signals), signal)
<1> DEFINE n == Len(signals)
           more == Append(signals, signal)
<1>1. /\ n \in Nat /\ more \in Seq(Signals) /\ Len(more) = n + 1 /\ more[n + 1] = signal
      /\ \A i \in 1..n : more[i] = signals[i]
  BY AppendProperties, LenProperties
<1> HIDE DEF more
<1>2. PICK f : IsRun(rates, table, signals, f) /\ RunSignalAnalysis(rates, table, signals) = f[n]
  BY RunFacts
<1>3. PICK g : IsRun(rates, table, more, g) /\ RunSignalAnalysis(rates, table, more) = g[n + 1]
  BY <1>1, RunFacts
<1>4. /\ f[0] = NoReport /\ \A i \in 1..n : f[i] = Turn(rates, table, f[i - 1], signals[i])
      /\ g[0] = NoReport /\ \A i \in 1..(n + 1) : g[i] = Turn(rates, table, g[i - 1], more[i])
  BY <1>1, <1>2, <1>3 DEF IsRun
<1> HIDE DEF n
<1> DEFINE S == {i \in 0..n : g[i] = f[i]}
<1>5. 0 \in S
  BY <1>1, <1>4
<1>6. ASSUME NEW i \in 1..n, i - 1 \in S PROVE i \in S
  <2>1. i \in 1..(n + 1) /\ i \in 0..n /\ g[i - 1] = f[i - 1]
    BY <1>1, <1>6
  <2> QED
    BY <1>1, <1>4, <2>1
<1> HIDE DEF S
<1>7. \A i \in 0..n : i \in S
  BY <1>1, <1>5, <1>6, Induction
<1>8. g[n] = f[n] /\ n + 1 \in 1..(n + 1) /\ (n + 1) - 1 = n
  BY <1>1, <1>7 DEF S
<1>9. g[n + 1] = Turn(rates, table, g[n], signal)
  BY <1>1, <1>4, <1>8
<1> QED
  BY <1>2, <1>3, <1>8, <1>9 DEF more

(* A candle more does not change what a signal did that could be executed  *)
(* without it.                                                             *)
LEMMA TurnStays ==
  ASSUME NEW rates, NEW table \in Seq(Shapes), NEW candle \in Shapes,
         NEW more, more = Append(table, candle),
         NEW signal \in Signals, signal.at < Len(table), NEW state \in States(table)
  PROVE  Turn(rates, more, state, signal) = Turn(rates, table, state, signal)
<1> DEFINE at == Execution(signal)
           position == state.position
<1>1. /\ Len(table) \in Nat /\ Len(more) = Len(table) + 1
      /\ \A i \in 1..Len(table) : more[i] = table[i]
  BY Longer
<1>2. at \in 1..Len(table) /\ ~(at > Len(table)) /\ ~(at > Len(more))
  BY <1>1 DEF Execution, Signals
<1>3. more[at] = table[at]
  BY <1>1, <1>2
<1>4. Opened(rates, more, signal) = Opened(rates, table, signal)
  BY <1>3 DEF Opened
<1>5. position \in Positions => Completed(rates, more, position, signal) = Completed(rates, table, position, signal)
  <2> SUFFICES ASSUME position \in Positions
               PROVE  Completed(rates, more, position, signal) = Completed(rates, table, position, signal)
    OBVIOUS
  <2>1. position.entry \in Nat \ {0}
    BY DEF Positions
  <2> HIDE DEF position
  <2>2. \A i \in position.entry..(at - 1) : more[i] = table[i]
    <3>1. \A i \in position.entry..(at - 1) : i \in 1..Len(table)
      BY <1>1, <1>2, <2>1
    <3> QED
      BY <1>1, <3>1
  <2>3. Path(more, position, at) = Path(table, position, at)
    BY <2>2 DEF Path
  <2> QED
    BY <1>3, <2>3 DEF Completed
<1>6. position \in Positions \cup {NoPosition}
  BY DEF States
<1>7. position # NoPosition => Completed(rates, more, position, signal) = Completed(rates, table, position, signal)
  BY <1>5, <1>6
<1> QED
  BY <1>2, <1>4, <1>7 DEF Turn

(* A sequence is a prefix of itself with an element more.                  *)
LEMMA PrefixOfMore ==
  ASSUME NEW V, NEW s \in Seq(V), NEW e
  PROVE  IsPrefix(s, s) /\ IsPrefix(s, Append(s, e))
<1> DEFINE W == V \cup {e}
           t == Append(s, e)
<1>1. s \in Seq(W)
  BY SeqDef
<1>2. t \in Seq(W) /\ Len(s) \in Nat /\ Len(t) = Len(s) + 1 /\ \A i \in 1..Len(s) : t[i] = s[i]
  BY <1>1, AppendProperties, LenProperties
<1> HIDE DEF t, W
<1>3. SubSeq(t, 1, Len(s)) = SubSeq(s, 1, Len(s))
  BY <1>1, <1>2
<1> QED
  BY <1>2, <1>3 DEF IsPrefix, t

(* The same signals over a table with a candle more: the trades stay, and  *)
(* at most one is added, by a signal of what was the last candle.          *)
LEMMA RunGrows ==
  ASSUME NEW rates \in CostModels, NEW table \in Seq(Shapes), NEW candle \in Shapes,
         NEW more, more = Append(table, candle),
         NEW signals \in Seq(Signals), InOrderUpTo(signals, Len(table))
  PROVE  IsPrefix(RunSignalAnalysis(rates, table, signals).results,
                  RunSignalAnalysis(rates, more, signals).results)
<1> DEFINE n == Len(signals)
<1>1. n \in Nat /\ \A i \in 1..n : signals[i] \in Signals
  BY LenProperties, ElementOfSeq
<1>2. more \in Seq(Shapes) /\ Len(table) \in Nat /\ Len(more) = Len(table) + 1
  BY Longer
<1>3. PICK f : IsRun(rates, table, signals, f) /\ RunSignalAnalysis(rates, table, signals) = f[n]
  BY RunFacts
<1>4. PICK g : IsRun(rates, more, signals, g) /\ RunSignalAnalysis(rates, more, signals) = g[n]
  BY <1>2, RunFacts
<1>5. /\ f[0] = NoReport /\ \A i \in 1..n : f[i] = Turn(rates, table, f[i - 1], signals[i])
      /\ g[0] = NoReport /\ \A i \in 1..n : g[i] = Turn(rates, more, g[i - 1], signals[i])
      /\ \A i \in 0..n : f[i] \in States(table)
  BY <1>3, <1>4 DEF IsRun
<1>6. /\ \A i \in 1..n : signals[i].at \in 2..Len(table)
      /\ \A i, j \in 1..n : i < j => signals[i].at < signals[j].at
  BY DEF InOrderUpTo
<1> HIDE DEF n
<1> DEFINE S == {i \in 0..n : i = 0 \/ signals[i].at < Len(table) => g[i] = f[i]}
<1>7. 0 \in S
  BY <1>1, <1>5
<1>8. ASSUME NEW i \in 1..n, i - 1 \in S PROVE i \in S /\ g[i - 1] = f[i - 1]
  <2>1. i \in 0..n /\ i - 1 \in 0..n /\ i # 0
    BY <1>1
  <2>2. g[i - 1] = f[i - 1]
    <3>1. CASE i = 1
      BY <1>5, <3>1
    <3>2. CASE i # 1
      <4>1. i - 1 \in 1..n /\ i - 1 < i
        BY <1>1, <3>2
      <4>2. signals[i - 1].at < Len(table)
        BY <1>2, <1>6, <4>1
      <4> QED
        BY <1>8, <4>2
    <3> QED
      BY <3>1, <3>2
  <2>3. ASSUME signals[i].at < Len(table) PROVE g[i] = f[i]
    <3>1. Turn(rates, more, f[i - 1], signals[i]) = Turn(rates, table, f[i - 1], signals[i])
      BY <1>1, <1>5, <2>1, <2>3, TurnStays
    <3> QED
      BY <1>5, <2>2, <3>1
  <2> QED
    BY <2>1, <2>2, <2>3
<1> HIDE DEF S
<1>9. \A i \in 0..n : i \in S
  BY <1>1, <1>7, <1>8, Induction
<1>10. CASE n = 0
  <2>1. g[n] = f[n] /\ f[n] \in States(table)
    BY <1>1, <1>5, <1>10
  <2>2. f[n].results \in Seq(Trades(table))
    BY <2>1 DEF States
  <2> QED
    BY <1>3, <1>4, <2>1, <2>2, PrefixOfMore
<1>11. CASE n # 0
  <2>1. n \in 1..n /\ n \in 0..n /\ n - 1 \in 0..n
    BY <1>1, <1>11
  <2>2. g[n - 1] = f[n - 1] /\ f[n - 1] \in States(table) /\ f[n] \in States(table)
    BY <1>5, <1>8, <1>9, <2>1
  <2>3. f[n].results \in Seq(Trades(table)) /\ f[n - 1].results \in Seq(Trades(table))
    BY <2>2 DEF States
  <2>4. CASE signals[n].at < Len(table)
    <3>1. g[n] = f[n]
      BY <1>9, <2>1, <2>4 DEF S
    <3> QED
      BY <1>3, <1>4, <2>3, <3>1, PrefixOfMore
  <2>5. CASE ~(signals[n].at < Len(table))
    <3>1. Execution(signals[n]) > Len(table)
      BY <1>2, <1>6, <2>1, <2>5 DEF Execution
    <3>2. f[n] = f[n - 1]
      BY <1>5, <2>1, <3>1 DEF Turn
    <3>3. g[n] = Turn(rates, more, f[n], signals[n])
      BY <1>5, <2>1, <2>2, <3>2
    <3>4. \/ g[n].results = f[n].results
          \/ \E t : g[n].results = Append(f[n].results, t)
      <4>1. \/ g[n] = f[n]
            \/ g[n].results = f[n].results
            \/ g[n].results = Append(f[n].results, Completed(rates, more, f[n].position, signals[n]))
        BY <3>3 DEF Turn
      <4> QED
        BY <4>1
    <3> QED
      BY <1>3, <1>4, <2>3, <3>4, PrefixOfMore
  <2> QED
    BY <2>4, <2>5
<1> QED
  BY <1>10, <1>11

(* A candle more never changes or removes a trade of the backtest.         *)
LEMMA ReportGrows ==
  ASSUME NEW rates \in CostModels, NEW before \in Seq(Shapes), NEW candle \in Shapes,
         NEW table, table = Append(before, candle)
  PROVE  IsPrefix(ExecuteBacktest(rates, before).results, ExecuteBacktest(rates, table).results)
<1> DEFINE n == Len(before)
           colors == PrepareCandles(before)
           more == PrepareCandles(table)
           history == HistoricalReversals(colors)
           longer == HistoricalReversals(more)
<1>1. n \in Nat /\ table \in Seq(Shapes) /\ Len(table) = n + 1
  BY Longer
<1>2. Len(colors) = n /\ Len(more) = n + 1 /\ \A i \in 1..n : more[i] = colors[i]
  BY <1>1, ColorsStay
<1>3. /\ ExecuteBacktest(rates, before) = RunSignalAnalysis(rates, before, history)
      /\ ExecuteBacktest(rates, table) = RunSignalAnalysis(rates, table, longer)
  BY DEF ExecuteBacktest
<1> HIDE DEF colors, more
<1>4. history \in Seq(Signals) /\ HistoryUpTo(colors, history, n)
  BY <1>1, <1>2, HistoryInOrder
<1>5. longer = Noted(more, history, n + 1)
  BY <1>1, <1>2, HistoryGrows
<1> HIDE DEF history, longer, n
<1>6. InOrderUpTo(history, n)
  BY <1>4 DEF HistoryUpTo
<1>7. IsPrefix(RunSignalAnalysis(rates, before, history).results, RunSignalAnalysis(rates, table, history).results)
  BY <1>4, <1>6, RunGrows DEF n
<1>8. CASE longer = history
  BY <1>3, <1>7, <1>8
<1>9. CASE longer # history
  <2> DEFINE signal == [at |-> n + 1, side |-> Reversal(more[(n + 1) - 1], more[n + 1])]
  <2>1. n + 1 >= 2
    <3> SUFFICES ASSUME n = 0 PROVE longer = history
      BY <1>1, <1>9
    <3>1. longer = <<>>
      BY <1>5 DEF Noted
    <3>2. Len(history) \in Nat
      BY <1>4, LenProperties
    <3>3. \A k \in 1..Len(history) : history[k].at \in 2..0
      BY <1>6 DEF InOrderUpTo
    <3>4. Len(history) = 0
      <4>1. Len(history) # 0 => 1 \in 1..Len(history)
        BY <3>2
      <4>2. \A k \in 1..Len(history) : FALSE
        BY <3>3
      <4> QED
        BY <4>1, <4>2
    <3> QED
      BY <1>4, <3>1, <3>4, EmptySeq
  <2>2. longer = Append(history, signal) /\ signal \in Signals /\ signal.at = n + 1
    BY <1>1, <1>5, <1>9, <2>1 DEF Noted, Signals, Reversal
  <2> HIDE DEF signal
  <2>3. RunSignalAnalysis(rates, table, longer) = Turn(rates, table, RunSignalAnalysis(rates, table, history), signal)
    BY <1>1, <1>4, <2>2, RunAppended
  <2>4. Execution(signal) > Len(table)
    BY <1>1, <2>2 DEF Execution
  <2>5. RunSignalAnalysis(rates, table, longer) = RunSignalAnalysis(rates, table, history)
    BY <2>3, <2>4 DEF Turn
  <2> QED
    BY <1>3, <1>7, <2>5
<1> QED
  BY <1>8, <1>9

(* A table has one colour per candle.                                      *)
LEMMA ColorsLength ==
  ASSUME NEW table, Len(table) \in Nat
  PROVE  Len(PrepareCandles(table)) = Len(table)
<1> DEFINE n == Len(table)
           f == [i \in 1..n |-> SqzmomColor(Sqzmom(AddHeikinAshi(table)), i)]
<1>1. PrepareCandles(table) = Rows(f)
  BY DEF PrepareCandles
<1>2. f = [i \in 1..n |-> f[i]] /\ n \in Nat
  OBVIOUS
<1> HIDE DEF f, n
<1>3. Len(Rows(f)) = n
  <2>1. Rows(f) = f /\ Len(f) = n
    BY <1>2, TableSame
  <2> QED
    BY <2>1
<1> QED
  BY <1>1, <1>3 DEF n

(* A table without candles has no colours, no signals and no trades.       *)
LEMMA EmptyTable ==
  ASSUME NEW rates \in CostModels
  PROVE  Len(PrepareCandles(<<>>)) = 0 /\ ExecuteBacktest(rates, <<>>) = NoReport
<1> DEFINE colors == PrepareCandles(<<>>)
           history == HistoricalReversals(colors)
<1>1. Len(colors) = 0
  <2>1. Len(<<>>) = 0 /\ Len(<<>>) \in Nat
    OBVIOUS
  <2> QED
    BY <2>1, ColorsLength
<1> HIDE DEF colors
<1>2. history = <<>>
  <2>1. Len(colors) \in Nat
    BY <1>1
  <2>2. PICK h : IsHistory(colors, h) /\ history = h[Len(colors)]
    BY <2>1, HistoryFacts
  <2> QED
    BY <1>1, <2>2 DEF IsHistory
<1> HIDE DEF history
<1>3. <<>> \in Seq(Signals) /\ <<>> \in Seq(Shapes) /\ Len(<<>>) = 0
  BY EmptySeq
<1>4. RunSignalAnalysis(rates, <<>>, <<>>) = NoReport
  <2>1. PICK f : IsRun(rates, <<>>, <<>>, f) /\ RunSignalAnalysis(rates, <<>>, <<>>) = f[Len(<<>>)]
    BY <1>3, RunFacts
  <2> QED
    BY <1>3, <2>1 DEF IsRun
<1> QED
  BY <1>1, <1>2, <1>4 DEF ExecuteBacktest, colors, history

-----------------------------------------------------------------------------
(* The inductive invariant: the live signals are those of the rows of the  *)
(* whole table, and the report is what the backtest makes of it.           *)
SignalInv ==
  /\ costs \in CostModels
  /\ candles \in Seq(Shapes) /\ Len(candles) <= MaxCandles
  /\ live \in Seq(Sides \cup {"NONE"}) /\ Len(live) = Len(candles)
  /\ \A i \in 1..Len(candles) : live[i] = SignalAt(PrepareCandles(candles), i)
  /\ report = ExecuteBacktest(costs, candles)

(* Every step keeps the invariant: the rows of the table before it keep    *)
(* their colours, so the signals emitted live are still those of the rows. *)
LEMMA CandleClosesInv ==
  ASSUME SignalInv, CandleCloses
  PROVE  SignalInv' /\ IsPrefix(report.results, report'.results)
<1> DEFINE n == Len(candles)
           SignalOf(c) == Append(live, GenerateSignal(PrepareCandles(c)))
<1>1. PICK candle \in Shapes :
        /\ candles' = Append(candles, candle)
        /\ live' = SignalOf(candles')
        /\ report' = ExecuteBacktest(costs, candles')
  BY DEF CandleCloses
<1>2. costs \in CostModels /\ costs' = costs /\ n < MaxCandles /\ candles \in Seq(Shapes)
  BY DEF CandleCloses, SignalInv
<1>3. n \in Nat /\ candles' \in Seq(Shapes) /\ Len(candles') = n + 1
  BY <1>1, <1>2, Longer
<1>4. /\ Len(PrepareCandles(candles)) = n /\ Len(PrepareCandles(candles')) = n + 1
      /\ \A i \in 1..n : PrepareCandles(candles')[i] = PrepareCandles(candles)[i]
  BY <1>1, <1>2, <1>3, ColorsStay
<1> DEFINE signal == GenerateSignal(PrepareCandles(candles'))
<1>5. signal \in Sides \cup {"NONE"} /\ signal = SignalAt(PrepareCandles(candles'), n + 1)
  BY <1>3, <1>4 DEF GenerateSignal, SignalAt, Reversal, Sides
<1> HIDE DEF signal
<1>6. /\ live \in Seq(Sides \cup {"NONE"}) /\ Len(live) = n
      /\ \A i \in 1..n : live[i] = SignalAt(PrepareCandles(candles), i)
      /\ live' = Append(live, signal)
  BY <1>1 DEF SignalInv, signal
<1>7. /\ live' \in Seq(Sides \cup {"NONE"}) /\ Len(live') = n + 1 /\ live'[n + 1] = signal
      /\ \A i \in 1..n : live'[i] = live[i]
  BY <1>5, <1>6, AppendProperties, LenProperties
<1>8. \A i \in 1..n : SignalAt(PrepareCandles(candles'), i) = SignalAt(PrepareCandles(candles), i)
  BY <1>3, <1>4 DEF SignalAt
<1>9. \A i \in 1..(n + 1) : live'[i] = SignalAt(PrepareCandles(candles'), i)
  <2>1. \A i \in 1..(n + 1) : i \in 1..n \/ i = n + 1
    BY <1>3
  <2> QED
    BY <1>5, <1>6, <1>7, <1>8, <2>1
<1>10. IsPrefix(report.results, report'.results)
  <2>1. report = ExecuteBacktest(costs, candles)
    BY DEF SignalInv
  <2> QED
    BY <1>1, <1>2, <2>1, ReportGrows
<1>11. n + 1 <= MaxCandles
  BY <1>2, <1>3, LengthAssumption
<1> QED
  BY <1>1, <1>2, <1>3, <1>7, <1>9, <1>10, <1>11 DEF SignalInv

(* The initial states satisfy the invariant.                               *)
LEMMA SignalInitInv ==
  ASSUME SignalInit
  PROVE  SignalInv
<1>1. costs \in CostModels /\ candles = <<>> /\ live = <<>> /\ report = NoReport
  BY DEF SignalInit
<1>2. candles \in Seq(Shapes) /\ Len(candles) = 0 /\ live \in Seq(Sides \cup {"NONE"}) /\ Len(live) = 0
  BY <1>1, EmptySeq
<1>3. report = ExecuteBacktest(costs, candles)
  BY <1>1, EmptyTable
<1>4. Len(candles) <= MaxCandles
  BY <1>2, LengthAssumption
<1> QED
  BY <1>1, <1>2, <1>3, <1>4 DEF SignalInv

(* The invariant of the signal backtest, for every strategy length, table  *)
(* and cost model.                                                         *)
THEOREM SignalInvariant == SignalSpec => []SignalInv
<1>1. SignalInit => SignalInv
  BY SignalInitInv
<1>2. SignalInv /\ [SignalNext]_signal_vars => SignalInv'
  <2>1. CASE SignalNext
    BY <2>1, CandleClosesInv DEF SignalNext
  <2>2. ASSUME SignalInv, UNCHANGED signal_vars PROVE SignalInv'
    BY <2>2 DEF SignalInv, signal_vars
  <2> QED
    BY <2>1, <2>2
<1> QED
  BY <1>1, <1>2, PTL DEF SignalSpec

(* No signal is repainted: the history of the whole table is what was      *)
(* emitted live, candle by candle (calculate_sqzmom_color and              *)
(* detect_historical_reversals against generate_signal).                   *)
THEOREM HistoryIsNotRepainted == SignalSpec => []HistoryAgreesWithLive
<1>1. ASSUME SignalInv PROVE HistoryAgreesWithLive
  <2> DEFINE n == Len(candles)
             colors == PrepareCandles(candles)
             history == HistoricalReversals(colors)
             Emitted == {j \in DOMAIN live : live[j] # "NONE"}
  <2>1. /\ candles \in Seq(Shapes) /\ live \in Seq(Sides \cup {"NONE"}) /\ Len(live) = n
        /\ \A i \in 1..n : live[i] = SignalAt(colors, i)
    BY <1>1 DEF SignalInv
  <2>2. n \in Nat /\ DOMAIN live = 1..n
    BY <2>1, LenProperties
  <2>3. Len(colors) = n
    BY <2>2, ColorsLength
  <2> HIDE DEF colors
  <2>4. history \in Seq(Signals) /\ HistoryUpTo(colors, history, n)
    BY <2>2, <2>3, HistoryInOrder
  <2> HIDE DEF history
  <2>5. DOMAIN history = 1..Len(history)
    BY <2>4, LenProperties
  <2>6. Range(history) = {history[k] : k \in 1..Len(history)}
    BY <2>5 DEF Range
  <2>7. {history[k] : k \in 1..Len(history)} = RowsWithSignal(colors, n) /\ InOrderUpTo(history, n)
    BY <2>4 DEF HistoryUpTo
  <2>8. RowsWithSignal(colors, n) = {[at |-> i, side |-> live[i]] : i \in Emitted}
    <3>1. Emitted = {j \in 1..n : SignalAt(colors, j) # "NONE"}
      BY <2>1, <2>2
    <3>2. \A i \in Emitted : live[i] = SignalAt(colors, i)
      BY <2>1, <2>2
    <3> HIDE DEF Emitted
    <3> QED
      BY <3>1, <3>2 DEF RowsWithSignal
  <2>9. \A i, j \in DOMAIN history : i < j => history[i].at < history[j].at
    BY <2>5, <2>7 DEF InOrderUpTo
  <2> QED
    BY <2>6, <2>7, <2>8, <2>9 DEF HistoryAgreesWithLive, colors, history
<1> QED
  BY <1>1, SignalInvariant, PTL

(* The report is always a sound state of the analysis.                     *)
LEMMA ReportAnalysed ==
  ASSUME SignalInv
  PROVE  \E last \in Nat : Analysed(costs, candles, report, last)
<1> DEFINE colors == PrepareCandles(candles)
           history == HistoricalReversals(colors)
<1>1. /\ costs \in CostModels /\ candles \in Seq(Shapes)
      /\ report = RunSignalAnalysis(costs, candles, history)
  BY DEF SignalInv, ExecuteBacktest
<1>2. Len(candles) \in Nat
  BY <1>1, LenProperties
<1>3. Len(colors) \in Nat
  BY <1>2, ColorsLength
<1> HIDE DEF colors
<1>4. history \in Seq(Signals) /\ InOrderUpTo(history, Len(colors))
  BY <1>3, HistoryInOrder DEF HistoryUpTo
<1> HIDE DEF history
<1> QED
  BY <1>1, <1>3, <1>4, AnalysisHolds

(* Trades alternate and tile the time from the first entry, each beginning *)
(* where the one before it ended (run_signal_analysis).                    *)
THEOREM TradesAlwaysTile == SignalSpec => []TradesTile
<1>1. ASSUME SignalInv PROVE TradesTile
  BY <1>1, ReportAnalysed DEF Analysed, TradesTile
<1> QED
  BY <1>1, SignalInvariant, PTL

(* Commission, slippage and funding never make a trade better than the     *)
(* market prices did (apply_slippage and the net result).                  *)
THEOREM CostsNeverHelp == SignalSpec => []CostsOnlyHurt
<1>1. ASSUME SignalInv PROVE CostsOnlyHurt
  <2>1. PICK last \in Nat : Analysed(costs, candles, report, last)
    BY <1>1, ReportAnalysed
  <2>2. /\ report.results \in Seq(Trades(candles))
        /\ \A i \in 1..Len(report.results) : Paid(report.results[i])
    BY <2>1 DEF Analysed, States
  <2>3. DOMAIN report.results = 1..Len(report.results)
    BY <2>2, LenProperties
  <2> QED
    BY <2>2, <2>3 DEF CostsOnlyHurt, Range, Paid
<1> QED
  BY <1>1, SignalInvariant, PTL

(* A completed trade is final: later candles only add trades.              *)
THEOREM TradesAreFinal == SignalSpec => ClosedTradesAreFinal
<1>1. SignalInv /\ [SignalNext]_signal_vars => [IsPrefix(report.results, report'.results)]_signal_vars
  BY CandleClosesInv DEF SignalNext
<1> QED
  BY <1>1, SignalInvariant, PTL DEF SignalSpec, ClosedTradesAreFinal

-----------------------------------------------------------------------------
(* Counting by month.                                                      *)

(* A sum over 0..hi, term by term.                                         *)
LEMMA SumFacts ==
  ASSUME NEW hi \in Nat, NEW f, \A m \in 0..hi : f[m] \in Int
  PROVE  \E s : /\ \A m \in 0..(hi + 1) : s[m] \in Int
                /\ s[0] = 0 /\ \A m \in 1..(hi + 1) : s[m] = s[m - 1] + f[m - 1]
                /\ SumOver(0, hi, f) = s[hi + 1]
<1> DEFINE IsTable(h) == h = [i \in (0 - 1)..hi |-> IF i < 0 THEN 0 ELSE h[i - 1] + f[i]]
           sum == CHOOSE h : IsTable(h)
<1>1. SumOver(0, hi, f) = sum[hi]
  BY DEF SumOver
<1>2. \E h : IsTable(h)
  <2> DEFINE step == [m \in 1..(hi + 1) |-> [v \in Int |-> v + f[m - 1]]]
  <2>1. \A m \in 1..(hi + 1) : m - 1 \in 0..hi
    OBVIOUS
  <2>2. step \in [1..(hi + 1) -> [Int -> Int]]
    BY <2>1
  <2>3. IsLoop(hi + 1, Int, 0, step)
    BY <2>2 DEF IsLoop
  <2>4. \A m \in 1..(hi + 1) : \A v \in Int : step[m][v] = v + f[m - 1]
    OBVIOUS
  <2> HIDE DEF step
  <2>5. PICK g \in [0..(hi + 1) -> Int] : g[0] = 0 /\ \A m \in 1..(hi + 1) : g[m] = step[m][g[m - 1]]
    <3> DEFINE n == hi + 1
    <3>1. IsLoop(n, Int, 0, step)
      BY <2>3
    <3> HIDE DEF n
    <3>2. \E g \in [0..n -> Int] : g[0] = 0 /\ \A m \in 1..n : g[m] = step[m][g[m - 1]]
      BY <3>1, Recursion
    <3> QED
      BY <3>2 DEF n
  <2> DEFINE h == [i \in (0 - 1)..hi |-> g[i + 1]]
  <2>6. \A i \in (0 - 1)..hi : h[i] = IF i < 0 THEN 0 ELSE h[i - 1] + f[i]
    <3>1. ASSUME NEW i \in 0..hi PROVE h[i] = h[i - 1] + f[i]
      <4>1. i + 1 \in 1..(hi + 1) /\ (i + 1) - 1 = i /\ i \in 0..(hi + 1)
        OBVIOUS
      <4>2. g[i + 1] = step[i + 1][g[i]] /\ g[i] \in Int
        BY <2>5, <4>1
      <4>3. g[i + 1] = g[i] + f[i]
        BY <2>4, <4>1, <4>2
      <4>4. h[i] = g[i + 1] /\ h[i - 1] = g[i]
        OBVIOUS
      <4> QED
        BY <4>3, <4>4
    <3>2. ASSUME NEW i \in (0 - 1)..hi, i < 0 PROVE h[i] = 0
      <4>1. i = 0 - 1 /\ i + 1 = 0
        BY <3>2
      <4> QED
        BY <2>5, <4>1
    <3>3. \A i \in (0 - 1)..hi : i < 0 \/ i \in 0..hi
      OBVIOUS
    <3> HIDE DEF h
    <3>4. \A i \in 0..hi : ~(i < 0)
      OBVIOUS
    <3> QED
      BY <3>1, <3>2, <3>3, <3>4
  <2>7. h = [i \in (0 - 1)..hi |-> h[i]]
    OBVIOUS
  <2> HIDE DEF h
  <2>8. IsTable(h)
    BY <2>6, <2>7
  <2> QED
    BY <2>8
<1>3. IsTable(sum)
  BY <1>2
<1> HIDE DEF sum
<1>4. /\ \A i \in 0..hi : sum[i] = sum[i - 1] + f[i]
      /\ sum[0 - 1] = 0
  <2>1. \A i \in (0 - 1)..hi : sum[i] = IF i < 0 THEN 0 ELSE sum[i - 1] + f[i]
    BY <1>3
  <2>2. \A i \in 0..hi : i \in (0 - 1)..hi /\ ~(i < 0)
    OBVIOUS
  <2>3. 0 - 1 \in (0 - 1)..hi /\ 0 - 1 < 0
    OBVIOUS
  <2> QED
    BY <2>1, <2>2, <2>3
<1> DEFINE s == [m \in 0..(hi + 1) |-> sum[m - 1]]
<1>5. s[0] = 0 /\ s[hi + 1] = sum[hi]
  BY <1>4
<1>6. \A m \in 1..(hi + 1) : s[m] = s[m - 1] + f[m - 1]
  <2>1. \A m \in 1..(hi + 1) : m - 1 \in 0..hi /\ m \in 0..(hi + 1) /\ m - 1 \in 0..(hi + 1)
    OBVIOUS
  <2> QED
    BY <1>4, <2>1
<1> HIDE DEF s
<1> DEFINE S == {m \in 0..(hi + 1) : s[m] \in Int}
<1>7. 0 \in S
  BY <1>5
<1>8. ASSUME NEW m \in 1..(hi + 1), m - 1 \in S PROVE m \in S
  <2>1. m - 1 \in 0..hi /\ m \in 0..(hi + 1)
    OBVIOUS
  <2> QED
    BY <1>6, <1>8, <2>1
<1> HIDE DEF S
<1>9. \A m \in 0..(hi + 1) : m \in S
  BY <1>7, <1>8, Induction
<1> QED
  BY <1>1, <1>5, <1>6, <1>9 DEF S

(* A finite set in classes 0..hi, and how many each class has.             *)
Classified(hi, Q, class, f) ==
  /\ hi \in Nat /\ IsFiniteSet(Q)
  /\ \A q \in Q : class[q] \in 0..hi
  /\ \A m \in 0..hi : f[m] = Cardinality({q \in Q : class[q] = m})

(* Counting class by class is counting.                                    *)
LEMMA SumOfClasses ==
  ASSUME NEW hi, NEW Q, NEW class, NEW f, Classified(hi, Q, class, f)
  PROVE  SumOver(0, hi, f) = Cardinality(Q)
<1>0. /\ hi \in Nat /\ IsFiniteSet(Q)
      /\ \A q \in Q : class[q] \in 0..hi
      /\ \A m \in 0..hi : f[m] = Cardinality({q \in Q : class[q] = m})
  BY DEF Classified
<1> DEFINE Class(m) == {q \in Q : class[q] = m}
           Below(m) == {q \in Q : class[q] < m}
<1>1. \A m : IsFiniteSet(Class(m)) /\ Cardinality(Class(m)) \in Nat
  <2> TAKE m
  <2>1. Class(m) \in SUBSET Q
    OBVIOUS
  <2> HIDE DEF Class
  <2>2. IsFiniteSet(Class(m))
    BY <1>0, <2>1, FS_Subset
  <2> QED
    BY <2>2, FS_CardinalityType
<1>2. \A m : IsFiniteSet(Below(m)) /\ Cardinality(Below(m)) \in Nat
  <2> TAKE m
  <2>1. Below(m) \in SUBSET Q
    OBVIOUS
  <2> HIDE DEF Below
  <2>2. IsFiniteSet(Below(m))
    BY <1>0, <2>1, FS_Subset
  <2> QED
    BY <2>2, FS_CardinalityType
<1>3. \A m \in 0..hi : f[m] \in Int
  <2>1. \A m \in 0..hi : f[m] = Cardinality(Class(m))
    BY <1>0
  <2> HIDE DEF Class
  <2> QED
    BY <1>1, <2>1
<1>4. PICK s : /\ s[0] = 0 /\ \A m \in 1..(hi + 1) : s[m] = s[m - 1] + f[m - 1]
               /\ SumOver(0, hi, f) = s[hi + 1]
  BY <1>0, <1>3, SumFacts
<1> DEFINE S == {m \in 0..(hi + 1) : s[m] = Cardinality(Below(m))}
<1>5. 0 \in S
  <2>1. Below(0) = {} /\ 0 \in 0..(hi + 1)
    BY <1>0
  <2> QED
    BY <1>4, <2>1, FS_EmptySet
<1>6. ASSUME NEW m \in 1..(hi + 1), m - 1 \in S PROVE m \in S
  <2>1. m - 1 \in 0..hi /\ m \in 0..(hi + 1)
    BY <1>0
  <2>2. Below(m) = Below(m - 1) \cup Class(m - 1) /\ Below(m - 1) \cap Class(m - 1) = {}
    BY <1>0, <2>1
  <2>3. s[m - 1] = Cardinality(Below(m - 1))
    BY <1>6
  <2>4. f[m - 1] = Cardinality(Class(m - 1))
    BY <1>0, <2>1
  <2> HIDE DEF Below, Class
  <2>5. Cardinality(Below(m)) = Cardinality(Below(m - 1)) + Cardinality(Class(m - 1)) - Cardinality({})
    BY <1>1, <1>2, <2>2, FS_Union
  <2>6. Cardinality(Below(m)) = Cardinality(Below(m - 1)) + Cardinality(Class(m - 1))
    BY <1>1, <1>2, <2>5, FS_EmptySet
  <2> QED
    BY <1>4, <2>1, <2>3, <2>4, <2>6
<1> HIDE DEF S
<1>7. \A m \in 0..(hi + 1) : m \in S
  <2> DEFINE n == hi + 1
  <2>1. n \in Nat /\ \A m \in 1..n : m - 1 \in S => m \in S
    BY <1>0, <1>6
  <2> HIDE DEF n
  <2>2. \A m \in 0..n : m \in S
    BY <1>5, <2>1, Induction
  <2> QED
    BY <2>2 DEF n
<1>8. hi + 1 \in S
  BY <1>0, <1>7
<1>9. Below(hi + 1) = Q
  BY <1>0
<1> QED
  BY <1>4, <1>8, <1>9 DEF S

(* A column of the monthly statistics counts the trades in Q.               *)
IsColumn(results, Q, field) ==
  /\ Q \subseteq 1..Len(results)
  /\ \A month \in DOMAIN MonthlyStatistics(results) :
       MonthlyStatistics(results)[month][field] = Cardinality({i \in Q : InMonth(results[i], month)})

(* A month that no trade ended in has no row in the monthly statistics and *)
(* counts nothing; so a column of the monthly statistics adds up.          *)
LEMMA ColumnAddsUp ==
  ASSUME NEW table, NEW results \in Seq(Trades(table)),
         \A i \in 1..Len(results) : results[i].exit <= MaxCandles,
         NEW Q, NEW field, IsColumn(results, Q, field)
  PROVE  SumOfMonths(MonthlyStatistics(results), field) = Cardinality(Q)
<1> DEFINE monthly == MonthlyStatistics(results)
           n == Len(results)
           class == [i \in 1..n |-> results[i].exit \div MonthLength]
           f == [m \in 0..MaxCandles |-> IF m \in DOMAIN monthly THEN monthly[m][field] ELSE 0]
<1>0. /\ Q \subseteq 1..n
      /\ \A month \in DOMAIN monthly :
           monthly[month][field] = Cardinality({i \in Q : InMonth(results[i], month)})
  BY DEF IsColumn
<1>1. n \in Nat /\ DOMAIN results = 1..n /\ \A i \in 1..n : results[i] \in Trades(table)
  BY LenProperties, ElementOfSeq
<1>2. DOMAIN monthly = {class[i] : i \in 1..n}
  <2>1. Range(results) = {results[i] : i \in 1..n}
    BY <1>1 DEF Range
  <2>2. DOMAIN monthly = {t.exit \div MonthLength : t \in Range(results)}
    BY DEF MonthlyStatistics
  <2> HIDE DEF monthly
  <2> QED
    BY <2>1, <2>2
<1>3. \A i \in 1..n : \A m : InMonth(results[i], m) <=> class[i] = m
  BY DEF InMonth
<1>4. SumOfMonths(monthly, field) = SumOver(0, MaxCandles, f)
  BY DEF SumOfMonths
<1>5. MaxCandles \in Nat /\ MonthLength \in Nat \ {0}
  BY LengthAssumption, BacktestAssumption
<1>6. IsFiniteSet(Q)
  <2>1. IsFiniteSet(1..n)
    BY <1>1, FS_Interval
  <2> QED
    BY <1>0, <2>1, FS_Subset
<1>7. \A i \in 1..n : class[i] \in 0..MaxCandles
  <2> SUFFICES ASSUME NEW i \in 1..n PROVE results[i].exit \div MonthLength \in 0..MaxCandles
    OBVIOUS
  <2> DEFINE exit == results[i].exit
  <2>1. exit \in Nat /\ exit <= MaxCandles
    BY <1>1 DEF Trades
  <2> HIDE DEF exit
  <2>2. exit \div MonthLength \in 0..exit
    BY <1>5, <2>1
  <2>3. exit \div MonthLength \in 0..MaxCandles
    BY <1>5, <2>1, <2>2
  <2> QED
    BY <2>3 DEF exit
<1> HIDE DEF class
<1>8. ASSUME NEW m \in 0..MaxCandles PROVE f[m] = Cardinality({q \in Q : class[q] = m})
  <2>1. {q \in Q : InMonth(results[q], m)} = {q \in Q : class[q] = m}
    BY <1>0, <1>3
  <2>2. CASE m \in DOMAIN monthly
    <3>1. f[m] = monthly[m][field]
      BY <2>2
    <3>2. f[m] = Cardinality({q \in Q : InMonth(results[q], m)})
      BY <1>0, <2>2, <3>1
    <3> QED
      BY <2>1, <3>2
  <2>3. CASE m \notin DOMAIN monthly
    <3>1. {q \in Q : class[q] = m} = {}
      BY <1>0, <1>2, <2>3
    <3> QED
      BY <2>3, <3>1, FS_EmptySet
  <2> QED
    BY <2>2, <2>3
<1> HIDE DEF f, monthly, n
<1>9. \A q \in Q : class[q] \in 0..MaxCandles
  BY <1>0, <1>7 DEF n
<1>10. SumOver(0, MaxCandles, f) = Cardinality(Q)
  <2>1. Classified(MaxCandles, Q, class, f)
    BY <1>5, <1>6, <1>8, <1>9 DEF Classified
  <2> QED
    BY <2>1, SumOfClasses
<1> QED
  BY <1>4, <1>10 DEF monthly

(* Two parts of a finite set that share nothing.                           *)
SplitInto(A, B, C) == IsFiniteSet(A) /\ A = B \cup C /\ B \cap C = {}

(* What is counted apart adds up.                                          *)
LEMMA Parts ==
  ASSUME NEW A, NEW B, NEW C, SplitInto(A, B, C)
  PROVE  /\ Cardinality(A) = Cardinality(B) + Cardinality(C)
         /\ Cardinality(A) \in Nat /\ Cardinality(B) \in Nat /\ Cardinality(C) \in Nat
<1>0. IsFiniteSet(A) /\ A = B \cup C /\ B \cap C = {}
  BY DEF SplitInto
<1>1. IsFiniteSet(B) /\ IsFiniteSet(C)
  BY <1>0, FS_Subset
<1>2. Cardinality(A) \in Nat /\ Cardinality(B) \in Nat /\ Cardinality(C) \in Nat
  BY <1>0, <1>1, FS_CardinalityType
<1>3. Cardinality(A) = Cardinality(B) + Cardinality(C) - 0
  BY <1>0, <1>1, FS_Union, FS_EmptySet
<1> QED
  BY <1>2, <1>3

(* Whatever the trades, the two statistics count the same ones.            *)
LEMMA Reconciles ==
  ASSUME NEW table, NEW results \in Seq(Trades(table)),
         \A i \in 1..Len(results) : results[i].exit <= MaxCandles,
         NEW overall, overall = BacktestStatistics(results),
         NEW monthly, monthly = MonthlyStatistics(results)
  PROVE  /\ overall.wins = SumOfMonths(monthly, "wins")
         /\ overall.losses = SumOfMonths(monthly, "losses")
         /\ Len(results) = SumOfMonths(monthly, "trades")
         /\ overall.total = Len(results) - SumOfMonths(monthly, "breakeven")
         /\ overall.long.trades + overall.short.trades = overall.total
         /\ overall.long.wins + overall.short.wins = overall.wins
<1> DEFINE D == 1..Len(results)
           Of(r) == {i \in D : results[i].result = r}
           decided == WinsAndLosses(results)
           Side(s) == {i \in decided : results[i].side = s}
           WinsOf(s) == {i \in decided : results[i].side = s /\ results[i].result = "WIN"}
           wins == {i \in decided : results[i].result = "WIN"}
           losses == {i \in decided : results[i].result = "LOSS"}
<1>1. /\ Len(results) \in Nat /\ DOMAIN results = D
      /\ \A i \in D : results[i].side \in Sides /\ results[i].result \in {"WIN", "LOSS", "BREAKEVEN"}
  <2>1. Len(results) \in Nat /\ DOMAIN results = D /\ \A i \in D : results[i] \in Trades(table)
    BY LenProperties, ElementOfSeq
  <2> QED
    BY <2>1 DEF Trades
<1>2. IsFiniteSet(D) /\ Cardinality(D) = Len(results)
  <2> DEFINE n == Len(results)
  <2>1. n \in Nat /\ n \in Int /\ 1 \in Int
    BY <1>1
  <2> HIDE DEF n
  <2>2. IsFiniteSet(1..n) /\ Cardinality(1..n) = IF 1 > n THEN 0 ELSE (n - 1) + 1
    BY <2>1, FS_Interval
  <2>3. IsFiniteSet(1..n) /\ Cardinality(1..n) = n
    BY <2>1, <2>2
  <2> QED
    BY <2>3 DEF n
<1>3. ASSUME NEW month \in DOMAIN monthly
      PROVE  /\ monthly[month]["trades"] = Cardinality({i \in D : InMonth(results[i], month)})
             /\ monthly[month]["wins"] = Cardinality({i \in Of("WIN") : InMonth(results[i], month)})
             /\ monthly[month]["losses"] = Cardinality({i \in Of("LOSS") : InMonth(results[i], month)})
             /\ monthly[month]["breakeven"] = Cardinality({i \in Of("BREAKEVEN") : InMonth(results[i], month)})
  <2>1. monthly[month] =
          [trades |-> Cardinality({i \in D : InMonth(results[i], month)}),
           wins |-> Cardinality({i \in D : InMonth(results[i], month) /\ results[i].result = "WIN"}),
           losses |-> Cardinality({i \in D : InMonth(results[i], month) /\ results[i].result = "LOSS"}),
           breakeven |-> Cardinality({i \in D : InMonth(results[i], month) /\ results[i].result = "BREAKEVEN"})]
    BY <1>1 DEF MonthlyStatistics, Count
  <2>2. /\ monthly[month]["trades"] = Cardinality({i \in D : InMonth(results[i], month)})
        /\ monthly[month]["wins"] = Cardinality({i \in D : InMonth(results[i], month) /\ results[i].result = "WIN"})
        /\ monthly[month]["losses"] = Cardinality({i \in D : InMonth(results[i], month) /\ results[i].result = "LOSS"})
        /\ monthly[month]["breakeven"]
             = Cardinality({i \in D : InMonth(results[i], month) /\ results[i].result = "BREAKEVEN"})
    BY <2>1
  <2>3. {i \in D : InMonth(results[i], month) /\ results[i].result = "WIN"}
          = {i \in Of("WIN") : InMonth(results[i], month)}
    OBVIOUS
  <2>4. {i \in D : InMonth(results[i], month) /\ results[i].result = "LOSS"}
          = {i \in Of("LOSS") : InMonth(results[i], month)}
    OBVIOUS
  <2>5. {i \in D : InMonth(results[i], month) /\ results[i].result = "BREAKEVEN"}
          = {i \in Of("BREAKEVEN") : InMonth(results[i], month)}
    OBVIOUS
  <2> HIDE DEF Of, D
  <2> QED
    BY <2>2, <2>3, <2>4, <2>5
<1>4. D \in SUBSET D /\ \A r : Of(r) \in SUBSET D
  OBVIOUS
<1>5. /\ SumOfMonths(monthly, "trades") = Cardinality(D)
      /\ SumOfMonths(monthly, "wins") = Cardinality(Of("WIN"))
      /\ SumOfMonths(monthly, "losses") = Cardinality(Of("LOSS"))
      /\ SumOfMonths(monthly, "breakeven") = Cardinality(Of("BREAKEVEN"))
  <2>1. /\ IsColumn(results, D, "trades") /\ IsColumn(results, Of("WIN"), "wins")
        /\ IsColumn(results, Of("LOSS"), "losses") /\ IsColumn(results, Of("BREAKEVEN"), "breakeven")
    <3> HIDE DEF Of
    <3> QED
      BY <1>3, <1>4 DEF IsColumn
  <2> HIDE DEF D, Of
  <2> QED
    BY <2>1, ColumnAddsUp
<1>6. /\ overall.total = Cardinality(decided)
      /\ overall.wins = Cardinality(wins) /\ overall.losses = Cardinality(losses)
      /\ overall.long.trades = Cardinality(Side("LONG")) /\ overall.short.trades = Cardinality(Side("SHORT"))
      /\ overall.long.wins = Cardinality(WinsOf("LONG")) /\ overall.short.wins = Cardinality(WinsOf("SHORT"))
  BY DEF BacktestStatistics, SideStatistics
<1>7. /\ wins = Of("WIN") /\ losses = Of("LOSS")
      /\ D = decided \cup Of("BREAKEVEN") /\ decided \cap Of("BREAKEVEN") = {}
      /\ decided = Side("LONG") \cup Side("SHORT") /\ Side("LONG") \cap Side("SHORT") = {}
      /\ wins = WinsOf("LONG") \cup WinsOf("SHORT") /\ WinsOf("LONG") \cap WinsOf("SHORT") = {}
      /\ decided \in SUBSET D /\ wins \in SUBSET D
  BY <1>1 DEF WinsAndLosses, Sides
<1> HIDE DEF D, Of, decided, Side, WinsOf, wins, losses
<1>8. /\ SplitInto(D, decided, Of("BREAKEVEN")) /\ SplitInto(decided, Side("LONG"), Side("SHORT"))
      /\ SplitInto(wins, WinsOf("LONG"), WinsOf("SHORT"))
  <2>1. IsFiniteSet(decided) /\ IsFiniteSet(wins)
    BY <1>2, <1>7, FS_Subset
  <2> QED
    BY <1>2, <1>7, <2>1 DEF SplitInto
<1>9. /\ Cardinality(D) = Cardinality(decided) + Cardinality(Of("BREAKEVEN"))
      /\ Cardinality(decided) \in Nat /\ Cardinality(Of("BREAKEVEN")) \in Nat
  BY <1>8, Parts
<1>10. Cardinality(decided) = Cardinality(Side("LONG")) + Cardinality(Side("SHORT"))
  BY <1>8, Parts
<1>11. Cardinality(wins) = Cardinality(WinsOf("LONG")) + Cardinality(WinsOf("SHORT"))
  BY <1>8, Parts
<1>12. Len(results) = SumOfMonths(monthly, "trades")
  BY <1>2, <1>5
<1>13. overall.total = Len(results) - SumOfMonths(monthly, "breakeven")
  BY <1>2, <1>5, <1>6, <1>9
<1>14. overall.long.trades + overall.short.trades = overall.total
  BY <1>6, <1>10
<1>15. overall.long.wins + overall.short.wins = overall.wins
  BY <1>6, <1>11
<1>16. overall.wins = SumOfMonths(monthly, "wins") /\ overall.losses = SumOfMonths(monthly, "losses")
  BY <1>5, <1>6, <1>7
<1> QED
  BY <1>12, <1>13, <1>14, <1>15, <1>16

(* The overall and the monthly statistics always count the same trades     *)
(* (calculate_backtest_statistics and calculate_monthly_statistics).       *)
THEOREM StatisticsAlwaysReconcile == SignalSpec => []StatisticsReconcile
<1>1. ASSUME SignalInv PROVE StatisticsReconcile
  <2> DEFINE results == report.results
  <2>1. PICK last \in Nat : Analysed(costs, candles, report, last)
    BY <1>1, ReportAnalysed
  <2>2. results \in Seq(Trades(candles)) /\ \A i \in 1..Len(results) : results[i].exit <= Len(candles)
    BY <2>1 DEF Analysed, States
  <2>3. Len(candles) \in Nat /\ Len(candles) <= MaxCandles /\ MaxCandles \in Nat
    BY <1>1, LenProperties, LengthAssumption DEF SignalInv
  <2>4. \A i \in 1..Len(results) : results[i].exit <= MaxCandles
    <3> HIDE DEF results
    <3>1. \A i \in 1..Len(results) : results[i] \in Trades(candles)
      BY <2>2, ElementOfSeq
    <3>2. \A i \in 1..Len(results) : results[i].exit \in Nat
      BY <3>1 DEF Trades
    <3> QED
      BY <2>2, <2>3, <3>2
  <2> HIDE DEF results
  <2> DEFINE overall == BacktestStatistics(results)
             monthly == MonthlyStatistics(results)
  <2>5. /\ overall.wins = SumOfMonths(monthly, "wins")
        /\ overall.losses = SumOfMonths(monthly, "losses")
        /\ Len(results) = SumOfMonths(monthly, "trades")
        /\ overall.total = Len(results) - SumOfMonths(monthly, "breakeven")
        /\ overall.long.trades + overall.short.trades = overall.total
        /\ overall.long.wins + overall.short.wins = overall.wins
    <3> HIDE DEF overall, monthly
    <3>1. overall = BacktestStatistics(results) /\ monthly = MonthlyStatistics(results)
      BY DEF overall, monthly
    <3> QED
      BY <2>2, <2>4, <3>1, Reconciles
  <2> QED
    BY <2>5 DEF StatisticsReconcile, results
<1> QED
  BY <1>1, SignalInvariant, PTL
=============================================================================
