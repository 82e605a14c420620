------------------------- MODULE PositionSizingProofs -------------------------
(***************************************************************************)
(* Proofs about the arithmetic of one position, for every price, filter,   *)
(* rate and multiple.                                                      *)
(***************************************************************************)
EXTENDS PositionSizing, TLAPS

-----------------------------------------------------------------------------
(* Arithmetic.                                                             *)

(* Division with a remainder.                                              *)
LEMMA DivMod ==
  ASSUME NEW a \in Int, NEW b \in Nat \ {0}
  PROVE  a = b * (a \div b) + (a % b) /\ a % b \in 0..(b-1) /\ a \div b \in Int
<1>1. a \div b \in Int
  OBVIOUS
<1>2. a % b \in 0..(b-1)
  OBVIOUS
<1>3. a = b * (a \div b) + (a % b)
  OBVIOUS
<1> QED
  BY <1>1, <1>2, <1>3

(* Comparing products with a common positive factor.                       *)
LEMMA Factor ==
  ASSUME NEW a \in Int, NEW b \in Int, NEW k \in Nat \ {0}
  PROVE  /\ a * k < b * k <=> a < b
         /\ a * k <= b * k <=> a <= b
<1>1. a < b => a * k < b * k
  OBVIOUS
<1>2. b < a => b * k < a * k
  OBVIOUS
<1>3. a = b => a * k = b * k
  OBVIOUS
<1>4. a * k \in Int /\ b * k \in Int
  OBVIOUS
<1> QED
  BY <1>1, <1>2, <1>3, <1>4

(* The product of positive numbers is positive.                            *)
LEMMA Products == \A a, b \in Nat \ {0} : a * b \in Nat \ {0}
OBVIOUS

(* Products of integers commute.                                           *)
LEMMA Times == \A a, b \in Int : a * b \in Int /\ a * b = b * a
OBVIOUS

(* Rounding down to a step loses less than one step.                       *)
LEMMA RoundsDown ==
  ASSUME NEW num \in Int, NEW den \in Nat \ {0}, NEW step \in Nat \ {0}
  PROVE  /\ RoundDown(num, den, step) \in Int
         /\ \E k \in Int : RoundDown(num, den, step) = step * k
         /\ RoundDown(num, den, step) * den <= num
         /\ num < (RoundDown(num, den, step) + step) * den
<1> DEFINE n == den * step
           q == num \div n
<1>1. n \in Nat \ {0}
  BY Products
<1>2. num = n * q + (num % n) /\ num % n \in 0..(n-1) /\ q \in Int
  <2> HIDE DEF n
  <2> QED
    BY <1>1, DivMod
<1>3. RoundDown(num, den, step) = step * q
  BY DEF RoundDown
<1> HIDE DEF q
<1>4. (step * q) * den = n * q /\ (step * q + step) * den = n * q + n /\ n * q \in Int
      /\ step * q \in Int
  BY <1>2
<1> HIDE DEF n
<1>5. n * q <= num /\ num < n * q + n
  BY <1>1, <1>2, <1>4
<1> QED
  BY <1>2, <1>3, <1>4, <1>5

(* Rounding up to a step adds less than one step.                          *)
LEMMA RoundsUp ==
  ASSUME NEW num \in Int, NEW den \in Nat \ {0}, NEW step \in Nat \ {0}
  PROVE  /\ RoundUp(num, den, step) \in Int
         /\ \E k \in Int : RoundUp(num, den, step) = step * k
         /\ num <= RoundUp(num, den, step) * den
         /\ (RoundUp(num, den, step) - step) * den < num
<1> DEFINE n == -num
           d == RoundDown(n, den, step)
<1>1. /\ d \in Int /\ d * den <= -num /\ -num < (d + step) * den
      /\ \E k \in Int : d = step * k
  <2>1. n \in Int
    OBVIOUS
  <2>2. d \in Int /\ d * den <= n /\ n < (d + step) * den /\ \E k \in Int : d = step * k
    <3> HIDE DEF n
    <3> QED
      BY <2>1, RoundsDown
  <2> QED
    BY <2>2
<1>2. RoundUp(num, den, step) = -d
  BY DEF RoundUp
<1> HIDE DEF d
<1>3. (-d) * den = -(d * den) /\ ((-d) - step) * den = -((d + step) * den)
      /\ d * den \in Int /\ (d + step) * den \in Int
  BY <1>1
<1>4. PICK k \in Int : d = step * k
  BY <1>1
<1>5. -d = step * (-k) /\ -k \in Int
  BY <1>4
<1> QED
  BY <1>1, <1>2, <1>3, <1>5

(* A multiple of the step below a number is not above the number rounded.  *)
LEMMA BelowStaysBelow ==
  ASSUME NEW num \in Int, NEW step \in Nat \ {0}, NEW k \in Int
  PROVE  /\ step * k <= num => step * k <= RoundDown(num, 1, step)
         /\ step * k >= num => step * k >= RoundUp(num, 1, step)
<1>1. ASSUME NEW r \in Int, NEW j \in Int, r = step * j, step * k < r + step
      PROVE  step * k <= r
  <2>1. step * k = k * step /\ r + step = (j + 1) * step /\ r = j * step
    BY <1>1
  <2>2. k < j + 1
    BY <1>1, <2>1, Factor
  <2>3. k <= j
    BY <2>2
  <2> QED
    BY <2>1, <2>3, Factor
<1>2. ASSUME NEW r \in Int, NEW j \in Int, r = step * j, r - step < step * k
      PROVE  r <= step * k
  <2>1. step * k = k * step /\ r - step = (j - 1) * step /\ r = j * step
    BY <1>2
  <2>2. j - 1 < k
    BY <1>2, <2>1, Factor
  <2>3. j <= k
    BY <2>2
  <2> QED
    BY <2>1, <2>3, Factor
<1>3. step * k \in Int
  BY Times
<1>4. ASSUME step * k <= num PROVE step * k <= RoundDown(num, 1, step)
  <2> DEFINE r == RoundDown(num, 1, step)
  <2>1. r \in Int /\ (\E j \in Int : r = step * j) /\ num < (r + step) * 1
    <3>1. 1 \in Nat \ {0}
      OBVIOUS
    <3> QED
      BY <3>1, RoundsDown
  <2> HIDE DEF r
  <2>2. step * k < r + step
    BY <1>3, <1>4, <2>1
  <2>3. step * k <= r
    BY <1>1, <2>1, <2>2
  <2> QED
    BY <2>3 DEF r
<1>5. ASSUME step * k >= num PROVE step * k >= RoundUp(num, 1, step)
  <2> DEFINE r == RoundUp(num, 1, step)
  <2>1. r \in Int /\ (\E j \in Int : r = step * j) /\ (r - step) * 1 < num
    <3>1. 1 \in Nat \ {0}
      OBVIOUS
    <3> QED
      BY <3>1, RoundsUp
  <2> HIDE DEF r
  <2>2. r - step < step * k
    BY <1>3, <1>5, <2>1
  <2>3. r <= step * k
    BY <1>2, <2>1, <2>2
  <2> QED
    BY <1>3, <2>1, <2>3 DEF r
<1> QED
  BY <1>4, <1>5

-----------------------------------------------------------------------------
(* The stop and the quantity of a plan.                                    *)

(* The constants are positive numbers.                                     *)
LEMMA Constants ==
  /\ Tick \in Nat \ {0} /\ Step \in Nat \ {0} /\ MaxNotional \in Nat \ {0}
  /\ RiskRate.num \in Nat \ {0} /\ RiskRate.den \in Nat \ {0}
  /\ AtrMultiple.num \in Nat \ {0} /\ AtrMultiple.den \in Nat \ {0}
  /\ BreakevenR.num \in Nat \ {0} /\ BreakevenR.den \in Nat \ {0}
  /\ \A p \in Prices \cup Atrs \cup Equities : p \in Nat \ {0}
BY SizingAssumption DEF Fractions

(* A stop rounded away from the price is on its losing side, farther away  *)
(* than the unrounded one by less than a tick.                             *)
LEMMA StopBelow ==
  ASSUME NEW from \in Int, NEW gap \in Nat \ {0}, NEW den \in Nat \ {0}, NEW tick \in Nat \ {0},
         NEW r \in Int, r * den <= from * den - gap, from * den - gap < (r + tick) * den
  PROVE  r < from /\ gap <= (from - r) * den /\ (from - r) * den < gap + tick * den
<1>1. /\ (from - r) * den = from * den - r * den
      /\ (r + tick) * den = r * den + tick * den
      /\ r * den \in Int /\ from * den \in Int /\ tick * den \in Int
  OBVIOUS
<1>2. r * den < from * den
  BY <1>1
<1>3. r < from
  BY <1>2, Factor
<1> QED
  BY <1>1, <1>3

(* The same of a stop above the price.                                     *)
LEMMA StopAbove ==
  ASSUME NEW from \in Int, NEW gap \in Nat \ {0}, NEW den \in Nat \ {0}, NEW tick \in Nat \ {0},
         NEW r \in Int, from * den + gap <= r * den, (r - tick) * den < from * den + gap
  PROVE  r > from /\ gap <= (r - from) * den /\ (r - from) * den < gap + tick * den
<1>1. /\ (r - from) * den = r * den - from * den
      /\ (r - tick) * den = r * den - tick * den
      /\ r * den \in Int /\ from * den \in Int /\ tick * den \in Int
  OBVIOUS
<1>2. from * den < r * den
  BY <1>1
<1>3. from < r
  BY <1>2, Factor
<1> QED
  BY <1>1, <1>3

(* Where the stop of each side lies before it is rounded.                  *)
LEMMA StopNumerators ==
  ASSUME NEW from \in Prices, NEW atr \in Atrs
  PROVE  /\ StopNumerator("LONG", from, atr) = from * AtrMultiple.den - atr * AtrMultiple.num
         /\ StopNumerator("SHORT", from, atr) = from * AtrMultiple.den + atr * AtrMultiple.num
<1>1. \A a, b, c, d \in Int : /\ a * b + -1 * c * d = a * b - c * d
                            /\ a * b + 1 * c * d = a * b + c * d
  OBVIOUS
<1>2. from \in Int /\ atr \in Int /\ AtrMultiple.den \in Int /\ AtrMultiple.num \in Int
  BY Constants
<1> QED
  BY <1>1, <1>2 DEF StopNumerator

(* So is the stop of a position at whatever price it is computed from.     *)
LEMMA StopDistance ==
  ASSUME NEW side \in Sides, NEW from \in Prices, NEW atr \in Atrs,
         NEW gap, gap = atr * AtrMultiple.num, NEW den, den = AtrMultiple.den,
         NEW r, r = InitialStop(side, from, atr)
  PROVE  /\ r \in Int /\ \E k \in Int : r = Tick * k
         /\ IF side = "LONG" THEN r < from ELSE r > from
         /\ Distance(from, r) \in Nat \ {0}
         /\ gap <= Distance(from, r) * den /\ Distance(from, r) * den < gap + Tick * den
<1>1. den \in Nat \ {0} /\ gap \in Nat \ {0} /\ from \in Nat \ {0} /\ Tick \in Nat \ {0}
  BY Constants, Products
<1>2. CASE side = "LONG"
  <2> DEFINE num == from * den - gap
  <2>1. r = RoundDown(num, den, Tick)
    BY <1>2, StopNumerators DEF InitialStop, NormalizePrice
  <2>2. num \in Int
    BY <1>1
  <2>3. r \in Int /\ (\E k \in Int : r = Tick * k) /\ r * den <= num /\ num < (r + Tick) * den
    <3> HIDE DEF num
    <3>1. /\ RoundDown(num, den, Tick) \in Int /\ \E k \in Int : RoundDown(num, den, Tick) = Tick * k
          /\ RoundDown(num, den, Tick) * den <= num
          /\ num < (RoundDown(num, den, Tick) + Tick) * den
      BY <1>1, <2>2, RoundsDown
    <3> QED
      BY <2>1, <3>1
  <2>4. r < from /\ gap <= (from - r) * den /\ (from - r) * den < gap + Tick * den
    BY <1>1, <2>3, StopBelow
  <2>5. Distance(from, r) = from - r
    BY <1>1, <2>3, <2>4 DEF Distance
  <2>6. Distance(from, r) \in Nat \ {0}
    BY <1>1, <2>3, <2>4, <2>5
  <2> QED
    BY <1>2, <2>3, <2>4, <2>5, <2>6
<1>3. CASE side = "SHORT"
  <2> DEFINE num == from * den + gap
  <2>1. r = RoundUp(num, den, Tick)
    BY <1>3, StopNumerators DEF InitialStop, NormalizePrice
  <2>2. num \in Int
    BY <1>1
  <2>3. r \in Int /\ (\E k \in Int : r = Tick * k) /\ num <= r * den /\ (r - Tick) * den < num
    <3> HIDE DEF num
    <3>1. /\ RoundUp(num, den, Tick) \in Int /\ \E k \in Int : RoundUp(num, den, Tick) = Tick * k
          /\ num <= RoundUp(num, den, Tick) * den
          /\ (RoundUp(num, den, Tick) - Tick) * den < num
      BY <1>1, <2>2, RoundsUp
    <3> QED
      BY <2>1, <3>1
  <2>4. r > from /\ gap <= (r - from) * den /\ (r - from) * den < gap + Tick * den
    BY <1>1, <2>3, StopAbove
  <2>5. Distance(from, r) = r - from
    BY <1>1, <2>3, <2>4 DEF Distance
  <2>6. Distance(from, r) \in Nat \ {0}
    BY <1>1, <2>3, <2>4, <2>5
  <2> QED
    BY <1>3, <2>3, <2>4, <2>5, <2>6
<1> QED
  BY <1>2, <1>3 DEF Sides

(* Whichever limit binds, the other one is kept, too.                      *)
LEMMA EitherLimit ==
  ASSUME NEW q \in Int, NEW from \in Nat \ {0}, NEW distance \in Nat \ {0},
         NEW den \in Nat \ {0}, NEW risk \in Int, NEW cap \in Int
  PROVE  /\ q * from <= cap /\ risk * from > cap * den * distance => q * distance * den <= risk
         /\ q * (den * distance) <= risk /\ risk * from <= cap * den * distance => q * from <= cap
<1> DEFINE k == den * distance
<1>1. k \in Nat \ {0}
  BY Products
<1>2. /\ cap * den * distance = cap * k /\ q * distance * den = q * k
      /\ (q * from) * k = (q * k) * from
      /\ q * from \in Int /\ q * k \in Int /\ cap * k \in Int /\ risk * from \in Int
      /\ (q * from) * k \in Int /\ (q * k) * from \in Int
  OBVIOUS
<1> HIDE DEF k
<1>3. ASSUME q * from <= cap, risk * from > cap * k PROVE q * k <= risk
  <2>1. (q * from) * k <= cap * k
    BY <1>1, <1>2, <1>3, Factor
  <2>2. (q * k) * from <= risk * from
    BY <1>2, <1>3, <2>1
  <2> QED
    BY <1>2, <2>2, Factor
<1>4. ASSUME q * k <= risk, risk * from <= cap * k PROVE q * from <= cap
  <2>1. (q * k) * from <= risk * from
    BY <1>2, <1>4, Factor
  <2>2. (q * from) * k <= cap * k
    BY <1>2, <1>4, <2>1
  <2> QED
    BY <1>1, <1>2, <2>2, Factor
<1> QED
  BY <1>2, <1>3, <1>4 DEF k

(* The size of a position keeps the limit of the risk and the limit of the *)
(* notional (calculate_position_size).                                     *)
LEMMA SizeWithinLimits ==
  ASSUME NEW equity \in Equities, NEW from \in Prices, NEW to \in Int,
         Distance(from, to) \in Nat \ {0},
         NEW q, q = PositionSize(equity, from, to)
  PROVE  /\ q \in Int
         /\ RiskAmount(q, from, to) * RiskRate.den <= equity * RiskRate.num
         /\ q * from <= MaxNotional
<1> DEFINE distance == Distance(from, to)
           den == RiskRate.den
           risk == equity * RiskRate.num
<1>1. /\ from \in Nat \ {0} /\ den \in Nat \ {0} /\ risk \in Nat \ {0} /\ Step \in Nat \ {0}
      /\ MaxNotional \in Nat \ {0} /\ distance \in Nat \ {0} /\ den * distance \in Nat \ {0}
  BY Constants, Products
<1>2. RiskAmount(q, from, to) * RiskRate.den = q * distance * den
  BY DEF RiskAmount
<1> HIDE DEF distance, den, risk
<1>3. CASE risk * from > MaxNotional * den * distance
  <2>1. q = RoundDown(MaxNotional, from, Step)
    BY <1>3 DEF PositionSize, distance, den, risk
  <2>2. q \in Int /\ q * from <= MaxNotional
    BY <1>1, <2>1, RoundsDown
  <2>3. q * distance * den <= risk
    BY <1>1, <1>3, <2>2, EitherLimit
  <2> QED
    BY <1>2, <2>2, <2>3 DEF risk
<1>4. CASE risk * from <= MaxNotional * den * distance
  <2>1. q = RoundDown(risk, den * distance, Step)
    <3>1. ~(risk * from > MaxNotional * den * distance)
      BY <1>1, <1>4
    <3> QED
      BY <3>1 DEF PositionSize, distance, den, risk
  <2>2. q \in Int /\ q * (den * distance) <= risk
    <3> DEFINE k == den * distance
    <3>1. k \in Nat \ {0} /\ q = RoundDown(risk, k, Step)
      BY <1>1, <2>1
    <3> HIDE DEF k
    <3>2. RoundDown(risk, k, Step) \in Int /\ RoundDown(risk, k, Step) * k <= risk
      BY <1>1, <3>1, RoundsDown
    <3> QED
      BY <3>1, <3>2 DEF k
  <2>3. q * from <= MaxNotional
    BY <1>1, <1>4, <2>2, EitherLimit
  <2>4. q * distance * den = q * (den * distance)
    BY <1>1, <2>2
  <2> QED
    BY <1>2, <2>2, <2>3, <2>4 DEF risk
<1> QED
  <2>1. risk * from \in Int /\ MaxNotional * den * distance \in Int
    BY <1>1
  <2> QED
    BY <1>3, <1>4, <2>1

-----------------------------------------------------------------------------
(* The inductive invariant: the order is the one planned from its inputs,  *)
(* the first stop the one of the fill, and the stop is that one or the     *)
(* breakeven of the fill.                                                  *)
PlannedOK ==
  /\ order.side \in Sides /\ order.expected \in Prices
  /\ order.atr \in Atrs /\ order.equity \in Equities
  /\ StopExists(order.side, order.expected, order.atr)
  /\ order.plannedStop = InitialStop(order.side, order.expected, order.atr)
  /\ order.quantity = PositionSize(order.equity, order.expected, order.plannedStop)
  /\ order.quantity > 0
  /\ order.plannedStop > 0

FilledOK ==
  /\ entry \in Prices
  /\ phase = "GUARDED" => /\ initialStop = InitialStop(order.side, entry, order.atr)
                          /\ stop = initialStop \/ stop = BreakevenStop(order.side)
  /\ phase = "UNGUARDED" => ~StopExists(order.side, entry, order.atr)
  /\ phase = "REFUSED" => ~(InitialStop(order.side, entry, order.atr) > 0)

SizingInv ==
  /\ phase \in {"IDLE", "PLANNED", "GUARDED", "UNGUARDED", "REFUSED"}
  /\ phase # "IDLE" => PlannedOK
  /\ phase \in {"GUARDED", "UNGUARDED", "REFUSED"} => FilledOK

(* The plans and the fills of every run satisfy the invariant.             *)
THEOREM SizingInvariant == SizingSpec => []SizingInv
<1>1. SizingInit => SizingInv
  BY DEF SizingInit, SizingInv
<1>2. ASSUME SizingInv, [SizingNext]_sizing_vars PROVE SizingInv'
  <2>1. CASE Plan
    <3>1. PICK side \in Sides, expected \in Prices, atr \in Atrs, equity \in Equities :
            /\ StopExists(side, expected, atr)
            /\ Acceptable(PositionSize(equity, expected, InitialStop(side, expected, atr)), expected)
            /\ Recordable(InitialStop(side, expected, atr))
            /\ order' = [side |-> side, expected |-> expected, atr |-> atr, equity |-> equity,
                         plannedStop |-> InitialStop(side, expected, atr),
                         quantity |-> PositionSize(equity, expected, InitialStop(side, expected, atr))]
      BY <2>1 DEF Plan
    <3>2. PlannedOK'
      BY <3>1 DEF PlannedOK, Acceptable, Recordable
    <3>3. phase' = "PLANNED"
      BY <2>1 DEF Plan
    <3> QED
      BY <3>2, <3>3 DEF SizingInv
  <2>2. CASE Fill
    <3>1. phase = "PLANNED" /\ order' = order /\ entry' \in Prices /\ initialStop' = stop'
      BY <2>2 DEF Fill
    <3>2. PlannedOK'
      BY <1>2, <3>1 DEF SizingInv, PlannedOK
    <3>3. CASE /\ StopExists(order.side, entry', order.atr)
               /\ stop' = FillStop(entry')
               /\ phase' = IF stop' > 0 THEN "GUARDED" ELSE "REFUSED"
      BY <3>1, <3>2, <3>3 DEF SizingInv, FilledOK, FillStop
    <3>4. CASE ~StopExists(order.side, entry', order.atr) /\ phase' = "UNGUARDED"
      BY <3>1, <3>2, <3>4 DEF SizingInv, FilledOK
    <3> QED
      BY <2>2, <3>3, <3>4 DEF Fill
  <2>3. CASE Poll
    <3>1. /\ phase = "GUARDED" /\ phase' = phase /\ order' = order /\ entry' = entry
          /\ initialStop' = initialStop /\ (stop' = stop \/ stop' = BreakevenStop(order.side))
      BY <2>3 DEF Poll
    <3>2. BreakevenStop(order.side)' = BreakevenStop(order.side)
      BY <3>1 DEF BreakevenStop
    <3>3. FilledOK'
      BY <1>2, <3>1, <3>2 DEF SizingInv, FilledOK
    <3> QED
      BY <1>2, <3>1, <3>3 DEF SizingInv, PlannedOK
  <2>4. CASE UNCHANGED sizing_vars
    BY <1>2, <2>4 DEF sizing_vars, SizingInv, PlannedOK, FilledOK, BreakevenStop
  <2> QED
    BY <1>2, <2>1, <2>2, <2>3, <2>4 DEF SizingNext
<1> QED
  BY <1>1, <1>2, PTL DEF SizingSpec

(* A plan risks at most the configured share of the equity and its value   *)
(* is at most the configured notional, however the roundings fall.         *)
THEOREM PlansWithinLimits == SizingSpec => []PlanWithinLimits
<1>1. SizingInv => PlanWithinLimits
  <2> SUFFICES ASSUME PlannedOK
               PROVE  /\ RiskAmount(order.quantity, order.expected, order.plannedStop) * RiskRate.den
                           <= order.equity * RiskRate.num
                      /\ order.quantity * order.expected <= MaxNotional
    BY DEF SizingInv, PlanWithinLimits
  <2>1. order.plannedStop \in Int /\ Distance(order.expected, order.plannedStop) \in Nat \ {0}
    BY StopDistance DEF PlannedOK
  <2> QED
    BY <2>1, SizeWithinLimits DEF PlannedOK
<1> QED
  BY <1>1, SizingInvariant, PTL

(* The first stop of a filled position is strictly on its losing side.     *)
THEOREM StopsOnLosingSide == SizingSpec => []StopOnLosingSide
<1>1. SizingInv => StopOnLosingSide
  BY StopDistance DEF SizingInv, PlannedOK, FilledOK, StopOnLosingSide
<1> QED
  BY <1>1, SizingInvariant, PTL

(* Slippage raises the money at risk by less than a tick per unit.         *)
THEOREM SlippageCostsLessThanATick == SizingSpec => []FilledRiskWithinATick
<1>1. SizingInv => FilledRiskWithinATick
  <2> SUFFICES ASSUME PlannedOK, FilledOK, phase = "GUARDED"
               PROVE  RiskAmount(order.quantity, entry, initialStop)
                        < RiskAmount(order.quantity, order.expected, order.plannedStop)
                          + order.quantity * Tick
    BY DEF SizingInv, FilledRiskWithinATick
  <2> DEFINE filled == Distance(entry, initialStop)
             planned == Distance(order.expected, order.plannedStop)
             gap == order.atr * AtrMultiple.num
             den == AtrMultiple.den
             q == order.quantity
  <2>1. filled \in Nat \ {0} /\ filled * den < gap + Tick * den
    BY StopDistance DEF PlannedOK, FilledOK
  <2>2. planned \in Nat \ {0} /\ gap <= planned * den /\ order.plannedStop \in Int
    BY StopDistance DEF PlannedOK
  <2>3. q \in Int /\ q > 0
    BY <2>2, SizeWithinLimits DEF PlannedOK
  <2>4. den \in Nat \ {0} /\ gap \in Int /\ Tick \in Nat \ {0}
    BY Constants DEF PlannedOK
  <2>5. RiskAmount(q, entry, initialStop) = q * filled
        /\ RiskAmount(q, order.expected, order.plannedStop) = q * planned
    BY DEF RiskAmount
  <2> HIDE DEF filled, planned, gap, den, q
  <2>6. (planned + Tick) * den = planned * den + Tick * den
        /\ planned * den \in Int /\ Tick * den \in Int /\ filled * den \in Int
    BY <2>1, <2>2, <2>4
  <2>7. filled * den < (planned + Tick) * den
    BY <2>1, <2>2, <2>4, <2>6
  <2>8. filled < planned + Tick
    BY <2>1, <2>2, <2>4, <2>7, Factor
  <2>9. filled * q < (planned + Tick) * q
    BY <2>1, <2>2, <2>3, <2>4, <2>8, Factor
  <2>10. filled * q = q * filled /\ (planned + Tick) * q = q * planned + q * Tick
    BY <2>1, <2>2, <2>3, <2>4
  <2> QED
    BY <2>5, <2>9, <2>10 DEF q
<1> QED
  BY <1>1, SizingInvariant, PTL

(* A stop that leaves room for one at the planned price leaves room for    *)
(* one at any price that is not lower.                                     *)
LEMMA HigherFillKeepsStop ==
  ASSUME NEW low \in Prices, NEW high \in Prices, NEW atr \in Atrs, low <= high,
         StopExists("LONG", low, atr)
  PROVE  /\ StopExists("LONG", high, atr)
         /\ InitialStop("LONG", low, atr) > 0 => InitialStop("LONG", high, atr) > 0
<1> DEFINE gap == atr * AtrMultiple.num
           den == AtrMultiple.den
           lower == low * den - gap
           higher == high * den - gap
           r == RoundDown(lower, den, Tick)
           s == RoundDown(higher, den, Tick)
<1>1. den \in Nat \ {0} /\ gap \in Int /\ low \in Int /\ high \in Int /\ Tick \in Nat \ {0}
  BY Constants
<1>2. /\ StopNumerator("LONG", low, atr) = lower /\ StopNumerator("LONG", high, atr) = higher
      /\ InitialStop("LONG", low, atr) = r /\ InitialStop("LONG", high, atr) = s
  BY StopNumerators DEF InitialStop, NormalizePrice
<1>3. lower > 0
  BY <1>2 DEF StopExists
<1>4. lower \in Int /\ higher \in Int /\ lower <= higher
  <2>1. low * den <= high * den /\ low * den \in Int /\ high * den \in Int
    BY <1>1, Factor
  <2> HIDE DEF gap, den
  <2> QED
    BY <1>1, <2>1
<1>5. /\ r \in Int /\ (\E k \in Int : r = Tick * k) /\ r * den <= lower
      /\ s \in Int /\ higher < (s + Tick) * den
  <2> HIDE DEF lower, higher, den
  <2> QED
    BY <1>1, <1>4, RoundsDown
<1>6. (\E k \in Int : s = Tick * k)
  <2> HIDE DEF lower, higher, den
  <2> QED
    BY <1>1, <1>4, RoundsDown
<1> HIDE DEF r, s, lower, higher, den, gap
<1>7. PICK j \in Int, k \in Int : r = j * Tick /\ s = k * Tick
  <2>1. PICK m \in Int : r = Tick * m
    BY <1>5
  <2>2. PICK n \in Int : s = Tick * n
    BY <1>6
  <2> QED
    BY <1>1, <2>1, <2>2, Times
<1>8. ASSUME r > 0 PROVE s > 0
  <2>1. r < s + Tick
    <3>1. r * den \in Int /\ (s + Tick) * den \in Int /\ s + Tick \in Int
      BY <1>1, <1>5
    <3>2. r * den < (s + Tick) * den
      BY <1>4, <1>5, <3>1
    <3> QED
      BY <1>1, <1>5, <3>1, <3>2, Factor
  <2>2. s + Tick = (k + 1) * Tick /\ k + 1 \in Int
    BY <1>1, <1>7
  <2>3. j < k + 1
    BY <1>1, <1>7, <2>1, <2>2, Factor
  <2>4. 0 < j
    <3>1. 0 * Tick < j * Tick
      BY <1>1, <1>7, <1>8
    <3> QED
      BY <1>1, <3>1, Factor
  <2>5. 0 < k
    BY <2>3, <2>4
  <2>6. 0 * Tick < k * Tick
    BY <1>1, <2>5, Factor
  <2> QED
    BY <1>1, <1>7, <2>6
<1> QED
  BY <1>2, <1>3, <1>4, <1>8 DEF StopExists

(* A filled position is without a stop only when a LONG filled below the   *)
(* price it was planned at: the ledger takes no plan whose stop rounds to  *)
(* 0, and rounding keeps the order of prices.                              *)
THEOREM UnguardedMeansSlippage == SizingSpec => []UnguardedOnlyBySlippage
<1>1. SizingInv => UnguardedOnlyBySlippage
  <2> SUFFICES ASSUME PlannedOK, entry \in Prices,
                      \/ ~StopExists(order.side, entry, order.atr)
                      \/ ~(InitialStop(order.side, entry, order.atr) > 0)
               PROVE  order.side = "LONG" /\ entry < order.expected
    BY DEF SizingInv, FilledOK, UnguardedOnlyBySlippage
  <2>1. /\ entry \in Nat \ {0} /\ order.expected \in Nat \ {0}
        /\ order.atr \in Atrs /\ order.side \in {"LONG", "SHORT"}
    BY Constants DEF PlannedOK, Sides
  <2>2. order.side = "LONG"
    <3> SUFFICES ASSUME order.side = "SHORT" PROVE FALSE
      BY <2>1
    <3>1. StopExists("SHORT", entry, order.atr)
      <4> DEFINE gap == order.atr * AtrMultiple.num
                 den == AtrMultiple.den
      <4>1. StopNumerator("SHORT", entry, order.atr) = entry * den + gap
        BY <2>1, StopNumerators
      <4>2. gap \in Nat \ {0} /\ entry * den \in Nat \ {0}
        BY <2>1, Constants, Products
      <4> HIDE DEF gap, den
      <4> QED
        BY <4>1, <4>2 DEF StopExists
    <3>2. /\ InitialStop("SHORT", entry, order.atr) \in Int
          /\ InitialStop("SHORT", entry, order.atr) > entry
      <4>1. "SHORT" \in Sides /\ "SHORT" # "LONG"
        BY DEF Sides
      <4> QED
        BY <2>1, <4>1, StopDistance
    <3> QED
      BY <2>1, <3>1, <3>2
  <2>3. ASSUME order.expected <= entry PROVE FALSE
    BY <2>2, <2>3, HigherFillKeepsStop DEF PlannedOK
  <2> QED
    BY <2>1, <2>2, <2>3
<1> QED
  BY <1>1, SizingInvariant, PTL

(* The breakeven stop lies between the first stop and the fill, and the    *)
(* price that triggers it lies beyond the fill.                            *)
LEMMA BreakevenBetween ==
  ASSUME PlannedOK, FilledOK, phase = "GUARDED",
         NEW moved, moved = BreakevenStop(order.side)
  PROVE  /\ moved \in Int /\ initialStop \in Int /\ entry \in Int
         /\ IF order.side = "LONG" THEN initialStop <= moved /\ moved <= entry
            ELSE initialStop >= moved /\ moved >= entry
         /\ Distance(entry, initialStop) \in Nat \ {0}
<1>1. /\ initialStop \in Int /\ (\E k \in Int : initialStop = Tick * k)
      /\ IF order.side = "LONG" THEN initialStop < entry ELSE initialStop > entry
      /\ Distance(entry, initialStop) \in Nat \ {0}
  BY StopDistance DEF PlannedOK, FilledOK
<1>2. entry \in Int /\ Tick \in Nat \ {0} /\ 1 \in Nat \ {0}
  BY Constants DEF FilledOK
<1>3. PICK k \in Int : initialStop = Tick * k
  BY <1>1
<1>4. CASE order.side = "LONG"
  <2>1. moved = RoundDown(entry, 1, Tick)
    BY <1>4 DEF BreakevenStop, NormalizePrice
  <2>2. RoundDown(entry, 1, Tick) \in Int /\ RoundDown(entry, 1, Tick) * 1 <= entry
    BY <1>2, RoundsDown
  <2>3. Tick * k <= entry
    BY <1>1, <1>2, <1>3, <1>4
  <2>4. Tick * k <= RoundDown(entry, 1, Tick)
    BY <1>2, <2>3, BelowStaysBelow
  <2> QED
    BY <1>1, <1>2, <1>3, <1>4, <2>1, <2>2, <2>4
<1>5. CASE order.side # "LONG"
  <2>1. moved = RoundUp(entry, 1, Tick)
    BY <1>5 DEF BreakevenStop, NormalizePrice
  <2>2. RoundUp(entry, 1, Tick) \in Int /\ entry <= RoundUp(entry, 1, Tick) * 1
    BY <1>2, RoundsUp
  <2>3. Tick * k >= entry
    BY <1>1, <1>2, <1>3, <1>5
  <2>4. Tick * k >= RoundUp(entry, 1, Tick)
    BY <1>2, <2>3, BelowStaysBelow
  <2> QED
    BY <1>1, <1>2, <1>3, <1>5, <2>1, <2>2, <2>4
<1> QED
  BY <1>4, <1>5

(* The stop that guards a position only moves towards the price, and not   *)
(* past it.                                                                *)
THEOREM StopsOnlyTighten == SizingSpec => StopOnlyTightens
<1>1. ASSUME SizingInv, [SizingNext]_sizing_vars, phase = "GUARDED", stop' # stop
      PROVE  IF order.side = "LONG" THEN stop' > stop /\ stop' < price'
             ELSE stop' < stop /\ stop' > price'
  <2>1. Poll
    BY <1>1 DEF SizingNext, Plan, Fill, sizing_vars
  <2> DEFINE side == order.side
             moved == BreakevenStop(side)
             distance == Distance(entry, initialStop)
  <2>2. ~AlreadyMoved(side) /\ BreakevenTriggered(side, price') /\ stop' = moved /\ price' \in Prices
    BY <1>1, <2>1 DEF Poll
  <2>3. PlannedOK /\ FilledOK
    BY <1>1 DEF SizingInv
  <2>4. stop = initialStop
    BY <1>1, <2>2, <2>3 DEF FilledOK
  <2>5. /\ moved \in Int /\ initialStop \in Int /\ entry \in Int
        /\ IF side = "LONG" THEN initialStop <= moved /\ moved <= entry
           ELSE initialStop >= moved /\ moved >= entry
        /\ distance \in Nat \ {0}
    BY <1>1, <2>3, BreakevenBetween
  <2>6. price' \in Int /\ BreakevenR.num \in Nat \ {0} /\ BreakevenR.den \in Nat \ {0}
    BY <2>2, Constants
  <2>7. distance * BreakevenR.num \in Nat \ {0} /\ price' * BreakevenR.den \in Int
        /\ entry * BreakevenR.den \in Int
    BY <2>5, <2>6, Products
  <2>8. IF side = "LONG" THEN entry < price' ELSE price' < entry
    <3>1. IF side = "LONG" THEN entry * BreakevenR.den < price' * BreakevenR.den
          ELSE price' * BreakevenR.den < entry * BreakevenR.den
      <4>1. IF side = "LONG"
              THEN price' * BreakevenR.den >= entry * BreakevenR.den + distance * BreakevenR.num
              ELSE price' * BreakevenR.den <= entry * BreakevenR.den - distance * BreakevenR.num
        BY <2>2 DEF BreakevenTriggered
      <4> HIDE DEF distance, side
      <4> QED
        BY <2>7, <4>1
    <3> HIDE DEF side
    <3> QED
      BY <2>5, <2>6, <3>1, Factor
  <2> HIDE DEF moved, side, distance
  <2> QED
    BY <1>1, <2>2, <2>4, <2>5, <2>6, <2>8 DEF side
<1> QED
  BY <1>1, SizingInvariant, PTL DEF SizingSpec, StopOnlyTightens
=============================================================================
