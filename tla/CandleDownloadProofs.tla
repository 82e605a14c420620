------------------------- MODULE CandleDownloadProofs -------------------------
(***************************************************************************)
(* Proofs about the paging of get_candles, for every market, request and   *)
(* page size, and however much time passes between the pages.              *)
(***************************************************************************)
EXTENDS CandleDownload, FiniteSetTheorems, WellFoundedInduction, TLAPS

(* A nonempty set of naturals has a least element.                         *)
LEMMA LeastExists ==
  ASSUME NEW S \in SUBSET Nat, S # {}
  PROVE  \E m \in S : \A n \in S : m <= n
<1>1. PICK m \in S : \A n \in S : ~(<<n, m>> \in OpToRel(<, Nat))
  BY NatLessThanWellFounded, WFMin, Zenon
<1>2. \A n \in S : ~(n < m)
  BY <1>1 DEF OpToRel
<1> QED
  BY <1>2

(* A bounded one has a greatest element.                                   *)
LEMMA GreatestExists ==
  ASSUME NEW bound \in Nat, NEW S \in SUBSET (0..bound), S # {}
  PROVE  \E m \in S : \A n \in S : n <= m
<1> DEFINE D == {bound - t : t \in S}
<1>1. D \in SUBSET Nat /\ D # {}
  <2>1. \A t \in S : bound - t \in Nat
    OBVIOUS
  <2> QED
    BY <2>1
<1>2. PICK d \in D : \A n \in D : d <= n
  BY <1>1, LeastExists
<1>3. PICK m \in S : d = bound - m
  OBVIOUS
<1>4. \A n \in S : bound - m <= bound - n
  BY <1>2, <1>3
<1> QED
  BY <1>4

(* Candles that open at different times are as many as their opens.        *)
LEMMA OpensCount ==
  ASSUME NEW C, \A c, d \in C : c.open = d.open => c = d, IsFiniteSet(Opens(C))
  PROVE  IsFiniteSet(C) /\ Cardinality(C) = Cardinality(Opens(C))
<1> DEFINE f == [t \in Opens(C) |-> CHOOSE c \in C : c.open = t]
<1>1. \A t \in Opens(C) : f[t] \in C /\ f[t].open = t
  BY DEF Opens
<1>2. f \in [Opens(C) -> C]
  BY <1>1
<1>3. \A c \in C : c.open \in Opens(C) /\ f[c.open] = c
  BY <1>1 DEF Opens
<1> HIDE DEF f
<1>4. f \in Injection(Opens(C), C)
  BY <1>1, <1>2 DEF Injection, IsInjective
<1>5. f \in Surjection(Opens(C), C)
  BY <1>2, <1>3 DEF Surjection
<1>6. ExistsBijection(Opens(C), C)
  BY <1>4, <1>5 DEF ExistsBijection, Bijection
<1> QED
  BY <1>6, FS_Bijection

-----------------------------------------------------------------------------
(* The newest of a bounded set of times.                                   *)
Bounded(S) == \E b \in Nat : S \subseteq 0..b

(* Bounded sets of times are finite, and so are their subsets.             *)
LEMMA BoundedFacts ==
  ASSUME NEW S, Bounded(S)
  PROVE  /\ IsFiniteSet(S) /\ S \subseteq Nat
         /\ \A T : T \subseteq S => Bounded(T) /\ IsFiniteSet(T) /\ Cardinality(T) \in Nat
<1>1. PICK b \in Nat : S \subseteq 0..b
  BY DEF Bounded
<1>2. IsFiniteSet(0..b)
  BY FS_Interval
<1>3. IsFiniteSet(S)
  BY <1>1, <1>2, FS_Subset
<1>4. \A T : T \subseteq S => IsFiniteSet(T) /\ Cardinality(T) \in Nat
  BY <1>3, FS_Subset, FS_CardinalityType
<1>5. \A T : T \subseteq S => Bounded(T)
  BY <1>1 DEF Bounded
<1> QED
  BY <1>1, <1>3, <1>4, <1>5

After(S, t) == {u \in S : u > t}

(* The newest of a set are no more than asked for, with no gap between them; *)
(* fewer than asked for are all of them.                                   *)
LEMMA NewestFacts ==
  ASSUME NEW S, Bounded(S), NEW size \in Nat \ {0}, NEW N, N = NewestOf(S, size)
  PROVE  /\ IsFiniteSet(S) /\ N \subseteq S /\ IsFiniteSet(N)
         /\ \A t \in N : After(S, t) \subseteq N
         /\ Cardinality(N) \in Nat /\ Cardinality(N) <= size
         /\ Cardinality(N) < size => N = S
<1>1. IsFiniteSet(S) /\ S \subseteq Nat
  BY BoundedFacts
<1>2. N = {t \in S : Cardinality(After(S, t)) < size} /\ \A t \in S : t \in Nat
  BY <1>1 DEF NewestOf, After
<1>3. \A t : IsFiniteSet(After(S, t)) /\ Cardinality(After(S, t)) \in Nat
  BY <1>1, FS_Subset, FS_CardinalityType DEF After
<1>4. N \subseteq S /\ IsFiniteSet(N) /\ Cardinality(N) \in Nat
  BY <1>1, <1>2, FS_Subset, FS_CardinalityType
<1>5. ASSUME NEW t \in N, NEW u \in S, u > t PROVE u \in N
  <2>1. After(S, u) \subseteq After(S, t)
    <3>1. t \in Nat /\ u \in Nat
      BY <1>2, <1>5
    <3>2. ASSUME NEW v \in S, v > u PROVE v > t
      BY <1>2, <1>5, <3>1, <3>2
    <3> QED
      BY <3>2 DEF After
  <2>2. Cardinality(After(S, u)) <= Cardinality(After(S, t))
    BY <1>3, <2>1, FS_Subset
  <2> QED
    BY <1>2, <1>3, <2>2
<1>6. Cardinality(N) <= size
  <2>1. CASE N = {}
    BY <2>1, FS_EmptySet
  <2>2. CASE N # {}
    <3>1. PICK m \in N : \A n \in N : m <= n
      <4>1. N \in SUBSET Nat
        BY <1>1, <1>4
      <4> QED
        BY <2>2, <4>1, LeastExists
    <3>2. N \subseteq After(S, m) \cup {m}
      <4>1. ASSUME NEW n \in N PROVE n = m \/ n > m
        BY <1>2, <3>1
      <4> QED
        BY <1>4, <4>1 DEF After
    <3>3. /\ IsFiniteSet(After(S, m) \cup {m})
          /\ Cardinality(After(S, m) \cup {m}) <= Cardinality(After(S, m)) + 1
          /\ Cardinality(After(S, m) \cup {m}) \in Nat
      BY <1>3, FS_AddElement, FS_CardinalityType
    <3>4. Cardinality(N) <= Cardinality(After(S, m) \cup {m})
      BY <3>2, <3>3, FS_Subset
    <3>5. Cardinality(After(S, m)) < size
      BY <1>2, <3>1
    <3> QED
      BY <1>3, <1>4, <3>3, <3>4, <3>5
  <2> QED
    BY <2>1, <2>2
<1>7. ASSUME N # S PROVE Cardinality(N) >= size
  <2>1. PICK bound \in Nat : S \subseteq 0..bound
    BY DEF Bounded
  <2>2. PICK m \in S \ N : \A n \in S \ N : n <= m
    <3>1. S \ N # {} /\ S \ N \in SUBSET (0..bound)
      BY <1>4, <1>7, <2>1
    <3> QED
      BY <3>1, GreatestExists
  <2>3. After(S, m) \subseteq N
    <3>1. ASSUME NEW u \in S, u > m, u \notin N PROVE FALSE
      BY <1>2, <2>2, <3>1
    <3> QED
      BY <3>1 DEF After
  <2>4. Cardinality(After(S, m)) <= Cardinality(N)
    BY <1>4, <2>3, FS_Subset
  <2>5. ~(Cardinality(After(S, m)) < size)
    BY <1>2, <2>2
  <2> QED
    BY <1>3, <1>4, <2>4, <2>5
<1> QED
  <2>1. \A t \in N : After(S, t) \subseteq N
    BY <1>5 DEF After
  <2> QED
    BY <1>1, <1>4, <1>6, <1>7, <2>1

(* One page: the newest candles up to a cursor, next to those after it.    *)
UpTo(S, t) == {u \in S : u <= t}

(* What is after the oldest candle of a page is what was after the cursor  *)
(* and the page itself, and a page that is not full reaches the beginning. *)
LEMMA OnePage ==
  ASSUME NEW U, Bounded(U), NEW cur \in Int,
         NEW size \in Nat \ {0}, NEW N, N = NewestOf(UpTo(U, cur), size), N # {}
  PROVE  /\ IsFiniteSet(N) /\ Cardinality(N) \in Nat \ {0} /\ Cardinality(N) <= size
         /\ Min(N) \in N /\ Min(N) <= cur
         /\ After(U, Min(N) - 1) = After(U, cur) \cup N
         /\ Cardinality(After(U, Min(N) - 1)) = Cardinality(After(U, cur)) + Cardinality(N)
         /\ Cardinality(N) < size => After(U, Min(N) - 1) = U
<1> DEFINE S == UpTo(U, cur)
           m == Min(N)
<1>1. S \subseteq U /\ Bounded(S) /\ S \subseteq Nat /\ U \subseteq Nat
  <2>1. S \subseteq U
    BY DEF UpTo
  <2> HIDE DEF S
  <2> QED
    BY <2>1, BoundedFacts
<1>2. /\ IsFiniteSet(S) /\ N \subseteq S /\ IsFiniteSet(N)
      /\ \A t \in N : After(S, t) \subseteq N
      /\ Cardinality(N) \in Nat /\ Cardinality(N) <= size
      /\ Cardinality(N) < size => N = S
  BY <1>1, NewestFacts
<1>3. m \in N /\ \A n \in N : m <= n
  <2>1. N \in SUBSET Nat
    BY <1>1, <1>2
  <2>2. \E k \in N : \A n \in N : k <= n
    BY <2>1, LeastExists
  <2> QED
    BY <2>2 DEF Min
<1> HIDE DEF m
<1>4. m \in Nat /\ m <= cur
  BY <1>1, <1>2, <1>3 DEF UpTo
<1>5. Cardinality(N) # 0
  BY <1>2, <1>3, FS_EmptySet
<1>6. After(U, m - 1) = After(U, cur) \cup N
  <2>1. \A u \in U : u \in Nat
    BY <1>1
  <2>2. ASSUME NEW u \in After(U, m - 1) PROVE u \in After(U, cur) \cup N
    <3>1. u \in U /\ u >= m
      BY <1>4, <2>1 DEF After
    <3>2. u <= cur => u \in S /\ (u = m \/ u \in After(S, m))
      BY <1>4, <2>1, <3>1 DEF UpTo, After
    <3>3. ~(u <= cur) => u > cur
      BY <2>1, <3>1
    <3> QED
      BY <1>2, <1>3, <3>1, <3>2, <3>3 DEF After
  <2>3. ASSUME NEW u \in After(U, cur) \cup N PROVE u \in After(U, m - 1)
    BY <1>2, <1>3, <1>4, <2>1, <2>3 DEF After, UpTo
  <2> QED
    BY <2>2, <2>3
<1>7. Cardinality(After(U, m - 1)) = Cardinality(After(U, cur)) + Cardinality(N)
  <2>1. IsFiniteSet(After(U, cur))
    <3>1. After(U, cur) \subseteq U
      BY DEF After
    <3> QED
      BY <3>1, BoundedFacts
  <2>2. After(U, cur) \cap N = {}
    <3>1. \A u \in U : ~(u > cur /\ u <= cur)
      BY <1>1
    <3> QED
      BY <1>2, <3>1 DEF After, UpTo
  <2>3. Cardinality(After(U, cur) \cap N) = 0
    BY <2>2, FS_EmptySet
  <2>4. Cardinality(After(U, cur) \cup N)
          = Cardinality(After(U, cur)) + Cardinality(N) - Cardinality(After(U, cur) \cap N)
    BY <1>2, <2>1, FS_Union
  <2>5. Cardinality(After(U, cur)) \in Nat
    BY <2>1, FS_CardinalityType
  <2>6. Cardinality(After(U, cur) \cup N) = Cardinality(After(U, cur)) + Cardinality(N)
    BY <1>2, <2>3, <2>4, <2>5
  <2> QED
    BY <1>6, <2>6
<1>8. Cardinality(N) < size => After(U, m - 1) = U
  <2>1. \A u \in U : u > cur \/ u <= cur
    BY <1>1
  <2>2. After(U, cur) \cup S = U
    BY <2>1 DEF After, UpTo
  <2> QED
    BY <1>2, <1>6, <2>2
<1> QED
  BY <1>2, <1>3, <1>4, <1>5, <1>6, <1>7, <1>8 DEF m

(* Whoever has as many of the newest as were asked for has all of those.   *)
LEMMA NewestReached ==
  ASSUME NEW U, Bounded(U), NEW cur \in Int,
         NEW count \in Nat \ {0}, Cardinality(After(U, cur)) >= count
  PROVE  NewestOf(U, count) \subseteq After(U, cur)
<1> SUFFICES ASSUME NEW t \in NewestOf(U, count), t \notin After(U, cur) PROVE FALSE
  OBVIOUS
<1>1. \A u \in U : u \in Nat
  BY BoundedFacts
<1>2. t \in U /\ Cardinality(After(U, t)) < count
  BY DEF NewestOf, After
<1>3. t <= cur
  BY <1>1, <1>2 DEF After
<1>4. After(U, cur) \subseteq After(U, t)
  <2>1. \A u \in U : u > cur => u > t
    BY <1>1, <1>2, <1>3
  <2> QED
    BY <2>1 DEF After
<1>5. IsFiniteSet(After(U, t))
  <2>1. After(U, t) \subseteq U
    BY DEF After
  <2> QED
    BY <2>1, BoundedFacts
<1>6. Cardinality(After(U, cur)) <= Cardinality(After(U, t)) /\ IsFiniteSet(After(U, cur))
  BY <1>4, <1>5, FS_Subset
<1>7. Cardinality(After(U, cur)) \in Nat /\ Cardinality(After(U, t)) \in Nat
  BY <1>5, <1>6, FS_CardinalityType
<1> QED
  BY <1>2, <1>6, <1>7

-----------------------------------------------------------------------------
(* The inductive invariant.  The first page fixes the candles that count;  *)
(* every page after it takes the newest of those that are left, so what is *)
(* still to come lies at the cursor or before it.                          *)
Bound == IF end = None \/ end > first THEN first ELSE end

Universe == OpensUpTo(Bound)

PagesOK ==
  /\ first \in Nat /\ first <= clock
  /\ Opens(pages) \subseteq Universe
  /\ step = "FETCH" => /\ cursor \in Nat \ {None} /\ cursor <= Bound
                       /\ Opens(pages) = After(Universe, cursor)
                       /\ Cardinality(Opens(pages)) + remaining = limit
  /\ step \in {"FILTER", "DONE"} => Asked \subseteq Opens(pages)

CandlesOK(C) ==
  /\ \A c \in C : c.open \in Nat /\ c.close = CloseOf(c.open)
  /\ \A c, d \in C : c.open = d.open => c = d

DownloadInv ==
  /\ clock \in Nat /\ clock >= FirstCandle
  /\ step \in {"IDLE", "FETCH", "FILTER", "DONE"}
  /\ CandlesOK(pages)
  /\ step = "IDLE" => first = 0
  /\ step # "IDLE" => limit \in Limits /\ start \in StartTimes /\ end \in EndTimes
  /\ step = "FETCH" => remaining \in Nat \ {0}
  /\ step = "FETCH" /\ first = 0 => pages = {} /\ cursor = end /\ remaining = limit
  /\ step # "IDLE" /\ first # 0 => PagesOK
  /\ step \in {"FILTER", "DONE"} => first # 0
  /\ step = "DONE" =>
       /\ downloaded \subseteq pages
       /\ \A c \in pages : /\ c.open >= start
                           /\ end # None => c.close <= end
                           /\ c.close < first
                           => c \in downloaded

(* The types of the constants.                                             *)
LEMMA Constants ==
  /\ Interval \in Nat \ {0} /\ MaxPerRequest \in Nat \ {0} /\ Limits \subseteq Nat \ {0}
  /\ FirstCandle \in Nat /\ FirstCandle > 1 /\ StartTimes \subseteq Nat /\ EndTimes \subseteq Nat
BY DownloadAssumption

(* The candles that have opened by a time, and those opened by an earlier one. *)
LEMMA OpensUpToFacts ==
  ASSUME NEW time \in Nat
  PROVE  /\ Bounded(OpensUpTo(time))
         /\ \A t \in OpensUpTo(time) : t \in Nat /\ t >= FirstCandle /\ t <= time
         /\ \A earlier \in Nat : earlier <= time => OpensUpTo(earlier) = UpTo(OpensUpTo(time), earlier)
<1>1. FirstCandle \in Nat
  BY Constants
<1>2. \A t \in OpensUpTo(time) : t \in Nat /\ t >= FirstCandle /\ t <= time
  BY <1>1 DEF OpensUpTo
<1>3. Bounded(OpensUpTo(time))
  BY <1>2 DEF Bounded
<1>4. ASSUME NEW earlier \in Nat, earlier <= time
      PROVE  OpensUpTo(earlier) = UpTo(OpensUpTo(time), earlier)
  BY <1>1, <1>4 DEF OpensUpTo, UpTo
<1> QED
  BY <1>2, <1>3, <1>4

(* What a page shows, and where it lies.                                   *)
LEMMA KlinesFacts ==
  ASSUME clock \in Nat, NEW upTo \in Nat, NEW size \in Nat \ {0},
         NEW cur, cur = IF upTo = None \/ upTo > clock THEN clock ELSE upTo,
         NEW batch, batch = Klines(upTo, size)
  PROVE  /\ Opens(batch) = NewestOf(OpensUpTo(cur), size)
         /\ CandlesOK(batch)
         /\ IsFiniteSet(batch) /\ Cardinality(batch) = Cardinality(Opens(batch))
<1>1. cur \in Nat
  OBVIOUS
<1> DEFINE N == NewestOf(OpensUpTo(cur), size)
<1>2. batch = {[open |-> t, close |-> CloseOf(t), final |-> CloseOf(t) < clock] : t \in N}
  BY DEF Klines
<1>3. N \subseteq OpensUpTo(cur) /\ IsFiniteSet(N)
  BY <1>1, OpensUpToFacts, NewestFacts
<1>4. \A t \in N : t \in Nat
  BY <1>1, <1>3, OpensUpToFacts
<1> HIDE DEF N
<1>5. Opens(batch) = N
  <2>1. \A c \in batch : c.open \in N
    BY <1>2
  <2>2. ASSUME NEW t \in N PROVE \E c \in batch : c.open = t
    <3>1. [open |-> t, close |-> CloseOf(t), final |-> CloseOf(t) < clock] \in batch
      BY <1>2
    <3> QED
      BY <3>1
  <2> QED
    BY <2>1, <2>2 DEF Opens
<1>6. CandlesOK(batch)
  BY <1>2, <1>4 DEF CandlesOK
<1>7. IsFiniteSet(batch) /\ Cardinality(batch) = Cardinality(Opens(batch))
  BY <1>3, <1>5, <1>6, OpensCount DEF CandlesOK
<1> QED
  BY <1>5, <1>6, <1>7 DEF N

(* What the invariant says when a page is about to be requested.           *)
LEMMA Fetching ==
  ASSUME DownloadInv, Fetch
  PROVE  /\ clock \in Nat /\ clock >= FirstCandle /\ clock # 0 /\ step = "FETCH"
         /\ limit \in Limits /\ limit \in Nat \ {0} /\ start \in StartTimes
         /\ end \in EndTimes /\ end \in Nat /\ remaining \in Nat \ {0} /\ CandlesOK(pages)
         /\ first = 0 => pages = {} /\ cursor = end /\ remaining = limit
         /\ first # 0 => PagesOK
<1>1. step = "FETCH"
  BY DEF Fetch
<1>2. /\ clock \in Nat /\ clock >= FirstCandle /\ limit \in Limits
      /\ start \in StartTimes /\ end \in EndTimes /\ remaining \in Nat \ {0} /\ CandlesOK(pages)
      /\ first = 0 => pages = {} /\ cursor = end /\ remaining = limit
      /\ first # 0 => PagesOK
  BY <1>1 DEF DownloadInv
<1>3. clock # 0 /\ limit \in Nat \ {0} /\ end \in Nat
  BY <1>2, Constants
<1> QED
  BY <1>1, <1>2, <1>3

(* Before a page: what has been fetched, and what the page may show.       *)
LEMMA BeforePage ==
  ASSUME DownloadInv, Fetch,
         NEW cur, cur = IF cursor = None \/ cursor > clock THEN clock ELSE cursor,
         NEW at, at = IF first = 0 THEN clock ELSE first,
         NEW bound, bound = IF end = None \/ end > at THEN at ELSE end,
         NEW U, U = OpensUpTo(bound)
  PROVE  /\ at \in Nat \ {0} /\ at <= clock /\ bound \in Nat /\ cur \in Nat
         /\ Bounded(U) /\ \A t \in U : t \in Nat /\ t >= FirstCandle
         /\ OpensUpTo(cur) = UpTo(U, cur) /\ cur <= bound
         /\ Opens(pages) = After(U, cur)
         /\ Cardinality(Opens(pages)) + remaining = limit
<1>1. /\ clock \in Nat \ {0} /\ step = "FETCH" /\ limit \in Nat \ {0} /\ end \in Nat
      /\ remaining \in Nat \ {0}
  BY Fetching
<1>2. CASE first = 0
  <2>1. pages = {} /\ cursor = end /\ remaining = limit
    BY <1>2, Fetching
  <2>2. at = clock /\ cur = bound /\ bound \in Nat
    BY <1>1, <1>2, <2>1
  <2>3. Bounded(U) /\ \A t \in U : t \in Nat /\ t >= FirstCandle /\ t <= bound
    BY <2>2, OpensUpToFacts
  <2>4. OpensUpTo(cur) = UpTo(U, cur)
    BY <2>2, <2>3 DEF UpTo
  <2>5. After(U, cur) = {}
    BY <2>2, <2>3 DEF After
  <2>6. Opens(pages) = {} /\ Cardinality(Opens(pages)) = 0
    BY <2>1, FS_EmptySet DEF Opens
  <2>7. Cardinality(Opens(pages)) + remaining = limit
    BY <1>1, <2>1, <2>6
  <2>8. at \in Nat \ {0} /\ at <= clock
    <3>1. at = clock
      BY <2>2
    <3>2. clock \in Nat /\ clock # 0 /\ clock <= clock
      BY <1>1
    <3> QED
      BY <3>1, <3>2
  <2>9. cur \in Nat /\ cur <= bound
    <3>1. cur = bound /\ bound \in Nat
      BY <2>2
    <3>2. bound <= bound
      BY <3>1
    <3> QED
      BY <3>1, <3>2
  <2> QED
    BY <2>2, <2>3, <2>4, <2>5, <2>6, <2>7, <2>8, <2>9
<1>3. CASE first # 0
  <2>1. /\ PagesOK /\ first \in Nat /\ first <= clock /\ cursor \in Nat \ {None} /\ cursor <= Bound
        /\ Opens(pages) = After(Universe, cursor)
        /\ Cardinality(Opens(pages)) + remaining = limit
    BY <1>1, <1>3, Fetching DEF PagesOK
  <2>2. at = first /\ bound = Bound /\ U = Universe /\ bound \in Nat /\ bound <= clock
    BY <1>1, <1>3, <2>1 DEF Bound, Universe
  <2>3. cur = cursor /\ cur <= bound
    BY <1>1, <2>1, <2>2
  <2>4. Bounded(U) /\ \A t \in U : t \in Nat /\ t >= FirstCandle
    BY <2>2, OpensUpToFacts
  <2>5. OpensUpTo(cur) = UpTo(U, cur)
    BY <2>1, <2>2, <2>3, OpensUpToFacts
  <2> QED
    BY <1>1, <1>3, <2>1, <2>2, <2>3, <2>4, <2>5 DEF None
<1> QED
  BY <1>2, <1>3

(* A page that is not empty joins those before it without a gap.           *)
LEMMA FetchInv ==
  ASSUME DownloadInv, Fetch
  PROVE  DownloadInv'
<1> DEFINE cur == IF cursor = None \/ cursor > clock THEN clock ELSE cursor
           at == IF first = 0 THEN clock ELSE first
           bound == IF end = None \/ end > at THEN at ELSE end
           U == OpensUpTo(bound)
           size == BatchSize
           batch == Klines(cursor, size)
           N == Opens(batch)
<1>1. /\ clock \in Nat /\ clock >= FirstCandle /\ step = "FETCH" /\ limit \in Limits
      /\ start \in StartTimes /\ end \in EndTimes
      /\ remaining \in Nat \ {0} /\ limit \in Nat \ {0} /\ cursor \in Nat /\ CandlesOK(pages)
  BY Fetching DEF PagesOK
<1>2. /\ at \in Nat \ {0} /\ at <= clock /\ bound \in Nat /\ cur \in Nat
      /\ Bounded(U) /\ (\A t \in U : t \in Nat /\ t >= FirstCandle)
      /\ OpensUpTo(cur) = UpTo(U, cur) /\ cur <= bound
      /\ Opens(pages) = After(U, cur)
      /\ Cardinality(Opens(pages)) + remaining = limit
  BY BeforePage
<1>3. size \in Nat \ {0} /\ size <= remaining
  BY <1>1, Constants DEF BatchSize
<1>4. /\ N = NewestOf(UpTo(U, cur), size) /\ CandlesOK(batch)
      /\ IsFiniteSet(batch) /\ Cardinality(batch) = Cardinality(N)
  <2>1. /\ N = NewestOf(OpensUpTo(cur), size) /\ CandlesOK(batch)
        /\ IsFiniteSet(batch) /\ Cardinality(batch) = Cardinality(N)
    <3> HIDE DEF size
    <3> QED
      BY <1>1, <1>3, KlinesFacts
  <2> QED
    BY <1>2, <2>1
<1>5. /\ clock' = clock /\ limit' = limit /\ start' = start /\ end' = end
      /\ first' = at
  BY DEF Fetch, request_vars
<1>6. IF batch = {}
        THEN step' = "FILTER" /\ pages' = pages
        ELSE /\ pages' = batch \cup {c \in pages : \A d \in batch : d.open # c.open}
             /\ remaining' = remaining - Cardinality(batch)
             /\ cursor' = Min(N) - 1
             /\ step' = IF Cardinality(batch) < size \/ remaining' = 0 THEN "FILTER" ELSE "FETCH"
  BY DEF Fetch, CursorBefore, Opens
<1>7. Bound' = bound /\ Universe' = U /\ Asked' = NewestOf(U, limit)
  BY <1>5 DEF Bound, Universe, Asked
<1>8. limit' \in Limits /\ start' \in StartTimes /\ end' \in EndTimes
  BY <1>1, <1>5
<1> HIDE DEF cur, at, bound, U, size, batch, N
<1>9. NewestOf(U, limit) \subseteq U /\ \A t \in After(U, cur) : t \in U
  BY DEF NewestOf, After
<1>10. CASE batch = {}
  <2>1. step' = "FILTER" /\ pages' = pages
    BY <1>6, <1>10
  <2>2. N = {} /\ Cardinality(N) < size
    BY <1>3, <1>10, FS_EmptySet DEF Opens, N
  <2>3. UpTo(U, cur) = {}
    <3>1. Bounded(UpTo(U, cur))
      BY <1>2, BoundedFacts DEF UpTo
    <3>2. N = UpTo(U, cur)
      BY <1>3, <1>4, <2>2, <3>1, NewestFacts
    <3> QED
      BY <2>2, <3>2
  <2>4. After(U, cur) = U
    <3>1. \A t \in U : t > cur
      BY <1>2, <2>3 DEF UpTo
    <3> QED
      BY <3>1 DEF After
  <2>5. PagesOK'
    BY <1>2, <1>5, <1>7, <1>9, <2>1, <2>4 DEF PagesOK, Opens
  <2> QED
    BY <1>1, <1>2, <1>5, <1>8, <2>1, <2>5 DEF DownloadInv
<1>11. CASE batch # {}
  <2> DEFINE m == Min(N)
  <2>1. N # {}
    BY <1>11 DEF Opens, N
  <2>2. /\ IsFiniteSet(N) /\ Cardinality(N) \in Nat \ {0} /\ Cardinality(N) <= size
        /\ m \in N /\ m <= cur
        /\ After(U, m - 1) = After(U, cur) \cup N
        /\ Cardinality(After(U, m - 1)) = Cardinality(After(U, cur)) + Cardinality(N)
        /\ Cardinality(N) < size => After(U, m - 1) = U
    <3>1. cur \in Int /\ N = NewestOf(UpTo(U, cur), size)
      BY <1>2, <1>4
    <3> QED
      BY <1>2, <1>3, <2>1, <3>1, OnePage
  <2>3. /\ pages' = batch \cup {c \in pages : \A d \in batch : d.open # c.open}
        /\ remaining' = remaining - Cardinality(N)
        /\ cursor' = m - 1
        /\ step' = IF Cardinality(N) < size \/ remaining' = 0 THEN "FILTER" ELSE "FETCH"
    BY <1>4, <1>6, <1>11
  <2> HIDE DEF m
  <2>4. N \subseteq U /\ m \in Nat /\ m > 1
    BY <1>2, <1>4, <2>2, Constants DEF NewestOf, UpTo
  <2>5. Opens(pages') = After(U, m - 1)
    <3>1. Opens(pages') = N \cup Opens(pages)
      BY <2>3 DEF Opens, N
    <3> QED
      BY <1>2, <2>2, <3>1
  <2>6. CandlesOK(pages')
    BY <1>1, <1>4, <2>3 DEF CandlesOK
  <2>7. /\ Cardinality(Opens(pages')) + remaining' = limit
        /\ remaining' \in Nat
    <3>1. Cardinality(Opens(pages)) \in Nat
      <4>1. After(U, cur) \subseteq U
        BY DEF After
      <4> QED
        BY <1>2, <4>1, BoundedFacts
    <3> QED
      BY <1>1, <1>2, <1>3, <2>2, <2>3, <2>5, <3>1
  <2>8. step' = "FETCH" => remaining' # 0
    BY <2>3
  <2>9. step' = "FILTER" => NewestOf(U, limit) \subseteq Opens(pages')
    <3>1. CASE Cardinality(N) < size
      BY <1>9, <2>2, <2>5, <3>1
    <3>2. CASE remaining' = 0
      <4>1. Cardinality(After(U, m - 1)) = limit
        <5>1. Cardinality(Opens(pages')) + remaining' = limit
          BY <2>7
        <5>2. Cardinality(After(U, m - 1)) \in Nat
          <6>1. After(U, m - 1) \subseteq U
            BY DEF After
          <6> QED
            BY <1>2, <6>1, BoundedFacts
        <5> QED
          BY <1>1, <2>5, <3>2, <5>1, <5>2
      <4> QED
        BY <1>1, <1>2, <2>4, <2>5, <4>1, NewestReached
    <3> QED
      BY <2>3, <3>1, <3>2
  <2>10. PagesOK'
    <3>1. Opens(pages)' \subseteq U
      BY <2>5 DEF After, Opens
    <3>2. m - 1 \in Nat \ {None} /\ m - 1 <= bound
      BY <1>2, <2>2, <2>4 DEF None
    <3>3. step' \in {"FETCH", "FILTER"}
      BY <2>3
    <3> QED
      BY <1>2, <1>5, <1>7, <2>3, <2>5, <2>7, <2>9, <3>1, <3>2, <3>3 DEF PagesOK, Opens
  <2> QED
    BY <1>1, <1>2, <1>5, <1>8, <2>3, <2>6, <2>7, <2>8, <2>10 DEF DownloadInv
<1> QED
  BY <1>10, <1>11

(* What does not touch the request keeps the pages as they are, however    *)
(* late it is.                                                             *)
LEMMA PagesKept ==
  ASSUME PagesOK, clock \in Nat, clock' \in Nat, clock <= clock',
         UNCHANGED <<limit, start, end, remaining, cursor, pages, first>>,
         \/ step' = step
         \/ step \in {"FILTER", "DONE"} /\ step' \in {"FILTER", "DONE"}
  PROVE  PagesOK'
<1>1. Bound' = Bound /\ Universe' = Universe /\ Asked' = Asked /\ Opens(pages)' = Opens(pages)
  BY DEF Bound, Universe, Asked, Opens
<1>2. first' \in Nat /\ first' <= clock'
  BY DEF PagesOK
<1>3. CASE step' = step
  BY <1>1, <1>2, <1>3 DEF PagesOK
<1>4. CASE step \in {"FILTER", "DONE"} /\ step' \in {"FILTER", "DONE"}
  BY <1>1, <1>2, <1>4 DEF PagesOK
<1> QED
  BY <1>3, <1>4

(* At the start nothing has been asked for.                                *)
LEMMA DownloadInitInv == DownloadInit => DownloadInv
BY Constants DEF DownloadInit, DownloadInv, CandlesOK

(* Every step of the download keeps the invariant.                         *)
LEMMA DownloadStep ==
  ASSUME DownloadInv, [DownloadNext]_download_vars
  PROVE  DownloadInv'
<1>1. CASE TimePasses
  <2>1. /\ clock' = clock + 1 /\ clock \in Nat /\ clock >= FirstCandle /\ FirstCandle \in Nat
        /\ step' = step /\ limit' = limit /\ start' = start /\ end' = end
        /\ remaining' = remaining /\ cursor' = cursor /\ pages' = pages /\ first' = first
        /\ downloaded' = downloaded
    BY <1>1, Constants DEF TimePasses, DownloadInv, request_vars, loop_vars
  <2>2. clock' \in Nat /\ clock <= clock' /\ clock' >= FirstCandle
    BY <2>1
  <2>3. step # "IDLE" /\ first # 0 => PagesOK'
    BY <2>1, <2>2, PagesKept DEF DownloadInv
  <2>4. CandlesOK(pages')
    BY <2>1 DEF DownloadInv
  <2> QED
    BY <2>1, <2>2, <2>3, <2>4 DEF DownloadInv
<1>2. CASE Request
  <2>1. /\ clock' = clock /\ clock \in Nat /\ clock >= FirstCandle
        /\ step' = "FETCH" /\ first' = 0 /\ pages' = {} /\ cursor' = end'
        /\ remaining' = limit' /\ limit' \in Limits /\ start' \in StartTimes /\ end' \in EndTimes
    BY <1>2 DEF Request, DownloadInv
  <2>2. remaining' \in Nat \ {0}
    BY <2>1, Constants
  <2>3. CandlesOK(pages')
    BY <2>1 DEF CandlesOK
  <2> QED
    BY <2>1, <2>2, <2>3 DEF DownloadInv
<1>3. CASE Fetch
  BY <1>3, FetchInv
<1>4. CASE Filter
  <2>1. /\ clock' = clock /\ clock \in Nat /\ clock >= FirstCandle
        /\ step = "FILTER" /\ step' = "DONE" /\ limit' = limit /\ start' = start /\ end' = end
        /\ remaining' = remaining /\ cursor' = cursor /\ pages' = pages /\ first' = first
        /\ downloaded' = {c \in pages : /\ c.open >= start
                                        /\ end # None => c.close <= end
                                        /\ c.close < clock}
    BY <1>4 DEF Filter, DownloadInv, request_vars, loop_vars
  <2>2. /\ first # 0 /\ PagesOK /\ CandlesOK(pages)
        /\ limit \in Limits /\ start \in StartTimes /\ end \in EndTimes
    BY <2>1 DEF DownloadInv
  <2>3. PagesOK' /\ CandlesOK(pages')
    BY <2>1, <2>2, PagesKept
  <2>4. ASSUME NEW c \in pages, c.open >= start, end # None => c.close <= end, c.close < first
        PROVE  c \in downloaded'
    <3>1. c.close \in Int
      <4>1. c.open \in Nat /\ c.close = c.open + Interval - 1 /\ Interval \in Nat
        BY <2>2, Constants DEF CandlesOK, CloseOf
      <4> QED
        BY <4>1
    <3>2. first \in Nat /\ first <= clock
      BY <2>2 DEF PagesOK
    <3>3. c.close < clock
      BY <2>1, <2>4, <3>1, <3>2
    <3> QED
      BY <2>1, <2>4, <3>3
  <2>5. downloaded' \subseteq pages'
    BY <2>1
  <2>6. \A c \in pages' : /\ c.open >= start'
                          /\ end' # None => c.close <= end'
                          /\ c.close < first'
                          => c \in downloaded'
    BY <2>1, <2>4
  <2> QED
    BY <2>1, <2>2, <2>3, <2>5, <2>6 DEF DownloadInv
<1>5. CASE UNCHANGED download_vars
  <2>1. /\ clock' = clock /\ clock \in Nat /\ step' = step
        /\ limit' = limit /\ start' = start /\ end' = end
        /\ remaining' = remaining /\ cursor' = cursor /\ pages' = pages /\ first' = first
        /\ downloaded' = downloaded
    BY <1>5 DEF download_vars, request_vars, loop_vars, DownloadInv
  <2>2. clock' \in Nat /\ clock <= clock'
    BY <2>1
  <2>3. step # "IDLE" /\ first # 0 => PagesOK'
    BY <2>1, <2>2, PagesKept DEF DownloadInv
  <2>4. CandlesOK(pages')
    BY <2>1 DEF DownloadInv
  <2> QED
    BY <2>1, <2>3, <2>4 DEF DownloadInv
<1> QED
  BY <1>1, <1>2, <1>3, <1>4, <1>5 DEF DownloadNext

(* The invariant of the download (get_candles): at every turn of the loop  *)
(* the pages hold exactly the candles after the cursor.                    *)
THEOREM DownloadInvariant == DownloadSpec => []DownloadInv
<1>1. DownloadInv /\ [DownloadNext]_download_vars => DownloadInv'
  BY DownloadStep
<1> QED
  BY <1>1, DownloadInitInv, PTL DEF DownloadSpec

(* Paging loses nothing and keeps no candle twice, however long the pages  *)
(* take: what was asked for when the first page came is in the result of   *)
(* get_candles.                                                            *)
THEOREM PagesAreComplete == DownloadSpec => []PagesComplete
<1>1. DownloadInv => PagesComplete
  <2> SUFFICES ASSUME DownloadInv, step = "DONE"
               PROVE  /\ {t \in Asked : /\ t >= start
                                        /\ CloseOf(t) < first
                                        /\ end # None => CloseOf(t) <= end} \subseteq Opens(downloaded)
                      /\ Cardinality(Opens(downloaded)) = Cardinality(downloaded)
    BY DEF PagesComplete
  <2>1. /\ PagesOK /\ CandlesOK(pages) /\ downloaded \subseteq pages /\ end \in EndTimes
        /\ \A c \in pages : /\ c.open >= start
                            /\ end # None => c.close <= end
                            /\ c.close < first
                            => c \in downloaded
    BY DEF DownloadInv
  <2>2. Asked \subseteq Opens(pages) /\ Opens(pages) \subseteq Universe /\ first \in Nat
    BY <2>1 DEF PagesOK
  <2>3. ASSUME NEW t \in Asked, t >= start, CloseOf(t) < first, end # None => CloseOf(t) <= end
        PROVE  t \in Opens(downloaded)
    <3>1. PICK c \in pages : c.open = t
      BY <2>2, <2>3 DEF Opens
    <3>2. c.close = CloseOf(t)
      BY <2>1, <3>1 DEF CandlesOK
    <3>3. c \in downloaded
      BY <2>1, <2>3, <3>1, <3>2
    <3> QED
      BY <3>1, <3>3 DEF Opens
  <2>4. Bound \in Nat
    BY <2>1, <2>2, Constants DEF Bound
  <2>5. IsFiniteSet(Opens(downloaded))
    <3>1. Opens(downloaded) \subseteq Universe
      BY <2>1, <2>2 DEF Opens
    <3>2. Bounded(Universe)
      BY <2>4, OpensUpToFacts DEF Universe
    <3> QED
      BY <3>1, <3>2, BoundedFacts
  <2>6. \A c, d \in downloaded : c.open = d.open => c = d
    BY <2>1 DEF CandlesOK
  <2>7. Cardinality(Opens(downloaded)) = Cardinality(downloaded)
    BY <2>5, <2>6, OpensCount
  <2> QED
    BY <2>3, <2>7
<1> QED
  BY <1>1, DownloadInvariant, PTL
=============================================================================
