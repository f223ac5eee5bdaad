-------------------------- MODULE AggregationProofs --------------------------
(***************************************************************************)
(* Resampler, DataReplay and ResampledFeed make the same bars, and no bar  *)
(* is stamped too early, for every set of timeframes, every number of      *)
(* source bars and all times and bodies they may have.                     *)
(*                                                                         *)
(* Arithmetic first.  The two numberings of periods, the aggregators' own  *)
(* (GetBucket, by day and part of the day) and the calendar's              *)
(* (PeriodStart, by absolute time), name different things; SameBucket      *)
(* shows that they cut at the same bars if a day has whole periods.  A     *)
(* stamp lies after the last bar of its period (StampAfter) and not after  *)
(* the first bar of the next (StampBefore).                                *)
(*                                                                         *)
(* Then ResampledFeed.  Buckets and the volume in BodyOf are recursive     *)
(* functions; for both, that the function exists, does not depend on what  *)
(* comes later, and grows by one step with one bar (BucketsMore,           *)
(* BodyMore).  So the feed, which sees the whole source at once, can be    *)
(* compared with the two walks, which see it bar by bar.                   *)
(*                                                                         *)
(* AInv says where the walks stand after every bar: the bars made are the  *)
(* states DataReplay has shown at the breaks between periods (EndsOK) and  *)
(* the bodies of all buckets but the last, whose body is in the            *)
(* accumulator (BodiesOK).  There is one lemma for each part and step.     *)
(***************************************************************************)
EXTENDS Aggregation, FiniteSetTheorems, SequenceTheorems, WellFoundedInduction, TLAPS
-----------------------------------------------------------------------------
(* Division *)

LEMMA Product == \A a, b \in Nat : a * b \in Nat
OBVIOUS

LEMMA ProductGrows ==
  ASSUME NEW a \in Int, NEW b \in Int, a <= b, NEW w \in Nat
  PROVE  a * w <= b * w
<1>1. b = a + (b - a) /\ b - a \in Nat
  OBVIOUS
<1>2. (b - a) * w \in Nat
  BY <1>1, Product
<1>3. (a + (b - a)) * w = a * w + (b - a) * w
  OBVIOUS
<1> QED  BY <1>1, <1>2, <1>3

LEMMA DivMod ==
  ASSUME NEW x \in Nat, NEW w \in Nat \ {0}
  PROVE  /\ x \div w \in Nat /\ x % w \in 0 .. w - 1
         /\ x = (x \div w) * w + (x % w)
OBVIOUS

LEMMA DivUnique ==
  ASSUME NEW q \in Nat, NEW w \in Nat \ {0}, NEW r \in 0 .. w - 1, NEW x, x = q * w + r
  PROVE  x \div w = q
<1>1. x \in Nat /\ q * w \in Nat
  BY Product
<1> DEFINE p == x \div w  s == x % w
<1>3. p \in Nat /\ s \in 0 .. w - 1 /\ x = p * w + s
  BY <1>1, DivMod
<1> HIDE DEF p, s
<1>4. CASE p < q
  <2>1. (p + 1) * w <= q * w
    BY <1>3, <1>4, ProductGrows
  <2>2. (p + 1) * w = p * w + w
    BY <1>3
  <2>3. p * w \in Nat
    BY <1>3, Product
  <2> QED  BY <1>1, <1>3, <2>1, <2>2, <2>3
<1>5. CASE q < p
  <2>1. (q + 1) * w <= p * w
    BY <1>3, <1>5, ProductGrows
  <2>2. (q + 1) * w = q * w + w
    OBVIOUS
  <2>3. p * w \in Nat
    BY <1>3, Product
  <2> QED  BY <1>1, <1>3, <2>1, <2>2, <2>3
<1>6. CASE p = q
  BY <1>6 DEF p
<1> QED  BY <1>3, <1>4, <1>5, <1>6

LEMMA DivGrows ==
  ASSUME NEW s \in Int, NEW t \in Int, NEW d \in Nat \ {0}, s <= t
  PROVE  s \div d <= t \div d
OBVIOUS

\* Dividing twice is dividing by the product, ...
LEMMA DivTwice ==
  ASSUME NEW x \in Nat, NEW a \in Nat \ {0}, NEW b \in Nat \ {0}
  PROVE  x \div (b * a) = (x \div a) \div b
<1> DEFINE q == x \div a  r == x % a  p == q \div b  s == q % b
<1>1. q \in Nat /\ r \in 0 .. a - 1 /\ x = q * a + r
  BY DivMod
<1> HIDE DEF q, r
<1>2. p \in Nat /\ s \in 0 .. b - 1 /\ q = p * b + s
  BY <1>1, DivMod
<1> HIDE DEF p, s
<1> DEFINE w == b * a  rest == s * a + r
<1>3. w \in Nat \ {0}
  OBVIOUS
<1>4. x = p * w + rest
  <2>1. q * a = (p * b + s) * a
    BY <1>2
  <2>2. (p * b + s) * a = p * (b * a) + s * a
    BY <1>2
  <2> QED  BY <1>1, <1>2, <2>1, <2>2
<1>5. rest \in 0 .. w - 1
  <2>1. s * a \in Nat
    BY <1>2, Product
  <2>2. (s + 1) * a <= b * a
    BY <1>2, ProductGrows
  <2>3. (s + 1) * a = s * a + a
    BY <1>2
  <2> QED  BY <1>1, <1>2, <1>3, <2>1, <2>2, <2>3
<1> HIDE DEF w, rest
<1>6. x \div w = p
  BY <1>2, <1>3, <1>4, <1>5, DivUnique
<1> QED  BY <1>6 DEF w, p, q

\* ... and so is counting the parts of days when a day has whole parts.
LEMMA DivInDay ==
  ASSUME NEW x \in Nat, NEW d \in Nat \ {0}, NEW n \in Nat \ {0}, d % n = 0
  PROVE  x \div n = (x \div d) * (d \div n) + ((x % d) \div n)
<1> DEFINE m == d \div n  q == x \div d  r == x % d  a == r \div n  b == r % n
<1>1. m \in Nat /\ d = m * n
  BY DivMod
<1> HIDE DEF m
<1>2. q \in Nat /\ r \in 0 .. d - 1 /\ x = q * d + r
  BY DivMod
<1> HIDE DEF q, r
<1>3. a \in Nat /\ b \in 0 .. n - 1 /\ r = a * n + b
  <2>1. r \in Nat
    BY <1>2
  <2> QED  BY <2>1, DivMod
<1> HIDE DEF a, b
<1> DEFINE k == q * m + a
<1>4. k \in Nat
  BY <1>1, <1>2, <1>3, Product
<1>5. x = k * n + b
  <2>1. q * d = q * (m * n)
    BY <1>1
  <2>2. (q * m + a) * n = q * (m * n) + a * n
    BY <1>1, <1>2, <1>3
  <2> QED  BY <1>2, <1>3, <2>1, <2>2
<1> HIDE DEF k
<1>6. x \div n = k
  BY <1>3, <1>4, <1>5, DivUnique
<1> QED  BY <1>6 DEF k, q, m, a, r

LEMMA PartsOfDay ==
  ASSUME NEW r \in Nat, NEW d \in Nat \ {0}, NEW n \in Nat \ {0}, d % n = 0, r < d
  PROVE  r \div n < d \div n
<1> DEFINE m == d \div n  a == r \div n
<1>1. m \in Nat /\ d = m * n
  BY DivMod
<1>2. a \in Nat /\ r % n \in 0 .. n - 1 /\ r = a * n + (r % n)
  BY DivMod
<1> HIDE DEF m, a
<1> SUFFICES ASSUME m <= a PROVE FALSE
  BY <1>1, <1>2 DEF m, a
<1>3. m * n <= a * n /\ a * n \in Nat
  BY <1>1, <1>2, ProductGrows, Product
<1> QED  BY <1>1, <1>2, <1>3

LEMMA ProductInjective ==
  ASSUME NEW a \in Int, NEW b \in Int, NEW w \in Nat \ {0}, a * w = b * w
  PROVE  a = b
<1>1. ASSUME NEW x \in Int, NEW y \in Int, x < y PROVE x * w < y * w
  <2>1. (x + 1) * w <= y * w
    BY <1>1, ProductGrows
  <2>2. (x + 1) * w = x * w + w
    OBVIOUS
  <2>3. x * w \in Int /\ y * w \in Int
    OBVIOUS
  <2> QED  BY <2>1, <2>2, <2>3
<1>2. a * w \in Int /\ b * w \in Int
  OBVIOUS
<1>3. CASE a < b
  <2>1. a * w < b * w
    BY <1>1, <1>3
  <2> QED  BY <1>2, <2>1
<1>4. CASE b < a
  <2>1. b * w < a * w
    BY <1>1, <1>4
  <2> QED  BY <1>2, <2>1
<1> QED  BY <1>3, <1>4
-----------------------------------------------------------------------------
(* The calendar *)

\* Every time is followed by a first start of a month.
MonthsGoOn ==
  \A t \in Int : \E e \in MonthStarts :
    e > t /\ \A s \in MonthStarts : s > t => e <= s

LEMMA DayType ==
  /\ DayLength \in Nat \ {0} /\ DayLength % 2 = 0
  /\ \A t \in Nat : /\ Day(t) \in Nat /\ t % DayLength \in 0 .. DayLength - 1
                    /\ t = Day(t) * DayLength + (t % DayLength)
<1>1. DayLength \in Nat \ {0} /\ DayLength % 2 = 0
  BY IntervalAssumption, AggregationAssumption
<1>2. ASSUME NEW t \in Nat
      PROVE  /\ t \div DayLength \in Nat /\ t % DayLength \in 0 .. DayLength - 1
             /\ t = (t \div DayLength) * DayLength + (t % DayLength)
  BY <1>1, DivMod
<1> QED  BY <1>1, <1>2 DEF Day

LEMMA DurationType == \A tf \in TimeFrames : DurationOf(tf) \in Nat \ {0} /\ tf.n \in Nat \ {0}
<1> SUFFICES ASSUME NEW tf \in TimeFrames PROVE DurationOf(tf) \in Nat \ {0} /\ tf.n \in Nat \ {0}
  OBVIOUS
<1>1. tf.n \in Nat \ {0} /\ DayLength \in Nat \ {0}
  BY IntervalAssumption DEF TimeFrames
<1>2. \A m, n \in Nat \ {0} : m * n \in Nat \ {0}
  OBVIOUS
<1> QED  BY <1>1, <1>2 DEF DurationOf

LEMMA NextMonth ==
  ASSUME MonthsGoOn, NEW t \in Int
  PROVE  LET m == Min({s \in MonthStarts : s > t})
         IN  /\ m \in MonthStarts /\ m \in Int /\ m > t
             /\ \A s \in MonthStarts : s > t => m <= s
<1> DEFINE S == {s \in MonthStarts : s > t}
<1>1. PICK e \in S : \A s \in S : e <= s
  BY DEF MonthsGoOn
<1>2. Min(S) \in S /\ \A s \in S : Min(S) <= s
  BY <1>1 DEF Min
<1> QED  BY <1>2, IntervalAssumption

\* A later time is in no earlier period.
LEMMA CalendarGrows ==
  ASSUME MonthsGoOn, NEW s \in Nat, NEW t \in Nat, s <= t, NEW tf \in TimeFrames
  PROVE  PeriodEnd(s, tf) <= PeriodEnd(t, tf)
<1>1. CASE tf.unit = "Weeks"
  <2> DEFINE c == s \div DayLength  d == t \div DayLength
             x == c - ((c + 3) % 7)  y == d - ((d + 3) % 7)
  <2>1. DayLength \in Nat \ {0} /\ c \in Int /\ d \in Int /\ c <= d
    BY IntervalAssumption, DivGrows
  <2>2. PeriodEnd(s, tf) = x * DayLength + 7 * DayLength /\ PeriodEnd(t, tf) = y * DayLength + 7 * DayLength
    BY <1>1 DEF PeriodEnd, PeriodStart
  <2> HIDE DEF c, d
  <2>3. x <= y /\ x \in Int /\ y \in Int
    BY <2>1
  <2> HIDE DEF x, y
  <2>4. x * DayLength <= y * DayLength
    BY <2>1, <2>3, ProductGrows
  <2>5. x * DayLength \in Int /\ y * DayLength \in Int
    BY <2>1, <2>3
  <2> QED  BY <2>1, <2>2, <2>4, <2>5
<1>2. CASE tf.unit = "Months"
  <2>1. PeriodEnd(s, tf) = Min({m \in MonthStarts : m > s})
        /\ PeriodEnd(t, tf) = Min({m \in MonthStarts : m > t})
    BY <1>2 DEF PeriodEnd
  <2>2. /\ PeriodEnd(t, tf) \in MonthStarts /\ PeriodEnd(t, tf) \in Int
        /\ PeriodEnd(t, tf) > t
    BY <2>1, NextMonth
  <2>3. \A m \in MonthStarts : m > s => PeriodEnd(s, tf) <= m
    BY <2>1, NextMonth
  <2>4. PeriodEnd(t, tf) > s
    BY <2>2
  <2> QED  BY <2>2, <2>3, <2>4
<1>3. CASE tf.unit \in {"Minutes", "Days"}
  <2> DEFINE d == DurationOf(tf)  a == s \div d  b == t \div d
  <2>1. d \in Nat \ {0}
    BY DurationType
  <2>2. PeriodEnd(s, tf) = a * d + d /\ PeriodEnd(t, tf) = b * d + d
    BY <1>3 DEF PeriodEnd, PeriodStart
  <2> HIDE DEF d
  <2>3. a \in Int /\ b \in Int /\ a <= b
    BY <2>1, DivGrows
  <2> HIDE DEF a, b
  <2>4. a * d <= b * d /\ a * d \in Int /\ b * d \in Int
    BY <2>1, <2>3, ProductGrows
  <2> QED  BY <2>1, <2>2, <2>4
<1> QED  BY <1>1, <1>2, <1>3 DEF TimeFrames, Units
-----------------------------------------------------------------------------
(* The buckets the aggregators number themselves, and those of the calendar *)

BucketIn(tf, t) ==
  CASE tf.unit = "Minutes" -> <<Day(t), (t % DayLength) \div tf.n>>
    [] tf.unit = "Days"    -> <<Day(t) \div tf.n, 0>>
    [] tf.unit = "Weeks"   -> <<(Day(t) + 3) \div 7, 0>>
    [] tf.unit = "Months"  -> <<Max({s \in MonthStarts : s <= t}), 0>>

LEMMA BucketIs == \A t : GetBucket(t) = BucketIn(target, t)
BY DEF GetBucket, BucketIn

LEMMA SameBucket ==
  ASSUME NEW tf \in TimeFrames, Canonical(tf), NEW s \in Nat, NEW t \in Nat
  PROVE  BucketIn(tf, s) = BucketIn(tf, t) <=> PeriodStart(s, tf) = PeriodStart(t, tf)
<1> DEFINE d == DayLength  n == tf.n
<1>0. d \in Nat \ {0} /\ n \in Nat \ {0}
  BY DayType, DurationType
<1>1. CASE tf.unit = "Minutes"
  <2> DEFINE m == d \div n
             p == Day(s)  a == (s % d) \div n  q == Day(t)  b == (t % d) \div n
             x == s \div n  y == t \div n
  <2>1. BucketIn(tf, s) = <<p, a>> /\ BucketIn(tf, t) = <<q, b>>
    BY <1>1 DEF BucketIn
  <2>2. PeriodStart(s, tf) = x * n /\ PeriodStart(t, tf) = y * n
    BY <1>1 DEF PeriodStart, DurationOf
  <2>3. d % n = 0
    BY <1>1 DEF Canonical
  <2>4. x = p * m + a /\ y = q * m + b
    BY <1>0, <2>3, DivInDay DEF Day
  <2>5. p \in Nat /\ q \in Nat /\ s % d \in 0 .. d - 1 /\ t % d \in 0 .. d - 1
    BY DayType
  <2> DEFINE e == s % d  f == t % d
  <2>6. e \in Nat /\ e < d /\ f \in Nat /\ f < d
    BY <1>0, <2>5
  <2>7. m \in Nat /\ a \in Nat /\ b \in Nat
    <3>1. e \div n \in Nat /\ f \div n \in Nat /\ d \div n \in Nat
      <4> HIDE DEF e, f, d, n
      <4> QED  BY <1>0, <2>6, DivMod
    <3> QED  BY <3>1
  <2>8. a < m /\ b < m
    <3> HIDE DEF e, f
    <3> QED  BY <1>0, <2>3, <2>6, PartsOfDay
  <2> HIDE DEF m, p, a, q, b, x, y, d, n
  <2>9. m \in Nat \ {0} /\ a \in 0 .. m - 1 /\ b \in 0 .. m - 1
    BY <2>7, <2>8
  <2>10. x \div m = p /\ y \div m = q
    BY <2>4, <2>5, <2>9, DivUnique
  <2>11. x = y <=> p = q /\ a = b
    <3>1. p * m \in Nat
      BY <2>5, <2>9, Product
    <3> QED  BY <2>4, <2>7, <2>10, <3>1
  <2>12. x \in Int /\ y \in Int
    BY <2>4, <2>5, <2>9, Product
  <2>13. x * n = y * n <=> x = y
    BY <1>0, <2>12, ProductInjective
  <2> QED  BY <2>1, <2>2, <2>11, <2>13
<1>2. CASE tf.unit = "Days"
  <2> DEFINE w == n * d  x == s \div w  y == t \div w
  <2>1. BucketIn(tf, s) = <<Day(s) \div n, 0>> /\ BucketIn(tf, t) = <<Day(t) \div n, 0>>
    BY <1>2 DEF BucketIn
  <2>2. PeriodStart(s, tf) = x * w /\ PeriodStart(t, tf) = y * w
    BY <1>2 DEF PeriodStart, DurationOf
  <2>3. x = Day(s) \div n /\ y = Day(t) \div n
    BY <1>0, DivTwice DEF Day
  <2>4. w \in Nat \ {0}
    BY <1>0
  <2> HIDE DEF w
  <2>5. x \in Int /\ y \in Int
    BY <2>4
  <2> HIDE DEF x, y
  <2>6. x * w = y * w <=> x = y
    BY <2>4, <2>5, ProductInjective
  <2> QED  BY <2>1, <2>2, <2>3, <2>6
<1>3. CASE tf.unit = "Weeks"
  <2> DEFINE p == Day(s)  q == Day(t)  x == p - ((p + 3) % 7)  y == q - ((q + 3) % 7)
  <2>1. BucketIn(tf, s) = <<(p + 3) \div 7, 0>> /\ BucketIn(tf, t) = <<(q + 3) \div 7, 0>>
    BY <1>3 DEF BucketIn
  <2>2. PeriodStart(s, tf) = x * d /\ PeriodStart(t, tf) = y * d
    BY <1>3 DEF PeriodStart, Day
  <2>3. p \in Nat /\ q \in Nat
    BY DayType
  <2> HIDE DEF p, q
  <2>4. x = y <=> (p + 3) \div 7 = (q + 3) \div 7
    BY <2>3
  <2>5. x \in Int /\ y \in Int
    BY <2>3
  <2> HIDE DEF x, y, d
  <2>6. x * d = y * d <=> x = y
    BY <1>0, <2>5, ProductInjective
  <2> QED  BY <2>1, <2>2, <2>4, <2>6
<1>4. CASE tf.unit = "Months"
  BY <1>4 DEF BucketIn, PeriodStart
<1> QED  BY <1>1, <1>2, <1>3, <1>4 DEF TimeFrames, Units
-----------------------------------------------------------------------------
(* The times of the bars *)

StampIn(tf, last, t) ==
  IF tf.unit = "Minutes" /\ Day(last) # Day(t) THEN EndOfDay(last)
  ELSE IF tf.unit = "Minutes"
       THEN Day(last) * DayLength + ((last % DayLength) \div tf.n + 1) * tf.n
       ELSE EndOfDay(last)

LEMMA StampIs ==
  \A last, t : /\ Stamp(last, t) = StampIn(target, last, t)
               /\ ComputeBarTimestamp(last) = StampIn(target, last, last)
BY DEF Stamp, StampIn, ComputeBarTimestamp

LEMMA DayOver ==
  ASSUME NEW s \in Nat, NEW t \in Nat, s < t, Day(s) # Day(t)
  PROVE  EndOfDay(s) < t
<1> DEFINE d == DayLength  p == Day(s)  q == Day(t)  r == t % d
<1>1. /\ d \in Nat \ {0} /\ p \in Nat /\ q \in Nat /\ r \in 0 .. d - 1
      /\ t = q * d + r
  BY DayType
<1>2. p <= q
  BY <1>1, DivGrows DEF Day
<1>3. EndOfDay(s) = p * d + d - 1
  BY DEF EndOfDay
<1> HIDE DEF d, p, q, r
<1>4. p + 1 <= q
  BY <1>1, <1>2 DEF p, q
<1>5. (p + 1) * d <= q * d
  BY <1>1, <1>4, ProductGrows
<1>6. (p + 1) * d = p * d + d /\ p * d \in Nat /\ q * d \in Nat
  BY <1>1, Product
<1> QED  BY <1>1, <1>3, <1>5, <1>6

\* No bar of a whole minute is at the last half minute of a day.
LEMMA DayNotOver ==
  ASSUME NEW s \in Nat, s % 2 = 0
  PROVE  EndOfDay(s) \in Nat /\ s < EndOfDay(s)
<1> DEFINE d == DayLength  p == Day(s)  r == s % d  h == d \div 2
<1>1. /\ d \in Nat \ {0} /\ d % 2 = 0 /\ p \in Nat /\ r \in 0 .. d - 1
      /\ s = p * d + r
  BY DayType
<1>2. EndOfDay(s) = p * d + d - 1
  BY DEF EndOfDay
<1> HIDE DEF d, p, r
<1>3. h \in Nat /\ d = 2 * h
  BY <1>1
<1> HIDE DEF h
<1> DEFINE x == p * h
<1>4. x \in Nat
  BY <1>1, <1>3, Product
<1>5. p * d = 2 * x
  BY <1>1, <1>3
<1> HIDE DEF x
<1>6. s = 2 * x + r /\ r \in Nat /\ r <= 2 * h - 1
  BY <1>1, <1>3, <1>5
<1>7. r # 2 * h - 1
  BY <1>3, <1>4, <1>6
<1> QED  BY <1>1, <1>2, <1>3, <1>4, <1>5, <1>6, <1>7

\* A bar is stamped after the last source bar in it, ...
LEMMA StampAfter ==
  ASSUME NEW tf \in TimeFrames, NEW s \in Nat, s % 2 = 0, NEW t \in Nat
  PROVE  StampIn(tf, s, t) \in Nat /\ s < StampIn(tf, s, t)
<1> DEFINE d == DayLength  p == Day(s)  r == s % d  n == tf.n  a == r \div n
           b == r % n
<1>1. /\ d \in Nat \ {0} /\ p \in Nat /\ r \in 0 .. d - 1 /\ s = p * d + r
      /\ n \in Nat \ {0}
  BY DayType, DurationType
<1>2. r \in Nat
  BY <1>1
<1>3. EndOfDay(s) \in Nat /\ s < EndOfDay(s)
  BY DayNotOver
<1>4. StampIn(tf, s, t) \in {p * d + (a + 1) * n, EndOfDay(s)}
  BY DEF StampIn
<1> HIDE DEF d, p, r, n
<1>5. a \in Nat /\ b \in 0 .. n - 1 /\ r = a * n + b
  BY <1>1, <1>2, DivMod
<1> HIDE DEF a, b
<1>6. (a + 1) * n = a * n + n /\ a * n \in Nat /\ p * d \in Nat
  BY <1>1, <1>5, Product
<1>7. p * d + (a + 1) * n \in Nat /\ s < p * d + (a + 1) * n
  BY <1>1, <1>5, <1>6
<1> QED  BY <1>3, <1>4, <1>7

\* ... and not after the source bar that ends it.
LEMMA StampBefore ==
  ASSUME NEW tf \in TimeFrames, NEW s \in Nat, NEW t \in Nat, s < t,
         BucketIn(tf, s) # BucketIn(tf, t)
  PROVE  StampIn(tf, s, t) <= t
<1> DEFINE d == DayLength
<1>1. d \in Nat \ {0}
  BY DayType
<1>2. CASE Day(s) # Day(t)
  <2>1. StampIn(tf, s, t) = EndOfDay(s)
    BY <1>2 DEF StampIn
  <2>2. EndOfDay(s) < t
    BY <1>2, DayOver
  <2>3. EndOfDay(s) \in Int
    <3>1. Day(s) \in Nat
      BY DayType
    <3>2. Day(s) * DayLength \in Nat
      BY <1>1, <3>1, Product
    <3> QED  BY <1>1, <3>2 DEF EndOfDay
  <2> QED  BY <2>1, <2>2, <2>3
<1>3. CASE Day(s) = Day(t)
  <2> DEFINE p == Day(s)  r == s % d  u == t % d  n == tf.n  a == r \div n  b == u \div n
  <2>1. /\ p \in Nat /\ r \in 0 .. d - 1 /\ u \in 0 .. d - 1 /\ s = p * d + r /\ t = p * d + u
        /\ n \in Nat \ {0}
    BY <1>3, DayType, DurationType
  <2>2. r \in Nat /\ u \in Nat /\ r < u
    <3> HIDE DEF p, r, u, d
    <3>1. p * d \in Nat
      BY <1>1, <2>1, Product
    <3> QED  BY <1>1, <2>1, <3>1
  <2>3. tf.unit = "Minutes" /\ a # b
    <3>1. CASE tf.unit = "Minutes"
      BY <1>3, <3>1 DEF BucketIn
    <3>2. CASE tf.unit \in {"Days", "Weeks"}
      BY <1>3, <3>2 DEF BucketIn
    <3>3. CASE tf.unit = "Months"
      <4>1. \A m \in MonthStarts : m <= s <=> m <= t
        <5> SUFFICES ASSUME NEW m \in MonthStarts, m <= t PROVE m <= s
          <6>1. \A m \in MonthStarts : m \in Int
            BY IntervalAssumption
          <6> QED  BY <6>1
        <5>1. m \in Int /\ m % d = 0
          BY IntervalAssumption, AggregationAssumption
        <5> DEFINE k == m \div d
        <5>2. k \in Int /\ m = k * d
          BY <1>1, <5>1
        <5>3. k <= p
          BY <1>1, <1>3, <5>1, DivGrows DEF Day
        <5> HIDE DEF k, p, r, d
        <5>4. k * d <= p * d /\ k * d \in Int /\ p * d \in Int
          BY <1>1, <2>1, <5>2, <5>3, ProductGrows
        <5> QED  BY <2>1, <2>2, <5>2, <5>4
      <4>2. {m \in MonthStarts : m <= s} = {m \in MonthStarts : m <= t}
        BY <4>1
      <4> QED  BY <3>3, <4>2 DEF BucketIn
    <3> QED  BY <3>1, <3>2, <3>3 DEF TimeFrames, Units
  <2>4. StampIn(tf, s, t) = p * d + (a + 1) * n
    BY <1>3, <2>3 DEF StampIn
  <2> HIDE DEF p, r, u, n, d
  <2>5. a \in Nat /\ b \in Nat /\ u % n \in 0 .. n - 1 /\ u = b * n + (u % n)
    BY <2>1, <2>2, DivMod
  <2>6. a <= b
    <3>1. r \in Int /\ u \in Int /\ r <= u /\ n \in Nat \ {0}
      BY <2>1, <2>2
    <3> QED  BY <3>1, DivGrows
  <2>7. a + 1 <= b
    <3> HIDE DEF a, b
    <3> QED  BY <2>3, <2>5, <2>6
  <2> HIDE DEF a, b
  <2>8. (a + 1) * n <= b * n /\ b * n \in Nat /\ (a + 1) * n \in Nat /\ p * d \in Nat
    BY <1>1, <2>1, <2>5, <2>7, ProductGrows, Product
  <2> QED  BY <2>1, <2>2, <2>4, <2>5, <2>8
<1> QED  BY <1>2, <1>3
-----------------------------------------------------------------------------
(* The buckets of ResampledFeed *)

\* A set of natural numbers with 0 that is closed under successor has all.
LEMMA Induction ==
  ASSUME NEW T \in SUBSET Nat, 0 \in T, \A n \in T : n + 1 \in T
  PROVE  T = Nat
<1> DEFINE R == OpToRel(<, Nat)
           Bad == Nat \ T
<1>1. IsWellFoundedOn(R, Nat)
  BY NatLessThanWellFounded
<1>2. \A m, n \in Nat : m < n => <<m, n>> \in R
  BY DEF OpToRel
<1> HIDE DEF R
<1> SUFFICES ASSUME Bad # {} PROVE FALSE
  OBVIOUS
<1>3. PICK n \in Bad : \A m \in Bad : ~(<<m, n>> \in R)
  <2> Bad \in SUBSET Nat
    OBVIOUS
  <2> HIDE DEF Bad
  <2> QED  BY <1>1, WFMin
<1>4. n \in Nat /\ n # 0 /\ n \notin T
  OBVIOUS
<1>5. n - 1 \in Nat /\ n - 1 < n /\ (n - 1) + 1 = n
  BY <1>4
<1>6. n - 1 \notin Bad
  BY <1>2, <1>3, <1>4, <1>5
<1> QED  BY <1>4, <1>5, <1>6

BucketsAfter(bs, t, i, tf) ==
  IF bs # <<>> /\ Joins(t, bs[Len(bs)], tf)
  THEN [bs EXCEPT ![Len(bs)].to = i]
  ELSE Append(bs, [start |-> PeriodStart(t, tf), from |-> i, to |-> i])

Walks(f, ts, tf, n) ==
  f = [i \in 0 .. n |-> IF i = 0 THEN <<>> ELSE BucketsAfter(f[i - 1], ts[i], i, tf)]

LEMMA BucketsDef ==
  \A ts, tf : Buckets(ts, tf) = (CHOOSE f : Walks(f, ts, tf, Len(ts)))[Len(ts)]
BY DEF Buckets, Walks, BucketsAfter

LEMMA WalksAt ==
  ASSUME NEW f, NEW ts, NEW tf, NEW n, Walks(f, ts, tf, n), NEW i \in 0 .. n
  PROVE  f[i] = IF i = 0 THEN <<>> ELSE BucketsAfter(f[i - 1], ts[i], i, tf)
<1> DEFINE g == [j \in 0 .. n |-> IF j = 0 THEN <<>> ELSE BucketsAfter(f[j - 1], ts[j], j, tf)]
<1>1. g[i] = IF i = 0 THEN <<>> ELSE BucketsAfter(f[i - 1], ts[i], i, tf)
  OBVIOUS
<1>2. f = g
  BY DEF Walks
<1> HIDE DEF g
<1> QED  BY <1>1, <1>2

\* The walk can be made to the end, ...
LEMMA WalkExists ==
  ASSUME NEW ts, NEW tf
  PROVE  \A n \in Nat : \E f : Walks(f, ts, tf, n)
<1> DEFINE T == {n \in Nat : \E f : Walks(f, ts, tf, n)}
<1>1. 0 \in T
  <2> DEFINE f == [i \in 0 .. 0 |-> <<>>]
  <2>1. f = [i \in 0 .. 0 |-> IF i = 0 THEN <<>> ELSE BucketsAfter(f[i - 1], ts[i], i, tf)]
    <3>1. \A i \in 0 .. 0 : i = 0
      OBVIOUS
    <3> QED  BY <3>1
  <2> HIDE DEF f
  <2>2. Walks(f, ts, tf, 0)
    BY <2>1 DEF Walks
  <2> QED  BY <2>2
<1>2. ASSUME NEW k \in T PROVE k + 1 \in T
  <2>1. PICK f : Walks(f, ts, tf, k)
    OBVIOUS
  <2> DEFINE last == BucketsAfter(f[k], ts[k + 1], k + 1, tf)
             g == [i \in 0 .. k + 1 |-> IF i = k + 1 THEN last ELSE f[i]]
             G(i) == IF i = 0 THEN <<>> ELSE BucketsAfter(g[i - 1], ts[i], i, tf)
  <2>2. g = [i \in 0 .. k + 1 |-> g[i]]
    OBVIOUS
  <2>3. ASSUME NEW i \in 0 .. k + 1 PROVE g[i] = G(i)
    <3>1. CASE i = k + 1
      <4>1. i # 0 /\ i - 1 = k /\ k \in 0 .. k + 1 /\ k # k + 1
        BY <3>1
      <4>2. g[i] = last /\ g[k] = f[k]
        BY <3>1, <4>1
      <4> HIDE DEF g
      <4> QED  BY <3>1, <4>1, <4>2
    <3>2. CASE i # k + 1
      <4>1. i \in 0 .. k /\ (i # 0 => i - 1 \in 0 .. k + 1 /\ i - 1 # k + 1)
        BY <3>2
      <4>2. g[i] = f[i] /\ (i # 0 => g[i - 1] = f[i - 1])
        BY <3>2, <4>1
      <4>3. f[i] = IF i = 0 THEN <<>> ELSE BucketsAfter(f[i - 1], ts[i], i, tf)
        BY <2>1, <4>1, WalksAt
      <4> HIDE DEF g
      <4> QED  BY <4>2, <4>3
    <3> QED  BY <3>1, <3>2
  <2> HIDE DEF g
  <2>4. Walks(g, ts, tf, k + 1)
    BY <2>2, <2>3 DEF Walks
  <2> QED  BY <2>4
<1> HIDE DEF T
<1>3. T \in SUBSET Nat
  BY DEF T
<1>4. T = Nat
  BY <1>1, <1>2, <1>3, Induction
<1> QED  BY <1>4 DEF T

\* ... and depends on the times it has come past alone.
LEMMA WalksAgree ==
  ASSUME NEW f, NEW g, NEW ts, NEW us, NEW tf, NEW n \in Nat, NEW m \in Nat, n <= m,
         Walks(f, ts, tf, n), Walks(g, us, tf, m), \A i \in 1 .. n : ts[i] = us[i]
  PROVE  f[n] = g[n]
<1> DEFINE T == {k \in Nat : k <= n => f[k] = g[k]}
<1>1. 0 \in T
  <2>1. 0 \in 0 .. n /\ 0 \in 0 .. m
    OBVIOUS
  <2>2. f[0] = <<>> /\ g[0] = <<>>
    BY <2>1, WalksAt
  <2> QED  BY <2>2
<1>2. ASSUME NEW k \in T PROVE k + 1 \in T
  <2> SUFFICES ASSUME k + 1 <= n PROVE f[k + 1] = g[k + 1]
    OBVIOUS
  <2>1. /\ k \in Nat /\ k <= n /\ k + 1 \in 0 .. n /\ k + 1 \in 0 .. m /\ k + 1 \in 1 .. n
        /\ k + 1 # 0 /\ (k + 1) - 1 = k
    OBVIOUS
  <2>2. f[k] = g[k]
    BY <2>1
  <2>3. f[k + 1] = BucketsAfter(f[k], ts[k + 1], k + 1, tf)
    BY <2>1, WalksAt
  <2>4. g[k + 1] = BucketsAfter(g[k], us[k + 1], k + 1, tf)
    BY <2>1, WalksAt
  <2> QED  BY <2>1, <2>2, <2>3, <2>4
<1> HIDE DEF T
<1>3. T \in SUBSET Nat
  BY DEF T
<1>4. T = Nat
  BY <1>1, <1>2, <1>3, Induction
<1> QED  BY <1>4 DEF T

LEMMA BucketsNone == \A ts, tf : Len(ts) = 0 => Buckets(ts, tf) = <<>>
<1> SUFFICES ASSUME NEW ts, NEW tf, Len(ts) = 0 PROVE Buckets(ts, tf) = <<>>
  OBVIOUS
<1> DEFINE f == CHOOSE f : Walks(f, ts, tf, 0)
<1>1. Walks(f, ts, tf, 0)
  BY WalkExists
<1>2. Buckets(ts, tf) = f[0]
  BY BucketsDef
<1> HIDE DEF f
<1>3. 0 \in 0 .. 0
  OBVIOUS
<1> QED  BY <1>1, <1>2, <1>3, WalksAt

\* One time more.
LEMMA BucketsMore ==
  ASSUME NEW ts, NEW us, NEW tf, NEW n \in Nat, Len(ts) = n, Len(us) = n + 1,
         \A i \in 1 .. n : ts[i] = us[i]
  PROVE  Buckets(us, tf) = BucketsAfter(Buckets(ts, tf), us[n + 1], n + 1, tf)
<1> DEFINE f == CHOOSE f : Walks(f, ts, tf, n)
           g == CHOOSE g : Walks(g, us, tf, n + 1)
<1>1. Walks(f, ts, tf, n) /\ Buckets(ts, tf) = f[n]
  BY WalkExists, BucketsDef
<1>2. Walks(g, us, tf, n + 1) /\ Buckets(us, tf) = g[n + 1]
  <2>1. n + 1 \in Nat
    OBVIOUS
  <2>2. \E h : Walks(h, us, tf, n + 1)
    BY <2>1, WalkExists
  <2> QED  BY <2>2, BucketsDef
<1> HIDE DEF f, g
<1>3. f[n] = g[n]
  <2> DEFINE m == n + 1
  <2>1. m \in Nat /\ n <= m /\ Walks(g, us, tf, m)
    BY <1>2
  <2> HIDE DEF m
  <2> QED  BY <1>1, <2>1, WalksAgree
<1>4. n + 1 \in 0 .. n + 1 /\ n + 1 # 0 /\ (n + 1) - 1 = n
  OBVIOUS
<1>5. g[n + 1] = BucketsAfter(g[n], us[n + 1], n + 1, tf)
  BY <1>2, <1>4, WalksAt
<1> QED  BY <1>1, <1>2, <1>3, <1>5
-----------------------------------------------------------------------------
(* The body of a bucket *)

Body == [o : Int, h : Int, l : Int, c : Int, v : Int]

Adds(f, s, from, to) ==
  f = [i \in from .. to |-> (IF i = from THEN 0 ELSE f[i - 1]) + s[i].body.v]

Volume(s, from, to) == (CHOOSE f : Adds(f, s, from, to))[to]

BodyIn(s, from, to) ==
  [o |-> s[from].body.o,
   h |-> Max({s[i].body.h : i \in from .. to}),
   l |-> Min({s[i].body.l : i \in from .. to}),
   c |-> s[to].body.c,
   v |-> Volume(s, from, to)]

LEMMA BodyIs == \A b : BodyOf(b) = BodyIn(source, b.from, b.to)
BY DEF BodyOf, BodyIn, Volume, Adds

LEMMA AddsAt ==
  ASSUME NEW f, NEW s, NEW from, NEW to, Adds(f, s, from, to), NEW i \in from .. to
  PROVE  f[i] = (IF i = from THEN 0 ELSE f[i - 1]) + s[i].body.v
<1> DEFINE g == [j \in from .. to |-> (IF j = from THEN 0 ELSE f[j - 1]) + s[j].body.v]
<1>1. g[i] = (IF i = from THEN 0 ELSE f[i - 1]) + s[i].body.v
  OBVIOUS
<1>2. f = g
  BY DEF Adds
<1> HIDE DEF g
<1> QED  BY <1>1, <1>2

LEMMA AddsExist ==
  ASSUME NEW s, NEW from \in Nat
  PROVE  \A to \in Nat : from <= to => \E f : Adds(f, s, from, to)
<1> DEFINE T == {k \in Nat : \E f : Adds(f, s, from, from + k)}
<1>1. 0 \in T
  <2> DEFINE f == [i \in from .. from |-> 0 + s[i].body.v]
  <2>1. f = [i \in from .. from |-> (IF i = from THEN 0 ELSE f[i - 1]) + s[i].body.v]
    <3>1. \A i \in from .. from : i = from
      OBVIOUS
    <3> QED  BY <3>1
  <2> HIDE DEF f
  <2>2. Adds(f, s, from, from) /\ from + 0 = from
    BY <2>1 DEF Adds
  <2> QED  BY <2>2
<1>2. ASSUME NEW k \in T PROVE k + 1 \in T
  <2> DEFINE to == from + k  more == from + (k + 1)
  <2>1. PICK f : Adds(f, s, from, to)
    OBVIOUS
  <2>2. /\ to \in Nat /\ more = to + 1 /\ from <= to /\ more # from /\ more - 1 = to
        /\ \A i \in from .. more : i = more \/ i \in from .. to
        /\ \A i \in from .. to : i \in from .. more /\ i # more /\ (i # from => i - 1 \in from .. to)
        /\ more \in from .. more /\ to \in from .. to
    OBVIOUS
  <2> HIDE DEF to, more
  <2> DEFINE last == f[to] + s[more].body.v
             g == [i \in from .. more |-> IF i = more THEN last ELSE f[i]]
             G(i) == (IF i = from THEN 0 ELSE g[i - 1]) + s[i].body.v
  <2>3. g = [i \in from .. more |-> g[i]]
    OBVIOUS
  <2>4. g[more] = last /\ \A i \in from .. to : g[i] = f[i]
    BY <2>2
  <2> HIDE DEF g
  <2>5. ASSUME NEW i \in from .. more PROVE g[i] = G(i)
    <3>1. CASE i = more
      BY <2>2, <2>4, <3>1
    <3>2. CASE i # more
      <4>1. i \in from .. to
        BY <2>2, <3>2
      <4>2. f[i] = (IF i = from THEN 0 ELSE f[i - 1]) + s[i].body.v
        BY <2>1, <4>1, AddsAt
      <4> QED  BY <2>2, <2>4, <4>1, <4>2
    <3> QED  BY <3>1, <3>2
  <2>6. Adds(g, s, from, more)
    BY <2>3, <2>5 DEF Adds
  <2> QED  BY <2>6 DEF more
<1> HIDE DEF T
<1>3. T \in SUBSET Nat
  BY DEF T
<1>4. T = Nat
  BY <1>1, <1>2, <1>3, Induction
<1>5. ASSUME NEW to \in Nat, from <= to PROVE \E f : Adds(f, s, from, to)
  <2>1. to - from \in Nat /\ from + (to - from) = to
    BY <1>5
  <2>2. \E f : Adds(f, s, from, from + (to - from))
    BY <1>4, <2>1 DEF T
  <2> QED  BY <2>1, <2>2
<1> QED  BY <1>5

LEMMA AddsAgree ==
  ASSUME NEW f, NEW g, NEW s, NEW u, NEW from \in Nat, NEW n \in Nat, NEW m \in Nat,
         from <= n, n <= m, Adds(f, s, from, n), Adds(g, u, from, m),
         \A i \in from .. n : s[i].body.v = u[i].body.v
  PROVE  f[n] = g[n]
<1> DEFINE T == {k \in Nat : from + k <= n => f[from + k] = g[from + k]}
<1>1. 0 \in T
  <2>1. from \in from .. n /\ from \in from .. m /\ from + 0 = from
    OBVIOUS
  <2>2. f[from] = 0 + s[from].body.v /\ g[from] = 0 + u[from].body.v
    BY <2>1, AddsAt
  <2> QED  BY <2>1, <2>2
<1>2. ASSUME NEW k \in T PROVE k + 1 \in T
  <2> DEFINE j == from + k  i == from + (k + 1)
  <2> SUFFICES ASSUME i <= n PROVE f[i] = g[i]
    OBVIOUS
  <2>1. /\ i \in from .. n /\ i \in from .. m /\ i # from /\ i - 1 = j /\ j <= n
    OBVIOUS
  <2>2. f[j] = g[j]
    BY <2>1
  <2> HIDE DEF i, j
  <2>3. f[i] = f[j] + s[i].body.v
    BY <2>1, AddsAt
  <2>4. g[i] = g[j] + u[i].body.v
    BY <2>1, AddsAt
  <2> QED  BY <2>1, <2>2, <2>3, <2>4
<1> HIDE DEF T
<1>3. T \in SUBSET Nat
  BY DEF T
<1>4. T = Nat
  BY <1>1, <1>2, <1>3, Induction
<1>5. n - from \in Nat /\ from + (n - from) = n
  OBVIOUS
<1>6. from + (n - from) <= n => f[from + (n - from)] = g[from + (n - from)]
  BY <1>4, <1>5 DEF T
<1> QED  BY <1>5, <1>6

LEMMA VolumeOf ==
  ASSUME NEW s, NEW from \in Nat, NEW to \in Nat, from <= to
  PROVE  \E f : Adds(f, s, from, to) /\ Volume(s, from, to) = f[to]
<1>1. \E f : Adds(f, s, from, to)
  BY AddsExist
<1> QED  BY <1>1 DEF Volume

LEMMA VolumeOne ==
  ASSUME NEW s, NEW i \in Nat, s[i].body.v \in Int
  PROVE  Volume(s, i, i) = s[i].body.v
<1>1. PICK f : Adds(f, s, i, i) /\ Volume(s, i, i) = f[i]
  BY VolumeOf
<1>2. i \in i .. i
  OBVIOUS
<1>3. f[i] = 0 + s[i].body.v
  BY <1>1, <1>2, AddsAt
<1> QED  BY <1>1, <1>3

SameBodies(s, u, from, to) == \A i \in from .. to : s[i].body = u[i].body

LEMMA VolumeSame ==
  ASSUME NEW s, NEW u, NEW from \in Nat, NEW to \in Nat, from <= to,
         SameBodies(s, u, from, to)
  PROVE  Volume(s, from, to) = Volume(u, from, to)
<1>1. PICK f : Adds(f, s, from, to) /\ Volume(s, from, to) = f[to]
  BY VolumeOf
<1>2. PICK g : Adds(g, u, from, to) /\ Volume(u, from, to) = g[to]
  BY VolumeOf
<1>3. f[to] = g[to]
  <2>1. \A i \in from .. to : s[i].body.v = u[i].body.v
    BY DEF SameBodies
  <2> QED  BY <1>1, <1>2, <2>1, AddsAgree
<1> QED  BY <1>1, <1>2, <1>3

LEMMA VolumeMore ==
  ASSUME NEW s, NEW u, NEW from \in Nat, NEW to \in Nat, NEW more, more = to + 1, from <= to,
         SameBodies(s, u, from, to)
  PROVE  Volume(u, from, more) = Volume(s, from, to) + u[more].body.v
<1>1. PICK f : Adds(f, s, from, to) /\ Volume(s, from, to) = f[to]
  BY VolumeOf
<1>2. more \in Nat /\ from <= more /\ to <= more /\ more \in from .. more /\ more # from /\ more - 1 = to
  OBVIOUS
<1>3. PICK g : Adds(g, u, from, more) /\ Volume(u, from, more) = g[more]
  BY <1>2, VolumeOf
<1>4. f[to] = g[to]
  <2>1. \A i \in from .. to : s[i].body.v = u[i].body.v
    BY DEF SameBodies
  <2> QED  BY <1>1, <1>2, <1>3, <2>1, AddsAgree
<1>5. g[more] = g[to] + u[more].body.v
  BY <1>2, <1>3, AddsAt
<1> QED  BY <1>1, <1>3, <1>4, <1>5

LEMMA MaxIs ==
  ASSUME NEW S \in SUBSET Int, NEW x \in S, \A y \in S : y <= x
  PROVE  Max(S) = x
<1>1. \A y \in S : x >= y
  OBVIOUS
<1>2. Max(S) \in S /\ \A y \in S : Max(S) >= y
  BY <1>1 DEF Max
<1> DEFINE m == Max(S)
<1>3. m \in Int /\ x \in Int /\ m >= x /\ m <= x
  BY <1>2
<1> HIDE DEF m
<1> QED  BY <1>3 DEF m

LEMMA MinIs ==
  ASSUME NEW S \in SUBSET Int, NEW x \in S, \A y \in S : x <= y
  PROVE  Min(S) = x
<1>1. Min(S) \in S /\ \A y \in S : Min(S) <= y
  BY DEF Min
<1> DEFINE m == Min(S)
<1>2. m \in Int /\ x \in Int /\ m <= x /\ x <= m
  BY <1>1
<1> HIDE DEF m
<1> QED  BY <1>2 DEF m

\* Some bar of a bucket is the highest, and some the lowest.
LEMMA ExtremesExist ==
  ASSUME NEW s, NEW from \in Nat, NEW to \in Nat, from <= to,
         \A i \in from .. to : s[i].body \in Body
  PROVE  /\ \E x \in from .. to : \A i \in from .. to : s[i].body.h <= s[x].body.h
         /\ \E x \in from .. to : \A i \in from .. to : s[x].body.l <= s[i].body.l
<1> DEFINE High(n) == \E x \in from .. n : \A i \in from .. n : s[i].body.h <= s[x].body.h
           Low(n) == \E x \in from .. n : \A i \in from .. n : s[x].body.l <= s[i].body.l
           T == {k \in Nat : from + k <= to => High(from + k) /\ Low(from + k)}
<1>0. \A i \in from .. to : s[i].body.h \in Int /\ s[i].body.l \in Int
  BY DEF Body
<1>1. 0 \in T
  <2>1. from \in from .. from /\ from + 0 = from /\ (\A i \in from .. from : i = from) /\ from \in from .. to
    OBVIOUS
  <2>2. s[from].body.h <= s[from].body.h /\ s[from].body.l <= s[from].body.l
    BY <1>0, <2>1
  <2>3. High(from) /\ Low(from)
    BY <2>1, <2>2
  <2> QED  BY <2>1, <2>3
<1>2. ASSUME NEW k \in T PROVE k + 1 \in T
  <2> DEFINE n == from + k  m == from + (k + 1)
  <2> SUFFICES ASSUME m <= to PROVE High(m) /\ Low(m)
    OBVIOUS
  <2>1. /\ n \in Nat /\ m = n + 1 /\ n <= to /\ from <= n
        /\ \A i \in from .. m : (i = m \/ i \in from .. n) /\ i \in from .. to
        /\ \A i \in from .. n : i \in from .. m
        /\ m \in from .. m
    OBVIOUS
  <2>2. High(n) /\ Low(n)
    BY <2>1
  <2> HIDE DEF n, m
  <2>3. PICK x \in from .. n : \A i \in from .. n : s[i].body.h <= s[x].body.h
    BY <2>2
  <2>4. PICK y \in from .. n : \A i \in from .. n : s[y].body.l <= s[i].body.l
    BY <2>2
  <2>5. High(m)
    <3>1. CASE s[m].body.h <= s[x].body.h
      BY <2>1, <2>3, <3>1
    <3>2. CASE ~(s[m].body.h <= s[x].body.h)
      <4>1. \A i \in from .. m : s[i].body.h <= s[m].body.h
        BY <1>0, <2>1, <2>3, <3>2
      <4> QED  BY <2>1, <4>1
    <3> QED  BY <3>1, <3>2
  <2>6. Low(m)
    <3>1. CASE s[y].body.l <= s[m].body.l
      BY <2>1, <2>4, <3>1
    <3>2. CASE ~(s[y].body.l <= s[m].body.l)
      <4>1. \A i \in from .. m : s[m].body.l <= s[i].body.l
        BY <1>0, <2>1, <2>4, <3>2
      <4> QED  BY <2>1, <4>1
    <3> QED  BY <3>1, <3>2
  <2> QED  BY <2>5, <2>6
<1> HIDE DEF T
<1>3. T \in SUBSET Nat
  BY DEF T
<1>4. T = Nat
  BY <1>1, <1>2, <1>3, Induction
<1>5. to - from \in Nat /\ from + (to - from) = to
  OBVIOUS
<1>6. High(from + (to - from)) /\ Low(from + (to - from))
  BY <1>4, <1>5 DEF T
<1> QED  BY <1>5, <1>6

\* A bucket of one bar, and one with a bar more.
LEMMA BodyOne ==
  ASSUME NEW s, NEW i \in Nat, s[i].body \in Body
  PROVE  BodyIn(s, i, i) = s[i].body
<1> DEFINE b == s[i].body
<1>1. /\ b.o \in Int /\ b.h \in Int /\ b.l \in Int /\ b.c \in Int /\ b.v \in Int
      /\ b = [o |-> b.o, h |-> b.h, l |-> b.l, c |-> b.c, v |-> b.v]
  BY DEF Body
<1>2. {s[j].body.h : j \in i .. i} = {b.h} /\ {s[j].body.l : j \in i .. i} = {b.l}
  <2>1. i .. i = {i}
    OBVIOUS
  <2> QED  BY <2>1
<1>3. Max({b.h}) = b.h /\ Min({b.l}) = b.l
  <2>1. /\ {b.h} \in SUBSET Int /\ \A y \in {b.h} : y <= b.h
        /\ {b.l} \in SUBSET Int /\ \A y \in {b.l} : b.l <= y
    BY <1>1
  <2> HIDE DEF b
  <2> QED  BY <2>1, MaxIs, MinIs
<1>4. Volume(s, i, i) = b.v
  BY <1>1, VolumeOne
<1> QED  BY <1>1, <1>2, <1>3, <1>4 DEF BodyIn

LEMMA BodySame ==
  ASSUME NEW s, NEW u, NEW from \in Nat, NEW to \in Nat, from <= to,
         \A i \in from .. to : s[i].body = u[i].body
  PROVE  BodyIn(s, from, to) = BodyIn(u, from, to)
<1>1. Volume(s, from, to) = Volume(u, from, to)
  <2>1. SameBodies(s, u, from, to)
    BY DEF SameBodies
  <2> QED  BY <2>1, VolumeSame
<1>2. from \in from .. to /\ to \in from .. to
  OBVIOUS
<1>3. {s[i].body.h : i \in from .. to} = {u[i].body.h : i \in from .. to}
  OBVIOUS
<1>4. {s[i].body.l : i \in from .. to} = {u[i].body.l : i \in from .. to}
  OBVIOUS
<1> QED  BY <1>1, <1>2, <1>3, <1>4 DEF BodyIn

LEMMA BodyMore ==
  ASSUME NEW s, NEW u, NEW from \in Nat, NEW to \in Nat, NEW more, more = to + 1, from <= to,
         \A i \in from .. to : s[i].body = u[i].body,
         \A i \in from .. more : u[i].body \in Body
  PROVE  BodyIn(u, from, more) = Merge(BodyIn(s, from, to), u[more].body)
<1> DEFINE H == {s[i].body.h : i \in from .. to}  L == {s[i].body.l : i \in from .. to}
           G == {u[i].body.h : i \in from .. more}  K == {u[i].body.l : i \in from .. more}
           b == u[more].body
<1>1. /\ more \in from .. more /\ from \in from .. to /\ to \in from .. to
      /\ \A i \in from .. to : i \in from .. more
      /\ \A i \in from .. more : i = more \/ i \in from .. to
  OBVIOUS
<1>2. /\ \A i \in from .. to : s[i].body \in Body /\ s[i].body.h \in Int /\ s[i].body.l \in Int
      /\ b.h \in Int /\ b.l \in Int
  BY <1>1 DEF Body
<1>3. PICK x \in from .. to : \A i \in from .. to : s[i].body.h <= s[x].body.h
  BY <1>2, ExtremesExist
<1>4. PICK y \in from .. to : \A i \in from .. to : s[y].body.l <= s[i].body.l
  BY <1>2, ExtremesExist
<1> DEFINE h == s[x].body.h  l == s[y].body.l
<1>5. Max(H) = h /\ h \in Int
  <2>1. H \in SUBSET Int /\ h \in H /\ \A z \in H : z <= h
    BY <1>2, <1>3
  <2> HIDE DEF H, h
  <2> QED  BY <2>1, MaxIs
<1>6. Min(L) = l /\ l \in Int
  <2>1. L \in SUBSET Int /\ l \in L /\ \A z \in L : l <= z
    BY <1>2, <1>4
  <2> HIDE DEF L, l
  <2> QED  BY <2>1, MinIs
<1>7. G = H \union {b.h}
  BY <1>1
<1>8. K = L \union {b.l}
  BY <1>1
<1>9. Max(G) = Max({h, b.h})
  <2> DEFINE z == IF h <= b.h THEN b.h ELSE h
  <2>1. H \in SUBSET Int /\ h \in H /\ \A a \in H : a <= h
    BY <1>2, <1>3
  <2> HIDE DEF H, h, G, b
  <2>2. z \in G /\ G \in SUBSET Int /\ \A a \in G : a <= z
    <3>1. h \in Int /\ b.h \in Int /\ h <= z /\ b.h <= z /\ z \in {h, b.h} /\ z \in Int
      BY <1>2, <1>5
    <3>2. z \in G /\ G \in SUBSET Int
      BY <1>7, <2>1, <3>1
    <3> HIDE DEF z
    <3>3. \A a \in H : a \in Int /\ a <= h
      BY <2>1
    <3>4. \A a \in H : a <= z
      BY <3>1, <3>3
    <3> QED  BY <1>7, <3>1, <3>2, <3>4
  <2>3. {h, b.h} \in SUBSET Int /\ z \in {h, b.h} /\ \A a \in {h, b.h} : a <= z
    BY <1>2, <1>5
  <2> HIDE DEF z
  <2> QED  BY <2>2, <2>3, MaxIs
<1>10. Min(K) = Min({l, b.l})
  <2> DEFINE z == IF b.l <= l THEN b.l ELSE l
  <2>1. L \in SUBSET Int /\ l \in L /\ \A a \in L : l <= a
    BY <1>2, <1>4
  <2> HIDE DEF L, l, K, b
  <2>2. z \in K /\ K \in SUBSET Int /\ \A a \in K : z <= a
    <3>1. l \in Int /\ b.l \in Int /\ z <= l /\ z <= b.l /\ z \in {l, b.l} /\ z \in Int
      BY <1>2, <1>6
    <3>2. z \in K /\ K \in SUBSET Int
      BY <1>8, <2>1, <3>1
    <3> HIDE DEF z
    <3>3. \A a \in L : a \in Int /\ l <= a
      BY <2>1
    <3>4. \A a \in L : z <= a
      BY <3>1, <3>3
    <3> QED  BY <1>8, <3>1, <3>2, <3>4
  <2>3. {l, b.l} \in SUBSET Int /\ z \in {l, b.l} /\ \A a \in {l, b.l} : z <= a
    BY <1>2, <1>6
  <2> HIDE DEF z
  <2> QED  BY <2>2, <2>3, MinIs
<1>11. Volume(u, from, more) = Volume(s, from, to) + b.v
  <2> HIDE DEF H, L, G, K, b, h, l
  <2>1. SameBodies(s, u, from, to)
    BY DEF SameBodies
  <2>2. Volume(u, from, more) = Volume(s, from, to) + u[more].body.v
    BY <2>1, VolumeMore
  <2> QED  BY <2>2 DEF b
<1>12. /\ s[from].body.o = u[from].body.o /\ s[from].body.o \in Int /\ s[to].body.c \in Int
  BY <1>1, <1>2 DEF Body
<1> HIDE DEF H, L, G, K, b, h, l
<1>13. BodyIn(s, from, to)
         = [o |-> s[from].body.o, h |-> h, l |-> l, c |-> s[to].body.c, v |-> Volume(s, from, to)]
  BY <1>5, <1>6 DEF BodyIn, H, L
<1>14. BodyIn(u, from, more)
         = [o |-> s[from].body.o, h |-> Max({h, b.h}), l |-> Min({l, b.l}), c |-> b.c,
            v |-> Volume(s, from, to) + b.v]
  BY <1>9, <1>10, <1>11, <1>12 DEF BodyIn, G, K, b
<1> QED  BY <1>5, <1>6, <1>12, <1>13, <1>14 DEF Merge, b

LEMMA MergeType == ASSUME NEW a \in Body, NEW b \in Body PROVE Merge(a, b) \in Body
<1>1. /\ a.o \in Int /\ a.h \in Int /\ a.l \in Int /\ a.v \in Int
      /\ b.h \in Int /\ b.l \in Int /\ b.c \in Int /\ b.v \in Int
  BY DEF Body
<1>2. ASSUME NEW x \in Int, NEW y \in Int PROVE Max({x, y}) \in Int /\ Min({x, y}) \in Int
  <2>1. CASE x <= y
    <3>1. /\ {x, y} \in SUBSET Int /\ x \in {x, y} /\ y \in {x, y}
          /\ (\A z \in {x, y} : z <= y) /\ \A z \in {x, y} : x <= z
      BY <2>1
    <3>2. Max({x, y}) = y /\ Min({x, y}) = x
      BY <3>1, MaxIs, MinIs
    <3> QED  BY <3>2
  <2>2. CASE ~(x <= y)
    <3>1. /\ {x, y} \in SUBSET Int /\ x \in {x, y} /\ y \in {x, y}
          /\ (\A z \in {x, y} : z <= x) /\ \A z \in {x, y} : y <= z
      BY <2>2
    <3>2. Max({x, y}) = x /\ Min({x, y}) = y
      BY <3>1, MaxIs, MinIs
    <3> QED  BY <3>2
  <2> QED  BY <2>1, <2>2
<1>3. a.v + b.v \in Int
  BY <1>1
<1>4. Max({a.h, b.h}) \in Int /\ Min({a.l, b.l}) \in Int
  BY <1>1, <1>2
<1> QED  BY <1>1, <1>3, <1>4 DEF Merge, Body

-----------------------------------------------------------------------------
(* Sequences of bars *)

BarType == [t : Nat, body : Body]

\* AppendProperties by the length of the longer sequence.
LEMMA AppendAt ==
  ASSUME NEW S, NEW s \in Seq(S), NEW e \in S, NEW m, m = Len(s) + 1
  PROVE  /\ Append(s, e) \in Seq(S) /\ Len(Append(s, e)) = m /\ Append(s, e)[m] = e
         /\ \A i \in 1 .. Len(s) : Append(s, e)[i] = s[i]
BY AppendProperties

\* A bar more at the end, later than the last.
LEMMA StampMore ==
  ASSUME NEW r \in Seq(BarType), NEW e \in BarType, NEW u, u = Append(r, e),
         \A k \in 1 .. Len(r) - 1 : r[k].t < r[k + 1].t,
         r # <<>> => r[Len(r)].t < e.t
  PROVE  \A k \in 1 .. Len(u) - 1 : u[k].t < u[k + 1].t
<1> DEFINE n == Len(r)
<1>1. n \in Nat /\ (r = <<>> <=> n = 0)
  BY LenProperties, EmptySeq
<1>2. Len(u) = n + 1 /\ u[n + 1] = e /\ \A i \in 1 .. n : u[i] = r[i]
  BY AppendProperties
<1> HIDE DEF n
<1> SUFFICES ASSUME NEW k \in 1 .. n PROVE u[k].t < u[k + 1].t
  BY <1>1, <1>2
<1>3. CASE k = n
  <2>1. n # 0 /\ n \in 1 .. n
    BY <1>1, <1>3
  <2> QED  BY <1>1, <1>2, <1>3, <2>1 DEF n
<1>4. CASE k # n
  <2>1. k \in 1 .. n - 1 /\ k \in 1 .. n /\ k + 1 \in 1 .. n
    BY <1>1, <1>4
  <2> QED  BY <1>2, <2>1 DEF n
<1> QED  BY <1>3, <1>4

TimesOf(s) == [i \in DOMAIN s |-> s[i].t]

LEMMA TimesAre ==
  ASSUME NEW s \in Seq(BarType)
  PROVE  Len(TimesOf(s)) = Len(s) /\ \A i \in 1 .. Len(s) : TimesOf(s)[i] = s[i].t
<1>1. Len(s) \in Nat /\ DOMAIN s = 1 .. Len(s)
  BY LenProperties
<1>2. TimesOf(s) = [i \in 1 .. Len(s) |-> s[i].t]
  BY <1>1 DEF TimesOf
<1> QED  BY <1>1, <1>2

-----------------------------------------------------------------------------
(* The ends of periods *)

Count(B, j) == Cardinality({b \in B : b <= j})

\* One end more is counted last.
LEMMA CountWith ==
  ASSUME NEW n \in Nat, NEW B \in SUBSET (1 .. n - 1)
  PROVE  /\ Cardinality(B) \in Nat
         /\ Cardinality(B \union {n}) = Cardinality(B) + 1
         /\ \A j \in B : Count(B, j) \in 1 .. Cardinality(B) /\ Count(B \union {n}, j) = Count(B, j)
         /\ Count(B \union {n}, n) = Cardinality(B) + 1
<1>1. IsFiniteSet(B) /\ Cardinality(B) \in Nat
  <2>1. IsFiniteSet(1 .. n - 1)
    BY FS_Interval
  <2>2. IsFiniteSet(B)
    BY <2>1, FS_Subset
  <2> QED  BY <2>2, FS_CardinalityType
<1>2. n \notin B
  OBVIOUS
<1>3. Cardinality(B \union {n}) = Cardinality(B) + 1
  BY <1>1, <1>2, FS_AddElement
<1>4. ASSUME NEW j \in B
      PROVE  Count(B, j) \in 1 .. Cardinality(B) /\ Count(B \union {n}, j) = Count(B, j)
  <2> DEFINE C == {b \in B : b <= j}
  <2>1. {b \in B \union {n} : b <= j} = C
    BY <1>4
  <2>2. IsFiniteSet(C) /\ Cardinality(C) <= Cardinality(B)
    BY <1>1, FS_Subset
  <2>3. j \in C
    BY <1>4
  <2>4. Cardinality(C) \in Nat /\ Cardinality(C) # 0
    BY <2>2, <2>3, FS_CardinalityType, FS_EmptySet
  <2>5. Count(B, j) = Cardinality(C) /\ Count(B \union {n}, j) = Cardinality(C)
    BY <2>1 DEF Count
  <2> HIDE DEF C
  <2> QED  BY <1>1, <2>2, <2>4, <2>5
<1>5. Count(B \union {n}, n) = Cardinality(B) + 1
  <2>1. \A b \in B \union {n} : b <= n
    OBVIOUS
  <2>2. {b \in B \union {n} : b <= n} = B \union {n}
    BY <2>1
  <2> QED  BY <1>3, <2>2 DEF Count
<1> QED  BY <1>1, <1>3, <1>4, <1>5

BreaksOf(tf, s) == {j \in 1 .. Len(s) - 1 : BucketIn(tf, s[j].t) # BucketIn(tf, s[j + 1].t)}

EndsOf(tf, s) == {i \in DOMAIN s : i = Len(s) \/ BucketIn(tf, s[i].t) # BucketIn(tf, s[i + 1].t)}

\* A bar of another period breaks after the one before it, no other bar does.
LEMMA BreaksGrow ==
  ASSUME NEW tf, NEW s, NEW u, Len(s) \in Nat, Len(u) = Len(s) + 1,
         \A i \in 1 .. Len(s) : u[i] = s[i]
  PROVE  LET n == Len(s)  m == n + 1
         IN  /\ BreaksOf(tf, s) \in SUBSET (1 .. n - 1)
             /\ n # 0 /\ BucketIn(tf, u[m].t) # BucketIn(tf, u[n].t) =>
                  BreaksOf(tf, u) = BreaksOf(tf, s) \union {n}
             /\ n = 0 \/ BucketIn(tf, u[m].t) = BucketIn(tf, u[n].t) =>
                  BreaksOf(tf, u) = BreaksOf(tf, s)
<1> DEFINE n == Len(s)
           m == n + 1
           B(w) == BucketIn(tf, w)
<1>0. n \in Nat /\ Len(u) = m /\ (\A i \in 1 .. n : u[i] = s[i]) /\ m = n + 1 /\ m - 1 = n
  OBVIOUS
<1>1. BreaksOf(tf, s) = {j \in 1 .. n - 1 : B(s[j].t) # B(s[j + 1].t)}
  BY DEF BreaksOf
<1>2. BreaksOf(tf, u) = {j \in 1 .. n : B(u[j].t) # B(u[j + 1].t)}
  BY <1>0 DEF BreaksOf
<1> HIDE DEF B, m, n
<1>3. \A j \in 1 .. n - 1 : /\ j \in 1 .. n /\ u[j] = s[j] /\ u[j + 1] = s[j + 1]
  BY <1>0
<1>4. \A j \in 1 .. n : j \in 1 .. n - 1 \/ (j = n /\ j + 1 = m /\ n # 0)
  BY <1>0
<1>5. n # 0 => n \in 1 .. n /\ n \notin 1 .. n - 1
  BY <1>0
<1>6. \A j : j \in BreaksOf(tf, s) <=> j \in 1 .. n - 1 /\ j \in BreaksOf(tf, u)
  BY <1>1, <1>2, <1>3
<1>7. n \in BreaksOf(tf, u) <=> n # 0 /\ B(u[n].t) # B(u[m].t)
  <2>1. n \in 1 .. n <=> n # 0
    BY <1>0
  <2> QED  BY <1>0, <1>2, <2>1
<1>8. BreaksOf(tf, s) \in SUBSET (1 .. n - 1) /\ BreaksOf(tf, u) \in SUBSET (1 .. n)
  BY <1>1, <1>2
<1>9. CASE n # 0 /\ B(u[m].t) # B(u[n].t)
  <2>1. \A j : j \in BreaksOf(tf, u) <=> j \in BreaksOf(tf, s) \union {n}
    BY <1>4, <1>6, <1>7, <1>8, <1>9
  <2>2. BreaksOf(tf, u) = BreaksOf(tf, s) \union {n}
    BY <2>1
  <2> QED  BY <1>8, <1>9, <2>2 DEF B, m, n
<1>10. CASE n = 0 \/ B(u[m].t) = B(u[n].t)
  <2>1. \A j : j \in BreaksOf(tf, u) <=> j \in BreaksOf(tf, s)
    BY <1>4, <1>6, <1>7, <1>8, <1>10
  <2>2. BreaksOf(tf, u) = BreaksOf(tf, s)
    BY <2>1
  <2> QED  BY <1>8, <1>10, <2>2 DEF B, m, n
<1> QED  BY <1>9, <1>10 DEF m, n, B

\* At the end the last bar ends a period, too.
LEMMA EndsAre ==
  ASSUME NEW tf, NEW s \in Seq(BarType)
  PROVE  EndsOf(tf, s) = IF s = <<>> THEN {} ELSE BreaksOf(tf, s) \union {Len(s)}
<1> DEFINE n == Len(s)
           B(i) == BucketIn(tf, s[i].t)
<1>1. n \in Nat /\ DOMAIN s = 1 .. n /\ (s = <<>> <=> n = 0)
  BY LenProperties, EmptySeq
<1>2. /\ EndsOf(tf, s) = {i \in 1 .. n : i = n \/ B(i) # B(i + 1)}
      /\ BreaksOf(tf, s) = {i \in 1 .. n - 1 : B(i) # B(i + 1)}
  BY <1>1 DEF EndsOf, BreaksOf
<1> HIDE DEF n, B
<1>3. \A i : i \in 1 .. n <=> i \in 1 .. n - 1 \/ (i = n /\ n # 0)
  BY <1>1
<1>4. n = 0 => EndsOf(tf, s) = {}
  <2>1. n = 0 => 1 .. n = {}
    OBVIOUS
  <2> QED  BY <1>2, <2>1
<1>5. n # 0 => EndsOf(tf, s) = BreaksOf(tf, s) \union {n}
  <2> SUFFICES ASSUME n # 0 PROVE \A i : i \in EndsOf(tf, s) <=> i \in BreaksOf(tf, s) \union {n}
    OBVIOUS
  <2>1. n \notin 1 .. n - 1
    BY <1>1
  <2> QED  BY <1>2, <1>3, <2>1
<1> QED  BY <1>1, <1>4, <1>5 DEF n

-----------------------------------------------------------------------------
(* What holds while the source is read *)

SourceOK ==
  /\ target \in Targets /\ done \in BOOLEAN
  /\ source \in Seq(BarType) /\ \A i \in 1 .. Len(source) : source[i].t % 2 = 0
  /\ resampled \in Seq(BarType) /\ replayed \in Seq(BarType) /\ acc \in Body
  /\ Len(replayed) = Len(source)
  /\ source # <<>> => acc = replayed[Len(source)].body

\* Resampled bars are in order, and not after the source bar just read.
StampsOK ==
  /\ \A k \in 1 .. Len(resampled) - 1 : resampled[k].t < resampled[k + 1].t
  /\ ~done /\ resampled # <<>> => source # <<>> /\ resampled[Len(resampled)].t <= source[Len(source)].t

\* The source bars after which one of another period has come.
Breaks == {j \in 1 .. Len(source) - 1 : GetBucket(source[j].t) # GetBucket(source[j + 1].t)}

\* The bars made are the states shown at the ends of periods.
EndsOK ==
  LET ends == IF done THEN PeriodEnds ELSE Breaks
  IN  /\ Len(resampled) = Cardinality(ends)
      /\ \A j \in ends : resampled[Count(ends, j)].body = replayed[j].body

MyBuckets == Buckets(Times, target)

BucketType == [start : {PeriodStart(t, target) : t \in Nat}, from : Nat \ {0}, to : Nat \ {0}]

\* The buckets cover the source, the last one up to the bar just read.
CoverOK ==
  /\ MyBuckets \in Seq(BucketType)
  /\ source = <<>> => MyBuckets = <<>>
  /\ source # <<>> => /\ MyBuckets # <<>>
                     /\ MyBuckets[Len(MyBuckets)].to = Len(source)
                     /\ MyBuckets[Len(MyBuckets)].start = PeriodStart(source[Len(source)].t, target)
  /\ \A k \in 1 .. Len(MyBuckets) : MyBuckets[k].from <= MyBuckets[k].to /\ MyBuckets[k].to <= Len(source)

InBucket(s, b) == BodyIn(s, b.from, b.to)

\* The bars made are those of the buckets, the last of which is at hand.
BodiesOK ==
  Canonical(target) =>
    /\ Len(resampled) = IF done \/ source = <<>> THEN Len(MyBuckets) ELSE Len(MyBuckets) - 1
    /\ source # <<>> => acc = InBucket(source, MyBuckets[Len(MyBuckets)])
    /\ \A k \in 1 .. Len(resampled) :
         /\ resampled[k].body = InBucket(source, MyBuckets[k])
         /\ source[MyBuckets[k].to].t < resampled[k].t

AInv == SourceOK /\ StampsOK /\ EndsOK /\ CoverOK /\ BodiesOK

LEMMA BreaksAre == Breaks = BreaksOf(target, source) /\ Breaks' = BreaksOf(target', source')
BY DEF Breaks, BreaksOf, GetBucket, BucketIn

LEMMA PeriodEndsAre == PeriodEnds = EndsOf(target, source) /\ PeriodEnds' = EndsOf(target', source')
BY DEF PeriodEnds, IsPeriodEnd, EndsOf, GetBucket, BucketIn

-----------------------------------------------------------------------------
(* One bar more *)

\* What a turn of the loops does, by what the bar is to the period.
LEMMA ReadCases ==
  ASSUME SourceOK, NEW t, NEW body, ReadBar(t, body)
  PROVE  LET n == Len(source)
         IN  /\ n \in Nat /\ source' = Append(source, Bar(t, body))
             /\ n = 0 => /\ source = <<>> /\ acc' = body /\ resampled' = resampled
                         /\ replayed' = Append(replayed, Bar(t, body))
             /\ n # 0 /\ GetBucket(t) = GetBucket(source[n].t) =>
                  /\ acc' = Merge(acc, body) /\ resampled' = resampled
                  /\ replayed' = Append(replayed, Bar(t, Merge(acc, body)))
             /\ n # 0 /\ GetBucket(t) # GetBucket(source[n].t) =>
                  /\ acc' = body
                  /\ resampled' = Append(resampled, Bar(Stamp(source[n].t, t), acc))
                  /\ replayed' = Append(replayed, Bar(t, body))
<1> DEFINE n == Len(source)
<1>1. n \in Nat /\ (n = 0 <=> source = <<>>) /\ Last(source).t = source[n].t
  BY DEF SourceOK, Last
<1>2. n # 0 => Last(replayed).body = acc
  BY <1>1 DEF SourceOK, Last
<1> HIDE DEF n
<1>3. source' = Append(source, Bar(t, body))
  BY DEF ReadBar
<1>4. CASE n = 0
  BY <1>1, <1>3, <1>4 DEF ReadBar, n
<1>5. CASE n # 0 /\ GetBucket(t) = GetBucket(source[n].t)
  BY <1>1, <1>2, <1>3, <1>5 DEF ReadBar, n
<1>6. CASE n # 0 /\ GetBucket(t) # GetBucket(source[n].t)
  BY <1>1, <1>2, <1>3, <1>6 DEF ReadBar, n
<1> QED  BY <1>1, <1>3, <1>4, <1>5, <1>6 DEF n

\* A bar that may come.
LEMMA ReadBars ==
  ASSUME SourceOK, Read
  PROVE  \E t \in Nat, body \in Body :
           /\ ReadBar(t, body) /\ t % 2 = 0
           /\ source # <<>> => source[Len(source)].t < t
           /\ ~done /\ UNCHANGED <<target, done>>
<1> DEFINE last == IF source = <<>> THEN 0 ELSE Last(source).t
<1>1. PICK gap \in Gaps, body \in Bodies : ReadBar(last + gap, body)
  BY DEF Read
<1>2. gap \in Nat \ {0} /\ gap % 2 = 0 /\ body \in Body
  BY AggregationAssumption DEF Body
<1>3. last \in Nat /\ last % 2 = 0 /\ (source # <<>> => last = source[Len(source)].t)
  <2>1. CASE source = <<>>
    BY <2>1
  <2>2. CASE source # <<>>
    <3>1. Len(source) \in 1 .. Len(source)
      BY <2>2, LenProperties, EmptySeq DEF SourceOK
    <3>2. source[Len(source)] \in BarType
      BY <3>1, ElementOfSeq DEF SourceOK
    <3> QED  BY <2>2, <3>1, <3>2 DEF SourceOK, BarType, Last
  <2> QED  BY <2>1, <2>2
<1> HIDE DEF last
<1>4. last + gap \in Nat /\ (last + gap) % 2 = 0 /\ last < last + gap
  BY <1>2, <1>3
<1>5. ~done /\ UNCHANGED <<target, done>>
  BY DEF Read
<1> QED  BY <1>1, <1>2, <1>3, <1>4, <1>5

\* What may be read, and when.
Reading(t, body) ==
  /\ t \in Nat /\ t % 2 = 0 /\ body \in Body /\ ReadBar(t, body)
  /\ source # <<>> => source[Len(source)].t < t
  /\ ~done /\ UNCHANGED <<target, done>>

LEMMA SourceAt ==
  ASSUME SourceOK
  PROVE  /\ Len(source) \in Nat /\ (source = <<>> <=> Len(source) = 0)
         /\ \A i \in 1 .. Len(source) :
              /\ source[i] \in BarType /\ source[i].t \in Nat /\ source[i].t % 2 = 0
              /\ source[i].body \in Body
         /\ Len(resampled) \in Nat /\ (resampled = <<>> <=> Len(resampled) = 0)
         /\ \A k \in 1 .. Len(resampled) : resampled[k].t \in Nat
         /\ target \in TimeFrames
<1>1. /\ Len(source) \in Nat /\ (source = <<>> <=> Len(source) = 0)
      /\ Len(resampled) \in Nat /\ (resampled = <<>> <=> Len(resampled) = 0)
  BY LenProperties, EmptySeq DEF SourceOK
<1>2. \A i \in 1 .. Len(source) : source[i] \in BarType
  BY ElementOfSeq DEF SourceOK
<1>3. \A k \in 1 .. Len(resampled) : resampled[k] \in BarType
  BY ElementOfSeq DEF SourceOK
<1>4. target \in TimeFrames
  BY AggregationAssumption DEF SourceOK
<1> QED  BY <1>1, <1>2, <1>3, <1>4 DEF SourceOK, BarType

LEMMA SourceGrows ==
  ASSUME SourceOK, NEW t, NEW body, Reading(t, body)
  PROVE  LET n == Len(source)  m == n + 1
         IN  /\ SourceOK'
             /\ Len(source') = m /\ source'[m] = Bar(t, body)
             /\ \A i \in 1 .. n : source'[i] = source[i]
             /\ replayed'[m].body = acc' /\ \A i \in 1 .. n : replayed'[i] = replayed[i]
<1> DEFINE n == Len(source)
           m == n + 1
           bar == Bar(t, body)
           starts == n # 0 /\ GetBucket(t) # GetBucket(source[n].t)
           stamp == Stamp(source[n].t, t)
<1>1. /\ n \in Nat /\ m \in Nat /\ n < m /\ Len(replayed) = n /\ bar \in BarType
      /\ source \in Seq(BarType) /\ replayed \in Seq(BarType) /\ resampled \in Seq(BarType)
      /\ (source = <<>> <=> n = 0) /\ acc \in Body
  BY SourceAt DEF SourceOK, Reading, BarType, Bar
<1>2. /\ source' = Append(source, bar)
      /\ acc' \in {body, Merge(acc, body)}
      /\ replayed' = Append(replayed, Bar(t, acc'))
      /\ resampled' = IF starts THEN Append(resampled, Bar(stamp, acc)) ELSE resampled
  <2>1. ReadBar(t, body)
    BY DEF Reading
  <2> QED  BY <1>1, <2>1, ReadCases
<1>3. acc' \in Body /\ Bar(t, acc') \in BarType
  <2>1. Merge(acc, body) \in Body /\ t \in Nat
    BY <1>1, MergeType DEF Reading
  <2> QED  BY <1>2, <2>1 DEF BarType, Bar, Reading
<1>4. starts => Bar(stamp, acc) \in BarType
  <2> SUFFICES ASSUME starts PROVE Bar(stamp, acc) \in BarType
    OBVIOUS
  <2>1. n \in 1 .. n
    BY <1>1
  <2>2. source[n].t \in Nat /\ source[n].t % 2 = 0 /\ t \in Nat /\ target \in TimeFrames
    BY <2>1, SourceAt DEF Reading
  <2>3. stamp \in Nat
    BY <2>2, StampAfter, StampIs
  <2> QED  BY <1>1, <2>3 DEF BarType, Bar
<1> HIDE DEF bar, stamp, n, m
<1>5. /\ source' \in Seq(BarType) /\ Len(source') = m /\ source'[m] = bar
      /\ \A i \in 1 .. n : source'[i] = source[i]
  BY <1>1, <1>2, AppendAt DEF n, m
<1>6. /\ replayed' \in Seq(BarType) /\ Len(replayed') = m /\ replayed'[m] = Bar(t, acc')
      /\ \A i \in 1 .. n : replayed'[i] = replayed[i]
  <2> DEFINE e == Bar(t, acc')
  <2>1. replayed' = Append(replayed, e) /\ e \in BarType /\ m = Len(replayed) + 1
    BY <1>1, <1>2, <1>3 DEF m
  <2> HIDE DEF e
  <2>2. /\ Append(replayed, e) \in Seq(BarType) /\ Len(Append(replayed, e)) = m
        /\ Append(replayed, e)[m] = e
        /\ \A i \in 1 .. Len(replayed) : Append(replayed, e)[i] = replayed[i]
    BY <1>1, <2>1, AppendAt
  <2> QED  BY <1>1, <2>1, <2>2 DEF e
<1>7. resampled' \in Seq(BarType)
  BY <1>1, <1>2, <1>4, AppendProperties
<1>8. \A i \in 1 .. m : source'[i].t % 2 = 0
  <2>1. \A i \in 1 .. m : i = m \/ i \in 1 .. n
    BY <1>1 DEF m
  <2>2. bar.t = t /\ t % 2 = 0
    BY DEF bar, Bar, Reading
  <2> QED  BY <1>5, <2>1, <2>2, SourceAt DEF n
<1>9. target' \in Targets /\ done' \in BOOLEAN
  BY DEF Reading, SourceOK
<1>10. acc' = replayed'[m].body
  BY <1>6 DEF Bar
<1> QED  BY <1>3, <1>5, <1>6, <1>7, <1>8, <1>9, <1>10 DEF SourceOK, bar, n, m

\* The cases of ReadCases, by the sequences.
LEMMA ReadingCases ==
  ASSUME SourceOK, NEW t, NEW body, Reading(t, body)
  PROVE  LET n == Len(source)
         IN  \/ /\ n = 0 /\ acc' = body /\ resampled' = resampled
                /\ Breaks' = Breaks
             \/ /\ n # 0 /\ BucketIn(target, t) = BucketIn(target, source[n].t)
                /\ acc' = Merge(acc, body) /\ resampled' = resampled /\ Breaks' = Breaks
             \/ /\ n # 0 /\ BucketIn(target, t) # BucketIn(target, source[n].t)
                /\ acc' = body
                /\ resampled' = Append(resampled, Bar(StampIn(target, source[n].t, t), acc))
                /\ Breaks' = Breaks \union {n}
<1> DEFINE n == Len(source)
           m == n + 1
<1>1. n \in Nat /\ (n # 0 => n \in 1 .. n) /\ (source = <<>> <=> n = 0)
  BY SourceAt
<1>2. /\ Len(source') = m /\ source'[m].t = t
      /\ \A i \in 1 .. n : source'[i] = source[i]
  <2>1. /\ Len(source') = m /\ source'[m] = Bar(t, body)
        /\ \A i \in 1 .. n : source'[i] = source[i]
    BY SourceGrows
  <2> QED  BY <2>1 DEF Bar
<1>3. target' = target /\ ReadBar(t, body)
  BY DEF Reading
<1>4. /\ Breaks = BreaksOf(target, source) /\ Breaks' = BreaksOf(target, source')
  BY <1>3, BreaksAre
<1>5. /\ n # 0 /\ BucketIn(target, t) # BucketIn(target, source[n].t) => Breaks' = Breaks \union {n}
      /\ n = 0 \/ BucketIn(target, t) = BucketIn(target, source[n].t) => Breaks' = Breaks
  <2>1. n # 0 => source'[n] = source[n]
    BY <1>1, <1>2
  <2> DEFINE u == source'  a == BreaksOf(target, source)  b == BreaksOf(target, u)
  <2>2. /\ n # 0 /\ BucketIn(target, u[m].t) # BucketIn(target, u[n].t) => b = a \union {n}
        /\ n = 0 \/ BucketIn(target, u[m].t) = BucketIn(target, u[n].t) => b = a
    <3>1. Len(source) \in Nat /\ Len(u) = Len(source) + 1 /\ \A i \in 1 .. Len(source) : u[i] = source[i]
      BY <1>1, <1>2
    <3> HIDE DEF u
    <3> QED  BY <3>1, BreaksGrow DEF a, b
  <2> HIDE DEF a, b
  <2>3. Breaks = a /\ Breaks' = b
    BY <1>4 DEF a, b
  <2> QED  BY <1>2, <2>1, <2>2, <2>3
<1>6. /\ n = 0 => acc' = body /\ resampled' = resampled
      /\ n # 0 /\ GetBucket(t) = GetBucket(source[n].t) => acc' = Merge(acc, body) /\ resampled' = resampled
      /\ n # 0 /\ GetBucket(t) # GetBucket(source[n].t) =>
           acc' = body /\ resampled' = Append(resampled, Bar(Stamp(source[n].t, t), acc))
  BY <1>3, ReadCases
<1>7. GetBucket(t) = BucketIn(target, t) /\ GetBucket(source[n].t) = BucketIn(target, source[n].t)
      /\ Stamp(source[n].t, t) = StampIn(target, source[n].t, t)
  BY BucketIs, StampIs
<1>8. CASE n = 0
  BY <1>5, <1>6, <1>8
<1>9. CASE n # 0 /\ BucketIn(target, t) = BucketIn(target, source[n].t)
  BY <1>5, <1>6, <1>7, <1>9
<1>10. CASE n # 0 /\ BucketIn(target, t) # BucketIn(target, source[n].t)
  BY <1>5, <1>6, <1>7, <1>10
<1> QED  BY <1>8, <1>9, <1>10

LEMMA StampsKeep ==
  ASSUME SourceOK, StampsOK, NEW t, NEW body, Reading(t, body)
  PROVE  StampsOK'
<1> DEFINE n == Len(source)  s == source[n].t  r == Len(resampled)
<1>1. /\ n \in Nat /\ r \in Nat /\ (resampled = <<>> <=> r = 0) /\ (source = <<>> <=> n = 0)
      /\ target \in TimeFrames /\ (n # 0 => s \in Nat /\ s % 2 = 0)
      /\ (r # 0 => resampled[r].t \in Nat)
  <2>1. n \in Nat /\ r \in Nat /\ (n # 0 => n \in 1 .. n) /\ (r # 0 => r \in 1 .. r)
    BY SourceAt
  <2> QED  BY <2>1, SourceAt
<1>2. /\ Len(source') = n + 1 /\ source'[n + 1].t = t /\ resampled' \in Seq(BarType)
  <2>1. /\ Len(source') = n + 1 /\ source'[n + 1] = Bar(t, body) /\ SourceOK'
    BY SourceGrows
  <2> QED  BY <2>1 DEF Bar, SourceOK
<1>3. /\ t \in Nat /\ ~done /\ ~done' /\ (n # 0 => s < t)
  BY <1>1 DEF Reading
<1>4. source' # <<>>
  <2>1. n + 1 # 0
    BY <1>1
  <2> QED  BY <1>2, <2>1, EmptySeq
<1>5. CASE resampled' = resampled
  <2>1. resampled' # <<>> => resampled'[Len(resampled')].t <= source'[Len(source')].t
    <3> SUFFICES ASSUME r # 0 PROVE resampled[r].t <= t
      BY <1>1, <1>2, <1>5
    <3>1. n # 0 /\ resampled[r].t <= s
      BY <1>1, <1>3 DEF StampsOK
    <3> HIDE DEF n, s, r
    <3> QED  BY <1>1, <1>3, <3>1
  <2>2. \A k \in 1 .. Len(resampled') - 1 : resampled'[k].t < resampled'[k + 1].t
    BY <1>5 DEF StampsOK
  <2> QED  BY <1>4, <2>1, <2>2 DEF StampsOK
<1>6. CASE /\ n # 0 /\ BucketIn(target, t) # BucketIn(target, s)
           /\ resampled' = Append(resampled, Bar(StampIn(target, s, t), acc))
  <2> DEFINE e == StampIn(target, s, t)  bar == Bar(e, acc)
  <2>1. e \in Nat /\ s < e /\ e <= t
    BY <1>1, <1>3, <1>6, StampAfter, StampBefore
  <2>2. bar \in BarType /\ bar.t = e
    BY <2>1 DEF Bar, BarType, SourceOK
  <2>3. resampled # <<>> => resampled[r].t < bar.t
    <3> SUFFICES ASSUME r # 0 PROVE resampled[r].t < e
      BY <1>1, <2>2
    <3>1. resampled[r].t <= s
      BY <1>1, <1>3 DEF StampsOK
    <3> HIDE DEF n, s, r, e
    <3> QED  BY <1>1, <1>6, <2>1, <3>1
  <2> HIDE DEF e, bar
  <2>4. resampled' = Append(resampled, bar) /\ resampled \in Seq(BarType)
    BY <1>6 DEF SourceOK, bar, e
  <2>5. \A k \in 1 .. Len(resampled) - 1 : resampled[k].t < resampled[k + 1].t
    BY DEF StampsOK
  <2>6. \A k \in 1 .. Len(resampled') - 1 : resampled'[k].t < resampled'[k + 1].t
    <3> DEFINE u == resampled'
    <3>1. u = Append(resampled, bar)
      BY <2>4
    <3> HIDE DEF u
    <3>2. \A k \in 1 .. Len(u) - 1 : u[k].t < u[k + 1].t
      BY <2>2, <2>3, <2>4, <2>5, <3>1, StampMore
    <3> QED  BY <3>2 DEF u
  <2>7. resampled'[Len(resampled')] = bar
    BY <2>2, <2>4, AppendProperties
  <2>8. resampled'[Len(resampled')].t <= source'[Len(source')].t
    BY <1>2, <2>1, <2>2, <2>7
  <2> QED  BY <1>4, <2>6, <2>8 DEF StampsOK
<1> QED  BY <1>5, <1>6, ReadingCases

LEMMA EndsKeep ==
  ASSUME SourceOK, EndsOK, NEW t, NEW body, Reading(t, body)
  PROVE  EndsOK'
<1> DEFINE n == Len(source)  r == Len(resampled)
<1>1. /\ n \in Nat /\ r \in Nat /\ ~done /\ ~done' /\ resampled \in Seq(BarType)
      /\ r = Cardinality(Breaks)
      /\ \A j \in Breaks : resampled[Count(Breaks, j)].body = replayed[j].body
  BY SourceAt DEF Reading, EndsOK, SourceOK
<1>2. Breaks \in SUBSET (1 .. n - 1)
  BY DEF Breaks
<1>3. /\ \A i \in 1 .. n : replayed'[i] = replayed[i]
      /\ SourceOK'
  BY SourceGrows
<1>4. /\ \A j \in Breaks : Count(Breaks, j) \in 1 .. r /\ Count(Breaks \union {n}, j) = Count(Breaks, j)
      /\ Cardinality(Breaks \union {n}) = r + 1
      /\ Count(Breaks \union {n}, n) = r + 1
  <2>1. n \in Nat /\ r = Cardinality(Breaks)
    BY <1>1
  <2> HIDE DEF n, r
  <2> QED  BY <1>2, <2>1, CountWith
<1>5. \A j \in Breaks : replayed'[j] = replayed[j]
  <2>1. \A j \in Breaks : j \in 1 .. n
    BY <1>1, <1>2
  <2> QED  BY <1>3, <2>1
<1>6. EndsOK' = (/\ Len(resampled') = Cardinality(Breaks')
                 /\ \A j \in Breaks' : resampled'[Count(Breaks', j)].body = replayed'[j].body)
  BY <1>1 DEF EndsOK, Count
<1>7. CASE resampled' = resampled /\ Breaks' = Breaks
  BY <1>1, <1>5, <1>6, <1>7
<1>8. CASE /\ n # 0 /\ Breaks' = Breaks \union {n}
           /\ resampled' = Append(resampled, Bar(StampIn(target, source[n].t, t), acc))
  <2> DEFINE bar == Bar(StampIn(target, source[n].t, t), acc)  u == resampled'  E == Breaks \union {n}
  <2>1. u = Append(resampled, bar) /\ u \in Seq(BarType)
    BY <1>3, <1>8 DEF SourceOK
  <2>2. bar.body = replayed[n].body /\ replayed'[n] = replayed[n]
    <3>1. acc = replayed[n].body
      BY <1>8, SourceAt DEF SourceOK
    <3>2. n \in 1 .. n
      BY <1>1, <1>8
    <3> QED  BY <1>3, <3>1, <3>2 DEF Bar
  <2> HIDE DEF bar, u, n
  <2>3. Len(u) = r + 1 /\ u[r + 1] = bar /\ \A k \in 1 .. r : u[k] = resampled[k]
    BY <1>1, <2>1, AppendProperties
  <2>4. \A j \in Breaks : u[Count(E, j)].body = replayed'[j].body
    BY <1>1, <1>4, <1>5, <2>3
  <2>5. u[Count(E, n)].body = replayed'[n].body
    BY <1>4, <2>2, <2>3
  <2>6. Len(u) = Cardinality(E) /\ \A j \in E : u[Count(E, j)].body = replayed'[j].body
    BY <1>4, <2>3, <2>4, <2>5
  <2>7. Breaks' = E
    BY <1>8 DEF n
  <2> HIDE DEF E
  <2> QED  BY <1>6, <2>6, <2>7 DEF u
<1> QED  BY <1>7, <1>8, ReadingCases

LEMMA MyBucketsGrow ==
  ASSUME SourceOK, NEW t, NEW body, Reading(t, body)
  PROVE  MyBuckets' = BucketsAfter(MyBuckets, t, Len(source) + 1, target)
<1> DEFINE n == Len(source)  ts == Times  us == Times'
<1>0. /\ source \in Seq(BarType) /\ source' \in Seq(BarType)
      /\ ts = TimesOf(source) /\ us = TimesOf(source')
  BY SourceGrows DEF SourceOK, Times, TimesOf
<1>1. /\ n \in Nat /\ Len(ts) = n /\ \A i \in 1 .. n : ts[i] = source[i].t
  BY <1>0, SourceAt, TimesAre
<1>2. /\ SourceOK' /\ Len(source') = n + 1 /\ source'[n + 1] = Bar(t, body)
      /\ \A i \in 1 .. n : source'[i] = source[i]
  BY SourceGrows
<1>3. Len(us) = Len(source') /\ \A i \in 1 .. Len(source') : us[i] = source'[i].t
  BY <1>0, TimesAre
<1>4. /\ Len(us) = n + 1 /\ us[n + 1] = t /\ \A i \in 1 .. n : ts[i] = us[i]
  <2>1. \A i \in 1 .. n : i \in 1 .. n + 1
    BY <1>1
  <2>2. n + 1 \in 1 .. n + 1
    BY <1>1
  <2> QED  BY <1>1, <1>2, <1>3, <2>1, <2>2 DEF Bar
<1>5. MyBuckets = Buckets(ts, target) /\ MyBuckets' = Buckets(us, target)
  <2>1. target' = target
    BY DEF Reading
  <2> QED  BY <2>1 DEF MyBuckets
<1> HIDE DEF ts, us, n
<1>6. Buckets(us, target) = BucketsAfter(Buckets(ts, target), us[n + 1], n + 1, target)
  BY <1>1, <1>4, BucketsMore
<1> QED  BY <1>4, <1>5, <1>6 DEF n

Bucket(t, from, to) == [start |-> PeriodStart(t, target), from |-> from, to |-> to]

LEMMA BucketAt ==
  ASSUME SourceOK, CoverOK, NEW k \in 1 .. Len(MyBuckets)
  PROVE  LET b == MyBuckets[k]
         IN  /\ b.from \in Nat \ {0} /\ b.to \in Nat \ {0} /\ b.from <= b.to /\ b.to <= Len(source)
             /\ b \in BucketType /\ b = [start |-> b.start, from |-> b.from, to |-> b.to]
<1>1. MyBuckets[k] \in BucketType
  BY ElementOfSeq DEF CoverOK
<1> QED  BY <1>1 DEF CoverOK, BucketType

\* The last bucket gets the bar, or the bar begins one.
LEMMA BucketCases ==
  ASSUME SourceOK, CoverOK, NEW t, NEW body, Reading(t, body)
  PROVE  LET n == Len(source)  last == Len(MyBuckets)
         IN  /\ n \in Nat /\ last \in Nat /\ (n = 0 <=> last = 0) /\ MyBuckets' \in Seq(BucketType)
             /\ \/ /\ n # 0 /\ PeriodStart(t, target) = PeriodStart(source[n].t, target)
                   /\ Len(MyBuckets') = last
                   /\ \A k \in 1 .. last - 1 : MyBuckets'[k] = MyBuckets[k]
                   /\ MyBuckets'[last] = Bucket(t, MyBuckets[last].from, n + 1)
                \/ /\ n = 0 \/ PeriodStart(t, target) # PeriodStart(source[n].t, target)
                   /\ Len(MyBuckets') = last + 1
                   /\ \A k \in 1 .. last : MyBuckets'[k] = MyBuckets[k]
                   /\ MyBuckets'[last + 1] = Bucket(t, n + 1, n + 1)
<1> DEFINE n == Len(source)
           last == Len(MyBuckets)
           bs == MyBuckets
           cs == MyBuckets'
           start == PeriodStart(t, target)
<1>1. /\ n \in Nat /\ (source = <<>> <=> n = 0)
      /\ bs \in Seq(BucketType) /\ last \in Nat /\ (bs = <<>> <=> last = 0) /\ (n = 0 <=> last = 0)
  <2>1. bs \in Seq(BucketType)
    BY DEF CoverOK
  <2>2. last \in Nat /\ (bs = <<>> <=> last = 0)
    BY <2>1, LenProperties, EmptySeq
  <2> QED  BY <2>1, <2>2, SourceAt DEF CoverOK
<1>2. n # 0 => bs[last].start = PeriodStart(source[n].t, target)
  BY <1>1 DEF CoverOK
<1>3. n + 1 \in Nat \ {0} /\ t \in Nat
  BY <1>1 DEF Reading
<1>4. cs = BucketsAfter(bs, t, n + 1, target)
  BY MyBucketsGrow
<1> HIDE DEF n, cs, start
<1>5. CASE n # 0 /\ start = PeriodStart(source[n].t, target)
  <2> DEFINE e == Bucket(t, bs[last].from, n + 1)
  <2>1. last \in 1 .. last /\ last # 0
    BY <1>1, <1>5
  <2>2. bs[last] \in BucketType
    BY <1>1, <2>1, ElementOfSeq
  <2>3. cs = [bs EXCEPT ![last].to = n + 1]
    <3>1. bs # <<>> /\ Joins(t, bs[last], target)
      BY <1>1, <1>2, <1>5, <2>1 DEF Joins, start
    <3> QED  BY <1>4, <3>1 DEF BucketsAfter
  <2>4. [bs[last] EXCEPT !.to = n + 1] = e
    BY <1>2, <1>5, <2>2 DEF BucketType, Bucket, start
  <2>5. e \in BucketType
    BY <1>3, <2>2 DEF BucketType, Bucket
  <2>6. cs = [bs EXCEPT ![last] = e]
    BY <2>3, <2>4
  <2> HIDE DEF e, bs
  <2>7. /\ cs \in Seq(BucketType) /\ Len(cs) = Len(bs)
        /\ \A k \in 1 .. Len(bs) : cs[k] = IF k = last THEN e ELSE bs[k]
    BY <1>1, <2>1, <2>5, <2>6, ExceptSeq DEF bs
  <2>8. \A k \in 1 .. last - 1 : k \in 1 .. last /\ k # last
    BY <1>1
  <2> QED  BY <1>1, <1>5, <2>1, <2>7, <2>8 DEF bs, cs, e, n, start
<1>6. CASE n = 0 \/ start # PeriodStart(source[n].t, target)
  <2> DEFINE e == Bucket(t, n + 1, n + 1)
  <2>1. cs = Append(bs, e)
    <3>1. ~(bs # <<>> /\ Joins(t, bs[last], target))
      BY <1>1, <1>2, <1>6 DEF Joins, start
    <3> QED  BY <1>4, <3>1 DEF BucketsAfter, Bucket
  <2>2. e \in BucketType
    BY <1>3 DEF BucketType, Bucket
  <2> HIDE DEF e
  <2>3. cs \in Seq(BucketType) /\ Len(cs) = last + 1 /\ cs[last + 1] = e /\ \A k \in 1 .. last : cs[k] = bs[k]
    BY <1>1, <2>1, <2>2, AppendProperties
  <2> QED  BY <1>1, <1>6, <2>3 DEF cs, e, n, start
<1> QED  BY <1>5, <1>6

LEMMA CoverKeeps ==
  ASSUME SourceOK, CoverOK, NEW t, NEW body, Reading(t, body)
  PROVE  CoverOK'
<1> DEFINE n == Len(source)
           m == n + 1
           last == Len(MyBuckets)
           cs == MyBuckets'
<1>1. /\ n \in Nat /\ last \in Nat /\ cs \in Seq(BucketType)
      /\ \/ /\ Len(cs) = last /\ last # 0
            /\ \A k \in 1 .. last - 1 : cs[k] = MyBuckets[k]
            /\ cs[last] = Bucket(t, MyBuckets[last].from, m)
         \/ /\ Len(cs) = last + 1
            /\ \A k \in 1 .. last : cs[k] = MyBuckets[k]
            /\ cs[last + 1] = Bucket(t, m, m)
  BY BucketCases
<1>2. /\ Len(source') = m /\ source'[m].t = t /\ source' # <<>> /\ m = n + 1
  <2>1. /\ Len(source') = m /\ source'[m] = Bar(t, body)
    BY SourceGrows
  <2>2. source' # <<>>
    BY <1>1, <2>1, EmptySeq
  <2> QED  BY <2>1, <2>2 DEF Bar
<1>3. target' = target /\ BucketType' = BucketType
  BY DEF Reading, BucketType
<1>4. \A k \in 1 .. last : /\ MyBuckets[k].from \in Nat /\ MyBuckets[k].to \in Nat
                           /\ MyBuckets[k].from <= MyBuckets[k].to /\ MyBuckets[k].to <= n
  BY BucketAt
<1>5. /\ cs # <<>> /\ cs[Len(cs)].to = m /\ cs[Len(cs)].start = PeriodStart(t, target)
      /\ \A k \in 1 .. Len(cs) : cs[k].from <= cs[k].to /\ cs[k].to <= m
  <2> HIDE DEF m, cs, n, last
  <2>1. CASE /\ Len(cs) = last /\ last # 0
             /\ \A k \in 1 .. last - 1 : cs[k] = MyBuckets[k]
             /\ cs[last] = Bucket(t, MyBuckets[last].from, m)
    <3>1. last \in 1 .. last /\ \A k \in 1 .. last : k = last \/ k \in 1 .. last - 1
      BY <1>1, <2>1
    <3>2. cs[last].start = PeriodStart(t, target) /\ cs[last].from = MyBuckets[last].from /\ cs[last].to = m
      BY <2>1 DEF Bucket
    <3>3. cs[last].from <= m
      BY <1>1, <1>2, <1>4, <3>1, <3>2
    <3>4. \A k \in 1 .. last - 1 : cs[k].from <= cs[k].to /\ cs[k].to <= m
      BY <1>1, <1>2, <1>4, <2>1
    <3>5. m <= m /\ cs # <<>>
      BY <1>1, <1>2, <2>1, EmptySeq
    <3> QED  BY <2>1, <3>1, <3>2, <3>3, <3>4, <3>5
  <2>2. CASE /\ Len(cs) = last + 1
             /\ \A k \in 1 .. last : cs[k] = MyBuckets[k]
             /\ cs[last + 1] = Bucket(t, m, m)
    <3>1. \A k \in 1 .. last + 1 : k = last + 1 \/ k \in 1 .. last
      BY <1>1
    <3>2. /\ cs[last + 1].start = PeriodStart(t, target) /\ cs[last + 1].from = m
          /\ cs[last + 1].to = m
      BY <2>2 DEF Bucket
    <3>3. \A k \in 1 .. last : cs[k].from <= cs[k].to /\ cs[k].to <= m
      BY <1>1, <1>2, <1>4, <2>2
    <3>4. m <= m /\ cs # <<>>
      BY <1>1, <1>2, <2>2, EmptySeq
    <3> QED  BY <2>2, <3>1, <3>2, <3>3, <3>4
  <2> QED  BY <1>1, <2>1, <2>2
<1>6. cs \in Seq(BucketType')
  BY <1>1, <1>3
<1> HIDE DEF n, last
<1> QED  BY <1>2, <1>3, <1>5, <1>6 DEF CoverOK, cs

\* What is in a bucket stays.
LEMMA BucketStays ==
  ASSUME SourceOK, CoverOK, NEW t, NEW body, Reading(t, body), NEW k \in 1 .. Len(MyBuckets)
  PROVE  LET b == MyBuckets[k]
         IN  /\ InBucket(source', b) = InBucket(source, b)
             /\ source'[b.to] = source[b.to]
<1> DEFINE b == MyBuckets[k]  from == b.from  to == b.to
<1>1. from \in Nat \ {0} /\ to \in Nat \ {0} /\ from <= to /\ to <= Len(source) /\ Len(source) \in Nat
  BY BucketAt, SourceAt
<1>2. \A i \in 1 .. Len(source) : source'[i] = source[i]
  BY SourceGrows
<1> HIDE DEF from, to
<1>3. \A i \in from .. to : source'[i] = source[i]
  <2>1. \A i \in from .. to : i \in 1 .. Len(source)
    BY <1>1
  <2> QED  BY <1>2, <2>1
<1>4. to \in from .. to
  BY <1>1
<1> DEFINE u == source'
<1>5. \A i \in from .. to : source[i].body = u[i].body
  BY <1>3
<1> HIDE DEF u
<1>6. BodyIn(source, from, to) = BodyIn(u, from, to)
  BY <1>1, <1>5, BodySame
<1> QED  BY <1>3, <1>4, <1>6 DEF InBucket, from, to, u

LEMMA BodiesKeep ==
  ASSUME SourceOK, CoverOK, BodiesOK, NEW t, NEW body, Reading(t, body)
  PROVE  BodiesOK'
<1> DEFINE n == Len(source)
           m == n + 1
           last == Len(MyBuckets)
           r == Len(resampled)
           cs == MyBuckets'
           u == source'
           Made(k) == /\ resampled'[k].body = InBucket(u, cs[k])
                      /\ u[cs[k].to].t < resampled'[k].t
<1> SUFFICES ASSUME Canonical(target)
             PROVE  /\ Len(resampled') = Len(cs) - 1
                    /\ acc' = InBucket(u, cs[Len(cs)])
                    /\ \A k \in 1 .. Len(resampled') : Made(k)
  <2>1. target' = target /\ ~done'
    BY DEF Reading
  <2>2. source' # <<>>
    <3>1. Len(source') = n + 1 /\ n \in Nat
      BY SourceGrows, SourceAt
    <3> QED  BY <3>1, EmptySeq
  <2> HIDE DEF cs, u
  <2> QED  BY <2>1, <2>2 DEF BodiesOK, Canonical, cs, u
<1>1. /\ n \in Nat /\ last \in Nat /\ r \in Nat /\ (n = 0 <=> last = 0) /\ (source = <<>> <=> n = 0)
      /\ t \in Nat /\ target \in TimeFrames /\ body \in Body /\ resampled \in Seq(BarType)
  BY BucketCases, SourceAt DEF Reading, SourceOK
<1>2. /\ r = IF n = 0 THEN last ELSE last - 1
      /\ n # 0 => acc = InBucket(source, MyBuckets[last])
      /\ \A k \in 1 .. r : /\ resampled[k].body = InBucket(source, MyBuckets[k])
                           /\ source[MyBuckets[k].to].t < resampled[k].t
  BY <1>1 DEF BodiesOK, Reading
<1>3. \A k \in 1 .. last : /\ InBucket(u, MyBuckets[k]) = InBucket(source, MyBuckets[k])
                           /\ u[MyBuckets[k].to] = source[MyBuckets[k].to]
  BY BucketStays
<1>4. /\ u[m] = Bar(t, body) /\ \A i \in 1 .. n : u[i] = source[i]
  BY SourceGrows
<1>5. /\ n = 0 => acc' = body /\ resampled' = resampled
      /\ n # 0 /\ BucketIn(target, t) = BucketIn(target, source[n].t) =>
           acc' = Merge(acc, body) /\ resampled' = resampled
      /\ n # 0 /\ BucketIn(target, t) # BucketIn(target, source[n].t) =>
           acc' = body /\ resampled' = Append(resampled, Bar(StampIn(target, source[n].t, t), acc))
  BY ReadingCases
<1>6. n # 0 => /\ source[n].t \in Nat /\ source[n].t % 2 = 0
               /\ (BucketIn(target, t) = BucketIn(target, source[n].t)
                     <=> PeriodStart(t, target) = PeriodStart(source[n].t, target))
  <2>1. n # 0 => n \in 1 .. n
    BY <1>1
  <2>2. n # 0 => source[n].t \in Nat /\ source[n].t % 2 = 0
    BY <2>1, SourceAt
  <2> QED  BY <1>1, <2>2, SameBucket
<1>7. \/ /\ n # 0 /\ PeriodStart(t, target) = PeriodStart(source[n].t, target)
         /\ Len(cs) = last
         /\ \A k \in 1 .. last - 1 : cs[k] = MyBuckets[k]
         /\ cs[last] = Bucket(t, MyBuckets[last].from, m)
      \/ /\ n = 0 \/ PeriodStart(t, target) # PeriodStart(source[n].t, target)
         /\ Len(cs) = last + 1
         /\ \A k \in 1 .. last : cs[k] = MyBuckets[k]
         /\ cs[last + 1] = Bucket(t, m, m)
  BY BucketCases
<1>8. InBucket(u, Bucket(t, m, m)) = body
  <2>1. m \in Nat /\ u[m].body = body
    BY <1>1, <1>4 DEF Bar
  <2> HIDE DEF m, u
  <2>2. BodyIn(u, m, m) = u[m].body
    BY <1>1, <2>1, BodyOne
  <2> QED  BY <2>1, <2>2 DEF InBucket, Bucket
<1>9. CASE n = 0
  <2> HIDE DEF cs, u, n, last, r, m
  <2>1. cs[1] = Bucket(t, m, m) /\ Len(cs) = 1 /\ r = 0
    BY <1>1, <1>2, <1>7, <1>9
  <2>2. resampled' = resampled /\ acc' = body
    BY <1>5, <1>9
  <2>3. Len(resampled') = 0
    BY <2>1, <2>2 DEF r
  <2> QED  BY <1>8, <2>1, <2>2, <2>3
<1>10. CASE n # 0 /\ PeriodStart(t, target) = PeriodStart(source[n].t, target)
  <2> DEFINE from == MyBuckets[last].from
  <2>1. resampled' = resampled /\ acc' = Merge(acc, body)
    BY <1>5, <1>6, <1>10
  <2>2. Len(cs) = last /\ cs[last] = Bucket(t, from, m) /\ \A k \in 1 .. last - 1 : cs[k] = MyBuckets[k]
    BY <1>7, <1>10
  <2>3. r = last - 1 /\ last \in 1 .. last
    BY <1>1, <1>2, <1>10
  <2>4. \A k \in 1 .. r : Made(k)
    <3> HIDE DEF cs, u, n, last, m, r
    <3> SUFFICES ASSUME NEW k \in 1 .. r PROVE Made(k)
      OBVIOUS
    <3>1. k \in 1 .. last - 1 /\ k \in 1 .. last
      BY <1>1, <2>3
    <3>2. cs[k] = MyBuckets[k] /\ resampled'[k] = resampled[k]
      BY <2>1, <2>2, <3>1
    <3> QED  BY <1>2, <1>3, <3>1, <3>2
  <2>5. acc' = InBucket(u, Bucket(t, from, m))
    <3>1. MyBuckets[last].to = n /\ from \in Nat /\ from # 0 /\ from <= n
      BY <1>1, <1>10, <2>3, BucketAt DEF CoverOK
    <3>2. acc = BodyIn(source, from, n)
      BY <1>2, <1>10, <3>1 DEF InBucket
    <3>3. \A i \in from .. n : source[i].body = u[i].body
      <4>1. \A i \in from .. n : i \in 1 .. n
        BY <1>1, <3>1
      <4> QED  BY <1>4, <4>1
    <3>4. \A i \in from .. m : u[i].body \in Body
      <4>1. \A i \in from .. m : i = m \/ i \in 1 .. n
        BY <1>1, <3>1
      <4>2. \A i \in 1 .. n : u[i].body \in Body
        BY <1>4, SourceAt
      <4>3. u[m].body \in Body
        BY <1>1, <1>4 DEF Bar
      <4> QED  BY <4>1, <4>2, <4>3
    <3>5. m = n + 1 /\ u[m].body = body
      BY <1>4 DEF Bar
    <3> HIDE DEF from, n, m, u
    <3>6. BodyIn(u, from, m) = Merge(BodyIn(source, from, n), u[m].body)
      <4>1. n \in Nat /\ from \in Nat /\ from <= n /\ m = n + 1
        BY <1>1, <3>1, <3>5
      <4> QED  BY <3>3, <3>4, <4>1, BodyMore
    <3> QED  BY <2>1, <3>2, <3>5, <3>6 DEF InBucket, Bucket
  <2> HIDE DEF cs, u, n, last, m, from
  <2> QED  BY <2>1, <2>2, <2>3, <2>4, <2>5 DEF r
<1>11. CASE n # 0 /\ PeriodStart(t, target) # PeriodStart(source[n].t, target)
  <2> DEFINE stamp == StampIn(target, source[n].t, t)  bar == Bar(stamp, acc)
  <2>1. acc' = body /\ resampled' = Append(resampled, bar)
    BY <1>5, <1>6, <1>11
  <2>2. stamp \in Nat /\ source[n].t < stamp
    BY <1>1, <1>6, <1>11, StampAfter
  <2>3. /\ Len(cs) = last + 1 /\ cs[last + 1] = Bucket(t, m, m)
        /\ \A k \in 1 .. last : cs[k] = MyBuckets[k]
    BY <1>7, <1>11
  <2>4. r = last - 1 /\ last \in 1 .. last /\ r + 1 = last
    BY <1>1, <1>2, <1>11
  <2>5. MyBuckets[last].to = n
    BY <1>1, <1>11 DEF CoverOK
  <2>6. bar \in BarType /\ bar.t = stamp /\ bar.body = acc
    BY <2>2 DEF Bar, BarType, SourceOK
  <2> HIDE DEF cs, u, n, last, m, bar, stamp
  <2>7. Len(resampled') = r + 1 /\ resampled'[r + 1] = bar /\ \A k \in 1 .. r : resampled'[k] = resampled[k]
    BY <1>1, <2>1, <2>6, AppendProperties DEF r
  <2> HIDE DEF r
  <2>8. \A k \in 1 .. r : Made(k)
    <3> SUFFICES ASSUME NEW k \in 1 .. r PROVE Made(k)
      OBVIOUS
    <3>1. k \in 1 .. last
      BY <1>1, <2>4
    <3>2. cs[k] = MyBuckets[k] /\ resampled'[k] = resampled[k]
      BY <2>3, <2>7, <3>1
    <3> QED  BY <1>2, <1>3, <3>1, <3>2
  <2>9. Made(last)
    BY <1>2, <1>3, <1>11, <2>2, <2>3, <2>4, <2>5, <2>6, <2>7
  <2>10. \A k \in 1 .. last : k = last \/ k \in 1 .. r
    BY <1>1, <2>4
  <2> QED  BY <1>1, <1>8, <2>1, <2>3, <2>4, <2>7, <2>8, <2>9, <2>10
<1> QED  BY <1>9, <1>10, <1>11
-----------------------------------------------------------------------------
(* Every step *)

LEMMA InitInv == ASSUME Init PROVE AInv
<1>1. /\ source = <<>> /\ resampled = <<>> /\ replayed = <<>> /\ acc = NoBody
      /\ done = FALSE /\ target \in Targets
  BY DEF Init
<1>2. \A S : <<>> \in Seq(S)
  BY EmptySeq
<1>3. Len(<<>>) = 0 /\ (1 .. 0) = {} /\ (1 .. 0 - 1) = {}
  OBVIOUS
<1>4. NoBody \in Body
  BY DEF NoBody, Body
<1>5. SourceOK
  <2>1. \A i \in 1 .. 0 : source[i].t % 2 = 0
    BY <1>3
  <2> QED  BY <1>1, <1>2, <1>3, <1>4, <2>1 DEF SourceOK
<1>6. StampsOK
  BY <1>1, <1>3 DEF StampsOK
<1>7. EndsOK
  <2>1. Breaks = {}
    BY <1>1, <1>3 DEF Breaks
  <2> QED  BY <1>1, <1>3, <2>1, FS_EmptySet DEF EndsOK
<1>8. MyBuckets = <<>>
  <2>1. Times = TimesOf(source) /\ source \in Seq(BarType)
    BY <1>5 DEF Times, TimesOf, SourceOK
  <2>2. Len(Times) = 0
    BY <1>1, <1>3, <2>1, TimesAre
  <2> QED  BY <2>2, BucketsNone DEF MyBuckets
<1>9. CoverOK
  BY <1>1, <1>2, <1>3, <1>8 DEF CoverOK
<1>10. BodiesOK
  BY <1>1, <1>3, <1>8 DEF BodiesOK
<1> QED  BY <1>5, <1>6, <1>7, <1>9, <1>10 DEF AInv

LEMMA ReadKeeps == ASSUME AInv, Read PROVE AInv'
<1>1. SourceOK /\ StampsOK /\ EndsOK /\ CoverOK /\ BodiesOK
  BY DEF AInv
<1>2. PICK t \in Nat, body \in Body :
        /\ ReadBar(t, body) /\ t % 2 = 0
        /\ source # <<>> => source[Len(source)].t < t
        /\ ~done /\ UNCHANGED <<target, done>>
  BY <1>1, ReadBars
<1>3. Reading(t, body)
  BY <1>2 DEF Reading
<1>4. SourceOK'
  BY <1>1, <1>3, SourceGrows
<1>5. StampsOK' /\ EndsOK' /\ CoverOK' /\ BodiesOK'
  BY <1>1, <1>3, StampsKeep, EndsKeep, CoverKeeps, BodiesKeep
<1> QED  BY <1>4, <1>5 DEF AInv

LEMMA FinishKeeps == ASSUME AInv, Finish PROVE AInv'
<1> DEFINE n == Len(source)  s == source[n].t  r == Len(resampled)
           last == Len(MyBuckets)
           stamp == StampIn(target, s, s)
           bar == Bar(stamp, acc)
<1>1. /\ SourceOK /\ StampsOK /\ EndsOK /\ CoverOK /\ BodiesOK
      /\ ~done /\ done' = TRUE /\ UNCHANGED <<target, source, acc, replayed>>
      /\ resampled' = IF source = <<>> THEN <<>>
                      ELSE Append(resampled, Bar(ComputeBarTimestamp(Last(source).t), acc))
  BY DEF AInv, Finish
<1>2. /\ n \in Nat /\ r \in Nat /\ (source = <<>> <=> n = 0) /\ (resampled = <<>> <=> r = 0)
      /\ resampled \in Seq(BarType) /\ acc \in Body /\ target \in TimeFrames
      /\ source \in Seq(BarType)
  BY <1>1, SourceAt DEF SourceOK
<1>3. PeriodEnds' = EndsOf(target, source) /\ Breaks = BreaksOf(target, source)
  BY <1>1, PeriodEndsAre, BreaksAre
<1>4. MyBuckets' = MyBuckets /\ BucketType' = BucketType
  BY <1>1 DEF MyBuckets, Times, BucketType
<1>5. CoverOK'
  BY <1>1, <1>4 DEF CoverOK
<1>6. last \in Nat /\ (source = <<>> => last = 0) /\ (source # <<>> => last # 0 /\ MyBuckets[last].to = n)
  <2>1. MyBuckets \in Seq(BucketType)
    BY <1>1 DEF CoverOK
  <2>2. last \in Nat /\ (MyBuckets = <<>> <=> last = 0)
    BY <2>1, LenProperties, EmptySeq
  <2> QED  BY <1>1, <2>2 DEF CoverOK
<1>7. CASE source = <<>>
  <2>1. resampled' = <<>> /\ Len(<<>>) = 0 /\ (1 .. 0) = {} /\ (1 .. 0 - 1) = {} /\ <<>> \in Seq(BarType)
    BY <1>1, <1>7, EmptySeq
  <2>2. SourceOK'
    BY <1>1, <2>1 DEF SourceOK
  <2>3. StampsOK'
    BY <1>1, <2>1 DEF StampsOK
  <2>4. PeriodEnds' = {}
    BY <1>2, <1>3, <1>7, EndsAre
  <2>5. EndsOK'
    BY <1>1, <2>1, <2>4, FS_EmptySet DEF EndsOK
  <2>6. BodiesOK'
    BY <1>1, <1>4, <1>6, <1>7, <2>1 DEF BodiesOK
  <2> QED  BY <1>5, <2>2, <2>3, <2>5, <2>6 DEF AInv
<1>8. CASE source # <<>>
  <2>1. resampled' = Append(resampled, bar) /\ n # 0 /\ n \in 1 .. n
    <3>1. ComputeBarTimestamp(Last(source).t) = stamp
      BY StampIs DEF Last
    <3> QED  BY <1>1, <1>2, <1>8, <3>1
  <2>2. stamp \in Nat /\ s < stamp /\ s \in Nat
    <3>1. s \in Nat /\ s % 2 = 0
      BY <1>1, <2>1, SourceAt
    <3> HIDE DEF s
    <3> QED  BY <1>2, <3>1, StampAfter
  <2>3. bar \in BarType /\ bar.t = stamp /\ bar.body = acc
    BY <1>2, <2>2 DEF Bar, BarType
  <2> HIDE DEF bar, stamp, s
  <2>4. /\ resampled' \in Seq(BarType) /\ Len(resampled') = r + 1 /\ resampled'[r + 1] = bar
        /\ \A k \in 1 .. r : resampled'[k] = resampled[k]
    BY <1>2, <2>1, <2>3, AppendProperties
  <2>5. SourceOK'
    BY <1>1, <2>4 DEF SourceOK
  <2>6. StampsOK'
    <3> DEFINE u == resampled'
    <3>1. r # 0 => resampled[r].t <= s /\ resampled[r].t \in Nat
      <4>1. r # 0 => r \in 1 .. r
        BY <1>2
      <4> QED  BY <1>1, <1>2, <4>1, SourceAt DEF StampsOK, s
    <3>2. resampled # <<>> => resampled[r].t < bar.t
      <4> HIDE DEF r
      <4> QED  BY <1>2, <2>2, <2>3, <3>1
    <3>3. \A k \in 1 .. Len(resampled) - 1 : resampled[k].t < resampled[k + 1].t
      BY <1>1 DEF StampsOK
    <3>4. u = Append(resampled, bar)
      BY <2>1
    <3> HIDE DEF u
    <3>5. \A k \in 1 .. Len(u) - 1 : u[k].t < u[k + 1].t
      BY <1>2, <2>3, <3>2, <3>3, <3>4, StampMore
    <3> QED  BY <1>1, <3>5 DEF StampsOK, u
  <2>7. EndsOK'
    <3> DEFINE u == resampled'  E == Breaks \union {n}
    <3>1. /\ r = Cardinality(Breaks)
          /\ \A j \in Breaks : resampled[Count(Breaks, j)].body = replayed[j].body
      BY <1>1 DEF EndsOK
    <3>2. Breaks \in SUBSET (1 .. n - 1)
      BY DEF Breaks
    <3>3. /\ \A j \in Breaks : Count(Breaks, j) \in 1 .. r /\ Count(E, j) = Count(Breaks, j)
          /\ Cardinality(E) = r + 1 /\ Count(E, n) = r + 1
      <4>1. n \in Nat /\ r = Cardinality(Breaks)
        BY <1>2, <3>1
      <4> HIDE DEF n, r
      <4> QED  BY <3>2, <4>1, CountWith
    <3>4. PeriodEnds' = E
      BY <1>2, <1>3, <1>8, EndsAre
    <3>5. bar.body = replayed[n].body
      BY <1>1, <1>8, <2>3 DEF SourceOK
    <3> HIDE DEF r, u, n
    <3>6. \A j \in Breaks : u[Count(E, j)].body = replayed[j].body
      BY <2>4, <3>1, <3>3 DEF u
    <3>7. u[Count(E, n)].body = replayed[n].body
      BY <2>4, <3>3, <3>5 DEF u
    <3>8. Len(u) = Cardinality(E) /\ \A j \in E : u[Count(E, j)].body = replayed[j].body
      BY <2>4, <3>3, <3>6, <3>7 DEF u
    <3> HIDE DEF E
    <3>9. EndsOK' = (/\ Len(u) = Cardinality(PeriodEnds')
                     /\ \A j \in PeriodEnds' : u[Count(PeriodEnds', j)].body = replayed[j].body)
      BY <1>1 DEF EndsOK, Count, u
    <3> QED  BY <3>4, <3>8, <3>9
  <2>8. BodiesOK'
    <3> SUFFICES ASSUME Canonical(target)
                 PROVE  /\ Len(resampled') = last
                        /\ acc = InBucket(source, MyBuckets[last])
                        /\ \A k \in 1 .. Len(resampled') :
                             /\ resampled'[k].body = InBucket(source, MyBuckets[k])
                             /\ source[MyBuckets[k].to].t < resampled'[k].t
      BY <1>1, <1>4 DEF BodiesOK, Canonical
    <3>1. /\ r = last - 1 /\ acc = InBucket(source, MyBuckets[last])
          /\ \A k \in 1 .. r : /\ resampled[k].body = InBucket(source, MyBuckets[k])
                               /\ source[MyBuckets[k].to].t < resampled[k].t
      BY <1>1, <1>8 DEF BodiesOK
    <3>2. source[MyBuckets[last].to].t = s
      BY <1>6, <1>8 DEF s
    <3> HIDE DEF n, r, last
    <3>3. r + 1 = last /\ \A k \in 1 .. last : k = last \/ k \in 1 .. r
      BY <1>2, <1>6, <3>1
    <3>4. \A k \in 1 .. r : /\ resampled'[k].body = InBucket(source, MyBuckets[k])
                            /\ source[MyBuckets[k].to].t < resampled'[k].t
      BY <2>4, <3>1
    <3>5. resampled'[last].body = acc /\ resampled'[last].t = stamp
      BY <2>3, <2>4, <3>3
    <3> QED  BY <2>2, <2>4, <3>1, <3>2, <3>3, <3>4, <3>5
  <2> QED  BY <1>5, <2>5, <2>6, <2>7, <2>8 DEF AInv
<1> QED  BY <1>7, <1>8

LEMMA StutterKeeps == ASSUME AInv, UNCHANGED vars PROVE AInv'
<1>1. UNCHANGED <<target, source, acc, resampled, replayed, done>>
  BY DEF vars
<1>2. /\ Breaks' = Breaks /\ PeriodEnds' = PeriodEnds
  BY <1>1, BreaksAre, PeriodEndsAre
<1>3. MyBuckets' = MyBuckets /\ BucketType' = BucketType
  BY <1>1 DEF MyBuckets, Times, BucketType
<1>4. SourceOK' /\ StampsOK'
  BY <1>1 DEF AInv, SourceOK, StampsOK
<1>5. EndsOK'
  BY <1>1, <1>2 DEF AInv, EndsOK, Count
<1>6. CoverOK' /\ BodiesOK'
  BY <1>1, <1>3 DEF AInv, CoverOK, BodiesOK, Canonical
<1> QED  BY <1>4, <1>5, <1>6 DEF AInv
-----------------------------------------------------------------------------
LEMMA SpecInv == Spec => []AInv
<1>1. AInv /\ [Next]_vars => AInv'
  BY ReadKeeps, FinishKeeps, StutterKeeps DEF Next
<1> QED  BY <1>1, InitInv, PTL DEF Spec

LEMMA AgreesOnInv == AInv => AggregatorsAgree
<1> SUFFICES ASSUME AInv, done PROVE AggregatorsAgree
  BY DEF AggregatorsAgree
<1>1. SourceOK /\ EndsOK /\ CoverOK /\ BodiesOK
  BY DEF AInv
<1>2. /\ Len(resampled) = Cardinality(PeriodEnds)
      /\ \A i \in PeriodEnds : resampled[PeriodOf(i)].body = replayed[i].body
  BY <1>1 DEF EndsOK, Count, PeriodOf
<1>3. Canonical(target) =>
        /\ Len(resampled) = Len(MyBuckets)
        /\ \A k \in DOMAIN MyBuckets : resampled[k].body = BodyOf(MyBuckets[k])
  <2>1. DOMAIN MyBuckets = 1 .. Len(MyBuckets)
    BY <1>1, LenProperties DEF CoverOK
  <2> QED  BY <1>1, <2>1, BodyIs DEF BodiesOK, InBucket
<1> QED  BY <1>2, <1>3 DEF AggregatorsAgree, MyBuckets

LEMMA NeverEarlyOnInv == ASSUME MonthsGoOn PROVE AInv => StampsNeverEarly
<1> SUFFICES ASSUME AInv, done PROVE StampsNeverEarly
  BY DEF StampsNeverEarly
<1>1. SourceOK /\ StampsOK /\ CoverOK /\ BodiesOK
  BY DEF AInv
<1>2. \A k \in 1 .. Len(resampled) - 1 : resampled[k].t < resampled[k + 1].t
  BY <1>1 DEF StampsOK
<1>3. ASSUME Canonical(target), NEW k \in DOMAIN resampled
      PROVE  LET last == source[MyBuckets[k].to].t
             IN  /\ resampled[k].t >= last
                 /\ PeriodEnd(resampled[k].t, target) >= PeriodEnd(last, target)
  <2> DEFINE b == MyBuckets[k]  last == source[b.to].t  stamp == resampled[k].t
  <2>1. k \in 1 .. Len(resampled) /\ Len(resampled) = Len(MyBuckets)
    BY <1>1, <1>3, LenProperties DEF SourceOK, BodiesOK
  <2>2. b.to \in 1 .. Len(source)
    <3>1. b.to \in Nat \ {0} /\ b.to <= Len(source) /\ Len(source) \in Nat
      BY <1>1, <2>1, BucketAt, SourceAt
    <3> HIDE DEF b
    <3> QED  BY <3>1
  <2>3. last \in Nat /\ stamp \in Nat /\ last < stamp /\ target \in TimeFrames
    BY <1>1, <1>3, <2>1, <2>2, SourceAt DEF BodiesOK
  <2> HIDE DEF last, stamp
  <2>4. last <= stamp
    BY <2>3
  <2>5. PeriodEnd(last, target) <= PeriodEnd(stamp, target)
    BY <2>3, <2>4, CalendarGrows
  <2>6. stamp >= last /\ PeriodEnd(stamp, target) >= PeriodEnd(last, target)
    BY <2>3, <2>4, <2>5
  <2> QED  BY <2>6 DEF last, stamp, b
<1> QED  BY <1>2, <1>3 DEF StampsNeverEarly, MyBuckets

\* When Resampler::preload and DataReplay::preload have read the same source,
\* DataReplay at its period ends shows the bars of the Resampler one by one,
\* for any compression; and for the timeframes ResampledFeed accepts (whole
\* periods in a day, one week, one month) these are the bars it makes.
THEOREM AggregatorsDoAgree == Spec => []AggregatorsAgree
BY SpecInv, AgreesOnInv, PTL

\* The times compute_bar_timestamp and the end of day rule give to resampled
\* bars increase, none is before a source bar of its period, and period_end of
\* such a time (what Cerebro::run waits for in a context) is not before the end
\* of the period of that bar, if every month is followed by another.
THEOREM StampsAreNeverEarly == ASSUME MonthsGoOn PROVE Spec => []StampsNeverEarly
BY SpecInv, NeverEarlyOnInv, PTL
==============================================================================
