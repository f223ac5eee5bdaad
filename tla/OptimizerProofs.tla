-------------------------- MODULE OptimizerProofs ---------------------------
(***************************************************************************)
(* For any ranges, any number of threads, feeds that can or cannot be      *)
(* cloned and any grid points that throw: grid points are owned by one     *)
(* worker at a time, the search implements the search over a grid, and     *)
(* what is returned is the product of the ranges.                          *)
(*                                                                         *)
(* The argument: whoever looks at or moves next_index holds the mutex, so  *)
(* the points below next have been given out once each.  Every such point  *)
(* is at a worker or has its result; a worker that could clone its feeds   *)
(* ends only when all have been given out; and run returns when nobody has *)
(* one any more.                                                           *)
(*                                                                         *)
(* That the grid is the product is shown range by range: the places of the *)
(* grid of the first k ranges correspond one to one to the combinations of *)
(* their values (Enumerates), since place (j - 1) * w + v of a grid        *)
(* crossed with w values, and no other, is value v of map j (PlaceSplits,  *)
(* PlaceJoins).  The one-to-one correspondence of all places restricts to  *)
(* the places with a given map, and so both are equally many.              *)
(***************************************************************************)
EXTENDS Optimizer, FiniteSetTheorems, SequenceTheorems, WellFoundedInduction, TLAPS
-----------------------------------------------------------------------------
(* Division and induction *)

LEMMA Times == \A a, b \in Nat : a * b \in Nat
OBVIOUS

LEMMA TimesGrows ==
  ASSUME NEW a \in Int, NEW b \in Int, a <= b, NEW w \in Nat
  PROVE  a * w <= b * w
<1>1. b = a + (b - a) /\ b - a \in Nat
  OBVIOUS
<1>2. (b - a) * w \in Nat
  BY <1>1, Times
<1>3. (a + (b - a)) * w = a * w + (b - a) * w
  OBVIOUS
<1> QED  BY <1>1, <1>2, <1>3

LEMMA DivMod ==
  ASSUME NEW x \in Nat, NEW w \in Nat \ {0}
  PROVE  /\ x \div w \in Nat /\ x % w \in 0 .. w - 1
         /\ x = (x \div w) * w + (x % w)
OBVIOUS

LEMMA DivModUnique ==
  ASSUME NEW q \in Nat, NEW w \in Nat \ {0}, NEW r \in 0 .. w - 1
  PROVE  (q * w + r) \div w = q /\ (q * w + r) % w = r
<1> DEFINE x == q * w + r
<1>1. x \in Nat /\ q * w \in Nat
  BY Times
<1>2. x = q * w + r
  OBVIOUS
<1> HIDE DEF x
<1> DEFINE p == x \div w  s == x % w
<1>3. p \in Nat /\ s \in 0 .. w - 1 /\ x = p * w + s
  BY <1>1, DivMod
<1> HIDE DEF p, s
<1>4. CASE p < q
  <2>1. (p + 1) * w <= q * w
    BY <1>3, <1>4, TimesGrows
  <2>2. (p + 1) * w = p * w + w
    BY <1>3
  <2>3. p * w \in Nat
    BY <1>3, Times
  <2> QED  BY <1>1, <1>2, <1>3, <2>1, <2>2, <2>3
<1>5. CASE q < p
  <2>1. (q + 1) * w <= p * w
    BY <1>3, <1>5, TimesGrows
  <2>2. (q + 1) * w = q * w + w
    OBVIOUS
  <2>3. p * w \in Nat
    BY <1>3, Times
  <2> QED  BY <1>1, <1>2, <1>3, <2>1, <2>2, <2>3
<1>6. CASE p = q
  <2>1. p * w \in Nat
    BY <1>3, Times
  <2>2. s = r
    BY <1>1, <1>2, <1>3, <1>6, <2>1
  <2> QED  BY <1>6, <2>2 DEF x, p, s
<1> QED  BY <1>3, <1>4, <1>5, <1>6

\* A set of natural numbers with 0 that is closed under successor has all.
LEMMA Induction ==
  ASSUME NEW T \in SUBSET Nat, 0 \in T, \A n \in T : n + 1 \in T
  PROVE  T = Nat
<1> DEFINE R == OpToRel(<, Nat)
           Bad == Nat \ T
<1>1. IsWellFoundedOn(R, Nat)
  BY NatLessThanWellFounded
<1>2. \A m, n \in Nat : m < n => <<m, n>> \in R
  BY DEF OpToRel
<1> HIDE DEF R
<1> SUFFICES ASSUME Bad # {} PROVE FALSE
  OBVIOUS
<1>3. PICK n \in Bad : \A m \in Bad : ~(<<m, n>> \in R)
  <2> Bad \in SUBSET Nat
    OBVIOUS
  <2> HIDE DEF Bad
  <2> QED  BY <1>1, WFMin
<1>4. n \in Nat /\ n # 0 /\ n \notin T
  OBVIOUS
<1>5. n - 1 \in Nat /\ n - 1 < n /\ (n - 1) + 1 = n
  BY <1>4
<1>6. n - 1 \notin Bad
  BY <1>2, <1>3, <1>4, <1>5
<1> QED  BY <1>4, <1>5, <1>6

\* A row of w values for each of the N maps of a grid: place i is value v of
\* map j.
Row(i, w) == ((i - 1) \div w) + 1
Col(i, w) == ((i - 1) % w) + 1

LEMMA PlaceSplits ==
  ASSUME NEW N \in Nat, NEW w \in Nat, NEW i \in 1 .. N * w
  PROVE  /\ Row(i, w) \in 1 .. N /\ Col(i, w) \in 1 .. w
         /\ i = (Row(i, w) - 1) * w + Col(i, w)
<1>1. w # 0
  OBVIOUS
<1>2. N * w \in Nat /\ i - 1 \in Nat /\ i <= N * w
  BY Times
<1> DEFINE q == (i - 1) \div w  r == (i - 1) % w
<1>3. q \in Nat /\ r \in 0 .. w - 1 /\ i - 1 = q * w + r
  BY <1>1, <1>2, DivMod
<1>4. Row(i, w) = q + 1 /\ Col(i, w) = r + 1
  BY DEF Row, Col
<1> HIDE DEF q, r
<1>5. q < N
  <2> SUFFICES ASSUME N <= q PROVE FALSE
    BY <1>3
  <2>1. N * w <= q * w /\ q * w \in Nat
    BY <1>3, TimesGrows, Times
  <2> QED  BY <1>2, <1>3, <2>1
<1>6. (Row(i, w) - 1) * w = q * w
  BY <1>3, <1>4
<1>7. q * w \in Nat
  BY <1>3, Times
<1>8. i = (Row(i, w) - 1) * w + Col(i, w)
  BY <1>2, <1>3, <1>4, <1>6, <1>7
<1> QED  BY <1>3, <1>4, <1>5, <1>8

LEMMA PlaceJoins ==
  ASSUME NEW N \in Nat, NEW w \in Nat, NEW m, m = N * w, NEW j \in 1 .. N, NEW v \in 1 .. w
  PROVE  \E i \in 1 .. m : Row(i, w) = j /\ Col(i, w) = v
<1> DEFINE q == j - 1  r == v - 1  i == q * w + v
<1>1. q \in Nat /\ r \in 0 .. w - 1 /\ w \in Nat \ {0} /\ q + 1 <= N /\ v = r + 1 /\ j = q + 1
  OBVIOUS
<1> HIDE DEF q, r
<1>2. q * w \in Nat /\ N * w \in Nat /\ (q + 1) * w <= N * w /\ (q + 1) * w = q * w + w
  BY <1>1, Times, TimesGrows
<1>3. i - 1 = q * w + r
  BY <1>1, <1>2
<1>4. i \in 1 .. N * w
  BY <1>1, <1>2
<1>5. (i - 1) \div w = q /\ (i - 1) % w = r
  <2>1. (q * w + r) \div w = q /\ (q * w + r) % w = r
    BY <1>1, DivModUnique
  <2> QED  BY <1>3, <2>1
<1>6. Row(i, w) = j /\ Col(i, w) = v
  BY <1>1, <1>5 DEF Row, Col
<1> QED  BY <1>4, <1>6 DEF q
-----------------------------------------------------------------------------
(* The grids of the first ranges *)

Ranges == [name : STRING, values : Seq(Int)]

GrowsTo(f, R, k) ==
  f = [r \in 0 .. k |-> IF r = 0 THEN <<NoParams>> ELSE Crossed(f[r - 1], R[r])]

LEMMA GridDef ==
  \A R : GenerateParamGrid(R)
           = IF R = <<>> THEN <<>> ELSE (CHOOSE f : GrowsTo(f, R, Len(R)))[Len(R)]
BY DEF GenerateParamGrid, GrowsTo

LEMMA GrowsAt ==
  ASSUME NEW f, NEW R, NEW k, GrowsTo(f, R, k), NEW r \in 0 .. k
  PROVE  f[r] = IF r = 0 THEN <<NoParams>> ELSE Crossed(f[r - 1], R[r])
<1> DEFINE g == [j \in 0 .. k |-> IF j = 0 THEN <<NoParams>> ELSE Crossed(f[j - 1], R[j])]
<1>1. g[r] = IF r = 0 THEN <<NoParams>> ELSE Crossed(f[r - 1], R[r])
  OBVIOUS
<1>2. f = g
  BY DEF GrowsTo
<1> HIDE DEF g
<1> QED  BY <1>1, <1>2

\* The loop over the ranges can be run to its end.
LEMMA GridGrows ==
  ASSUME NEW R
  PROVE  \A k \in Nat : \E f : GrowsTo(f, R, k)
<1> DEFINE T == {k \in Nat : \E f : GrowsTo(f, R, k)}
<1>1. 0 \in T
  <2> DEFINE f == [r \in 0 .. 0 |-> <<NoParams>>]
  <2>1. f = [r \in 0 .. 0 |-> IF r = 0 THEN <<NoParams>> ELSE Crossed(f[r - 1], R[r])]
    <3>1. \A r \in 0 .. 0 : r = 0
      OBVIOUS
    <3> QED  BY <3>1
  <2> HIDE DEF f
  <2>2. GrowsTo(f, R, 0)
    BY <2>1 DEF GrowsTo
  <2> QED  BY <2>2
<1>2. ASSUME NEW k \in T PROVE k + 1 \in T
  <2>1. PICK f : GrowsTo(f, R, k)
    OBVIOUS
  <2> DEFINE g == [r \in 0 .. k + 1 |-> IF r = k + 1 THEN Crossed(f[k], R[k + 1]) ELSE f[r]]
             G(r) == IF r = 0 THEN <<NoParams>> ELSE Crossed(g[r - 1], R[r])
  <2>2. g = [r \in 0 .. k + 1 |-> g[r]]
    OBVIOUS
  <2>3. ASSUME NEW r \in 0 .. k + 1 PROVE g[r] = G(r)
    <3>1. CASE r = k + 1
      <4>1. r # 0 /\ r - 1 = k /\ k \in 0 .. k + 1 /\ k # k + 1
        BY <3>1
      <4>2. g[r] = Crossed(f[k], R[k + 1]) /\ g[k] = f[k]
        BY <3>1, <4>1
      <4> HIDE DEF g
      <4> QED  BY <3>1, <4>1, <4>2
    <3>2. CASE r # k + 1
      <4>1. r \in 0 .. k /\ (r # 0 => r - 1 \in 0 .. k + 1 /\ r - 1 # k + 1)
        BY <3>2
      <4>2. g[r] = f[r] /\ (r # 0 => g[r - 1] = f[r - 1])
        BY <3>2, <4>1
      <4>3. f[r] = IF r = 0 THEN <<NoParams>> ELSE Crossed(f[r - 1], R[r])
        BY <2>1, <4>1, GrowsAt
      <4> HIDE DEF g
      <4> QED  BY <4>2, <4>3
    <3> QED  BY <3>1, <3>2
  <2> HIDE DEF g
  <2>4. GrowsTo(g, R, k + 1)
    BY <2>2, <2>3 DEF GrowsTo
  <2> QED  BY <2>4
<1> HIDE DEF T
<1>3. T \in SUBSET Nat
  BY DEF T
<1>4. T = Nat
  BY <1>1, <1>2, <1>3, Induction
<1> QED  BY <1>4 DEF T

-----------------------------------------------------------------------------
(* What the grid of the first k ranges is *)

PicksTo(R, k) == {c \in [1 .. k -> Nat] : \A r \in 1 .. k : c[r] \in 1 .. Len(R[r].values)}

LastNamed(R, k, n) == Max({r \in 1 .. k : R[r].name = n})

ChosenTo(R, c, k) ==
  [n \in {R[r].name : r \in 1 .. k} |->
     R[LastNamed(R, k, n)].values[c[LastNamed(R, k, n)]]]

Longer(c, k, v) == [r \in 1 .. k + 1 |-> IF r = k + 1 THEN v ELSE c[r]]

LEMMA MaxIsIn ==
  \A k \in Nat : \A S \in SUBSET (1 .. k) : S # {} => Max(S) \in S /\ \A y \in S : y <= Max(S)
<1> DEFINE P(k) == \A S \in SUBSET (1 .. k) : S # {} => \E x \in S : \A y \in S : x >= y
           T == {k \in Nat : P(k)}
<1>1. 0 \in T
  <2>1. \A S \in SUBSET (1 .. 0) : S = {}
    OBVIOUS
  <2> QED  BY <2>1
<1>2. ASSUME NEW k \in T PROVE k + 1 \in T
  <2> SUFFICES ASSUME NEW S \in SUBSET (1 .. k + 1), S # {} PROVE \E x \in S : \A y \in S : x >= y
    OBVIOUS
  <2>1. CASE k + 1 \in S
    BY <2>1
  <2>2. CASE k + 1 \notin S
    <3>1. S \in SUBSET (1 .. k)
      BY <2>2
    <3> QED  BY <3>1
  <2> QED  BY <2>1, <2>2
<1> HIDE DEF T
<1>3. T = Nat
  <2>1. T \in SUBSET Nat
    BY DEF T
  <2> QED  BY <1>1, <1>2, <2>1, Induction
<1>4. ASSUME NEW k \in Nat, NEW S \in SUBSET (1 .. k), S # {}
      PROVE  Max(S) \in S /\ \A y \in S : y <= Max(S)
  <2>1. PICK x \in S : \A y \in S : x >= y
    BY <1>3, <1>4 DEF T
  <2>2. Max(S) \in S /\ \A y \in S : Max(S) >= y
    BY <2>1 DEF Max
  <2> QED  BY <2>2
<1> QED  BY <1>4

\* The last range of a name, and what one range more changes about it.
LEMMA LastNamedIn ==
  ASSUME NEW R, NEW k \in Nat, NEW n \in {R[r].name : r \in 1 .. k}
  PROVE  LastNamed(R, k, n) \in 1 .. k /\ R[LastNamed(R, k, n)].name = n
<1> DEFINE S == {r \in 1 .. k : R[r].name = n}
<1>1. S \in SUBSET (1 .. k) /\ S # {}
  OBVIOUS
<1> HIDE DEF S
<1>2. Max(S) \in S
  BY <1>1, MaxIsIn
<1> QED  BY <1>2 DEF S, LastNamed

LEMMA LastNamedMore ==
  ASSUME NEW R, NEW k \in Nat, NEW n
  PROVE  LastNamed(R, k + 1, n) = IF R[k + 1].name = n THEN k + 1 ELSE LastNamed(R, k, n)
<1> DEFINE S == {r \in 1 .. k : R[r].name = n}
           T == {r \in 1 .. k + 1 : R[r].name = n}
<1>1. CASE R[k + 1].name = n
  <2>1. T \in SUBSET (1 .. k + 1) /\ k + 1 \in T /\ k + 1 \in Nat
    BY <1>1
  <2> HIDE DEF T
  <2>2. Max(T) \in T /\ \A y \in T : y <= Max(T)
    BY <2>1, MaxIsIn
  <2>3. Max(T) \in 1 .. k + 1 /\ k + 1 <= Max(T)
    BY <2>1, <2>2
  <2>4. Max(T) = k + 1
    BY <2>3
  <2> QED  BY <1>1, <2>4 DEF T, LastNamed
<1>2. CASE R[k + 1].name # n
  <2>1. \A r \in 1 .. k + 1 : r = k + 1 \/ r \in 1 .. k
    OBVIOUS
  <2>2. S = T
    BY <1>2, <2>1
  <2> QED  BY <1>2, <2>2 DEF LastNamed
<1> QED  BY <1>1, <1>2

\* A value of one more range, put into the map of a combination.
LEMMA ChosenMore ==
  ASSUME NEW R, NEW k \in Nat, NEW c, NEW v
  PROVE  With(ChosenTo(R, c, k), R[k + 1].name, R[k + 1].values[v])
           = ChosenTo(R, Longer(c, k, v), k + 1)
<1> DEFINE name == R[k + 1].name  value == R[k + 1].values[v]
           Old == {R[r].name : r \in 1 .. k}  New == {R[r].name : r \in 1 .. k + 1}
           p == ChosenTo(R, c, k)  d == Longer(c, k, v)
           At1(n) == R[LastNamed(R, k + 1, n)].values[d[LastNamed(R, k + 1, n)]]
<1>1. New = Old \union {name}
  <2>1. /\ \A r \in 1 .. k + 1 : r = k + 1 \/ r \in 1 .. k
        /\ \A r \in 1 .. k : r \in 1 .. k + 1
        /\ k + 1 \in 1 .. k + 1
    OBVIOUS
  <2> QED  BY <2>1
<1>2. ASSUME NEW n \in New PROVE (IF n = name THEN value ELSE p[n]) = At1(n)
  <2>1. CASE n = name
    <3>1. LastNamed(R, k + 1, n) = k + 1
      BY <2>1, LastNamedMore
    <3>2. d[k + 1] = v
      BY DEF Longer
    <3> HIDE DEF d
    <3> QED  BY <2>1, <3>1, <3>2
  <2>2. CASE n # name
    <3>1. n \in Old
      BY <1>1, <2>2
    <3> DEFINE last == LastNamed(R, k, n)
    <3>2. LastNamed(R, k + 1, n) = last
      BY <2>2, LastNamedMore
    <3>3. last \in 1 .. k
      BY <3>1, LastNamedIn
    <3>4. p[n] = R[last].values[c[last]]
      BY <3>1 DEF ChosenTo
    <3> HIDE DEF last, p
    <3>5. last \in 1 .. k + 1 /\ last # k + 1
      BY <3>3
    <3>6. d[last] = c[last]
      BY <3>5 DEF Longer
    <3> HIDE DEF d
    <3> QED  BY <2>2, <3>2, <3>4, <3>6
  <2> QED  BY <2>1, <2>2
<1>3. DOMAIN p = Old
  BY DEF ChosenTo
<1>4. With(p, name, value) = [n \in Old \union {name} |-> IF n = name THEN value ELSE p[n]]
  <2> HIDE DEF p, Old, name, value
  <2> QED  BY <1>3 DEF With
<1>5. ChosenTo(R, d, k + 1) = [n \in New |-> At1(n)]
  BY DEF ChosenTo
<1> HIDE DEF p, d, name, value, Old, New, At1
<1>6. [n \in New |-> IF n = name THEN value ELSE p[n]] = [n \in New |-> At1(n)]
  BY <1>2
<1> QED  BY <1>1, <1>4, <1>5, <1>6 DEF p, d, name, value

Enumerates(g, R, k, D) ==
  /\ Len(g) \in Nat /\ g = [i \in 1 .. Len(g) |-> g[i]]
  /\ D \in [1 .. Len(g) -> PicksTo(R, k)]
  /\ \A i, j \in 1 .. Len(g) : D[i] = D[j] => i = j
  /\ \A c \in PicksTo(R, k) : \E i \in 1 .. Len(g) : D[i] = c
  /\ \A i \in 1 .. Len(g) : g[i] = ChosenTo(R, D[i], k)

LEMMA LenIs ==
  ASSUME NEW n \in Nat, NEW f, f = [i \in 1 .. n |-> f[i]]
  PROVE  Len(f) = n
<1> DEFINE S == {f[i] : i \in 1 .. n}
<1>1. f \in [1 .. n -> S]
  OBVIOUS
<1> HIDE DEF S
<1>2. f \in Seq(S) /\ DOMAIN f = 1 .. n
  BY <1>1
<1> QED  BY <1>2

LEMMA NothingEnumerated ==
  ASSUME NEW R
  PROVE  \E D : Enumerates(<<NoParams>>, R, 0, D)
<1> DEFINE e == [r \in 1 .. 0 |-> 0]
           D == [i \in 1 .. 1 |-> e]
           g == <<NoParams>>
<1>1. \A r \in 1 .. 0 : FALSE
  OBVIOUS
<1>2. e \in PicksTo(R, 0) /\ \A c \in PicksTo(R, 0) : c = e
  <2>1. e \in [1 .. 0 -> Nat] /\ \A c \in [1 .. 0 -> Nat] : c = e
    BY <1>1
  <2> HIDE DEF e
  <2> QED  BY <1>1, <2>1 DEF PicksTo
<1>3. ChosenTo(R, e, 0) = NoParams
  <2>1. {R[r].name : r \in 1 .. 0} = {}
    BY <1>1
  <2> HIDE DEF e
  <2> QED  BY <2>1 DEF ChosenTo, NoParams
<1>4. Len(g) = 1 /\ g[1] = NoParams /\ g = [i \in 1 .. 1 |-> g[i]]
  OBVIOUS
<1>5. /\ D \in [1 .. 1 -> PicksTo(R, 0)] /\ D[1] = e
      /\ \A i \in 1 .. 1 : i = 1
      /\ 1 \in 1 .. 1
  <2> HIDE DEF e
  <2> QED  BY <1>2
<1> HIDE DEF D, g, e
<1>6. Enumerates(g, R, 0, D)
  BY <1>2, <1>3, <1>4, <1>5 DEF Enumerates
<1> QED  BY <1>6 DEF g

LEMMA LongerPicks ==
  ASSUME NEW R, NEW k \in Nat, NEW c \in PicksTo(R, k), NEW v \in 1 .. Len(R[k + 1].values)
  PROVE  /\ Longer(c, k, v) \in PicksTo(R, k + 1)
         /\ Longer(c, k, v)[k + 1] = v /\ \A r \in 1 .. k : Longer(c, k, v)[r] = c[r]
<1> DEFINE d == Longer(c, k, v)
<1>1. c \in [1 .. k -> Nat] /\ \A r \in 1 .. k : c[r] \in 1 .. Len(R[r].values)
  BY DEF PicksTo
<1>2. v \in Nat
  OBVIOUS
<1>3. \A r \in 1 .. k + 1 : r = k + 1 \/ r \in 1 .. k
  OBVIOUS
<1>4. \A r \in 1 .. k : r \in 1 .. k + 1 /\ r # k + 1
  OBVIOUS
<1>5. d \in [1 .. k + 1 -> Nat]
  BY <1>1, <1>2, <1>3 DEF Longer
<1>6. d[k + 1] = v /\ \A r \in 1 .. k : d[r] = c[r]
  BY <1>4 DEF Longer
<1> HIDE DEF d
<1> QED  BY <1>1, <1>3, <1>5, <1>6 DEF PicksTo, d

Shorter(d, k) == [r \in 1 .. k |-> d[r]]

LEMMA ShorterPicks ==
  ASSUME NEW R, NEW k \in Nat, NEW d \in PicksTo(R, k + 1)
  PROVE  /\ Shorter(d, k) \in PicksTo(R, k) /\ d[k + 1] \in 1 .. Len(R[k + 1].values)
         /\ d = Longer(Shorter(d, k), k, d[k + 1])
<1> DEFINE c == Shorter(d, k)  v == d[k + 1]
<1>1. /\ d \in [1 .. k + 1 -> Nat] /\ \A r \in 1 .. k + 1 : d[r] \in 1 .. Len(R[r].values)
  BY DEF PicksTo
<1>2. /\ \A r \in 1 .. k : r \in 1 .. k + 1
      /\ k + 1 \in 1 .. k + 1
      /\ \A r \in 1 .. k + 1 : r = k + 1 \/ r \in 1 .. k
  OBVIOUS
<1>3. c \in PicksTo(R, k) /\ v \in 1 .. Len(R[k + 1].values)
  <2>1. c \in [1 .. k -> Nat] /\ \A r \in 1 .. k : c[r] = d[r]
    BY <1>1, <1>2 DEF Shorter
  <2> HIDE DEF c
  <2> QED  BY <1>1, <1>2, <2>1 DEF PicksTo
<1>4. \A r \in 1 .. k + 1 : d[r] = IF r = k + 1 THEN v ELSE c[r]
  BY <1>2 DEF Shorter
<1> HIDE DEF c, v
<1>5. d = Longer(c, k, v)
  BY <1>1, <1>4 DEF Longer
<1> QED  BY <1>3, <1>5 DEF c, v

\* Crossing with one more range goes through the combinations with it.
LEMMA CrossedEnumerates ==
  ASSUME NEW R \in Seq(Ranges), NEW k \in Nat, k + 1 <= Len(R), NEW g, NEW D,
         Enumerates(g, R, k, D)
  PROVE  \E E : Enumerates(Crossed(g, R[k + 1]), R, k + 1, E)
<1> DEFINE N == Len(g)  w == Len(R[k + 1].values)
           E == [i \in 1 .. N * w |-> Longer(D[Row(i, w)], k, Col(i, w))]
           h == Crossed(g, R[k + 1])
<1>1. w \in Nat /\ N \in Nat /\ N * w \in Nat
  <2>1. R[k + 1] \in Ranges
    BY ElementOfSeq
  <2>2. w \in Nat
    BY <2>1 DEF Ranges
  <2>3. N \in Nat
    BY DEF Enumerates
  <2> HIDE DEF w, N
  <2> QED  BY <2>2, <2>3, Times
<1>2. h = [i \in 1 .. N * w |-> With(g[Row(i, w)], R[k + 1].name, R[k + 1].values[Col(i, w)])]
  BY DEF Crossed, Row, Col
<1> HIDE DEF N, w, h
<1>3. ASSUME NEW i \in 1 .. N * w
      PROVE  /\ Row(i, w) \in 1 .. N /\ Col(i, w) \in 1 .. w
             /\ i = (Row(i, w) - 1) * w + Col(i, w)
  BY <1>1, PlaceSplits
<1>4. h = [i \in 1 .. N * w |-> h[i]] /\ Len(h) = N * w
  <2>1. h = [i \in 1 .. N * w |-> h[i]]
    BY <1>2
  <2> QED  BY <1>1, <2>1, LenIs
<1>5. ASSUME NEW i \in 1 .. N * w
      PROVE  /\ E[i] = Longer(D[Row(i, w)], k, Col(i, w))
             /\ D[Row(i, w)] \in PicksTo(R, k)
             /\ E[i] \in PicksTo(R, k + 1)
             /\ E[i][k + 1] = Col(i, w) /\ \A r \in 1 .. k : E[i][r] = D[Row(i, w)][r]
  <2> DEFINE c == D[Row(i, w)]  v == Col(i, w)
  <2>1. E[i] = Longer(c, k, v)
    OBVIOUS
  <2>2. c \in PicksTo(R, k) /\ v \in 1 .. Len(R[k + 1].values)
    BY <1>3 DEF Enumerates, N, w
  <2> HIDE DEF c, v, E
  <2>3. /\ Longer(c, k, v) \in PicksTo(R, k + 1)
        /\ Longer(c, k, v)[k + 1] = v /\ \A r \in 1 .. k : Longer(c, k, v)[r] = c[r]
    BY <2>2, LongerPicks
  <2> QED  BY <2>1, <2>2, <2>3 DEF c, v
<1>6. DOMAIN E = 1 .. N * w /\ E = [i \in 1 .. N * w |-> E[i]]
  OBVIOUS
<1>7. ASSUME NEW i \in 1 .. N * w PROVE h[i] = ChosenTo(R, E[i], k + 1)
  <2>1. g[Row(i, w)] = ChosenTo(R, D[Row(i, w)], k)
    BY <1>3 DEF Enumerates, N
  <2>2. h[i] = With(ChosenTo(R, D[Row(i, w)], k), R[k + 1].name, R[k + 1].values[Col(i, w)])
    BY <1>2, <2>1
  <2> DEFINE c == D[Row(i, w)]  v == Col(i, w)
  <2> HIDE DEF c, v, E
  <2>3. h[i] = ChosenTo(R, Longer(c, k, v), k + 1)
    BY <2>2, ChosenMore DEF c, v
  <2> QED  BY <1>5, <2>3 DEF c, v
<1>8. ASSUME NEW i \in 1 .. N * w, NEW j \in 1 .. N * w, E[i] = E[j] PROVE i = j
  <2> DEFINE a == Row(i, w)  b == Row(j, w)
  <2>1. Col(i, w) = Col(j, w) /\ \A r \in 1 .. k : D[a][r] = D[b][r]
    <3> HIDE DEF E
    <3> QED  BY <1>5, <1>8
  <2>2. D[a] \in PicksTo(R, k) /\ D[b] \in PicksTo(R, k) /\ a \in 1 .. N /\ b \in 1 .. N
    BY <1>3, <1>5
  <2> HIDE DEF a, b, E
  <2>3. D[a] = D[b]
    BY <2>1, <2>2 DEF PicksTo
  <2>4. a = b
    BY <2>2, <2>3 DEF Enumerates, N
  <2> QED  BY <1>3, <2>1, <2>4 DEF a, b
<1>9. ASSUME NEW d \in PicksTo(R, k + 1) PROVE \E i \in 1 .. N * w : E[i] = d
  <2> HIDE DEF E
  <2> DEFINE c == Shorter(d, k)  v == d[k + 1]
  <2>1. c \in PicksTo(R, k) /\ v \in 1 .. w /\ d = Longer(c, k, v)
    BY <1>9, ShorterPicks DEF w
  <2> HIDE DEF c, v
  <2>2. PICK j \in 1 .. N : D[j] = c
    BY <2>1 DEF Enumerates, N
  <2>6. N \in Nat /\ w \in Nat /\ j \in 1 .. N /\ v \in 1 .. w
    BY <1>1, <2>1, <2>2
  <2>3. PICK i \in 1 .. N * w : Row(i, w) = j /\ Col(i, w) = v
    <3> DEFINE m == N * w
    <3>1. m = N * w
      OBVIOUS
    <3> HIDE DEF m
    <3>2. \E i \in 1 .. m : Row(i, w) = j /\ Col(i, w) = v
      BY <2>6, <3>1, PlaceJoins
    <3> QED  BY <3>1, <3>2
  <2>4. E[i] = Longer(c, k, v)
    BY <1>5, <2>2, <2>3
  <2> QED  BY <2>1, <2>3, <2>4
<1> HIDE DEF E
<1>10. E \in [1 .. N * w -> PicksTo(R, k + 1)]
  BY <1>5, <1>6
<1>11. Enumerates(h, R, k + 1, E)
  BY <1>1, <1>4, <1>7, <1>8, <1>9, <1>10 DEF Enumerates
<1> QED  BY <1>11 DEF h

LEMMA GridEnumerates ==
  ASSUME NEW R \in Seq(Ranges), R # <<>>
  PROVE  \E D : Enumerates(GenerateParamGrid(R), R, Len(R), D)
<1> DEFINE f == CHOOSE f : GrowsTo(f, R, Len(R))
           T == {k \in Nat : k <= Len(R) => \E D : Enumerates(f[k], R, k, D)}
<1>1. Len(R) \in Nat
  BY LenProperties
<1>2. GrowsTo(f, R, Len(R)) /\ GenerateParamGrid(R) = f[Len(R)]
  <2>1. \E g : GrowsTo(g, R, Len(R))
    BY <1>1, GridGrows
  <2> QED  BY <2>1, GridDef
<1> HIDE DEF f
<1>3. 0 \in T
  <2>1. 0 \in 0 .. Len(R)
    BY <1>1
  <2>2. f[0] = <<NoParams>>
    BY <1>2, <2>1, GrowsAt
  <2> QED  BY <2>2, NothingEnumerated
<1>4. ASSUME NEW k \in T PROVE k + 1 \in T
  <2> SUFFICES ASSUME k + 1 <= Len(R) PROVE \E D : Enumerates(f[k + 1], R, k + 1, D)
    OBVIOUS
  <2>1. k \in Nat /\ k <= Len(R) /\ k + 1 \in 0 .. Len(R) /\ k + 1 # 0 /\ (k + 1) - 1 = k
    BY <1>1
  <2>2. PICK D : Enumerates(f[k], R, k, D)
    BY <2>1
  <2>3. f[k + 1] = Crossed(f[k], R[k + 1])
    BY <1>2, <2>1, GrowsAt
  <2> DEFINE g == f[k]
  <2>4. Enumerates(g, R, k, D)
    BY <2>2
  <2> HIDE DEF g
  <2>5. \E E : Enumerates(Crossed(g, R[k + 1]), R, k + 1, E)
    BY <2>1, <2>4, CrossedEnumerates
  <2> QED  BY <2>3, <2>5 DEF g
<1> HIDE DEF T
<1>5. T \in SUBSET Nat
  BY DEF T
<1>6. T = Nat
  BY <1>3, <1>4, <1>5, Induction
<1> QED  BY <1>1, <1>2, <1>6 DEF T

\* What the state needs of the grid: it is a sequence of maps with a name.
LEMMA GridType ==
  ASSUME NEW R \in Seq(Ranges)
  PROVE  LET g == GenerateParamGrid(R)
         IN  /\ Len(g) \in Nat /\ g = [i \in 1 .. Len(g) |-> g[i]]
             /\ \A i \in 1 .. Len(g) : g[i] # NoParams
<1> DEFINE g == GenerateParamGrid(R)
<1>1. CASE R = <<>>
  <2>1. g = <<>>
    BY <1>1, GridDef
  <2> HIDE DEF g
  <2>2. Len(g) = 0 /\ g = [i \in 1 .. 0 |-> g[i]]
    BY <2>1
  <2> QED  BY <2>2 DEF g
<1>2. CASE R # <<>>
  <2>1. PICK D : Enumerates(g, R, Len(R), D)
    BY <1>2, GridEnumerates
  <2>2. 1 \in 1 .. Len(R)
    BY <1>2, LenProperties, EmptySeq
  <2> HIDE DEF g
  <2>3. ASSUME NEW i \in 1 .. Len(g) PROVE g[i] # NoParams
    <3>1. g[i] = ChosenTo(R, D[i], Len(R))
      BY <2>1 DEF Enumerates
    <3>2. R[1].name \in DOMAIN g[i]
      BY <2>2, <3>1 DEF ChosenTo
    <3> QED  BY <3>2 DEF NoParams
  <2> QED  BY <2>1, <2>3 DEF Enumerates, g
<1> QED  BY <1>1, <1>2

LEMMA PicksAre ==
  ASSUME NEW R \in Seq(Ranges)
  PROVE  /\ Picks(R) = PicksTo(R, Len(R))
         /\ \A c : Chosen(R, c) = ChosenTo(R, c, Len(R))
<1> DEFINE n == Len(R)
<1>1. n \in Nat /\ DOMAIN R = 1 .. n /\ \A r \in 1 .. n : R[r] \in Ranges
  BY LenProperties, ElementOfSeq
<1> HIDE DEF n
<1>2. \A r \in 1 .. n : DOMAIN R[r].values = 1 .. Len(R[r].values) /\ Len(R[r].values) \in Nat
  BY <1>1 DEF Ranges
<1> DEFINE V == UNION {DOMAIN R[r].values : r \in 1 .. n}
<1>3. \A r \in 1 .. n : 1 .. Len(R[r].values) \in SUBSET V
  BY <1>2
<1>4. ASSUME NEW c \in Picks(R) PROVE c \in PicksTo(R, n)
  <2>1. /\ c \in [1 .. n -> V] /\ \A r \in 1 .. n : c[r] \in 1 .. Len(R[r].values)
    BY <1>1, <1>2, <1>4 DEF Picks
  <2>2. \A r \in 1 .. n : c[r] \in Nat
    BY <2>1
  <2> HIDE DEF V
  <2> QED  BY <2>1, <2>2 DEF PicksTo
<1>5. ASSUME NEW c \in PicksTo(R, n) PROVE c \in Picks(R)
  <2>1. c \in [1 .. n -> Nat] /\ \A r \in 1 .. n : c[r] \in 1 .. Len(R[r].values)
    BY DEF PicksTo
  <2>2. c \in [1 .. n -> V]
    <3> HIDE DEF V
    <3> QED  BY <1>3, <2>1
  <2> QED  BY <1>1, <1>2, <2>1, <2>2 DEF Picks
<1>6. Picks(R) = PicksTo(R, n)
  BY <1>4, <1>5
<1>7. \A c : Chosen(R, c) = ChosenTo(R, c, n)
  BY <1>1 DEF Chosen, ChosenTo, LastNamed
<1> QED  BY <1>6, <1>7 DEF n

\* generate_param_grid gives every combination, as often as the ranges do.
LEMMA GridIsProduct ==
  ASSUME NEW R \in Seq(Ranges)
  PROVE  EnumeratesProduct(GenerateParamGrid(R), R)
<1> DEFINE g == GenerateParamGrid(R)
<1>1. CASE R = <<>>
  BY <1>1, GridDef DEF EnumeratesProduct
<1>2. CASE R # <<>>
  <2>1. PICK D : Enumerates(g, R, Len(R), D)
    BY <1>2, GridEnumerates
  <2> HIDE DEF g
  <2> DEFINE N == Len(g)
  <2>2. /\ N \in Nat /\ DOMAIN g = 1 .. N
        /\ D \in [1 .. N -> Picks(R)]
        /\ \A i, j \in 1 .. N : D[i] = D[j] => i = j
        /\ \A c \in Picks(R) : \E i \in 1 .. N : D[i] = c
        /\ \A i \in 1 .. N : g[i] = Chosen(R, D[i])
    BY <2>1, PicksAre DEF Enumerates
  <2> HIDE DEF N
  <2>3. ASSUME NEW p
        PROVE  Cardinality({i \in DOMAIN g : g[i] = p})
                 = Cardinality({c \in Picks(R) : Chosen(R, c) = p})
    <3> DEFINE S == {i \in 1 .. N : g[i] = p}
               T == {c \in Picks(R) : Chosen(R, c) = p}
               b == [i \in S |-> D[i]]
    <3>1. IsFiniteSet(S)
      <4>1. IsFiniteSet(1 .. N)
        BY <2>2, FS_Interval
      <4>2. S \in SUBSET (1 .. N)
        OBVIOUS
      <4> HIDE DEF S
      <4> QED  BY <4>1, <4>2, FS_Subset
    <3>2. b \in [S -> T]
      BY <2>2
    <3>3. \A i, j \in S : b[i] = b[j] => i = j
      BY <2>2
    <3>4. \A c \in T : \E i \in S : b[i] = c
      BY <2>2
    <3> HIDE DEF S, T, b
    <3>5. ExistsBijection(S, T)
      BY <3>2, <3>3, <3>4 DEF ExistsBijection, Bijection, Injection, IsInjective, Surjection
    <3>6. Cardinality(S) = Cardinality(T)
      BY <3>1, <3>5, FS_Bijection
    <3> QED  BY <2>2, <3>6 DEF S, T
  <2> QED  BY <1>2, <2>3 DEF EnumeratesProduct, g
<1> QED  BY <1>1, <1>2
-----------------------------------------------------------------------------
(* The invariant of the search *)

GridOK ==
  /\ cloneable \in BOOLEAN
  /\ GridSize \in Nat /\ DOMAIN grid = 1 .. GridSize
  /\ \A i \in DOMAIN grid : grid[i] # NoParams

GridIsSeq == grid = [i \in DOMAIN grid |-> grid[i]]

ResultsOK ==
  /\ results = [i \in DOMAIN grid |-> results[i]]
  /\ \A i \in DOMAIN grid : results[i] \in {NoParams, grid[i]}

MutexOK == \A w \in Workers : pc[w] \in {"look", "bump"} => holder = w

ClaimOK ==
  \A w \in Workers : Busy(w) =>
    /\ idx[w] \in 0 .. GridSize - 1
    /\ IF pc[w] = "bump" THEN idx[w] = next ELSE idx[w] < next
    /\ results[idx[w] + 1] = NoParams

OwnersDiffer ==
  \A v, w \in Workers : Busy(v) /\ Busy(w) /\ v # w => idx[v] # idx[w]

Unclaimed == \A i \in DOMAIN grid : i > next => results[i] = NoParams

Claimed ==
  cloneable => \A i \in DOMAIN grid : i <= next =>
    results[i] = grid[i] \/ \E w \in Workers : Busy(w) /\ idx[w] = i - 1

BlankOK ==
  ~cloneable => /\ \A i \in DOMAIN grid : results[i] = NoParams
                /\ \A w \in Workers : pc[w] \notin {"run", "store"}

EndOK == cloneable => \A w \in Workers : pc[w] = "ended" => next = GridSize

ThreadsOK ==
  /\ \A w \in Workers : pc[w] = "unborn" <=> w > launched
  /\ \A w \in 1 .. joined : pc[w] = "ended"
  /\ launched <= ToLaunch
  /\ main = "launching" => grid # <<>>
  /\ main # "launching" /\ grid # <<>> => launched = ToLaunch
  /\ main = "returned" /\ grid # <<>> => joined = launched

Inv ==
  /\ GridOK /\ GridIsSeq /\ TypeOK /\ ResultsOK /\ MutexOK /\ ClaimOK /\ OwnersDiffer
  /\ Unclaimed /\ Claimed /\ BlankOK /\ EndOK /\ ThreadsOK

LEMMA ThreadsType == Threads \in Nat \ {0} /\ \A w \in Workers : w \in Nat \ {0} /\ w # None
BY OptimizerAssumption DEF Threads, Workers

LEMMA InitInv == Init => Inv
<1> SUFFICES ASSUME Init PROVE Inv
  OBVIOUS
<1>0. Threads \in Nat \ {0} /\ \A w \in Workers : w \in Nat \ {0} /\ w # None
  BY ThreadsType
<1>1. GridOK /\ GridIsSeq
  <2>1. ranges \in Seq(Ranges) /\ cloneable \in BOOLEAN
    BY OptimizerAssumption DEF Init, Ranges
  <2>2. /\ Len(grid) \in Nat /\ grid = [i \in 1 .. Len(grid) |-> grid[i]]
        /\ \A i \in 1 .. Len(grid) : grid[i] # NoParams
    <3> DEFINE R == ranges  g == GenerateParamGrid(R)
    <3>1. R \in Seq(Ranges) /\ grid = g
      BY <2>1 DEF Init
    <3> HIDE DEF R
    <3>2. /\ Len(g) \in Nat /\ g = [i \in 1 .. Len(g) |-> g[i]]
          /\ \A i \in 1 .. Len(g) : g[i] # NoParams
      BY <3>1, GridType
    <3> HIDE DEF g
    <3> QED  BY <3>1, <3>2
  <2>3. DOMAIN grid = 1 .. Len(grid)
    BY <2>2
  <2> QED  BY <2>1, <2>2, <2>3 DEF GridOK, GridIsSeq, GridSize
<1>2. TypeOK
  <2>1. idx \in [Workers -> {None}] /\ pc \in [Workers -> {"unborn"}]
    BY DEF Init
  <2>2. idx \in [Workers -> (0 .. GridSize - 1) \union {None}]
    BY <2>1, ZenonT(20)
  <2>3. pc \in [Workers -> {"unborn", "lock", "look", "bump", "clone", "run", "store", "ended"}]
    BY <2>1
  <2>4. main \in {"launching", "joining", "returned"} /\ terminated \in BOOLEAN
    BY DEF Init
  <2>5. launched \in 0 .. Threads /\ joined \in 0 .. launched /\ next \in 0 .. GridSize
    BY <1>0, <1>1 DEF Init, GridOK
  <2> QED  BY <2>2, <2>3, <2>4, <2>5 DEF Init, TypeOK
<1>3. ResultsOK /\ Unclaimed /\ BlankOK
  BY <1>1 DEF Init, ResultsOK, Unclaimed, BlankOK, GridOK
<1>4. MutexOK /\ ClaimOK /\ OwnersDiffer /\ EndOK
  BY DEF Init, MutexOK, ClaimOK, OwnersDiffer, EndOK, Busy
<1>5. Claimed
  BY <1>1 DEF Init, Claimed, GridOK
<1>6. ThreadsOK
  BY <1>0, <1>1 DEF Init, ThreadsOK, GridOK, ToLaunch, Workers
<1> QED  BY <1>1, <1>2, <1>3, <1>4, <1>5, <1>6 DEF Inv

\* The grid and what is known of it do not change.
LEMMA GridStays ==
  ASSUME Inv, UNCHANGED <<ranges, cloneable, grid>>
  PROVE  GridOK' /\ GridIsSeq' /\ GridSize' = GridSize /\ ToLaunch' = ToLaunch
BY DEF Inv, GridOK, GridIsSeq, GridSize, ToLaunch

LEMMA LaunchInv == Inv /\ Launch => Inv'
<1> SUFFICES ASSUME Inv, Launch PROVE Inv'
  OBVIOUS
<1> USE ThreadsType
<1>1. GridOK' /\ GridIsSeq' /\ GridSize' = GridSize /\ ToLaunch' = ToLaunch
  BY GridStays DEF Launch
<1>2. CASE launched < ToLaunch
  <2>1. /\ launched \in Nat /\ launched + 1 \in Workers /\ launched' = launched + 1
        /\ pc' = [pc EXCEPT ![launched + 1] = "lock"] /\ pc[launched + 1] = "unborn"
        /\ UNCHANGED <<ranges, cloneable, grid, main, joined, holder, next, idx, results,
                       terminated>>
    BY <1>2 DEF Launch, Inv, GridOK, TypeOK, ThreadsOK, ToLaunch, Workers
  <2>2. TypeOK'
    BY <1>1, <2>1 DEF Inv, TypeOK, Workers
  <2>3. \A w \in Workers : Busy(w)' = Busy(w)
    BY <2>1 DEF Busy, Inv, TypeOK
  <2>4. ResultsOK' /\ Unclaimed' /\ BlankOK' /\ MutexOK' /\ EndOK'
    BY <1>1, <2>1 DEF Inv, TypeOK, ResultsOK, Unclaimed, BlankOK, MutexOK, EndOK
  <2>5. ClaimOK' /\ OwnersDiffer' /\ Claimed'
    BY <1>1, <2>1, <2>3 DEF Inv, TypeOK, ClaimOK, OwnersDiffer, Claimed
  <2>6. ThreadsOK'
    BY <1>1, <1>2, <2>1 DEF Inv, TypeOK, ThreadsOK, Workers, Launch, GridOK, ToLaunch
  <2> QED  BY <1>1, <2>2, <2>4, <2>5, <2>6 DEF Inv
<1>3. CASE ~(launched < ToLaunch)
  <2>1. main' = "joining" /\ UNCHANGED <<ranges, cloneable, grid, launched, joined, workerVars>>
    BY <1>3 DEF Launch, workerVars
  <2>2. TypeOK' /\ ResultsOK' /\ Unclaimed' /\ BlankOK' /\ MutexOK' /\ EndOK' /\ ClaimOK'
        /\ OwnersDiffer' /\ Claimed'
    BY <1>1, <2>1 DEF Inv, TypeOK, ResultsOK, Unclaimed, BlankOK, MutexOK, EndOK, ClaimOK,
                      OwnersDiffer, Claimed, Busy, workerVars
  <2>3. ThreadsOK'
    BY <1>1, <1>3, <2>1 DEF Inv, TypeOK, ThreadsOK, workerVars, GridOK, ToLaunch
  <2> QED  BY <1>1, <2>2, <2>3 DEF Inv
<1> QED  BY <1>2, <1>3

LEMMA JoinInv == Inv /\ Join => Inv'
<1> SUFFICES ASSUME Inv, Join PROVE Inv'
  OBVIOUS
<1> USE ThreadsType
<1>1. GridOK' /\ GridIsSeq' /\ GridSize' = GridSize /\ ToLaunch' = ToLaunch
  BY GridStays DEF Join
<1>2. /\ UNCHANGED <<ranges, cloneable, grid, launched, workerVars>>
      /\ main = "joining" /\ main' \in {"joining", "returned"}
      /\ joined' \in 0 .. launched
      /\ \A w \in 1 .. joined' : pc[w] = "ended"
      /\ main' = "returned" => joined' = launched
  BY DEF Join, Inv, TypeOK, ThreadsOK
<1>3. TypeOK' /\ ResultsOK' /\ Unclaimed' /\ BlankOK' /\ MutexOK' /\ EndOK' /\ ClaimOK'
      /\ OwnersDiffer' /\ Claimed'
  BY <1>1, <1>2 DEF Inv, TypeOK, ResultsOK, Unclaimed, BlankOK, MutexOK, EndOK, ClaimOK,
                    OwnersDiffer, Claimed, Busy, workerVars
<1>4. ThreadsOK'
  BY <1>1, <1>2 DEF Inv, TypeOK, ThreadsOK, workerVars
<1> QED  BY <1>1, <1>3, <1>4 DEF Inv

LEMMA LockInv == \A w \in Workers : Inv /\ Lock(w) => Inv'
<1> SUFFICES ASSUME NEW w \in Workers, Inv, Lock(w) PROVE Inv'
  OBVIOUS
<1> USE ThreadsType
<1>1. GridOK' /\ GridIsSeq' /\ GridSize' = GridSize /\ ToLaunch' = ToLaunch
  BY GridStays DEF Lock
<1>2. /\ pc[w] = "lock" /\ holder = None /\ holder' = w /\ pc' = [pc EXCEPT ![w] = "look"]
      /\ UNCHANGED <<ranges, cloneable, grid, main, launched, joined, next, idx, results,
                     terminated>>
  BY DEF Lock, At, Goto, Free
<1>3. \A v \in Workers : Busy(v)' = Busy(v)
  BY <1>2 DEF Busy, Inv, TypeOK
<1>4. TypeOK' /\ ResultsOK' /\ Unclaimed' /\ BlankOK' /\ EndOK'
  BY <1>1, <1>2 DEF Inv, TypeOK, ResultsOK, Unclaimed, BlankOK, EndOK
<1>5. MutexOK'
  BY <1>2 DEF Inv, TypeOK, MutexOK
<1>6. ClaimOK' /\ OwnersDiffer' /\ Claimed'
  BY <1>1, <1>2, <1>3 DEF Inv, TypeOK, ClaimOK, OwnersDiffer, Claimed
<1>7. ThreadsOK'
  BY <1>1, <1>2 DEF Inv, TypeOK, ThreadsOK, Workers
<1> QED  BY <1>1, <1>4, <1>5, <1>6, <1>7 DEF Inv

LEMMA LookInv == \A w \in Workers : Inv /\ Look(w) => Inv'
<1> SUFFICES ASSUME NEW w \in Workers, Inv, Look(w) PROVE Inv'
  OBVIOUS
<1> USE ThreadsType
<1>1. GridOK' /\ GridIsSeq' /\ GridSize' = GridSize /\ ToLaunch' = ToLaunch
  BY GridStays DEF Look
<1>2. /\ pc[w] = "look" /\ holder = w
      /\ \A v \in Workers : pc[v] \in {"look", "bump"} => v = w
      /\ UNCHANGED <<ranges, cloneable, grid, main, launched, joined, next, results, terminated>>
  BY DEF Look, At, Inv, MutexOK
<1>3. CASE next >= GridSize
  <2>1. pc' = [pc EXCEPT ![w] = "ended"] /\ holder' = None /\ idx' = idx
    BY <1>3 DEF Look, Exhausted, Goto, Unlock
  <2>2. \A v \in Workers : Busy(v)' = Busy(v)
    BY <1>2, <2>1 DEF Busy, Inv, TypeOK
  <2>3. next = GridSize
    BY <1>3 DEF Inv, TypeOK, GridOK
  <2>4. TypeOK' /\ ResultsOK' /\ Unclaimed' /\ BlankOK' /\ EndOK'
    BY <1>1, <1>2, <2>1, <2>3 DEF Inv, TypeOK, ResultsOK, Unclaimed, BlankOK, EndOK
  <2>5. MutexOK'
    BY <1>2, <2>1 DEF Inv, TypeOK, MutexOK
  <2>6. ClaimOK' /\ OwnersDiffer' /\ Claimed'
    BY <1>1, <1>2, <2>1, <2>2 DEF Inv, TypeOK, ClaimOK, OwnersDiffer, Claimed
  <2>7. ThreadsOK'
    BY <1>1, <1>2, <2>1 DEF Inv, TypeOK, ThreadsOK, Workers
  <2> QED  BY <1>1, <2>4, <2>5, <2>6, <2>7 DEF Inv
<1>4. CASE ~(next >= GridSize)
  <2>1. pc' = [pc EXCEPT ![w] = "bump"] /\ idx' = [idx EXCEPT ![w] = next] /\ holder' = holder
    BY <1>4 DEF Look, Exhausted, Goto
  <2>2. /\ next \in 0 .. GridSize - 1 /\ next + 1 \in DOMAIN grid
        /\ results[next + 1] = NoParams
    BY <1>4 DEF Inv, TypeOK, GridOK, Unclaimed
  <2>3. /\ Busy(w)' /\ idx'[w] = next
        /\ \A v \in Workers \ {w} :
             Busy(v)' = Busy(v) /\ pc'[v] = pc[v] /\ idx'[v] = idx[v] /\ pc[v] # "bump"
    BY <1>2, <2>1 DEF Busy, Inv, TypeOK
  <2>4. TypeOK'
    BY <1>1, <1>2, <2>1, <2>2 DEF Inv, TypeOK
  <2>5. ResultsOK' /\ Unclaimed' /\ BlankOK' /\ EndOK' /\ MutexOK'
    BY <1>1, <1>2, <2>1 DEF Inv, TypeOK, ResultsOK, Unclaimed, BlankOK, EndOK, MutexOK
  <2>6. ClaimOK'
    BY <1>1, <1>2, <2>1, <2>2, <2>3 DEF Inv, TypeOK, ClaimOK
  <2>7. OwnersDiffer'
    BY <1>1, <1>2, <2>2, <2>3 DEF Inv, TypeOK, ClaimOK, OwnersDiffer
  <2>8. Claimed'
    <3> SUFFICES ASSUME cloneable, NEW i \in DOMAIN grid, i <= next, results[i] # grid[i]
                 PROVE  \E v \in Workers : Busy(v)' /\ idx'[v] = i - 1
      BY <1>2 DEF Claimed
    <3>1. PICK v \in Workers : Busy(v) /\ idx[v] = i - 1
      BY DEF Inv, Claimed
    <3>2. v # w
      BY <1>2, <3>1 DEF Busy
    <3> QED  BY <2>3, <3>1, <3>2
  <2>9. ThreadsOK'
    BY <1>1, <1>2, <2>1 DEF Inv, TypeOK, ThreadsOK, Workers
  <2> QED  BY <1>1, <2>4, <2>5, <2>6, <2>7, <2>8, <2>9 DEF Inv
<1> QED  BY <1>3, <1>4

LEMMA BumpInv == \A w \in Workers : Inv /\ Bump(w) => Inv'
<1> SUFFICES ASSUME NEW w \in Workers, Inv, Bump(w) PROVE Inv'
  OBVIOUS
<1> USE ThreadsType
<1>1. GridOK' /\ GridIsSeq' /\ GridSize' = GridSize /\ ToLaunch' = ToLaunch
  BY GridStays DEF Bump
<1>2. /\ pc[w] = "bump" /\ holder = w
      /\ \A v \in Workers : pc[v] \in {"look", "bump"} => v = w
      /\ pc' = [pc EXCEPT ![w] = "clone"] /\ holder' = None
      /\ UNCHANGED <<ranges, cloneable, grid, main, launched, joined, idx, results, terminated>>
  BY DEF Bump, At, Goto, Unlock, Inv, MutexOK
<1>3. next' = next + 1 /\ idx[w] = next /\ next \in 0 .. GridSize - 1
  BY <1>2 DEF Bump, Inv, ClaimOK, Busy, TypeOK
<1>4. \A v \in Workers : Busy(v)' = Busy(v)
  BY <1>2 DEF Busy, Inv, TypeOK
<1>5. TypeOK'
  BY <1>1, <1>2, <1>3 DEF Inv, TypeOK, GridOK
<1>6. ResultsOK' /\ BlankOK' /\ MutexOK'
  BY <1>1, <1>2 DEF Inv, TypeOK, ResultsOK, BlankOK, MutexOK
<1>7. Unclaimed'
  BY <1>1, <1>2, <1>3 DEF Inv, TypeOK, Unclaimed, GridOK
<1>8. EndOK'
  BY <1>1, <1>2, <1>3 DEF Inv, TypeOK, EndOK, GridOK
<1>9. ClaimOK' /\ OwnersDiffer'
  BY <1>1, <1>2, <1>3, <1>4 DEF Inv, TypeOK, ClaimOK, OwnersDiffer, GridOK
<1>10. Claimed'
  BY <1>1, <1>2, <1>3, <1>4 DEF Inv, TypeOK, Claimed, Busy, GridOK
<1>11. ThreadsOK'
  BY <1>1, <1>2 DEF Inv, TypeOK, ThreadsOK, Workers
<1> QED  BY <1>1, <1>5, <1>6, <1>7, <1>8, <1>9, <1>10, <1>11 DEF Inv

LEMMA CloneInv == \A w \in Workers : Inv /\ CloneFeeds(w) => Inv'
<1> SUFFICES ASSUME NEW w \in Workers, Inv, CloneFeeds(w) PROVE Inv'
  OBVIOUS
<1> USE ThreadsType
<1>1. GridOK' /\ GridIsSeq' /\ GridSize' = GridSize /\ ToLaunch' = ToLaunch
  BY GridStays DEF CloneFeeds
<1>2. /\ pc[w] = "clone" /\ pc' = [pc EXCEPT ![w] = IF cloneable THEN "run" ELSE "ended"]
      /\ UNCHANGED <<ranges, cloneable, grid, main, launched, joined, holder, next, idx, results,
                     terminated>>
  BY DEF CloneFeeds, At, Goto
<1>3. /\ \A v \in Workers : Busy(v)' => Busy(v)
      /\ cloneable => \A v \in Workers : Busy(v)' = Busy(v)
  BY <1>2 DEF Busy, Inv, TypeOK
<1>4. TypeOK' /\ ResultsOK' /\ Unclaimed' /\ MutexOK'
  BY <1>1, <1>2 DEF Inv, TypeOK, ResultsOK, Unclaimed, MutexOK
<1>5. BlankOK' /\ EndOK'
  BY <1>1, <1>2 DEF Inv, TypeOK, BlankOK, EndOK
<1>6. ClaimOK' /\ OwnersDiffer' /\ Claimed'
  BY <1>1, <1>2, <1>3 DEF Inv, TypeOK, ClaimOK, OwnersDiffer, Claimed
<1>7. ThreadsOK'
  BY <1>1, <1>2 DEF Inv, TypeOK, ThreadsOK, Workers
<1> QED  BY <1>1, <1>4, <1>5, <1>6, <1>7 DEF Inv

LEMMA RunInv == \A w \in Workers : Inv /\ RunCerebro(w) => Inv'
<1> SUFFICES ASSUME NEW w \in Workers, Inv, RunCerebro(w) PROVE Inv'
  OBVIOUS
<1> USE ThreadsType
<1>1. GridOK' /\ GridIsSeq' /\ GridSize' = GridSize /\ ToLaunch' = ToLaunch
  BY GridStays DEF RunCerebro
<1>2. /\ pc[w] = "run" /\ pc' \in {pc, [pc EXCEPT ![w] = "store"]} /\ terminated' \in BOOLEAN
      /\ UNCHANGED <<ranges, cloneable, grid, main, launched, joined, holder, next, idx, results>>
  BY DEF RunCerebro, At, Goto, Inv, TypeOK
<1>3. cloneable
  BY <1>2 DEF Inv, BlankOK
<1>4. \A v \in Workers : Busy(v)' = Busy(v)
  BY <1>2 DEF Busy, Inv, TypeOK
<1>5. TypeOK' /\ ResultsOK' /\ Unclaimed' /\ MutexOK'
  BY <1>1, <1>2 DEF Inv, TypeOK, ResultsOK, Unclaimed, MutexOK
<1>6. BlankOK' /\ EndOK'
  BY <1>1, <1>2, <1>3 DEF Inv, TypeOK, BlankOK, EndOK
<1>7. ClaimOK' /\ OwnersDiffer' /\ Claimed'
  BY <1>1, <1>2, <1>4 DEF Inv, TypeOK, ClaimOK, OwnersDiffer, Claimed
<1>8. ThreadsOK'
  BY <1>1, <1>2 DEF Inv, TypeOK, ThreadsOK, Workers
<1> QED  BY <1>1, <1>5, <1>6, <1>7, <1>8 DEF Inv

LEMMA StoreInv == \A w \in Workers : Inv /\ Store(w) => Inv'
<1> SUFFICES ASSUME NEW w \in Workers, Inv, Store(w) PROVE Inv'
  OBVIOUS
<1> USE ThreadsType
<1> DEFINE i == idx[w] + 1
<1>1. GridOK' /\ GridIsSeq' /\ GridSize' = GridSize /\ ToLaunch' = ToLaunch
  BY GridStays DEF Store
<1>2. /\ pc[w] = "store" /\ pc' = [pc EXCEPT ![w] = "lock"]
      /\ results' = [results EXCEPT ![i] = grid[i]]
      /\ UNCHANGED <<ranges, cloneable, grid, main, launched, joined, holder, next, idx,
                     terminated>>
  BY DEF Store, At, Goto
<1>3. cloneable
  BY <1>2 DEF Inv, BlankOK
<1>4. i \in DOMAIN grid /\ i <= next
  BY <1>2 DEF Inv, ClaimOK, Busy, GridOK, TypeOK
<1>5. /\ ~Busy(w)' /\ Busy(w)
      /\ \A v \in Workers \ {w} : Busy(v)' = Busy(v) /\ pc'[v] = pc[v]
  BY <1>2 DEF Busy, Inv, TypeOK
<1>6. /\ \A j \in DOMAIN grid : results'[j] = IF j = i THEN grid[i] ELSE results[j]
      /\ DOMAIN results' = DOMAIN grid
      /\ results' = [j \in DOMAIN grid |-> results'[j]]
  BY <1>2, <1>4 DEF Inv, ResultsOK
<1>7. TypeOK'
  BY <1>1, <1>2 DEF Inv, TypeOK
<1>8. ResultsOK' /\ Unclaimed'
  BY <1>1, <1>2, <1>4, <1>6 DEF Inv, ResultsOK, Unclaimed, TypeOK, GridOK
<1>9. MutexOK' /\ BlankOK' /\ EndOK'
  BY <1>1, <1>2, <1>3 DEF Inv, TypeOK, MutexOK, BlankOK, EndOK
<1>10. ClaimOK'
  <2> SUFFICES ASSUME NEW v \in Workers, Busy(v)'
               PROVE  /\ idx[v] \in 0 .. GridSize - 1
                      /\ IF pc'[v] = "bump" THEN idx[v] = next ELSE idx[v] < next
                      /\ results'[idx[v] + 1] = NoParams
    BY <1>1, <1>2 DEF ClaimOK
  <2>1. v # w /\ Busy(v) /\ pc'[v] = pc[v]
    BY <1>5
  <2>2. idx[v] # idx[w]
    BY <2>1, <1>5 DEF Inv, OwnersDiffer
  <2>3. /\ idx[v] \in 0 .. GridSize - 1
        /\ IF pc[v] = "bump" THEN idx[v] = next ELSE idx[v] < next
        /\ results[idx[v] + 1] = NoParams
    BY <2>1 DEF Inv, ClaimOK
  <2>4. idx[v] + 1 \in DOMAIN grid /\ idx[v] + 1 # i
    BY <1>4, <2>2, <2>3, <1>5 DEF Inv, GridOK, ClaimOK
  <2> QED  BY <1>6, <2>1, <2>3, <2>4
<1>11. OwnersDiffer'
  BY <1>2, <1>5 DEF Inv, OwnersDiffer
<1>12. Claimed'
  <2> SUFFICES ASSUME NEW j \in DOMAIN grid, j <= next, results'[j] # grid[j]
               PROVE  \E v \in Workers : Busy(v)' /\ idx[v] = j - 1
    BY <1>2 DEF Claimed
  <2>1. j # i /\ results[j] # grid[j]
    BY <1>6
  <2>2. PICK v \in Workers : Busy(v) /\ idx[v] = j - 1
    BY <1>3, <2>1 DEF Inv, Claimed
  <2>3. v # w
    BY <2>1, <2>2 DEF Inv, GridOK
  <2> QED  BY <1>5, <2>2, <2>3
<1>13. ThreadsOK'
  BY <1>1, <1>2 DEF Inv, TypeOK, ThreadsOK, Workers
<1> QED  BY <1>1, <1>7, <1>8, <1>9, <1>10, <1>11, <1>12, <1>13 DEF Inv

LEMMA NextInv == Inv /\ [Next]_vars => Inv'
<1> SUFFICES ASSUME Inv, [Next]_vars PROVE Inv'
  OBVIOUS
<1>1. CASE Launch
  BY <1>1, LaunchInv
<1>2. CASE Join
  BY <1>2, JoinInv
<1>3. ASSUME NEW w \in Workers, Step(w) PROVE Inv'
  BY <1>3, LockInv, LookInv, BumpInv, CloneInv, RunInv, StoreInv DEF Step
<1>4. CASE UNCHANGED vars
  BY <1>4 DEF vars, workerVars, Inv, GridOK, GridIsSeq, GridSize, ToLaunch, TypeOK, ResultsOK, MutexOK,
              ClaimOK, OwnersDiffer, Unclaimed, Claimed, BlankOK, EndOK, ThreadsOK, Busy
<1> QED  BY <1>1, <1>2, <1>3, <1>4 DEF Next

\* With any ranges, feeds, number of threads and failing points, no two
\* workers of Optimizer::run hold one grid point and no result is written
\* twice.
THEOREM PointsOwned == Spec => []PointsAreOwned
<1>1. Inv => PointsAreOwned
  BY DEF Inv, ClaimOK, OwnersDiffer, PointsAreOwned
<1> QED  BY InitInv, NextInv, <1>1, PTL DEF Spec

\* When nobody is at a point any more, all points have their result.
LEMMA ReturnComplete ==
  ASSUME Inv, grid # <<>>, main = "joining", joined = launched, cloneable
  PROVE  results = grid
<1>1. GridSize \in Nat \ {0} /\ launched \in Nat \ {0} /\ launched = ToLaunch
  <2>1. GridSize # 0
    BY DEF Inv, GridOK, GridSize
  <2> QED  BY <2>1, ThreadsType DEF Inv, GridOK, TypeOK, ThreadsOK, ToLaunch
<1>2. \A w \in Workers : pc[w] \in {"unborn", "ended"}
  BY <1>1, ThreadsType DEF Inv, ThreadsOK, Workers
<1>3. 1 \in Workers /\ pc[1] = "ended"
  BY <1>1, ThreadsType DEF Inv, ThreadsOK, Workers
<1>4. next = GridSize
  BY <1>3 DEF Inv, EndOK
<1>5. \A i \in DOMAIN grid : results[i] = grid[i]
  BY <1>2, <1>4 DEF Inv, Claimed, Busy, GridOK
<1>6. grid = [i \in DOMAIN grid |-> grid[i]]
  BY DEF Inv, GridIsSeq
<1> QED  BY <1>5, <1>6 DEF Inv, ResultsOK

\* The grid is that of the ranges, and what is returned is the grid.
SearchOK == ranges \in Seq(Ranges) /\ grid = GenerateParamGrid(ranges)
WholeOK == main = "returned" /\ cloneable => results = grid

LEMMA WholeKeeps ==
  ASSUME Inv, WholeOK, [Next]_vars
  PROVE  WholeOK'
<1>1. CASE Launch
  BY <1>1 DEF Launch, WholeOK
<1>2. CASE Join
  <2>1. UNCHANGED <<grid, cloneable, results>> /\ main = "joining"
    BY <1>2 DEF Join, workerVars
  <2>2. CASE main' # "returned"
    BY <2>2 DEF WholeOK
  <2>3. CASE main' = "returned" /\ grid = <<>>
    <3>1. \A i \in DOMAIN grid : FALSE
      BY <2>3
    <3>2. results = grid
      BY <3>1 DEF Inv, ResultsOK, GridIsSeq
    <3> QED  BY <2>1, <3>2 DEF WholeOK
  <2>4. CASE main' = "returned" /\ grid # <<>>
    <3>1. joined = launched
      BY <1>2, <2>1, <2>4 DEF Join, Inv, TypeOK
    <3>2. cloneable => results = grid
      BY <2>1, <2>4, <3>1, ReturnComplete
    <3> QED  BY <2>1, <3>2 DEF WholeOK
  <2> QED  BY <2>2, <2>3, <2>4
<1>3. ASSUME NEW w \in Workers, Step(w) PROVE WholeOK'
  <2>1. UNCHANGED <<grid, cloneable, main>>
    BY <1>3 DEF Step, Lock, Look, Bump, CloneFeeds, RunCerebro, Store
  <2>2. CASE UNCHANGED results
    BY <2>1, <2>2 DEF WholeOK
  <2>3. CASE Store(w)
    <3>1. pc[w] = "store"
      BY <2>3 DEF Store, At
    <3>2. grid # <<>>
      BY <3>1 DEF Inv, ClaimOK, Busy, GridOK, GridSize
    <3>3. main # "returned"
      BY <3>1, <3>2, ThreadsType DEF Inv, ThreadsOK, Workers, TypeOK
    <3> QED  BY <2>1, <3>3 DEF WholeOK
  <2> QED  BY <1>3, <2>2, <2>3 DEF Step, Lock, Look, Bump, CloneFeeds, RunCerebro, Store
<1>4. CASE UNCHANGED vars
  BY <1>4 DEF vars, workerVars, WholeOK
<1> QED  BY <1>1, <1>2, <1>3, <1>4 DEF Next

\* For any ranges - of any number, with names given twice, without values -
\* and any number of threads: what Optimizer::run returns is the product of
\* the ranges, every combination as often as they give it, or blank results
\* throughout when the feeds cannot be cloned.
THEOREM WholeProduct == Spec => []ReturnsWholeProduct
<1>1. Init => SearchOK /\ WholeOK
  <2> SUFFICES ASSUME Init PROVE SearchOK /\ WholeOK
    OBVIOUS
  <2>1. SearchOK
    BY OptimizerAssumption DEF Init, SearchOK, Ranges
  <2>2. main = "returned" => grid = <<>>
    BY DEF Init
  <2>3. grid = <<>> => results = grid
    <3> SUFFICES ASSUME grid = <<>> PROVE results = <<>>
      OBVIOUS
    <3>1. DOMAIN grid = {} /\ \A i \in DOMAIN grid : FALSE
      OBVIOUS
    <3>2. results = [i \in {} |-> NoParams]
      BY <3>1 DEF Init
    <3> QED  BY <3>2
  <2> QED  BY <2>1, <2>2, <2>3 DEF WholeOK
<1>2. SearchOK /\ [Next]_vars => SearchOK'
  <2> SUFFICES ASSUME [Next]_vars PROVE UNCHANGED <<ranges, grid>>
    BY DEF SearchOK
  <2> QED  BY DEF Next, Launch, Join, Step, Lock, Look, Bump, CloneFeeds, RunCerebro, Store, vars
<1>3. Inv /\ SearchOK /\ WholeOK => ReturnsWholeProduct
  <2> SUFFICES ASSUME Inv, SearchOK, WholeOK, main = "returned"
               PROVE  IF cloneable THEN EnumeratesProduct(results, ranges)
                      ELSE \A i \in DOMAIN results : results[i] = NoParams
    BY DEF ReturnsWholeProduct
  <2>1. CASE cloneable
    <3> DEFINE R == ranges
    <3>1. R \in Seq(Ranges) /\ results = GenerateParamGrid(R)
      BY <2>1 DEF SearchOK, WholeOK
    <3> HIDE DEF R
    <3>2. EnumeratesProduct(GenerateParamGrid(R), R)
      BY <3>1, GridIsProduct
    <3>3. EnumeratesProduct(results, R)
      BY <3>1, <3>2
    <3> QED  BY <2>1, <3>3 DEF R
  <2>2. CASE ~cloneable
    <3>1. DOMAIN results = DOMAIN grid
      BY DEF Inv, ResultsOK
    <3> QED  BY <2>2, <3>1 DEF Inv, BlankOK
  <2> QED  BY <2>1, <2>2
<1> QED
  BY InitInv, NextInv, WholeKeeps, <1>1, <1>2, <1>3, PTL DEF Spec

LEMMA WorkerSearches ==
  ASSUME Inv, NEW w \in Workers, Step(w)
  PROVE  [Search!Fill \/ Search!Return]_(Search!searchVars)
<1>1. UNCHANGED <<grid, cloneable, main>>
  BY DEF Step, Lock, Look, Bump, CloneFeeds, RunCerebro, Store
<1>2. CASE UNCHANGED results
  BY <1>1, <1>2 DEF Search!searchVars
<1>3. CASE Store(w)
  <2> DEFINE i == idx[w] + 1
  <2>1. pc[w] = "store" /\ results' = [results EXCEPT ![i] = grid[i]]
    BY <1>3 DEF Store, At
  <2>2. cloneable
    BY <2>1 DEF Inv, BlankOK
  <2>3. i \in DOMAIN grid /\ results[i] = NoParams
    BY <2>1 DEF Inv, ClaimOK, Busy, GridOK, TypeOK
  <2>4. ~(main = "returned" /\ grid # <<>>)
    BY <2>1, ThreadsType DEF Inv, ThreadsOK, Workers, TypeOK
  <2>5. Search!Fill
    BY <1>1, <2>1, <2>2, <2>3, <2>4 DEF Search!Fill
  <2> QED  BY <2>5
<1> QED  BY <1>2, <1>3 DEF Search!searchVars, Step, Lock, Look, Bump, CloneFeeds, RunCerebro

LEMMA ReturnSearches ==
  ASSUME Inv, Join
  PROVE  [Search!Fill \/ Search!Return]_(Search!searchVars)
<1>1. UNCHANGED <<grid, cloneable, results>> /\ main = "joining"
  BY DEF Join, workerVars
<1>2. CASE main' = main
  BY <1>1, <1>2 DEF Search!searchVars
<1>3. CASE main' # main
  <2>1. main' = "returned" /\ joined = launched
    BY <1>3, <1>1 DEF Join, Inv, TypeOK
  <2>2. CASE grid = <<>>
    BY <1>1, <2>2 DEF Search!searchVars
  <2>3. CASE grid # <<>>
    <3>1. cloneable => results = grid
      BY <1>1, <2>1, <2>3, ReturnComplete
    <3>2. Search!Return
      BY <1>1, <2>1, <2>3, <3>1 DEF Search!Return
    <3> QED  BY <3>2
  <2> QED  BY <2>2, <2>3
<1> QED  BY <1>2, <1>3

\* The threads of Optimizer::run search the grid: every point gets its result
\* once, and run returns when all have theirs - or without any, when the
\* feeds cannot be cloned.
THEOREM SearchesGrid == Spec => ImplementsGridSearch
<1>1. Init => Search!SearchInit
  BY DEF Init, Search!SearchInit
<1>2. Inv /\ [Next]_vars
        => [Search!Fill \/ Search!Return]_(Search!searchVars)
  <2> SUFFICES ASSUME Inv, [Next]_vars
      PROVE [Search!Fill \/ Search!Return]_(Search!searchVars)
    OBVIOUS
  <2>1. CASE Launch
    <3>1. UNCHANGED <<grid, cloneable, results>> /\ main # "returned" /\ main' # "returned"
      BY <2>1 DEF Launch
    <3> QED  BY <3>1 DEF Search!searchVars
  <2>2. CASE Join
    BY <2>2, ReturnSearches
  <2>3. ASSUME NEW w \in Workers, Step(w)
        PROVE [Search!Fill \/ Search!Return]_(Search!searchVars)
    BY <2>3, WorkerSearches
  <2>4. CASE UNCHANGED vars
    BY <2>4 DEF vars, workerVars, Search!searchVars
  <2> QED  BY <2>1, <2>2, <2>3, <2>4 DEF Next
<1> QED
  BY InitInv, NextInv, <1>1, <1>2, PTL DEF Spec, ImplementsGridSearch, Search!SearchSpec
=============================================================================
