--------------------------- MODULE SessionProofs ----------------------------
(***************************************************************************)
(* What the reader of the stream can rely on, for any feed length, orders, *)
(* results, clock and callbacks that throw.                                *)
(*                                                                         *)
(* The batches are numbered without a gap, none outgrows its limit and the *)
(* last of a run that ended is the final one: seq counts the batches the   *)
(* callback has taken, until one is lost, which ends the run, and what is  *)
(* pending is always one bar short of a batch (NumberingInv).              *)
(*                                                                         *)
(* Nothing is lost, doubled or reordered: what was sent, one batch after   *)
(* the other, and what is pending make up all there was (StreamInv).       *)
(* FlattenSeq is a recursion of the community modules: that it takes one   *)
(* sequence after the other is shown first, by induction over its steps.   *)
(*                                                                         *)
(* No outcome comes before its candidate: every candidate given so far was *)
(* sent or goes with the next batch, and every outcome is of one of these  *)
(* (KnownInv).                                                             *)
(*                                                                         *)
(* And candidates whose order opened a trade or that were rejected before  *)
(* on_stop have their fate: their one outcome, a shadow or the open trade, *)
(* and no order that waits has one of them (FatesOK).                      *)
(***************************************************************************)
EXTENDS Session, SequenceTheorems, WellFoundedInduction, TLAPS
-----------------------------------------------------------------------------
(* Sequences *)

IsSequence(s) == \E S : s \in Seq(S)

LEMMA Appended ==
  ASSUME NEW s, IsSequence(s), NEW e
  PROVE  /\ IsSequence(Append(s, e))
         /\ Len(s) \in Nat /\ DOMAIN s = 1 .. Len(s)
         /\ Len(Append(s, e)) = Len(s) + 1
         /\ DOMAIN Append(s, e) = 1 .. Len(s) + 1
         /\ \A i \in 1 .. Len(s) : Append(s, e)[i] = s[i]
         /\ Append(s, e)[Len(s) + 1] = e
<1>1. PICK S : s \in Seq(S)
  BY DEF IsSequence
<1>2. s \in Seq(S \union {e})
  BY <1>1, SeqMonotonic
<1>3. Append(s, e) \in Seq(S \union {e})
  BY <1>2, AppendProperties
<1> QED
  BY <1>2, <1>3, AppendProperties, LenProperties DEF IsSequence

\* A list with one entry more, however it is written.
LEMMA SameList ==
  ASSUME NEW S, NEW list \in Seq(S), NEW e \in S, NEW l, l = [i \in DOMAIN l |-> l[i]],
         DOMAIN l = 1 .. Len(list) + 1, l[Len(list) + 1] = e,
         \A i \in 1 .. Len(list) : l[i] = list[i]
  PROVE  l = Append(list, e)
<1> DEFINE a == Append(list, e)
           n == Len(list)
<1>1. /\ a \in Seq(S) /\ n \in Nat /\ Len(a) = n + 1
      /\ a[n + 1] = e /\ \A i \in 1 .. n : a[i] = list[i]
  BY AppendProperties, LenProperties
<1> HIDE DEF a, n
<1>2. \A i \in 1 .. n + 1 : i \in 1 .. n \/ i = n + 1
  BY <1>1
<1>3. DOMAIN l = 1 .. n + 1 /\ \A i \in 1 .. n + 1 : l[i] = a[i]
  BY <1>1, <1>2 DEF n
<1>4. \A i \in 1 .. n + 1 : a[i] \in S
  BY <1>1, ElementOfSeq
<1>5. l \in [1 .. n + 1 -> S]
  BY <1>3, <1>4
<1>6. l \in Seq(S) /\ Len(l) = n + 1
  BY <1>1, <1>5
<1> QED  BY <1>1, <1>3, <1>6, SeqEqual DEF a

\* A set of natural numbers with 0 that is closed under successor has all.
LEMMA Induction ==
  ASSUME NEW T \in SUBSET Nat, 0 \in T, \A n \in T : n + 1 \in T
  PROVE  T = Nat
<1> DEFINE R == OpToRel(<, Nat)
           Bad == Nat \ T
<1>1. IsWellFoundedOn(R, Nat)
  BY NatLessThanWellFounded
<1>2. \A m, n \in Nat : m < n => <<m, n>> \in R
  BY DEF OpToRel
<1> HIDE DEF R
<1> SUFFICES ASSUME Bad # {} PROVE FALSE
  OBVIOUS
<1>3. PICK n \in Bad : \A m \in Bad : ~(<<m, n>> \in R)
  <2> Bad \in SUBSET Nat
    OBVIOUS
  <2> HIDE DEF Bad
  <2> QED  BY <1>1, WFMin
<1>4. n \in Nat /\ n # 0 /\ n \notin T
  OBVIOUS
<1>5. n - 1 \in Nat /\ n - 1 < n /\ (n - 1) + 1 = n
  BY <1>4
<1>6. n - 1 \notin Bad
  BY <1>2, <1>3, <1>4, <1>5
<1> QED  BY <1>4, <1>5, <1>6
-----------------------------------------------------------------------------
(* FlattenSeq *)

Joins(f, s, n) == f = [i \in 1 .. n |-> IF i = 1 THEN s[i] ELSE f[i - 1] \o s[i]]

LEMMA FlattenDef ==
  \A s : FlattenSeq(s) = IF Len(s) = 0 THEN s ELSE (CHOOSE f : Joins(f, s, Len(s)))[Len(s)]
BY DEF FlattenSeq, Joins

LEMMA JoinsAt ==
  ASSUME NEW f, NEW s, NEW n, Joins(f, s, n), NEW i \in 1 .. n
  PROVE  f[i] = IF i = 1 THEN s[i] ELSE f[i - 1] \o s[i]
<1> DEFINE g == [j \in 1 .. n |-> IF j = 1 THEN s[j] ELSE f[j - 1] \o s[j]]
<1>1. g[i] = IF i = 1 THEN s[i] ELSE f[i - 1] \o s[i]
  OBVIOUS
<1>2. f = g
  BY DEF Joins
<1> HIDE DEF g
<1> QED  BY <1>1, <1>2

LEMMA JoinsExists == ASSUME NEW s, NEW n \in Nat PROVE \E f : Joins(f, s, n)
<1> DEFINE T == {m \in Nat : \E f : Joins(f, s, m)}
<1>1. 0 \in T
  <2>1. Joins([i \in 1 .. 0 |-> 0], s, 0)
    BY DEF Joins
  <2> QED  BY <2>1
<1>2. ASSUME NEW m \in T PROVE m + 1 \in T
  <2>1. PICK f : Joins(f, s, m)
    OBVIOUS
  <2> DEFINE g == [i \in 1 .. m + 1 |->
                     IF i <= m THEN f[i] ELSE IF i = 1 THEN s[i] ELSE f[i - 1] \o s[i]]
             B(h, i) == IF i = 1 THEN s[i] ELSE h[i - 1] \o s[i]
  <2>2. ASSUME NEW i \in 1 .. m + 1 PROVE g[i] = B(g, i)
    <3>1. i - 1 \in 1 .. m \/ i = 1
      OBVIOUS
    <3>2. i # 1 => g[i - 1] = f[i - 1]
      BY <3>1
    <3>3. i <= m => f[i] = B(f, i)
      BY <2>1, JoinsAt
    <3> QED  BY <3>1, <3>2, <3>3
  <2>3. Joins(g, s, m + 1)
    <3>1. g = [i \in 1 .. m + 1 |-> g[i]]
      OBVIOUS
    <3> HIDE DEF g
    <3> QED  BY <2>2, <3>1 DEF Joins
  <2> HIDE DEF g
  <2> QED  BY <2>3
<1> HIDE DEF T
<1>3. T \in SUBSET Nat
  BY DEF T
<1>4. T = Nat
  BY <1>1, <1>2, <1>3, Induction
<1> QED  BY <1>4 DEF T

Agree(s, t, n) == \A i \in 1 .. n : s[i] = t[i]

LEMMA JoinsAgree ==
  ASSUME NEW m \in Nat, NEW n \in Nat, m <= n, NEW s, NEW t, Agree(s, t, m),
         NEW f, Joins(f, s, m), NEW g, Joins(g, t, n)
  PROVE  Agree(f, g, m)
<1> USE DEF Agree
<1> DEFINE T == {k \in Nat : k <= m => \A i \in 1 .. k : f[i] = g[i]}
<1>1. 0 \in T
  OBVIOUS
<1>2. ASSUME NEW k \in T PROVE k + 1 \in T
  <2> SUFFICES ASSUME k + 1 <= m PROVE f[k + 1] = g[k + 1]
    OBVIOUS
  <2>0. k + 1 \in 1 .. m /\ k + 1 \in 1 .. n /\ (k + 1) - 1 = k
    OBVIOUS
  <2>1. f[k + 1] = IF k + 1 = 1 THEN s[k + 1] ELSE f[k] \o s[k + 1]
    BY <2>0, JoinsAt
  <2>2. g[k + 1] = IF k + 1 = 1 THEN t[k + 1] ELSE g[k] \o t[k + 1]
    BY <2>0, JoinsAt
  <2>3. k # 0 => f[k] = g[k]
    OBVIOUS
  <2>4. s[k + 1] = t[k + 1]
    OBVIOUS
  <2> QED  BY <2>1, <2>2, <2>3, <2>4
<1> HIDE DEF T
<1>3. T \in SUBSET Nat
  BY DEF T
<1>4. T = Nat
  BY <1>1, <1>2, <1>3, Induction
<1> QED  BY <1>4 DEF T

LEMMA JoinsType ==
  ASSUME NEW U, NEW s \in Seq(Seq(U)), NEW f, Joins(f, s, Len(s))
  PROVE  \A i \in 1 .. Len(s) : f[i] \in Seq(U)
<1> DEFINE T == {k \in Nat : k <= Len(s) => \A i \in 1 .. k : f[i] \in Seq(U)}
<1>1. 0 \in T
  OBVIOUS
<1>2. ASSUME NEW k \in T PROVE k + 1 \in T
  <2> SUFFICES ASSUME k + 1 <= Len(s) PROVE f[k + 1] \in Seq(U)
    OBVIOUS
  <2>0. k + 1 \in 1 .. Len(s) /\ (k + 1) - 1 = k
    OBVIOUS
  <2>1. f[k + 1] = IF k + 1 = 1 THEN s[k + 1] ELSE f[k] \o s[k + 1]
    BY <2>0, JoinsAt
  <2>2. s[k + 1] \in Seq(U)
    BY ElementOfSeq
  <2>3. k # 0 => f[k] \in Seq(U)
    OBVIOUS
  <2>4. k # 0 => f[k] \o s[k + 1] \in Seq(U)
    BY <2>2, <2>3, ConcatProperties
  <2> QED  BY <2>1, <2>2, <2>4
<1> HIDE DEF T
<1>3. T \in SUBSET Nat
  BY DEF T
<1>4. T = Nat
  BY <1>1, <1>2, <1>3, Induction
<1> QED  BY <1>4, LenProperties DEF T

\* What FlattenSeq computes: it begins with nothing and takes one sequence
\* after the other.
LEMMA FlattenEmpty == FlattenSeq(<<>>) = <<>>
BY FlattenDef

LEMMA FlattenType == ASSUME NEW U, NEW s \in Seq(Seq(U)) PROVE FlattenSeq(s) \in Seq(U)
<1>1. CASE Len(s) = 0
  BY <1>1, FlattenDef, EmptySeq
<1>2. CASE Len(s) # 0
  <2>1. PICK f : Joins(f, s, Len(s)) /\ FlattenSeq(s) = f[Len(s)]
    BY <1>2, FlattenDef, JoinsExists, LenProperties
  <2> QED  BY <1>2, <2>1, JoinsType, LenProperties
<1> QED  BY <1>1, <1>2

LEMMA FlattenAppend ==
  ASSUME NEW U, NEW s \in Seq(Seq(U)), NEW e \in Seq(U)
  PROVE  FlattenSeq(Append(s, e)) = FlattenSeq(s) \o e
<1> DEFINE t == Append(s, e)
           n == Len(s)
<1>1. /\ t \in Seq(Seq(U)) /\ n \in Nat /\ Len(t) = n + 1 /\ t[n + 1] = e
      /\ \A i \in 1 .. n : s[i] = t[i]
  BY AppendProperties, LenProperties
<1> HIDE DEF t
<1>2. PICK g : Joins(g, t, n + 1) /\ FlattenSeq(t) = g[n + 1]
  <2>1. n + 1 \in Nat /\ n + 1 # 0
    BY <1>1
  <2> HIDE DEF n
  <2>2. FlattenSeq(t) = (CHOOSE f : Joins(f, t, n + 1))[n + 1]
    BY <1>1, <2>1, FlattenDef
  <2>3. \E f : Joins(f, t, n + 1)
    BY <2>1, JoinsExists
  <2> QED  BY <2>2, <2>3
<1>3. g[n + 1] = IF n + 1 = 1 THEN e ELSE g[n] \o e
  <2>1. n + 1 \in 1 .. n + 1 /\ (n + 1) - 1 = n
    BY <1>1
  <2> HIDE DEF n
  <2> QED  BY <1>1, <1>2, <2>1, JoinsAt
<1>4. CASE n = 0
  <2>1. s = <<>>
    BY <1>4, EmptySeq
  <2>2. <<>> \o e = e
    BY ConcatEmptySeq
  <2>3. FlattenSeq(s) = <<>>
    BY <2>1, FlattenEmpty
  <2> QED  BY <1>2, <1>3, <1>4, <2>2, <2>3 DEF t
<1>5. CASE n # 0
  <2>1. PICK f : Joins(f, s, n) /\ FlattenSeq(s) = f[n]
    BY <1>1, <1>5, FlattenDef, JoinsExists
  <2>2. f[n] = g[n]
    <3>1. n + 1 \in Nat /\ n <= n + 1 /\ n \in 1 .. n
      BY <1>1, <1>5
    <3>2. Joins(f, s, n) /\ Joins(g, t, n + 1) /\ n \in Nat
      BY <1>1, <1>2, <2>1
    <3> HIDE DEF n
    <3>3. Agree(s, t, n)
      BY <1>1 DEF Agree
    <3>4. Agree(f, g, n)
      BY <3>1, <3>2, <3>3, JoinsAgree
    <3> QED  BY <3>1, <3>4 DEF Agree
  <2> QED  BY <1>2, <1>3, <1>5, <1>1, <2>1, <2>2 DEF t
<1> QED  BY <1>4, <1>5
-----------------------------------------------------------------------------
(* The numbering of the batches *)

NumberingInv ==
  /\ IsSequence(batches)
  /\ bar \in Nat /\ pendingBars \in Seq(Nat)
  /\ phase # "failed" => seq = Len(batches)
  /\ MaxBarsPerBatch > 0 => Len(pendingBars) < MaxBarsPerBatch
  /\ SequenceIsClosed

\* What a flush does, of a run that has not ended: bars is what it carries.
LEMMA FlushStep ==
  ASSUME NumberingInv, phase \notin {"failed", "done"},
         NEW bars \in Seq(Nat), MaxBarsPerBatch > 0 => Len(bars) <= MaxBarsPerBatch,
         NEW final \in BOOLEAN, NEW throws \in BOOLEAN,
         Emit(bars, final, throws), bar' = bar,
         phase' = IF throws THEN "failed" ELSE IF final THEN "done" ELSE "collector"
  PROVE  NumberingInv'
<1> DEFINE b == Batch(bars, final)
<1>1. b.seq = Len(batches) + 1 /\ b.bars = bars /\ b.final = final
  BY DEF Batch, NumberingInv
<1>2. pendingBars' = <<>> /\ seq' = Len(batches) + 1
  BY DEF Emit, NumberingInv
<1>3. /\ Len(batches) \in Nat /\ DOMAIN batches = 1 .. Len(batches)
      /\ \A i \in DOMAIN batches :
           /\ batches[i].seq = i /\ ~batches[i].final
           /\ MaxBarsPerBatch > 0 => Len(batches[i].bars) <= MaxBarsPerBatch
  BY Appended DEF NumberingInv, SequenceIsClosed
<1>4. CASE throws
  <2>1. batches' = batches /\ phase' = "failed"
    BY <1>4 DEF Emit
  <2>2. SequenceIsClosed'
    BY <1>3, <2>1 DEF SequenceIsClosed
  <2>3. IsSequence(batches)'
    BY <2>1 DEF NumberingInv, IsSequence
  <2> QED
    BY <1>2, <2>1, <2>2, <2>3, SessionAssumption DEF NumberingInv
<1>5. CASE ~throws
  <2>1. batches' = Append(batches, b)
    BY <1>5 DEF Emit
  <2> HIDE DEF b
  <2>2. /\ IsSequence(batches') /\ Len(batches') = Len(batches) + 1
        /\ DOMAIN batches' = 1 .. Len(batches) + 1
        /\ \A i \in 1 .. Len(batches) : batches'[i] = batches[i]
        /\ batches'[Len(batches) + 1] = b
    BY <2>1, Appended DEF NumberingInv
  <2>3. phase' = "done" <=> final
    BY <1>5
  <2>4. ASSUME NEW i \in DOMAIN batches'
        PROVE  /\ batches'[i].seq = i
               /\ MaxBarsPerBatch > 0 => Len(batches'[i].bars) <= MaxBarsPerBatch
               /\ batches'[i].final <=> i = Len(batches') /\ phase' = "done"
    <3>1. CASE i \in 1 .. Len(batches)
      BY <3>1, <1>3, <2>2
    <3>2. CASE i = Len(batches) + 1
      BY <3>2, <1>1, <2>2, <2>3
    <3> QED
      BY <3>1, <3>2, <1>3, <2>2
  <2>5. batches' # <<>>
    BY <1>3, <2>2
  <2>6. SequenceIsClosed'
    BY <2>4, <2>5 DEF SequenceIsClosed
  <2> QED
    BY <1>2, <2>2, <2>6, SessionAssumption DEF NumberingInv
<1> QED
  BY <1>4, <1>5

\* Steps that leave the stream alone, in a run that has not ended.
LEMMA QuietStep ==
  ASSUME NumberingInv, UNCHANGED <<batches, pendingBars, seq>>, bar' \in Nat,
         phase \notin {"failed", "done"}, phase' \notin {"failed", "done"}
  PROVE  NumberingInv'
BY DEF NumberingInv, SequenceIsClosed

LEMMA NumberingStep == NumberingInv /\ [Next]_vars => NumberingInv'
<1> SUFFICES ASSUME NumberingInv, [Next]_vars PROVE NumberingInv'
  OBVIOUS
<1>0. bar \in Nat
  BY DEF NumberingInv
<1> USE DEF batcherVars
<1>1. CASE BeginBar
  BY <1>0, <1>1, QuietStep DEF BeginBar
<1>2. CASE KeepOrder \/ DropOrder \/ OrdersDone
  BY <1>0, <1>2, QuietStep DEF KeepOrder, DropOrder, OrdersDone, AtOrder
<1>3. ASSUME NEW pnl \in Results, FillOrder(pnl) PROVE NumberingInv'
  <2>1. UNCHANGED <<batches, pendingBars, seq>>
    BY <1>3 DEF FillOrder, CloseTrade, NotifyTrade
  <2> QED
    BY <1>0, <1>3, <2>1, QuietStep DEF FillOrder, AtOrder
<1>4. ASSUME NEW lots \in Sizes, NEW rejected \in BOOLEAN, Propose(lots, rejected)
      PROVE  NumberingInv'
  BY <1>0, <1>4, QuietStep DEF Propose
<1>5. ASSUME NEW timeIsUp \in BOOLEAN, NEW throws \in BOOLEAN, Observers(timeIsUp, throws)
      PROVE  NumberingInv'
  <2> DEFINE bars == Append(pendingBars, bar)
  <2>1. bars \in Seq(Nat) /\ Len(bars) = Len(pendingBars) + 1
    BY <1>0, AppendProperties DEF NumberingInv
  <2>2. MaxBarsPerBatch > 0 => Len(bars) <= MaxBarsPerBatch
    BY <2>1, LenProperties, SessionAssumption DEF NumberingInv
  <2>3. CASE ShouldFlush(bars, timeIsUp)
    <3>1. Emit(bars, FALSE, throws)
      BY <1>5, <2>3 DEF Observers, BatchBar
    <3>2. phase = "strategy" /\ bar' = bar
          /\ phase' = IF throws THEN "failed" ELSE "collector"
      BY <1>5 DEF Observers
    <3> QED
      BY <2>1, <2>2, <3>1, <3>2, FlushStep
  <2>4. CASE ~ShouldFlush(bars, timeIsUp)
    <3>1. pendingBars' = bars /\ UNCHANGED <<seq, batches>> /\ ~throws
      BY <1>5, <2>4 DEF Observers, BatchBar
    <3>2. Len(bars) < MaxBarsPerBatch
      BY <2>1, <2>4, LenProperties, SessionAssumption DEF ShouldFlush
    <3> QED
      BY <1>5, <2>1, <3>1, <3>2 DEF Observers, NumberingInv, SequenceIsClosed
  <2> QED
    BY <2>3, <2>4
<1>6. CASE CollectorBar
  BY <1>0, <1>6, QuietStep DEF CollectorBar
<1>7. CASE CollectorStop
  BY <1>0, <1>7, QuietStep DEF CollectorStop
<1>8. ASSUME NEW throws \in BOOLEAN, ObserversStop(throws) PROVE NumberingInv'
  <2>1. Emit(pendingBars, TRUE, throws)
    BY <1>8 DEF ObserversStop, FinalBatch
  <2>2. /\ phase = "stopping" /\ bar' = bar
        /\ phase' = IF throws THEN "failed" ELSE "done"
    BY <1>8 DEF ObserversStop
  <2>3. /\ pendingBars \in Seq(Nat)
        /\ MaxBarsPerBatch > 0 => Len(pendingBars) <= MaxBarsPerBatch
    BY LenProperties, SessionAssumption DEF NumberingInv
  <2> QED
    BY <2>1, <2>2, <2>3, FlushStep
<1>9. CASE UNCHANGED vars
  BY <1>9 DEF vars, runVars, NumberingInv, SequenceIsClosed
<1> QED
  BY <1>1, <1>2, <1>3, <1>4, <1>5, <1>6, <1>7, <1>8, <1>9 DEF Next, ProcessOrders

LEMMA NumberingInit == Init => NumberingInv
<1> SUFFICES ASSUME Init PROVE NumberingInv
  OBVIOUS
<1>1. batches = <<>> /\ pendingBars = <<>> /\ seq = 0 /\ bar = 0 /\ phase = "loop"
  BY DEF Init, BatcherInit
<1>2. <<>> \in Seq(Nat) /\ Len(<<>>) = 0 /\ DOMAIN <<>> = {}
  OBVIOUS
<1> QED
  BY <1>1, <1>2, SessionAssumption DEF NumberingInv, SequenceIsClosed, IsSequence

\* Batches are numbered from 1 without a gap and at most MaxBarsPerBatch bars
\* long; a run that ended has sent one final batch, its last (emit_).
THEOREM StreamIsNumbered == Spec => []SequenceIsClosed
<1>1. NumberingInv => SequenceIsClosed
  BY DEF NumberingInv
<1> QED
  BY <1>1, NumberingInit, NumberingStep, PTL DEF Spec
-----------------------------------------------------------------------------
(* Lists of entries that have a candidate *)

\* The candidates of the entries, and that no two have one together; orders
\* and trades without one have 0.
Cands(list) == {list[i].cand : i \in DOMAIN list}
Distinct(list) ==
  \A i, j \in DOMAIN list : list[i].cand = list[j].cand /\ list[i].cand # 0 => i = j

LEMMA NoCands == Cands(<<>>) = {} /\ Distinct(<<>>)
BY DEF Cands, Distinct

LEMMA CandsAppend ==
  ASSUME NEW S, NEW list \in Seq(S), NEW e \in S
  PROVE  /\ Append(list, e) \in Seq(S)
         /\ Cands(Append(list, e)) = Cands(list) \union {e.cand}
         /\ Distinct(list) /\ e.cand \notin Cands(list) \ {0} => Distinct(Append(list, e))
<1> DEFINE l == Append(list, e)
           n == Len(list)
<1>1. /\ l \in Seq(S) /\ n \in Nat
      /\ DOMAIN list = 1 .. n /\ DOMAIN l = 1 .. n + 1
      /\ l[n + 1] = e /\ \A i \in 1 .. n : l[i] = list[i]
  BY AppendProperties, LenProperties
<1> HIDE DEF l, n
<1>2. Cands(l) = Cands(list) \union {e.cand}
  <2>1. ASSUME NEW c \in Cands(l) PROVE c \in Cands(list) \union {e.cand}
    <3>1. PICK i \in 1 .. n + 1 : c = l[i].cand
      BY <1>1 DEF Cands
    <3>2. i \in 1 .. n \/ i = n + 1
      BY <1>1
    <3> QED  BY <1>1, <3>1, <3>2 DEF Cands
  <2>2. ASSUME NEW c \in Cands(list) PROVE c \in Cands(l)
    <3>1. PICK i \in 1 .. n : c = list[i].cand
      BY <1>1 DEF Cands
    <3> QED  BY <1>1, <3>1 DEF Cands
  <2>3. e.cand \in Cands(l)
    BY <1>1 DEF Cands
  <2> QED  BY <2>1, <2>2, <2>3
<1>3. ASSUME Distinct(list), e.cand \notin Cands(list) \ {0} PROVE Distinct(l)
  <2> SUFFICES ASSUME NEW i \in 1 .. n + 1, NEW j \in 1 .. n + 1,
                      l[i].cand = l[j].cand, l[i].cand # 0
               PROVE  i = j
    BY <1>1 DEF Distinct
  <2>1. \A k \in 1 .. n : l[k].cand \in Cands(list)
    BY <1>1 DEF Cands
  <2>2. i \in 1 .. n \/ i = n + 1
    BY <1>1
  <2>3. j \in 1 .. n \/ j = n + 1
    BY <1>1
  <2> QED  BY <1>1, <1>3, <2>1, <2>2, <2>3 DEF Distinct
<1> QED  BY <1>1, <1>2, <1>3 DEF l

LEMMA CandsTail ==
  ASSUME NEW S, NEW list \in Seq(S), list # <<>>
  PROVE  /\ Head(list) \in S /\ Tail(list) \in Seq(S)
         /\ Cands(list) = {Head(list).cand} \union Cands(Tail(list))
         /\ Distinct(list) =>
              Distinct(Tail(list)) /\ Head(list).cand \notin Cands(Tail(list)) \ {0}
<1> DEFINE t == Tail(list)
           h == Head(list)
           n == Len(list)
<1>1. /\ h \in S /\ t \in Seq(S) /\ n \in Nat /\ n > 0
      /\ DOMAIN list = 1 .. n /\ DOMAIN t = 1 .. n - 1
      /\ h = list[1] /\ \A i \in 1 .. n - 1 : t[i] = list[i + 1]
  BY HeadTailProperties, LenProperties, EmptySeq
<1> HIDE DEF t, h, n
<1>2. \A i \in 1 .. n : i = 1 \/ (i - 1 \in 1 .. n - 1 /\ list[i] = t[i - 1])
  BY <1>1
<1>3. \A i \in 1 .. n - 1 : i + 1 \in 1 .. n /\ i + 1 # 1
  BY <1>1
<1>4. Cands(list) = {h.cand} \union Cands(t)
  <2>1. ASSUME NEW c \in Cands(list) PROVE c \in {h.cand} \union Cands(t)
    <3>1. PICK i \in 1 .. n : c = list[i].cand
      BY <1>1 DEF Cands
    <3> QED  BY <1>1, <1>2, <3>1 DEF Cands
  <2>2. ASSUME NEW c \in Cands(t) PROVE c \in Cands(list)
    <3>1. PICK i \in 1 .. n - 1 : c = t[i].cand
      BY <1>1 DEF Cands
    <3> QED  BY <1>1, <1>3, <3>1 DEF Cands
  <2>3. h.cand \in Cands(list)
    <3>1. 1 \in 1 .. n
      BY <1>1
    <3> QED  BY <1>1, <3>1 DEF Cands
  <2> QED  BY <2>1, <2>2, <2>3
<1>5. ASSUME Distinct(list) PROVE Distinct(t) /\ h.cand \notin Cands(t) \ {0}
  <2>1. Distinct(t)
    <3> SUFFICES ASSUME NEW i \in 1 .. n - 1, NEW j \in 1 .. n - 1,
                        t[i].cand = t[j].cand, t[i].cand # 0
                 PROVE  i = j
      BY <1>1 DEF Distinct
    <3>1. /\ i + 1 \in 1 .. n /\ j + 1 \in 1 .. n
          /\ list[i + 1].cand = list[j + 1].cand /\ list[i + 1].cand # 0
      BY <1>1, <1>3
    <3>2. i + 1 = j + 1
      BY <1>1, <1>5, <3>1 DEF Distinct
    <3> QED  BY <3>2
  <2>2. ASSUME h.cand \in Cands(t), h.cand # 0 PROVE FALSE
    <3>1. PICK i \in 1 .. n - 1 : h.cand = t[i].cand
      BY <1>1, <2>2 DEF Cands
    <3>2. 1 \in 1 .. n
      BY <1>1
    <3>3. i + 1 \in 1 .. n /\ i + 1 # 1
      BY <1>3
    <3>4. list[1].cand = list[i + 1].cand /\ list[1].cand # 0
      BY <1>1, <2>2, <3>1
    <3> HIDE DEF n
    <3> QED  BY ONLY <1>1, <1>5, <3>2, <3>3, <3>4 DEF Distinct
  <2> QED  BY <2>1, <2>2
<1> QED  BY <1>1, <1>4, <1>5 DEF t, h

LEMMA CandsConcat ==
  ASSUME NEW S, NEW a \in Seq(S), NEW b \in Seq(S)
  PROVE  /\ a \o b \in Seq(S)
         /\ Cands(a \o b) = Cands(a) \union Cands(b)
         /\ Distinct(a) /\ Distinct(b) /\ Cands(a) \intersect Cands(b) \subseteq {0}
              => Distinct(a \o b)
<1> DEFINE l == a \o b
           m == Len(a)
           n == Len(b)
<1>1. /\ l \in Seq(S) /\ m \in Nat /\ n \in Nat
      /\ DOMAIN a = 1 .. m /\ DOMAIN b = 1 .. n /\ DOMAIN l = 1 .. m + n
      /\ \A i \in 1 .. m : l[i] = a[i]
      /\ \A i \in m + 1 .. m + n : l[i] = b[i - m]
  BY ConcatProperties, LenProperties
<1> HIDE DEF l, m, n
<1>2. \A i \in 1 .. m + n : i \in 1 .. m \/ (i - m \in 1 .. n /\ l[i] = b[i - m])
  BY <1>1
<1>3. \A i \in 1 .. n : i + m \in m + 1 .. m + n /\ (i + m) - m = i
  BY <1>1
<1>4. \A i \in 1 .. n : i + m \in 1 .. m + n /\ l[i + m] = b[i]
  BY <1>1, <1>3
<1>5. 1 .. m \subseteq 1 .. m + n
  BY <1>1
<1>6. Cands(l) = Cands(a) \union Cands(b)
  <2>1. ASSUME NEW c \in Cands(l) PROVE c \in Cands(a) \union Cands(b)
    <3>1. PICK i \in 1 .. m + n : c = l[i].cand
      BY <1>1 DEF Cands
    <3> QED  BY <1>1, <1>2, <3>1 DEF Cands
  <2>2. ASSUME NEW c \in Cands(a) PROVE c \in Cands(l)
    <3>1. PICK i \in 1 .. m : c = a[i].cand
      BY <1>1 DEF Cands
    <3> QED  BY <1>1, <1>5, <3>1 DEF Cands
  <2>3. ASSUME NEW c \in Cands(b) PROVE c \in Cands(l)
    <3>1. PICK i \in 1 .. n : c = b[i].cand
      BY <1>1 DEF Cands
    <3> QED  BY <1>1, <1>4, <3>1 DEF Cands
  <2> QED  BY <2>1, <2>2, <2>3
<1>7. ASSUME Distinct(a), Distinct(b), Cands(a) \intersect Cands(b) \subseteq {0}
      PROVE  Distinct(l)
  <2> SUFFICES ASSUME NEW i \in 1 .. m + n, NEW j \in 1 .. m + n,
                      l[i].cand = l[j].cand, l[i].cand # 0
               PROVE  i = j
    BY <1>1 DEF Distinct
  <2>1. \A k \in 1 .. m : l[k].cand \in Cands(a)
    BY <1>1 DEF Cands
  <2>2. \A k \in 1 .. n : b[k].cand \in Cands(b)
    BY <1>1 DEF Cands
  <2>3. CASE i \in 1 .. m
    <3>1. j \in 1 .. m
      BY <1>2, <1>7, <2>1, <2>2, <2>3
    <3> QED  BY <1>1, <1>7, <2>3, <3>1 DEF Distinct
  <2>4. CASE i \notin 1 .. m
    <3>1. j \notin 1 .. m
      BY <1>2, <1>7, <2>1, <2>2, <2>4
    <3>2. /\ i - m \in 1 .. n /\ j - m \in 1 .. n
          /\ b[i - m].cand = b[j - m].cand /\ b[i - m].cand # 0
      BY <1>2, <2>4, <3>1
    <3>3. i - m = j - m
      BY <1>1, <1>7, <3>2 DEF Distinct
    <3> QED  BY <1>1, <3>3
  <2> QED  BY <2>3, <2>4
<1> QED  BY <1>1, <1>6, <1>7 DEF l
-----------------------------------------------------------------------------
(* The shadow ledger *)

Shadows == [cand : Nat \ {0}, held : Nat]
OutcomeRecords == [cand : Nat \ {0}, kind : {"kActual", "kShadow", "kCensored"}, held : Nat]

LEMMA OneStep ==
  ASSUME NEW a \in Seq(Shadows), NEW s \in Shadows
  PROVE  /\ [i \in DOMAIN a |-> IfOpen(a[i])] \in Seq(Seq(Shadows))
         /\ [i \in DOMAIN a |-> IfClosed(a[i])] \in Seq(Seq(OutcomeRecords))
         /\ IfOpen(s) \in Seq(Shadows) /\ IfClosed(s) \in Seq(OutcomeRecords)
         /\ StillOpen(Append(a, s)) = StillOpen(a) \o IfOpen(s)
         /\ Closed(Append(a, s)) = Closed(a) \o IfClosed(s)
<1> DEFINE n == Len(a)
           b == Append(a, s)
           Opens(l)  == [i \in DOMAIN l |-> IfOpen(l[i])]
           Closes(l) == [i \in DOMAIN l |-> IfClosed(l[i])]
<1>1. /\ n \in Nat /\ DOMAIN a = 1 .. n /\ \A i \in 1 .. n : a[i] \in Shadows
      /\ DOMAIN b = 1 .. n + 1 /\ b[n + 1] = s /\ \A i \in 1 .. n : b[i] = a[i]
  BY AppendProperties, LenProperties
<1>2. ASSUME NEW e \in Shadows
      PROVE  IfOpen(e) \in Seq(Shadows) /\ IfClosed(e) \in Seq(OutcomeRecords)
  <2>1. <<e>> \in Seq(Shadows)
    OBVIOUS
  <2>2. Outcome(e.cand, "kShadow", e.held) \in OutcomeRecords
    BY DEF Outcome, OutcomeRecords, Shadows
  <2>3. <<Outcome(e.cand, "kShadow", e.held)>> \in Seq(OutcomeRecords)
    BY <2>2
  <2> QED  BY <2>1, <2>3, EmptySeq DEF IfOpen, IfClosed
<1> HIDE DEF n, b
<1>3. Opens(a) \in Seq(Seq(Shadows)) /\ Len(Opens(a)) = n
  <2>1. Opens(a) \in [1 .. n -> Seq(Shadows)]
    BY <1>1, <1>2
  <2> HIDE DEF Opens
  <2> QED  BY <1>1, <2>1
<1>4. Closes(a) \in Seq(Seq(OutcomeRecords)) /\ Len(Closes(a)) = n
  <2>1. Closes(a) \in [1 .. n -> Seq(OutcomeRecords)]
    BY <1>1, <1>2
  <2> HIDE DEF Closes
  <2> QED  BY <1>1, <2>1
<1>5. Opens(b) = Append(Opens(a), IfOpen(s))
  <2>1. /\ Opens(b) = [i \in DOMAIN Opens(b) |-> Opens(b)[i]]
        /\ DOMAIN Opens(b) = 1 .. n + 1 /\ Opens(b)[n + 1] = IfOpen(s)
        /\ \A i \in 1 .. n : Opens(b)[i] = Opens(a)[i]
    BY <1>1
  <2>2. IfOpen(s) \in Seq(Shadows)
    BY <1>2
  <2> HIDE DEF Opens
  <2> QED  BY <1>3, <2>1, <2>2, SameList
<1>6. Closes(b) = Append(Closes(a), IfClosed(s))
  <2>1. /\ Closes(b) = [i \in DOMAIN Closes(b) |-> Closes(b)[i]]
        /\ DOMAIN Closes(b) = 1 .. n + 1 /\ Closes(b)[n + 1] = IfClosed(s)
        /\ \A i \in 1 .. n : Closes(b)[i] = Closes(a)[i]
    BY <1>1
  <2>2. IfClosed(s) \in Seq(OutcomeRecords)
    BY <1>2
  <2> HIDE DEF Closes
  <2> QED  BY <1>4, <2>1, <2>2, SameList
<1>7. StillOpen(b) = StillOpen(a) \o IfOpen(s)
  <2> HIDE DEF Opens
  <2>1. FlattenSeq(Opens(b)) = FlattenSeq(Opens(a)) \o IfOpen(s)
    BY <1>2, <1>3, <1>5, FlattenAppend
  <2> QED  BY <2>1 DEF StillOpen, Opens
<1>8. Closed(b) = Closed(a) \o IfClosed(s)
  <2> HIDE DEF Closes
  <2>1. FlattenSeq(Closes(b)) = FlattenSeq(Closes(a)) \o IfClosed(s)
    BY <1>2, <1>4, <1>6, FlattenAppend
  <2> QED  BY <2>1 DEF Closed, Closes
<1> QED  BY <1>2, <1>3, <1>4, <1>7, <1>8 DEF b

\* What happens to aged shadows: each stays open or gets an outcome.
Divided(a) ==
  /\ StillOpen(a) \in Seq(Shadows) /\ Closed(a) \in Seq(OutcomeRecords)
  /\ Cands(StillOpen(a)) \union Cands(Closed(a)) = Cands(a)
  /\ Distinct(a) =>
       /\ Distinct(StillOpen(a)) /\ Distinct(Closed(a))
       /\ Cands(StillOpen(a)) \intersect Cands(Closed(a)) = {}

LEMMA DividedStep ==
  ASSUME NEW a \in Seq(Shadows), NEW s \in Shadows, Divided(a)
  PROVE  Divided(Append(a, s))
<1> DEFINE b == Append(a, s)
           o == Outcome(s.cand, "kShadow", s.held)
<1>1. /\ b \in Seq(Shadows) /\ Cands(b) = Cands(a) \union {s.cand}
  BY CandsAppend
<1>2. s.cand # 0 /\ o \in OutcomeRecords /\ o.cand = s.cand
  BY DEF Outcome, OutcomeRecords, Shadows
<1>3. ASSUME Distinct(b) PROVE Distinct(a) /\ s.cand \notin Cands(a)
  <2> DEFINE n == Len(a)
  <2>1. /\ n \in Nat /\ DOMAIN a = 1 .. n /\ DOMAIN b = 1 .. n + 1
        /\ b[n + 1] = s /\ \A i \in 1 .. n : b[i] = a[i]
    BY AppendProperties, LenProperties
  <2> HIDE DEF n, b
  <2>2. \A i \in 1 .. n : i \in 1 .. n + 1 /\ i # n + 1
    BY <2>1
  <2>3. n + 1 \in 1 .. n + 1
    BY <2>1
  <2>4. Distinct(a)
    BY <1>3, <2>1, <2>2 DEF Distinct
  <2>5. ASSUME s.cand \in Cands(a) PROVE FALSE
    <3>1. PICK i \in 1 .. n : a[i].cand = s.cand
      BY <2>1, <2>5 DEF Cands
    <3>2. i = n + 1
      BY <1>2, <1>3, <2>1, <2>2, <2>3, <3>1 DEF Distinct
    <3> QED  BY <2>2, <3>2
  <2> QED  BY <2>4, <2>5
<1>4. StillOpen(b) = StillOpen(a) \o IfOpen(s) /\ Closed(b) = Closed(a) \o IfClosed(s)
  BY OneStep
<1> HIDE DEF b, o
<1>5. CASE AtHorizon(s)
  <2>1. StillOpen(b) = StillOpen(a) /\ Closed(b) = Append(Closed(a), o)
    <3>1. IfOpen(s) = <<>> /\ IfClosed(s) = <<o>>
      BY <1>5 DEF IfOpen, IfClosed, o
    <3>2. StillOpen(a) \o <<>> = StillOpen(a)
      BY ConcatEmptySeq DEF Divided
    <3>3. Closed(a) \o <<o>> = Append(Closed(a), o)
      BY <1>2, AppendIsConcat DEF Divided
    <3> QED  BY <1>4, <3>1, <3>2, <3>3
  <2>2. /\ Closed(b) \in Seq(OutcomeRecords)
        /\ Cands(Closed(b)) = Cands(Closed(a)) \union {s.cand}
        /\ Distinct(Closed(a)) /\ s.cand \notin Cands(Closed(a)) => Distinct(Closed(b))
    BY <1>2, <2>1, CandsAppend DEF Divided
  <2> QED  BY <1>1, <1>3, <2>1, <2>2 DEF Divided, b
<1>6. CASE ~AtHorizon(s)
  <2>1. StillOpen(b) = Append(StillOpen(a), s) /\ Closed(b) = Closed(a)
    <3>1. IfOpen(s) = <<s>> /\ IfClosed(s) = <<>>
      BY <1>6 DEF IfOpen, IfClosed
    <3>2. Closed(a) \o <<>> = Closed(a)
      BY ConcatEmptySeq DEF Divided
    <3>3. StillOpen(a) \o <<s>> = Append(StillOpen(a), s)
      BY AppendIsConcat DEF Divided
    <3> QED  BY <1>4, <3>1, <3>2, <3>3
  <2>2. /\ StillOpen(b) \in Seq(Shadows)
        /\ Cands(StillOpen(b)) = Cands(StillOpen(a)) \union {s.cand}
        /\ Distinct(StillOpen(a)) /\ s.cand \notin Cands(StillOpen(a)) => Distinct(StillOpen(b))
    BY <1>2, <2>1, CandsAppend DEF Divided
  <2> QED  BY <1>1, <1>3, <2>1, <2>2 DEF Divided, b
<1> QED  BY <1>5, <1>6

LEMMA DividedAll == \A a \in Seq(Shadows) : Divided(a)
<1> DEFINE T == {n \in Nat : \A a \in Seq(Shadows) : Len(a) = n => Divided(a)}
<1>1. 0 \in T
  <2> SUFFICES ASSUME NEW a \in Seq(Shadows), Len(a) = 0 PROVE Divided(a)
    OBVIOUS
  <2>1. a = <<>>
    BY EmptySeq
  <2>2. [i \in DOMAIN a |-> IfOpen(a[i])] = <<>> /\ [i \in DOMAIN a |-> IfClosed(a[i])] = <<>>
    BY <2>1
  <2>3. StillOpen(a) = <<>> /\ Closed(a) = <<>>
    BY <2>2, FlattenEmpty DEF StillOpen, Closed
  <2> QED  BY <2>1, <2>3, NoCands, EmptySeq DEF Divided
<1>2. ASSUME NEW n \in T PROVE n + 1 \in T
  <2> SUFFICES ASSUME NEW b \in Seq(Shadows), Len(b) = n + 1 PROVE Divided(b)
    OBVIOUS
  <2>1. b # <<>>
    BY EmptySeq
  <2>2. PICK a \in Seq(Shadows), s \in Shadows : b = Append(a, s)
    BY <2>1, SequenceEmptyOrAppend
  <2>3. Len(a) = n
    BY <2>2, AppendProperties, LenProperties
  <2> QED  BY <2>2, <2>3, DividedStep
<1> HIDE DEF T
<1>3. T \in SUBSET Nat
  BY DEF T
<1>4. T = Nat
  BY <1>1, <1>2, <1>3, Induction
<1> QED  BY <1>4, LenProperties DEF T

LEMMA AgedFacts ==
  ASSUME shadows \in Seq(Shadows)
  PROVE  /\ Aged \in Seq(Shadows) /\ Cands(Aged) = Cands(shadows)
         /\ Distinct(shadows) => Distinct(Aged)
<1>1. /\ Len(shadows) \in Nat /\ DOMAIN shadows = 1 .. Len(shadows)
      /\ \A i \in 1 .. Len(shadows) : shadows[i] \in Shadows
  BY LenProperties, ElementOfSeq
<1>2. /\ DOMAIN Aged = DOMAIN shadows
      /\ \A i \in DOMAIN shadows :
           /\ Aged[i] = [shadows[i] EXCEPT !.held = shadows[i].held + 1]
           /\ Aged[i] \in Shadows /\ Aged[i].cand = shadows[i].cand
  BY <1>1 DEF Aged, Shadows
<1>3. Aged \in [1 .. Len(shadows) -> Shadows]
  BY <1>1, <1>2 DEF Aged
<1>4. Aged \in Seq(Shadows)
  BY <1>1, <1>3
<1> QED  BY <1>2, <1>4 DEF Cands, Distinct
-----------------------------------------------------------------------------
(* The stream is complete *)

Orders == [cand : Nat, lots : Int \ {0}]
Trades == [id : Nat, cand : Nat]

\* What the batches taken by the callback carry in one of their fields.
Sent(field) == [i \in DOMAIN batches |-> batches[i][field]]

RunTypes ==
  /\ bar \in Nat /\ processedBars \in Nat /\ position \in Int /\ nextTrade \in Nat
  /\ trade \in Trades
  /\ pending \in Seq(Orders) /\ work \in Seq(Orders)

SentTypes ==
  /\ IsSequence(batches)
  /\ Sent("bars") \in Seq(Seq(Nat)) /\ Sent("trades") \in Seq(Seq(Nat))
  /\ Sent("candidates") \in Seq(Seq(Nat)) /\ Sent("outcomes") \in Seq(Seq(OutcomeRecords))

DataTypes ==
  /\ nextCandidate \in Nat \ {0}
  /\ pendingBars \in Seq(Nat) /\ pendingTrades \in Seq(Nat) /\ pendingCandidates \in Seq(Nat)
  /\ pendingOutcomes \in Seq(OutcomeRecords) /\ recorded \in Seq(OutcomeRecords)
  /\ closed \in Seq(Nat) /\ shadows \in Seq(Shadows)
  /\ SentTypes

\* The bar of which the loop has not told the observers yet.
BarsOK ==
  phase # "failed" =>
    bar = processedBars + IF phase \in {"orders", "strategy"} THEN 1 ELSE 0

StreamInv == RunTypes /\ DataTypes /\ BarsOK /\ StreamIsComplete

LEMMA SentAppend ==
  ASSUME NEW S, NEW field, NEW b, IsSequence(batches), Sent(field) \in Seq(S), b[field] \in S,
         batches' = Append(batches, b)
  PROVE  Sent(field)' = Append(Sent(field), b[field])
<1> DEFINE n == Len(batches)
           c == batches'
<1>1. /\ n \in Nat /\ DOMAIN batches = 1 .. n /\ DOMAIN c = 1 .. n + 1
      /\ c[n + 1] = b /\ \A i \in 1 .. n : c[i] = batches[i]
  BY Appended
<1> HIDE DEF c, n
<1> DEFINE l == [i \in DOMAIN c |-> c[i][field]]
<1>2. Len(Sent(field)) = n
  <2>1. DOMAIN Sent(field) = 1 .. n
    BY <1>1 DEF Sent
  <2> QED  BY <1>1, <2>1, LenProperties
<1>3. /\ l = [i \in DOMAIN l |-> l[i]] /\ DOMAIN l = 1 .. n + 1 /\ l[n + 1] = b[field]
      /\ \A i \in 1 .. n : l[i] = Sent(field)[i]
  BY <1>1 DEF Sent
<1>4. Sent(field)' = l
  BY DEF Sent, c
<1> HIDE DEF l
<1>5. l = Append(Sent(field), b[field])
  BY <1>2, <1>3, SameList
<1> QED  BY <1>4, <1>5

\* A batch that the callback takes moves what is pending behind what it was
\* sent before; an announced order of things does not change.
LEMMA EmitFacts ==
  ASSUME SentTypes, NEW bars \in Seq(Nat), NEW final, NEW throws \in BOOLEAN,
         pendingTrades \in Seq(Nat), pendingCandidates \in Seq(Nat),
         pendingOutcomes \in Seq(OutcomeRecords),
         Emit(bars, final, throws)
  PROVE  /\ SentTypes'
         /\ ~throws =>
              /\ Over("bars")' \o pendingBars' = Over("bars") \o bars
              /\ Over("trades")' \o pendingTrades' = Over("trades") \o pendingTrades
              /\ Over("candidates")' \o pendingCandidates' = Over("candidates") \o pendingCandidates
              /\ Over("outcomes")' \o pendingOutcomes' = Over("outcomes") \o pendingOutcomes
<1>0. /\ pendingBars' = <<>> /\ pendingTrades' = <<>>
      /\ pendingCandidates' = <<>> /\ pendingOutcomes' = <<>>
  BY DEF Emit, Drained
<1>1. CASE throws
  <2>1. batches' = batches
    BY <1>1 DEF Emit
  <2> QED  BY <1>1, <2>1 DEF SentTypes, Sent, IsSequence
<1>2. CASE ~throws
  <2> DEFINE b == Batch(bars, final)
  <2>1. batches' = Append(batches, b)
    BY <1>2 DEF Emit
  <2>2. /\ b["bars"] = bars /\ b["trades"] = pendingTrades
        /\ b["candidates"] = pendingCandidates /\ b["outcomes"] = pendingOutcomes
    BY DEF Batch
  <2> HIDE DEF b
  <2>3. IsSequence(batches')
    BY <2>1, Appended DEF SentTypes
  <2>4. ASSUME NEW U, NEW f, NEW e \in Seq(U), b[f] = e, Sent(f) \in Seq(Seq(U))
        PROVE  Sent(f)' \in Seq(Seq(U)) /\ Over(f)' \o <<>> = Over(f) \o e
    <3>1. Sent(f)' = Append(Sent(f), e)
      BY <2>1, <2>4, SentAppend DEF SentTypes
    <3>2. Append(Sent(f), e) \in Seq(Seq(U))
      BY <2>4, AppendProperties
    <3>3. /\ FlattenSeq(Append(Sent(f), e)) = FlattenSeq(Sent(f)) \o e
          /\ FlattenSeq(Append(Sent(f), e)) \in Seq(U)
      BY <2>4, <3>2, FlattenAppend, FlattenType
    <3>4. Over(f) = FlattenSeq(Sent(f)) /\ Over(f)' = FlattenSeq(Sent(f)')
      BY DEF Over, Sent
    <3> QED  BY <3>1, <3>2, <3>3, <3>4, ConcatEmptySeq
  <2>5. Sent("bars")' \in Seq(Seq(Nat)) /\ Over("bars")' \o <<>> = Over("bars") \o bars
    BY <2>2, <2>4 DEF SentTypes
  <2>6. /\ Sent("trades")' \in Seq(Seq(Nat))
        /\ Over("trades")' \o <<>> = Over("trades") \o pendingTrades
    BY <2>2, <2>4 DEF SentTypes
  <2>7. /\ Sent("candidates")' \in Seq(Seq(Nat))
        /\ Over("candidates")' \o <<>> = Over("candidates") \o pendingCandidates
    BY <2>2, <2>4 DEF SentTypes
  <2>8. /\ Sent("outcomes")' \in Seq(Seq(OutcomeRecords))
        /\ Over("outcomes")' \o <<>> = Over("outcomes") \o pendingOutcomes
    BY <2>2, <2>4 DEF SentTypes
  <2> QED  BY <1>0, <2>3, <2>5, <2>6, <2>7, <2>8 DEF SentTypes
<1> QED  BY <1>1, <1>2

LEMMA SentIsList ==
  ASSUME SentTypes
  PROVE  /\ Over("bars") \in Seq(Nat) /\ Over("trades") \in Seq(Nat)
         /\ Over("candidates") \in Seq(Nat) /\ Over("outcomes") \in Seq(OutcomeRecords)
<1>1. \A f : Over(f) = FlattenSeq(Sent(f))
  BY DEF Over, Sent
<1> QED  BY <1>1, FlattenType DEF SentTypes

LEMMA ConcatAppend ==
  ASSUME NEW S, NEW s \in Seq(S), NEW t \in Seq(S), NEW e \in S
  PROVE  s \o Append(t, e) = Append(s \o t, e)
<1> DEFINE u == <<e>>
<1>1. Append(t, e) = t \o u /\ Append(s \o t, e) = (s \o t) \o u
  BY ConcatProperties, AppendIsConcat
<1>2. u \in Seq(S)
  OBVIOUS
<1> HIDE DEF u
<1>3. (s \o t) \o u = s \o (t \o u)
  BY <1>2, ConcatAssociative
<1> QED  BY <1>1, <1>3

LEMMA CountUp ==
  ASSUME NEW n \in Nat
  PROVE  /\ [i \in 1 .. n |-> i] \in Seq(Nat)
         /\ [i \in 1 .. n + 1 |-> i] = Append([i \in 1 .. n |-> i], n + 1)
<1> DEFINE c == [i \in 1 .. n |-> i]
           d == [i \in 1 .. n + 1 |-> i]
<1>1. c \in [1 .. n -> Nat] /\ n + 1 \in Nat
  OBVIOUS
<1>2. /\ d = [i \in DOMAIN d |-> d[i]] /\ DOMAIN d = 1 .. n + 1 /\ d[n + 1] = n + 1
      /\ \A i \in 1 .. n : d[i] = c[i]
  OBVIOUS
<1> HIDE DEF c, d
<1>3. c \in Seq(Nat) /\ Len(c) = n
  BY <1>1
<1>4. d = Append(c, n + 1)
  BY <1>1, <1>2, <1>3, SameList
<1> QED  BY <1>3, <1>4 DEF c, d

\* A record of what happened and what is pending grow by the same outcomes.
LEMMA NewPart ==
  ASSUME NEW S, NEW s \in Seq(S), NEW t \in Seq(S)
  PROVE  SubSeq(s \o t, Len(s) + 1, Len(s \o t)) = t
BY SubSeqOfConcat2

DataStays ==
  UNCHANGED <<nextCandidate, pendingBars, pendingTrades, pendingCandidates, pendingOutcomes,
              shadows, batches, processedBars, recorded, closed>>

LEMMA StayingData ==
  ASSUME StreamInv, DataStays, phase # "failed"
  PROVE  DataTypes' /\ StreamIsComplete'
BY DEF StreamInv, DataStays, DataTypes, SentTypes, Sent, IsSequence, StreamIsComplete, Over

LEMMA QueueFacts ==
  ASSUME RunTypes, work # <<>>
  PROVE  /\ Head(work) \in Orders /\ Tail(work) \in Seq(Orders)
         /\ Append(pending, Head(work)) \in Seq(Orders)
BY CandsTail, CandsAppend DEF RunTypes

LEMMA OutcomesOfTradeType ==
  ASSUME NEW cand \in Nat
  PROVE  OutcomesOfTrade(cand) \in Seq(OutcomeRecords)
<1>1. CASE cand # 0
  <2>1. Outcome(cand, "kActual", 0) \in OutcomeRecords
    BY <1>1 DEF Outcome, OutcomeRecords
  <2>2. <<Outcome(cand, "kActual", 0)>> \in Seq(OutcomeRecords)
    BY <2>1
  <2> QED  BY <2>2, EmptySeq DEF OutcomesOfTrade
<1>2. CASE cand = 0
  BY <1>2, EmptySeq DEF OutcomesOfTrade
<1> QED  BY <1>1, <1>2

\* The broker gives outcomes, which are recorded as they become pending.
LEMMA OutcomesAdded ==
  ASSUME StreamInv, NEW new \in Seq(OutcomeRecords),
         pendingOutcomes' = pendingOutcomes \o new, recorded' = recorded \o new,
         UNCHANGED batches
  PROVE  /\ pendingOutcomes' \in Seq(OutcomeRecords) /\ recorded' \in Seq(OutcomeRecords)
         /\ phase # "failed" => Over("outcomes")' \o pendingOutcomes' = recorded'
<1>1. Over("outcomes") \in Seq(OutcomeRecords) /\ pendingOutcomes \in Seq(OutcomeRecords)
      /\ recorded \in Seq(OutcomeRecords)
  BY SentIsList DEF StreamInv, DataTypes
<1>2. Over("outcomes")' = Over("outcomes")
  BY DEF Over
<1>3. phase # "failed" => Over("outcomes") \o pendingOutcomes = recorded
  BY DEF StreamInv, StreamIsComplete
<1> DEFINE o == Over("outcomes")
           p == pendingOutcomes
<1>4. /\ o \in Seq(OutcomeRecords) /\ p \in Seq(OutcomeRecords)
      /\ o = Over("outcomes") /\ p = pendingOutcomes
  BY <1>1
<1> HIDE DEF o, p
<1>5. /\ (o \o p) \o new = o \o (p \o new)
      /\ p \o new \in Seq(OutcomeRecords)
  BY <1>4, ConcatAssociative, ConcatProperties
<1>6. recorded \o new \in Seq(OutcomeRecords)
  BY <1>1, ConcatProperties
<1>7. pendingOutcomes' = p \o new /\ Over("outcomes")' = o
  BY <1>2, <1>4
<1>8. phase # "failed" => o \o (p \o new) = recorded'
  BY <1>3, <1>4, <1>5
<1> QED  BY <1>5, <1>6, <1>7, <1>8

LEMMA CloseTradeStream ==
  ASSUME StreamInv, phase # "failed", NEW pnl \in Results, CloseTrade(pnl)
  PROVE  DataTypes' /\ StreamIsComplete' /\ processedBars' = processedBars
<1> DEFINE new == OutcomesOfTrade(trade.cand)
<1>1. new \in Seq(OutcomeRecords) /\ trade.id \in Nat
  BY OutcomesOfTradeType DEF StreamInv, RunTypes, Trades
<1>2. /\ pendingOutcomes' = pendingOutcomes \o new /\ recorded' = recorded \o new
      /\ pendingTrades' = Append(pendingTrades, trade.id) /\ closed' = Append(closed, trade.id)
      /\ UNCHANGED <<batches, pendingBars, processedBars, nextCandidate, pendingCandidates, shadows>>
  BY DEF CloseTrade, NotifyTrade
<1> HIDE DEF new
<1>3. /\ pendingOutcomes' \in Seq(OutcomeRecords) /\ recorded' \in Seq(OutcomeRecords)
      /\ Over("outcomes")' \o pendingOutcomes' = recorded'
  BY <1>1, <1>2, OutcomesAdded
<1>4. /\ pendingTrades \in Seq(Nat) /\ closed \in Seq(Nat) /\ Over("trades") \in Seq(Nat)
      /\ Over("trades") \o pendingTrades = closed
  BY SentIsList DEF StreamInv, DataTypes, StreamIsComplete
<1>5. \A f : Over(f)' = Over(f)
  BY <1>2 DEF Over
<1>6. Over("trades") \o Append(pendingTrades, trade.id) = closed'
  <2> DEFINE o == Over("trades")
             p == pendingTrades
             e == trade.id
  <2>1. o \in Seq(Nat) /\ p \in Seq(Nat) /\ e \in Nat
    BY <1>1, <1>4
  <2>2. o \o p = closed /\ closed' = Append(closed, e)
    BY <1>2, <1>4
  <2> HIDE DEF o, p, e
  <2>3. o \o Append(p, e) = Append(o \o p, e)
    BY <2>1, ConcatAppend
  <2>4. o \o Append(p, e) = closed'
    BY <2>2, <2>3
  <2> QED  BY <2>4 DEF o, p, e
<1>7. pendingTrades' \in Seq(Nat) /\ closed' \in Seq(Nat)
  BY <1>1, <1>2, <1>4, AppendProperties
<1>8. SentTypes'
  BY <1>2 DEF StreamInv, DataTypes, SentTypes, Sent, IsSequence
<1>9. DataTypes'
  BY <1>2, <1>3, <1>7, <1>8 DEF StreamInv, DataTypes
<1>10. StreamIsComplete'
  BY <1>2, <1>3, <1>5, <1>6 DEF StreamInv, StreamIsComplete
<1> QED  BY <1>2, <1>9, <1>10

LEMMA FillStream ==
  ASSUME StreamInv, NEW pnl \in Results, FillOrder(pnl)
  PROVE  StreamInv'
<1> DEFINE o == Head(work)
           after == position + o.lots
<1>1. phase = "orders" /\ work # <<>> /\ work' = Tail(work) /\ position' = after
      /\ UNCHANGED <<phase, bar, pending>>
  BY DEF FillOrder, AtOrder
<1>2. o \in Orders /\ Tail(work) \in Seq(Orders)
  BY <1>1, QueueFacts DEF StreamInv
<1>3. after \in Int /\ o.cand \in Nat /\ trade.cand \in Nat
  BY <1>2 DEF StreamInv, RunTypes, Orders, Trades
<1>4. \/ DataStays
      \/ CloseTrade(pnl)
  BY DEF FillOrder, DataStays, collectorVars, batcherVars, OpenTrade
<1>5. DataTypes' /\ StreamIsComplete' /\ processedBars' = processedBars
  BY <1>1, <1>4, StayingData, CloseTradeStream DEF DataStays
<1>6. trade' \in Trades /\ nextTrade' \in Nat
  <2>1. \/ UNCHANGED <<trade, nextTrade>>
        \/ trade' = NoTrade /\ UNCHANGED nextTrade
        \/ OpenTrade(o, o.cand)
    BY DEF FillOrder, ReverseCand
  <2>2. CASE OpenTrade(o, o.cand)
    BY <1>3, <2>2 DEF OpenTrade, StreamInv, RunTypes, Trades
  <2>3. NoTrade \in Trades
    BY DEF NoTrade, Trades
  <2> QED  BY <2>1, <2>2, <2>3 DEF StreamInv, RunTypes
<1>7. RunTypes'
  BY <1>1, <1>2, <1>3, <1>5, <1>6 DEF StreamInv, RunTypes
<1> QED  BY <1>1, <1>5, <1>7 DEF StreamInv, BarsOK

LEMMA ProposeStream ==
  ASSUME StreamInv, NEW lots \in Sizes, NEW rejected \in BOOLEAN, Propose(lots, rejected)
  PROVE  StreamInv'
<1>1. /\ phase # "failed" /\ lots \in Int \ {0}
      /\ UNCHANGED <<phase, bar, work, position, trade, nextTrade, batches, pendingBars,
                     pendingTrades, processedBars, recorded, closed>>
  BY SessionAssumption DEF Propose, batcherVars
<1>2. pending \in Seq(Orders) /\ nextCandidate \in Nat \ {0}
  BY DEF StreamInv, RunTypes, DataTypes
<1>3. ASSUME NEW cand \in Nat PROVE Append(pending, [cand |-> cand, lots |-> lots]) \in Seq(Orders)
  <2>1. [cand |-> cand, lots |-> lots] \in Orders
    BY <1>1 DEF Orders
  <2> QED  BY <1>2, <2>1, CandsAppend
<1>4. pending' \in Seq(Orders)
  BY <1>2, <1>3 DEF Propose, Queue
<1>5. RunTypes' /\ BarsOK'
  BY <1>1, <1>4 DEF StreamInv, RunTypes, BarsOK
<1>6. CASE PassOrder(position, lots)
  <2>1. DataStays
    BY <1>1, <1>6 DEF PassOrder, DataStays, collectorVars
  <2> QED  BY <1>1, <1>5, <2>1, StayingData DEF StreamInv
<1>7. CASE Capture(position, lots, rejected)
  <2>1. /\ nextCandidate' = nextCandidate + 1
        /\ pendingCandidates' = Append(pendingCandidates, nextCandidate)
        /\ pendingOutcomes' = pendingOutcomes
    BY <1>7 DEF Capture
  <2>2. shadows' \in Seq(Shadows)
    <3>1. [cand |-> nextCandidate, held |-> 0] \in Shadows
      BY <1>2 DEF Shadows
    <3>2. Append(shadows, [cand |-> nextCandidate, held |-> 0]) \in Seq(Shadows)
      BY <3>1, CandsAppend DEF StreamInv, DataTypes
    <3> QED  BY <1>7, <3>2 DEF Capture, StreamInv, DataTypes
  <2>3. pendingCandidates \in Seq(Nat) /\ Over("candidates") \in Seq(Nat)
    BY SentIsList DEF StreamInv, DataTypes
  <2>4. pendingCandidates' \in Seq(Nat)
    BY <1>2, <2>1, <2>3, AppendProperties
  <2>5. SentTypes'
    BY <1>1 DEF StreamInv, DataTypes, SentTypes, Sent, IsSequence
  <2>6. DataTypes'
    BY <1>1, <1>2, <2>1, <2>2, <2>4, <2>5 DEF StreamInv, DataTypes
  <2>7. \A f : Over(f)' = Over(f)
    BY <1>1 DEF Over
  <2>8. Over("candidates") \o pendingCandidates' = [i \in 1 .. nextCandidate' - 1 |-> i]
    <3> DEFINE n == nextCandidate - 1
    <3>1. n \in Nat /\ n + 1 = nextCandidate /\ nextCandidate' - 1 = n + 1
      BY <1>2, <2>1
    <3>2. Over("candidates") \o pendingCandidates = [i \in 1 .. n |-> i]
      BY <1>1 DEF StreamInv, StreamIsComplete
    <3>3. Over("candidates") \o pendingCandidates' = Append([i \in 1 .. n |-> i], n + 1)
      <4>1. Over("candidates") \o Append(pendingCandidates, nextCandidate)
              = Append(Over("candidates") \o pendingCandidates, nextCandidate)
        BY <1>2, <2>3, ConcatAppend
      <4> QED  BY <2>1, <3>1, <3>2, <4>1
    <3> HIDE DEF n
    <3>4. [i \in 1 .. n + 1 |-> i] = Append([i \in 1 .. n |-> i], n + 1)
      BY <3>1, CountUp
    <3> QED  BY <3>1, <3>3, <3>4
  <2>9. StreamIsComplete'
    BY <1>1, <2>1, <2>7, <2>8 DEF StreamInv, StreamIsComplete
  <2> QED  BY <1>5, <2>6, <2>9 DEF StreamInv
<1> QED  BY <1>6, <1>7 DEF Propose

LEMMA ObserversStream ==
  ASSUME StreamInv, NEW timeIsUp \in BOOLEAN, NEW throws \in BOOLEAN, Observers(timeIsUp, throws)
  PROVE  StreamInv'
<1> DEFINE bars == Append(pendingBars, bar)
<1>0. /\ phase = "strategy" /\ phase' = (IF throws THEN "failed" ELSE "collector")
      /\ processedBars' = processedBars + 1 /\ bar = processedBars + 1
      /\ UNCHANGED <<nextCandidate, shadows, bar, work, pending, position, trade, nextTrade,
                     recorded, closed>>
  BY DEF Observers, BatchBar, auditVars, StreamInv, BarsOK
<1>1. RunTypes' /\ BarsOK'
  BY <1>0 DEF StreamInv, RunTypes, BarsOK
<1>2. bars \in Seq(Nat) /\ pendingBars \in Seq(Nat) /\ bar \in Nat /\ processedBars \in Nat
  BY AppendProperties DEF StreamInv, DataTypes, RunTypes
<1>3. Over("bars") \o bars = [i \in 1 .. processedBars' |-> i]
  <2>1. Over("bars") \o pendingBars = [i \in 1 .. processedBars |-> i]
    BY <1>0 DEF StreamInv, StreamIsComplete
  <2>2. Over("bars") \in Seq(Nat)
    BY SentIsList DEF StreamInv, DataTypes
  <2>3. Over("bars") \o bars = Append(Over("bars") \o pendingBars, bar)
    BY <1>2, <2>2, ConcatAppend
  <2> QED  BY <1>0, <1>2, <2>1, <2>3, CountUp
<1>4. CASE ShouldFlush(bars, timeIsUp)
  <2>1. Emit(bars, FALSE, throws)
    BY <1>4 DEF Observers, BatchBar
  <2> HIDE DEF bars
  <2>2. /\ SentTypes'
        /\ ~throws =>
             /\ Over("bars")' \o pendingBars' = Over("bars") \o bars
             /\ Over("trades")' \o pendingTrades' = Over("trades") \o pendingTrades
             /\ Over("candidates")' \o pendingCandidates' = Over("candidates") \o pendingCandidates
             /\ Over("outcomes")' \o pendingOutcomes' = Over("outcomes") \o pendingOutcomes
    BY <1>2, <2>1, EmitFacts DEF StreamInv, DataTypes
  <2>3. /\ pendingBars' = <<>> /\ pendingTrades' = <<>>
        /\ pendingCandidates' = <<>> /\ pendingOutcomes' = <<>>
    BY <2>1 DEF Emit, Drained
  <2>4. DataTypes'
    BY <1>0, <2>2, <2>3, EmptySeq DEF StreamInv, DataTypes
  <2>5. StreamIsComplete'
    BY <1>0, <1>3, <2>2 DEF StreamInv, StreamIsComplete
  <2> QED  BY <1>1, <2>4, <2>5 DEF StreamInv
<1>5. CASE ~ShouldFlush(bars, timeIsUp)
  <2>1. /\ pendingBars' = bars
        /\ UNCHANGED <<batches, pendingTrades, pendingCandidates, pendingOutcomes>>
    BY <1>5 DEF Observers, BatchBar, collectorVars
  <2> HIDE DEF bars
  <2>2. DataTypes'
    BY <1>0, <1>2, <2>1 DEF StreamInv, DataTypes, SentTypes, Sent, IsSequence
  <2>3. \A f : Over(f)' = Over(f)
    BY <2>1 DEF Over
  <2>4. StreamIsComplete'
    BY <1>0, <1>3, <2>1, <2>3 DEF StreamInv, StreamIsComplete
  <2> QED  BY <1>1, <2>2, <2>4 DEF StreamInv
<1> QED  BY <1>4, <1>5

LEMMA ObserversStopStream ==
  ASSUME StreamInv, NEW throws \in BOOLEAN, ObserversStop(throws)
  PROVE  StreamInv'
<1>1. /\ phase = "stopping" /\ phase' = (IF throws THEN "failed" ELSE "done")
      /\ Emit(pendingBars, TRUE, throws)
      /\ UNCHANGED <<bar, work, pending, position, trade, nextTrade, processedBars, recorded, closed>>
  BY DEF ObserversStop, FinalBatch, auditVars
<1>2. RunTypes' /\ BarsOK'
  BY <1>1 DEF StreamInv, RunTypes, BarsOK
<1>3. /\ SentTypes'
      /\ ~throws =>
           /\ Over("bars")' \o pendingBars' = Over("bars") \o pendingBars
           /\ Over("trades")' \o pendingTrades' = Over("trades") \o pendingTrades
           /\ Over("candidates")' \o pendingCandidates' = Over("candidates") \o pendingCandidates
           /\ Over("outcomes")' \o pendingOutcomes' = Over("outcomes") \o pendingOutcomes
  BY <1>1, EmitFacts DEF StreamInv, DataTypes
<1>4. /\ pendingBars' = <<>> /\ pendingTrades' = <<>>
      /\ pendingCandidates' = <<>> /\ pendingOutcomes' = <<>>
      /\ UNCHANGED <<nextCandidate, shadows>>
  BY <1>1 DEF Emit, Drained
<1>5. DataTypes'
  BY <1>1, <1>3, <1>4, EmptySeq DEF StreamInv, DataTypes
<1>6. StreamIsComplete'
  BY <1>1, <1>3, <1>4 DEF StreamInv, StreamIsComplete
<1> QED  BY <1>2, <1>5, <1>6 DEF StreamInv

\* What the collector adds at a bar and at the stop, as one list.
CensoredOf(cands) == [i \in DOMAIN cands |-> Outcome(cands[i], "kCensored", 0)]
CensoredShadows ==
  [i \in DOMAIN shadows |-> Outcome(shadows[i].cand, "kCensored", shadows[i].held)]

LEMMA CensoredFacts ==
  ASSUME trade \in Trades, shadows \in Seq(Shadows)
  PROVE  /\ CensoredOf(OpenCands) \in Seq(OutcomeRecords) /\ CensoredShadows \in Seq(OutcomeRecords)
         /\ Cands(CensoredOf(OpenCands)) = IF position = 0 THEN {} ELSE {trade.cand} \ {0}
         /\ Cands(CensoredShadows) = Cands(shadows)
         /\ Distinct(CensoredOf(OpenCands))
         /\ Distinct(shadows) => Distinct(CensoredShadows)
<1>1. /\ CensoredShadows \in Seq(OutcomeRecords) /\ Cands(CensoredShadows) = Cands(shadows)
      /\ Distinct(shadows) => Distinct(CensoredShadows)
  <2>1. /\ Len(shadows) \in Nat /\ DOMAIN shadows = 1 .. Len(shadows)
        /\ \A i \in 1 .. Len(shadows) : shadows[i] \in Shadows
    BY LenProperties, ElementOfSeq
  <2>2. /\ DOMAIN CensoredShadows = DOMAIN shadows
        /\ \A i \in DOMAIN shadows : CensoredShadows[i] \in OutcomeRecords
                                     /\ CensoredShadows[i].cand = shadows[i].cand
    BY <2>1 DEF CensoredShadows, Outcome, Shadows, OutcomeRecords
  <2>3. CensoredShadows \in [1 .. Len(shadows) -> OutcomeRecords]
    BY <2>1, <2>2 DEF CensoredShadows
  <2>4. CensoredShadows \in Seq(OutcomeRecords)
    BY <2>1, <2>3
  <2> QED  BY <2>2, <2>4 DEF Cands, Distinct
<1>2. CASE position = 0 \/ trade.cand = 0
  <2>1. CensoredOf(OpenCands) = <<>>
    BY <1>2 DEF OpenCands, CensoredOf
  <2> QED  BY <1>1, <1>2, <2>1, NoCands, EmptySeq
<1>3. CASE ~(position = 0 \/ trade.cand = 0)
  <2> DEFINE e == Outcome(trade.cand, "kCensored", 0)
  <2>1. e \in OutcomeRecords /\ e.cand = trade.cand
    BY <1>3 DEF Trades, Outcome, OutcomeRecords
  <2>2. CensoredOf(OpenCands) = <<e>>
    BY <1>3 DEF OpenCands, CensoredOf
  <2> HIDE DEF e
  <2>3. <<e>> \in Seq(OutcomeRecords) /\ Cands(<<e>>) = {e.cand} /\ Distinct(<<e>>)
    BY <2>1 DEF Cands, Distinct
  <2> QED  BY <1>1, <1>3, <2>1, <2>2, <2>3
<1> QED  BY <1>2, <1>3

\* The outcomes of a bar of the collector, and those of its stop.
LEMMA CollectorAdds ==
  ASSUME trade \in Trades, shadows \in Seq(Shadows), pendingOutcomes \in Seq(OutcomeRecords)
  PROVE  /\ CollectorBar =>
              /\ Closed(Aged) \in Seq(OutcomeRecords)
              /\ pendingOutcomes' = pendingOutcomes \o Closed(Aged)
              /\ NewOutcomes = Closed(Aged)
              /\ shadows' = (IF Enabled THEN StillOpen(Aged) ELSE shadows)
              /\ shadows' \in Seq(Shadows)
         /\ CollectorStop /\ Enabled =>
              LET new == CensoredOf(OpenCands) \o CensoredShadows
              IN  /\ new \in Seq(OutcomeRecords)
                  /\ pendingOutcomes' = pendingOutcomes \o new
                  /\ NewOutcomes = new /\ shadows' = <<>>
         /\ CollectorStop /\ ~Enabled =>
              pendingOutcomes' = pendingOutcomes /\ NewOutcomes = <<>> /\ shadows' = shadows
<1>1. ASSUME CollectorBar
      PROVE  /\ Closed(Aged) \in Seq(OutcomeRecords)
             /\ pendingOutcomes' = pendingOutcomes \o Closed(Aged)
             /\ NewOutcomes = Closed(Aged)
             /\ shadows' = (IF Enabled THEN StillOpen(Aged) ELSE shadows)
             /\ shadows' \in Seq(Shadows)
  <2>1. Closed(Aged) \in Seq(OutcomeRecords) /\ StillOpen(Aged) \in Seq(Shadows)
    BY AgedFacts, DividedAll DEF Divided
  <2>2. /\ pendingOutcomes' = pendingOutcomes \o Closed(Aged)
        /\ shadows' = IF Enabled THEN StillOpen(Aged) ELSE shadows
    BY <1>1 DEF CollectorBar, TickShadows
  <2> QED  BY <2>1, <2>2, NewPart DEF NewOutcomes
<1>2. ASSUME CollectorStop, Enabled
      PROVE  LET new == CensoredOf(OpenCands) \o CensoredShadows
             IN  /\ new \in Seq(OutcomeRecords)
                 /\ pendingOutcomes' = pendingOutcomes \o new
                 /\ NewOutcomes = new /\ shadows' = <<>>
  <2>1. CensoredOf(OpenCands) \in Seq(OutcomeRecords) /\ CensoredShadows \in Seq(OutcomeRecords)
    BY CensoredFacts
  <2>2. /\ pendingOutcomes' = pendingOutcomes \o CensoredOf(OpenCands) \o CensoredShadows
        /\ shadows' = <<>>
    BY <1>2 DEF CollectorStop, Censor, CensoredOf, CensoredShadows
  <2>3. CensoredOf(OpenCands) \o CensoredShadows \in Seq(OutcomeRecords)
    BY <2>1, ConcatProperties
  <2>4. pendingOutcomes' = pendingOutcomes \o (CensoredOf(OpenCands) \o CensoredShadows)
    BY <2>1, <2>2, ConcatAssociative
  <2> QED  BY <2>2, <2>3, <2>4, NewPart DEF NewOutcomes
<1>3. ASSUME CollectorStop, ~Enabled
      PROVE  pendingOutcomes' = pendingOutcomes /\ NewOutcomes = <<>> /\ shadows' = shadows
  <2>1. pendingOutcomes' = pendingOutcomes /\ shadows' = shadows
    BY <1>3 DEF CollectorStop, collectorVars
  <2>2. pendingOutcomes \o <<>> = pendingOutcomes /\ <<>> \in Seq(OutcomeRecords)
    BY ConcatEmptySeq, EmptySeq
  <2>3. SubSeq(pendingOutcomes \o <<>>, Len(pendingOutcomes) + 1, Len(pendingOutcomes \o <<>>)) = <<>>
    BY <2>2, NewPart
  <2> QED  BY <2>1, <2>2, <2>3 DEF NewOutcomes
<1> QED  BY <1>1, <1>2, <1>3

LEMMA CollectorStream ==
  ASSUME StreamInv, CollectorBar \/ CollectorStop
  PROVE  StreamInv'
<1>1. /\ phase # "failed" /\ phase' # "failed" /\ recorded' = recorded \o NewOutcomes
      /\ (phase' \in {"orders", "strategy"} <=> phase \in {"orders", "strategy"})
      /\ UNCHANGED <<nextCandidate, pendingCandidates, bar, work, pending, position, trade,
                     nextTrade, batches, pendingBars, pendingTrades, processedBars, closed>>
  BY DEF CollectorBar, CollectorStop, TickShadows, Censor, collectorVars, batcherVars
<1>2. /\ trade \in Trades /\ shadows \in Seq(Shadows) /\ pendingOutcomes \in Seq(OutcomeRecords)
      /\ recorded \in Seq(OutcomeRecords)
  BY DEF StreamInv, RunTypes, DataTypes
<1>3. PICK new \in Seq(OutcomeRecords) :
        pendingOutcomes' = pendingOutcomes \o new /\ recorded' = recorded \o new
  <2>1. CASE CollectorBar
    BY <1>1, <1>2, <2>1, CollectorAdds
  <2>2. CASE CollectorStop /\ Enabled
    BY <1>1, <1>2, <2>2, CollectorAdds
  <2>3. CASE CollectorStop /\ ~Enabled
    <3>1. pendingOutcomes' = pendingOutcomes /\ NewOutcomes = <<>>
      BY <1>2, <2>3, CollectorAdds
    <3>2. pendingOutcomes \o <<>> = pendingOutcomes /\ <<>> \in Seq(OutcomeRecords)
      BY <1>2, ConcatEmptySeq, EmptySeq
    <3> QED  BY <1>1, <3>1, <3>2
  <2> QED  BY <2>1, <2>2, <2>3
<1>4. shadows' \in Seq(Shadows)
  BY <1>2, CollectorAdds, EmptySeq
<1>5. /\ pendingOutcomes' \in Seq(OutcomeRecords) /\ recorded' \in Seq(OutcomeRecords)
      /\ Over("outcomes")' \o pendingOutcomes' = recorded'
  BY <1>1, <1>3, OutcomesAdded
<1>6. RunTypes' /\ BarsOK'
  BY <1>1 DEF StreamInv, RunTypes, BarsOK
<1>7. DataTypes'
  BY <1>1, <1>4, <1>5 DEF StreamInv, DataTypes, SentTypes, Sent, IsSequence
<1>8. \A f : Over(f)' = Over(f)
  BY <1>1 DEF Over
<1>9. StreamIsComplete'
  BY <1>1, <1>5, <1>8 DEF StreamInv, StreamIsComplete
<1> QED  BY <1>6, <1>7, <1>9 DEF StreamInv

LEMMA StreamStep == StreamInv /\ [Next]_vars => StreamInv'
<1> SUFFICES ASSUME StreamInv, [Next]_vars PROVE StreamInv'
  OBVIOUS
<1> USE DEF DataStays, collectorVars, batcherVars, auditVars
<1>1. CASE BeginBar
  <2>1. DataStays /\ phase = "loop" /\ phase' = "orders" /\ bar' = bar + 1
        /\ work' = pending /\ pending' = <<>> /\ UNCHANGED <<position, trade, nextTrade>>
    BY <1>1 DEF BeginBar
  <2>2. RunTypes' /\ BarsOK'
    BY <2>1, EmptySeq DEF StreamInv, RunTypes, BarsOK
  <2> QED  BY <2>1, <2>2, StayingData DEF StreamInv
<1>2. CASE KeepOrder \/ DropOrder
  <2>1. /\ DataStays /\ phase = "orders" /\ work # <<>> /\ work' = Tail(work)
        /\ pending' = pending \/ pending' = Append(pending, Head(work))
        /\ UNCHANGED <<phase, bar, position, trade, nextTrade>>
    BY <1>2 DEF KeepOrder, DropOrder, AtOrder
  <2>2. RunTypes' /\ BarsOK'
    BY <2>1, QueueFacts DEF StreamInv, RunTypes, BarsOK
  <2> QED  BY <2>1, <2>2, StayingData DEF StreamInv
<1>3. CASE OrdersDone
  <2>1. /\ DataStays /\ phase = "orders" /\ phase' = "strategy"
        /\ UNCHANGED <<bar, work, pending, position, trade, nextTrade>>
    BY <1>3 DEF OrdersDone
  <2>2. RunTypes' /\ BarsOK'
    BY <2>1 DEF StreamInv, RunTypes, BarsOK
  <2> QED  BY <2>1, <2>2, StayingData DEF StreamInv
<1>4. CASE UNCHANGED vars
  BY <1>4 DEF vars, runVars, StreamInv, RunTypes, DataTypes, SentTypes, Sent, IsSequence, BarsOK,
              StreamIsComplete, Over
<1> QED
  BY <1>1, <1>2, <1>3, <1>4, FillStream, ProposeStream, ObserversStream, ObserversStopStream,
     CollectorStream DEF Next, ProcessOrders

LEMMA StreamInit == Init => StreamInv
<1> SUFFICES ASSUME Init PROVE StreamInv
  OBVIOUS
<1>1. /\ batches = <<>> /\ pendingBars = <<>> /\ pendingTrades = <<>> /\ pendingCandidates = <<>>
      /\ pendingOutcomes = <<>> /\ recorded = <<>> /\ closed = <<>> /\ shadows = <<>>
      /\ work = <<>> /\ pending = <<>> /\ nextCandidate = 1 /\ processedBars = 0 /\ bar = 0
      /\ position = 0 /\ trade = NoTrade /\ nextTrade = 1 /\ phase = "loop"
  BY DEF Init, CollectorInit, BatcherInit
<1>2. RunTypes /\ BarsOK
  BY <1>1, EmptySeq DEF RunTypes, BarsOK, NoTrade, Trades
<1>3. \A f : Sent(f) = <<>> /\ Over(f) = <<>>
  BY <1>1, FlattenEmpty DEF Sent, Over
<1>4. DataTypes
  <2>1. \A S : <<>> \in Seq(S)
    BY EmptySeq
  <2>2. IsSequence(<<>>)
    BY <2>1 DEF IsSequence
  <2>3. SentTypes
    BY <1>1, <1>3, <2>1, <2>2 DEF SentTypes
  <2> QED  BY <1>1, <2>1, <2>3 DEF DataTypes
<1>5. <<>> \o <<>> = <<>> /\ [i \in 1 .. 0 |-> i] = <<>>
  OBVIOUS
<1>6. StreamIsComplete
  BY <1>1, <1>3, <1>5 DEF StreamIsComplete
<1> QED  BY <1>2, <1>4, <1>6 DEF StreamInv

\* Every bar, closed trade, candidate and outcome is in exactly one batch or
\* still pending, in the order they came about (emit_, drain_pending_*).
THEOREM NothingIsLost == Spec => []StreamIsComplete
<1>1. StreamInv => StreamIsComplete
  BY DEF StreamInv
<1> QED  BY <1>1, StreamInit, StreamStep, PTL DEF Spec
-----------------------------------------------------------------------------
(* Candidates before their outcomes *)

\* The ids the hook has given, and who may carry one.
Given == 1 .. nextCandidate - 1

GivenOK ==
  /\ Cands(pending) \subseteq Given \union {0} /\ Cands(work) \subseteq Given \union {0}
  /\ trade.cand \in Given \union {0}
  /\ Cands(shadows) \subseteq Given /\ Cands(pendingOutcomes) \subseteq Given
  /\ openers \subseteq Given \union {0} /\ rejects \subseteq Given
  /\ ~Enabled => nextCandidate = 1

\* The reader has been given a candidate, or will be with the next batch.
Told(c) ==
  \/ c \in Range(pendingCandidates)
  \/ \E j \in DOMAIN batches : c \in Range(batches[j].candidates)

ToldOK == phase # "failed" => \A c \in Given : Told(c)

KnownInv == GivenOK /\ ToldOK /\ CandidateBeforeOutcome

\* Steps that send nothing and give no candidate.
LEMMA NothingSent ==
  ASSUME KnownInv, UNCHANGED <<batches, pendingCandidates, nextCandidate>>,
         phase' # "failed" => phase # "failed"
  PROVE  ToldOK' /\ CandidateBeforeOutcome'
BY DEF KnownInv, ToldOK, Told, Given, CandidateBeforeOutcome

LEMMA EmitTells ==
  ASSUME KnownInv, IsSequence(batches), pendingOutcomes \in Seq(OutcomeRecords),
         NEW bars, NEW final, NEW throws \in BOOLEAN, Emit(bars, final, throws),
         phase # "failed", phase' # "failed" => ~throws
  PROVE  ToldOK' /\ CandidateBeforeOutcome'
<1> DEFINE b == Batch(bars, final)
           n == Len(batches)
<1>1. nextCandidate' = nextCandidate /\ pendingCandidates' = <<>>
  BY DEF Emit, Drained
<1>2. CASE throws
  <2>1. batches' = batches /\ phase' = "failed"
    BY <1>2 DEF Emit
  <2> QED  BY <2>1 DEF ToldOK, CandidateBeforeOutcome, KnownInv
<1>3. CASE ~throws
  <2>1. batches' = Append(batches, b)
    BY <1>3 DEF Emit
  <2>2. b.candidates = pendingCandidates /\ b.outcomes = pendingOutcomes
    BY DEF Batch
  <2> HIDE DEF b
  <2>3. /\ n \in Nat /\ DOMAIN batches = 1 .. n /\ DOMAIN batches' = 1 .. n + 1
        /\ batches'[n + 1] = b /\ \A i \in 1 .. n : batches'[i] = batches[i]
    BY <2>1, Appended
  <2> HIDE DEF n
  <2>4. /\ n + 1 \in 1 .. n + 1
        /\ \A i \in 1 .. n + 1 : i = n + 1 \/ i \in 1 .. n
        /\ \A i \in 1 .. n : i \in 1 .. n + 1
    BY <2>3
  <2>5. ASSUME NEW c \in Given PROVE \E j \in 1 .. n + 1 : c \in Range(batches'[j].candidates)
    <3>1. Told(c)
      BY DEF KnownInv, ToldOK
    <3> QED  BY <2>2, <2>3, <2>4, <3>1 DEF Told
  <2>6. ToldOK'
    BY <1>1, <2>3, <2>5 DEF ToldOK, Told, Given
  <2>7. ASSUME NEW i \in 1 .. n + 1, NEW o \in Range(batches'[i].outcomes)
        PROVE  \E j \in 1 .. i : o.cand \in Range(batches'[j].candidates)
    <3>1. CASE i \in 1 .. n
      <4>1. PICK j \in 1 .. i : o.cand \in Range(batches[j].candidates)
        BY <2>3, <3>1 DEF KnownInv, CandidateBeforeOutcome
      <4>2. j \in 1 .. n
        BY <2>3, <3>1
      <4> QED  BY <2>3, <4>1, <4>2
    <3>2. CASE i = n + 1
      <4>1. o \in Range(pendingOutcomes)
        BY <2>2, <2>3, <3>2
      <4>2. o.cand \in Given
        BY <4>1 DEF Range, Cands, KnownInv, GivenOK
      <4> QED  BY <2>5, <3>2, <4>2
    <3> QED  BY <2>4, <3>1, <3>2
  <2>8. CandidateBeforeOutcome'
    BY <2>3, <2>7 DEF CandidateBeforeOutcome
  <2> QED  BY <2>6, <2>8
<1> QED  BY <1>2, <1>3

\* The outcome of a closed trade is of its candidate, if it has one.
LEMMA TradeOutcome ==
  ASSUME GivenOK, trade \in Trades
  PROVE  /\ OutcomesOfTrade(trade.cand) \in Seq(OutcomeRecords)
         /\ Cands(OutcomesOfTrade(trade.cand)) = {trade.cand} \ {0}
         /\ Distinct(OutcomesOfTrade(trade.cand))
<1>1. trade.cand \in Nat
  BY DEF Trades
<1>2. OutcomesOfTrade(trade.cand) \in Seq(OutcomeRecords)
  BY <1>1, OutcomesOfTradeType
<1>3. CASE Enabled /\ trade.cand # 0
  <2> DEFINE e == Outcome(trade.cand, "kActual", 0)
  <2>1. OutcomesOfTrade(trade.cand) = <<e>> /\ e.cand = trade.cand
    BY <1>3 DEF OutcomesOfTrade, Outcome
  <2> HIDE DEF e
  <2>2. Cands(<<e>>) = {e.cand} /\ Distinct(<<e>>)
    BY DEF Cands, Distinct
  <2> QED  BY <1>2, <1>3, <2>1, <2>2
<1>4. CASE ~(Enabled /\ trade.cand # 0)
  <2>1. OutcomesOfTrade(trade.cand) = <<>>
    BY <1>4 DEF OutcomesOfTrade
  <2>2. trade.cand = 0
    BY <1>4 DEF GivenOK, Given
  <2> QED  BY <1>2, <2>1, <2>2, NoCands
<1> QED  BY <1>3, <1>4

\* What a fill does to the trade and its candidate.
Opens(o) == trade' = [id |-> nextTrade, cand |-> o.cand] /\ openers' = openers \union {o.cand}

LEMMA FillKinds ==
  ASSUME RunTypes, NEW pnl \in Results, FillOrder(pnl)
  PROVE  LET o == Head(work)
             new == OutcomesOfTrade(trade.cand)
         IN  /\ phase = "orders" /\ work # <<>> /\ work' = Tail(work)
             /\ UNCHANGED <<phase, pending, rejects, nextCandidate, pendingCandidates, shadows,
                            batches>>
             /\ \/ /\ position = 0 /\ position' # 0 /\ Opens(o)
                   /\ UNCHANGED <<recorded, pendingOutcomes>>
                \/ /\ position # 0 /\ position' # 0
                   /\ UNCHANGED <<trade, openers, recorded, pendingOutcomes>>
                \/ /\ position # 0 /\ position' = 0 /\ trade' = NoTrade
                   /\ recorded' = recorded \o new /\ pendingOutcomes' = pendingOutcomes \o new
                   /\ openers' = openers
                \/ /\ position # 0 /\ position' # 0 /\ Opens(o)
                   /\ recorded' = recorded \o new /\ pendingOutcomes' = pendingOutcomes \o new
<1> DEFINE o == Head(work)
           after == position + o.lots
           new == OutcomesOfTrade(trade.cand)
<1>1. /\ phase = "orders" /\ work # <<>> /\ work' = Tail(work) /\ position' = after
      /\ UNCHANGED <<phase, pending, rejects>>
  BY DEF FillOrder, AtOrder
<1>2. o.lots \in Int \ {0} /\ position \in Int
  BY <1>1, QueueFacts DEF Orders, RunTypes
<1>3. CloseTrade(pnl) =>
        /\ recorded' = recorded \o new /\ pendingOutcomes' = pendingOutcomes \o new
        /\ UNCHANGED <<nextCandidate, pendingCandidates, shadows, batches>>
  BY DEF CloseTrade, NotifyTrade
<1>4. \/ position = 0 /\ Opens(o)
         /\ UNCHANGED <<recorded, collectorVars, batcherVars>>
      \/ position # 0 /\ ~Reduces(position, o.lots)
         /\ UNCHANGED <<trade, openers, recorded, collectorVars, batcherVars>>
      \/ Reduces(position, o.lots) /\ after * position > 0
         /\ UNCHANGED <<trade, openers, recorded, collectorVars, batcherVars>>
      \/ Reduces(position, o.lots) /\ after = 0 /\ CloseTrade(pnl)
         /\ trade' = NoTrade /\ UNCHANGED openers
      \/ after * position < 0 /\ CloseTrade(pnl) /\ Opens(o)
  BY DEF FillOrder, OpenTrade, ReverseCand, Opens
<1>5. UNCHANGED <<nextCandidate, pendingCandidates, shadows, batches>>
  BY <1>3, <1>4 DEF collectorVars, batcherVars
<1>6. /\ Reduces(position, o.lots) => position # 0
      /\ position # 0 /\ ~Reduces(position, o.lots) => after # 0
      /\ position = 0 => after # 0
  BY <1>2 DEF Reduces
<1>7. after * position # 0 => position # 0 /\ after # 0
  <2>1. after \in Int
    BY <1>2
  <2> HIDE DEF after
  <2> QED  BY <1>2, <2>1
<1>8. (after * position > 0 \/ after * position < 0) => after * position # 0
  <2>1. after \in Int
    BY <1>2
  <2> HIDE DEF after
  <2>2. after * position \in Int
    BY <1>2, <2>1
  <2> QED  BY <2>2
<1>9. /\ UNCHANGED collectorVars => UNCHANGED pendingOutcomes
  BY DEF collectorVars
<1> HIDE DEF o, after, new
<1>10. \/ /\ position = 0 /\ position' # 0 /\ Opens(o)
          /\ UNCHANGED <<recorded, pendingOutcomes>>
       \/ /\ position # 0 /\ position' # 0
          /\ UNCHANGED <<trade, openers, recorded, pendingOutcomes>>
       \/ /\ position # 0 /\ position' = 0 /\ trade' = NoTrade
          /\ recorded' = recorded \o new /\ pendingOutcomes' = pendingOutcomes \o new
          /\ openers' = openers
       \/ /\ position # 0 /\ position' # 0 /\ Opens(o)
          /\ recorded' = recorded \o new /\ pendingOutcomes' = pendingOutcomes \o new
  BY <1>1, <1>3, <1>4, <1>6, <1>7, <1>8, <1>9
<1> QED  BY <1>1, <1>5, <1>10 DEF o, new

LEMMA FillKnown ==
  ASSUME StreamInv, KnownInv, NEW pnl \in Results, FillOrder(pnl)
  PROVE  KnownInv'
<1> DEFINE o == Head(work)
           new == OutcomesOfTrade(trade.cand)
<1>1. /\ phase = "orders" /\ work # <<>> /\ work' = Tail(work)
      /\ UNCHANGED <<phase, pending, rejects, nextCandidate, pendingCandidates, shadows, batches>>
      /\ trade' = NoTrade \/ trade' = trade \/ Opens(o)
      /\ openers' = openers \/ Opens(o)
      /\ pendingOutcomes' = pendingOutcomes \/ pendingOutcomes' = pendingOutcomes \o new
  BY FillKinds DEF StreamInv
<1>2. Cands(work) = {o.cand} \union Cands(work')
  BY <1>1, CandsTail DEF StreamInv, RunTypes
<1>3. /\ new \in Seq(OutcomeRecords) /\ Cands(new) \subseteq Given
      /\ pendingOutcomes \in Seq(OutcomeRecords)
  BY TradeOutcome DEF StreamInv, RunTypes, DataTypes, KnownInv, GivenOK
<1> HIDE DEF o, new
<1>4. Cands(pendingOutcomes') \subseteq Given
  <2> DEFINE p == pendingOutcomes
             q == p \o new
  <2>1. p \in Seq(OutcomeRecords) /\ Cands(p) \subseteq Given
    BY <1>3 DEF KnownInv, GivenOK
  <2>2. pendingOutcomes' = p \/ pendingOutcomes' = q
    BY <1>1
  <2> HIDE DEF p
  <2>3. Cands(q) = Cands(p) \union Cands(new)
    BY <1>3, <2>1, CandsConcat
  <2> HIDE DEF q
  <2> QED  BY <1>3, <2>1, <2>2, <2>3
<1>5. Given' = Given
  BY <1>1 DEF Given
<1>6. trade'.cand \in Given \union {0} /\ openers' \subseteq Given \union {0}
  BY <1>1, <1>2 DEF KnownInv, GivenOK, Opens, NoTrade
<1>7. GivenOK'
  BY <1>1, <1>2, <1>4, <1>5, <1>6 DEF KnownInv, GivenOK
<1> QED  BY <1>1, <1>7, NothingSent DEF KnownInv

LEMMA ProposeKnown ==
  ASSUME StreamInv, KnownInv, NEW lots \in Sizes, NEW rejected \in BOOLEAN, Propose(lots, rejected)
  PROVE  KnownInv'
<1> DEFINE n == nextCandidate
<1>1. /\ phase # "failed" /\ lots \in Int \ {0} /\ n \in Nat \ {0}
      /\ UNCHANGED <<phase, work, trade, batches, openers, pendingOutcomes>>
      /\ pending \in Seq(Orders) /\ shadows \in Seq(Shadows) /\ pendingCandidates \in Seq(Nat)
  BY SessionAssumption DEF Propose, batcherVars, PassOrder, Capture, collectorVars, StreamInv,
                           RunTypes, DataTypes
<1>2. ASSUME NEW cand \in Nat, Queue(cand, lots) PROVE Cands(pending') = Cands(pending) \union {cand}
  <2>1. [cand |-> cand, lots |-> lots] \in Orders
    BY <1>1 DEF Orders
  <2> QED  BY <1>1, <1>2, <2>1, CandsAppend DEF Queue
<1>3. CASE PassOrder(position, lots) /\ Queue(0, lots) /\ UNCHANGED rejects
  <2>1. UNCHANGED <<nextCandidate, pendingCandidates, shadows>>
    BY <1>3 DEF PassOrder, collectorVars
  <2>2. Cands(pending') = Cands(pending) \union {0}
    BY <1>2, <1>3
  <2>3. GivenOK'
    BY <1>1, <1>3, <2>1, <2>2 DEF KnownInv, GivenOK, Given
  <2> QED  BY <1>1, <2>1, <2>3, NothingSent DEF KnownInv
<1>4. CASE /\ Capture(position, lots, rejected)
           /\ IF rejected THEN UNCHANGED pending ELSE Queue(n, lots)
           /\ rejects' \subseteq rejects \union {n}
  <2>1. /\ n' = n + 1 /\ Enabled
        /\ pendingCandidates' = Append(pendingCandidates, n)
        /\ shadows' = IF rejected THEN Append(shadows, [cand |-> n, held |-> 0]) ELSE shadows
    BY <1>4 DEF Capture
  <2>2. Given \subseteq Given' /\ n \in Given' /\ (\A c \in Given' : c = n \/ c \in Given)
    BY <1>1, <2>1 DEF Given
  <2>3. Cands(shadows') \subseteq Cands(shadows) \union {n}
    <3>1. [cand |-> n, held |-> 0] \in Shadows
      BY <1>1 DEF Shadows
    <3> QED  BY <1>1, <2>1, <3>1, CandsAppend
  <2>4. Cands(pending') \subseteq Cands(pending) \union {n}
    BY <1>1, <1>2, <1>4
  <2>5. GivenOK'
    BY <1>1, <1>4, <2>1, <2>2, <2>3, <2>4 DEF KnownInv, GivenOK
  <2>6. Range(pendingCandidates') = Range(pendingCandidates) \union {n}
    <3> DEFINE m == Len(pendingCandidates)
               q == Append(pendingCandidates, n)
    <3>1. /\ m \in Nat /\ DOMAIN pendingCandidates = 1 .. m /\ DOMAIN q = 1 .. m + 1
          /\ q[m + 1] = n /\ \A i \in 1 .. m : q[i] = pendingCandidates[i]
      BY <1>1, AppendProperties, LenProperties
    <3> HIDE DEF m, q
    <3>2. \A i \in 1 .. m + 1 : i = m + 1 \/ i \in 1 .. m
      BY <3>1
    <3>3. (\A i \in 1 .. m : i \in 1 .. m + 1) /\ m + 1 \in 1 .. m + 1
      BY <3>1
    <3>4. Range(q) = Range(pendingCandidates) \union {n}
      BY <3>1, <3>2, <3>3 DEF Range
    <3> QED  BY <2>1, <3>4 DEF q
  <2>7. ToldOK'
    BY <1>1, <2>2, <2>6 DEF KnownInv, ToldOK, Told
  <2>8. CandidateBeforeOutcome'
    BY <1>1 DEF KnownInv, CandidateBeforeOutcome
  <2> QED  BY <2>5, <2>7, <2>8 DEF KnownInv
<1> QED  BY <1>3, <1>4 DEF Propose

LEMMA ObserversKnown ==
  ASSUME StreamInv, KnownInv,
         \/ \E timeIsUp, throws \in BOOLEAN : Observers(timeIsUp, throws)
         \/ \E throws \in BOOLEAN : ObserversStop(throws)
  PROVE  KnownInv'
<1>1. /\ phase # "failed"
      /\ UNCHANGED <<nextCandidate, shadows, work, pending, trade, openers, rejects>>
      /\ pendingOutcomes' = <<>> \/ pendingOutcomes' = pendingOutcomes
      /\ \/ \E bars, final, throws : /\ throws \in BOOLEAN /\ Emit(bars, final, throws)
                                     /\ phase' # "failed" => ~throws
         \/ UNCHANGED <<batches, pendingCandidates>>
  BY DEF Observers, ObserversStop, BatchBar, FinalBatch, Emit, Drained, auditVars, collectorVars
<1>2. GivenOK'
  BY <1>1, NoCands DEF KnownInv, GivenOK, Given
<1>3. IsSequence(batches) /\ pendingOutcomes \in Seq(OutcomeRecords)
  BY DEF StreamInv, DataTypes, SentTypes
<1>4. ToldOK' /\ CandidateBeforeOutcome'
  BY <1>1, <1>3, EmitTells, NothingSent
<1> QED  BY <1>2, <1>4 DEF KnownInv

LEMMA CollectorKnown ==
  ASSUME StreamInv, KnownInv, CollectorBar \/ CollectorStop
  PROVE  KnownInv'
<1>1. /\ phase # "failed"
      /\ UNCHANGED <<batches, pendingCandidates, nextCandidate, work, pending, trade, openers,
                     rejects>>
  BY DEF CollectorBar, CollectorStop, TickShadows, Censor, collectorVars, batcherVars
<1>2. /\ trade \in Trades /\ shadows \in Seq(Shadows) /\ pendingOutcomes \in Seq(OutcomeRecords)
  BY DEF StreamInv, RunTypes, DataTypes
<1>3. Cands(shadows') \subseteq Given /\ Cands(pendingOutcomes') \subseteq Given
  <2>0. Cands(shadows) \subseteq Given /\ Cands(pendingOutcomes) \subseteq Given
    BY DEF KnownInv, GivenOK
  <2>1. CASE CollectorBar
    <3>1. /\ Closed(Aged) \in Seq(OutcomeRecords)
          /\ pendingOutcomes' = pendingOutcomes \o Closed(Aged)
          /\ shadows' = IF Enabled THEN StillOpen(Aged) ELSE shadows
      BY <1>2, <2>1, CollectorAdds
    <3>2. Cands(StillOpen(Aged)) \subseteq Given /\ Cands(Closed(Aged)) \subseteq Given
      BY <1>2, <2>0, AgedFacts, DividedAll DEF Divided
    <3> QED  BY <1>2, <2>0, <3>1, <3>2, CandsConcat
  <2>2. CASE CollectorStop /\ Enabled
    <3> DEFINE a == CensoredOf(OpenCands)
               b == CensoredShadows
    <3>1. /\ pendingOutcomes' = pendingOutcomes \o (a \o b) /\ shadows' = <<>>
      BY <1>2, <2>2, CollectorAdds
    <3>2. /\ a \in Seq(OutcomeRecords) /\ b \in Seq(OutcomeRecords)
          /\ Cands(a) \subseteq {trade.cand} \ {0} /\ Cands(b) = Cands(shadows)
      BY <1>2, CensoredFacts
    <3>3. Cands(a) \subseteq Given
      BY <3>2 DEF KnownInv, GivenOK
    <3> HIDE DEF a, b
    <3> DEFINE c == a \o b
               p == pendingOutcomes
               q == p \o c
    <3>4. c \in Seq(OutcomeRecords) /\ Cands(c) = Cands(a) \union Cands(b)
      BY <3>2, CandsConcat
    <3>5. /\ p \in Seq(OutcomeRecords) /\ Cands(p) \subseteq Given
          /\ pendingOutcomes' = q /\ shadows' = <<>>
      BY <1>2, <2>0, <3>1
    <3> HIDE DEF c, p
    <3>6. Cands(q) = Cands(p) \union Cands(c)
      BY <3>4, <3>5, CandsConcat
    <3> HIDE DEF q
    <3>7. Cands(pendingOutcomes') \subseteq Given
      BY <2>0, <3>2, <3>3, <3>4, <3>5, <3>6
    <3>8. Cands(shadows') \subseteq Given
      BY <3>5, NoCands
    <3> QED  BY <3>7, <3>8
  <2>3. CASE CollectorStop /\ ~Enabled
    BY <1>2, <2>0, <2>3, CollectorAdds
  <2> QED  BY <2>1, <2>2, <2>3
<1>4. GivenOK'
  BY <1>1, <1>3 DEF KnownInv, GivenOK, Given
<1> QED  BY <1>1, <1>4, NothingSent DEF KnownInv

LEMMA KnownStep == StreamInv /\ KnownInv /\ [Next]_vars => KnownInv'
<1> SUFFICES ASSUME StreamInv, KnownInv, [Next]_vars PROVE KnownInv'
  OBVIOUS
<1> DEFINE Rest == UNCHANGED <<batches, pendingCandidates, nextCandidate, shadows, trade, openers,
                               rejects, pendingOutcomes>>
<1>1. ASSUME Rest, phase' # "failed" => phase # "failed",
             Cands(pending') \union Cands(work') \subseteq Cands(pending) \union Cands(work)
      PROVE  KnownInv'
  <2>1. GivenOK'
    BY <1>1 DEF KnownInv, GivenOK, Given
  <2> QED  BY <1>1, <2>1, NothingSent DEF KnownInv
<1> USE DEF collectorVars, batcherVars, auditVars
<1>2. CASE BeginBar
  <2>1. Rest /\ phase # "failed" /\ work' = pending /\ pending' = <<>>
    BY <1>2 DEF BeginBar
  <2> QED  BY <1>1, <2>1, NoCands
<1>3. CASE KeepOrder \/ DropOrder
  <2>1. /\ Rest /\ phase # "failed" /\ work # <<>> /\ work' = Tail(work)
        /\ pending' = pending \/ pending' = Append(pending, Head(work))
    BY <1>3 DEF KeepOrder, DropOrder, AtOrder
  <2>2. Cands(work) = {Head(work).cand} \union Cands(work')
    BY <2>1, CandsTail DEF StreamInv, RunTypes
  <2>3. Cands(pending') \subseteq Cands(pending) \union {Head(work).cand}
    <3>1. Head(work) \in Orders /\ pending \in Seq(Orders)
      BY <2>1, CandsTail DEF StreamInv, RunTypes
    <3> QED  BY <2>1, <3>1, CandsAppend
  <2> QED  BY <1>1, <2>1, <2>2, <2>3
<1>4. CASE OrdersDone
  BY <1>1, <1>4 DEF OrdersDone
<1>5. CASE UNCHANGED vars
  BY <1>1, <1>5 DEF vars, runVars
<1> QED
  BY <1>2, <1>3, <1>4, <1>5, FillKnown, ProposeKnown, ObserversKnown, CollectorKnown
  DEF Next, ProcessOrders

LEMMA KnownInit == Init => KnownInv
<1> SUFFICES ASSUME Init PROVE KnownInv
  OBVIOUS
<1>1. /\ batches = <<>> /\ pendingOutcomes = <<>> /\ shadows = <<>> /\ work = <<>>
      /\ pending = <<>> /\ nextCandidate = 1 /\ trade = NoTrade /\ openers = {} /\ rejects = {}
  BY DEF Init, CollectorInit, BatcherInit
<1>2. GivenOK
  BY <1>1, NoCands DEF GivenOK, NoTrade
<1>3. ToldOK /\ CandidateBeforeOutcome
  BY <1>1 DEF ToldOK, Given, CandidateBeforeOutcome
<1> QED  BY <1>2, <1>3 DEF KnownInv

\* No batch has an outcome whose candidate no batch up to it has (emit_ drains
\* candidates together with outcomes).
THEOREM OutcomesAreAnnounced == Spec => []CandidateBeforeOutcome
<1>1. StreamInv /\ KnownInv => CandidateBeforeOutcome
  BY DEF KnownInv
<1> QED  BY <1>1, StreamInit, StreamStep, KnownInit, KnownStep, PTL DEF Spec
-----------------------------------------------------------------------------
(* The fate of candidates *)

\* The candidate of the open trade, and those that have or will get an
\* outcome: their order opened a trade, or they were rejected before on_stop.
Running == IF position = 0 THEN {} ELSE {trade.cand} \ {0}
Fated   == (openers \ {0}) \union rejects

\* The fated ones have an outcome, are a shadow or are running, one of these.
Accounted ==
  /\ Cands(recorded) \union Cands(shadows) \union Running = Fated
  /\ Cands(recorded) \intersect Cands(shadows) = {}
  /\ Cands(recorded) \intersect Running = {}
  /\ Cands(shadows) \intersect Running = {}

\* No order that waits has a fated candidate, and no two have one together.
Waiting ==
  /\ Distinct(work) /\ Distinct(pending) /\ Cands(work) \intersect Cands(pending) \subseteq {0}
  /\ (Cands(work) \union Cands(pending)) \intersect Fated = {}

FatesOK ==
  /\ Distinct(recorded)
  /\ phase \in {"loop", "orders", "strategy", "collector"} =>
       Accounted /\ Waiting /\ Distinct(shadows)
  /\ phase \in {"stopping", "done"} => Cands(recorded) = Fated

\* The outcomes of candidates without one are no second ones.
LEMMA RecordedMore ==
  ASSUME NEW new \in Seq(OutcomeRecords), recorded \in Seq(OutcomeRecords),
         Distinct(recorded), Distinct(new), Cands(recorded) \intersect Cands(new) = {},
         recorded' = recorded \o new
  PROVE  Distinct(recorded') /\ Cands(recorded') = Cands(recorded) \union Cands(new)
<1> DEFINE r == recorded
           q == r \o new
<1>1. r \in Seq(OutcomeRecords) /\ Distinct(r) /\ Cands(r) \intersect Cands(new) \subseteq {0}
      /\ recorded' = q /\ Cands(r) = Cands(recorded)
  OBVIOUS
<1> HIDE DEF r
<1>2. Distinct(q) /\ Cands(q) = Cands(r) \union Cands(new)
  BY <1>1, CandsConcat
<1> QED  BY <1>1, <1>2

LEMMA FillFates ==
  ASSUME StreamInv, KnownInv, FatesOK, NEW pnl \in Results, FillOrder(pnl)
  PROVE  FatesOK'
<1> DEFINE o == Head(work)
           new == OutcomesOfTrade(trade.cand)
           first == {o.cand} \ {0}
<1>1. /\ phase = "orders" /\ phase' = "orders" /\ work # <<>> /\ work' = Tail(work)
      /\ UNCHANGED <<pending, rejects, shadows>>
      /\ \/ /\ position = 0 /\ position' # 0 /\ Opens(o)
            /\ UNCHANGED recorded
         \/ /\ position # 0 /\ position' # 0
            /\ UNCHANGED <<trade, openers, recorded>>
         \/ /\ position # 0 /\ position' = 0 /\ trade' = NoTrade
            /\ recorded' = recorded \o new
            /\ openers' = openers
         \/ /\ position # 0 /\ position' # 0 /\ Opens(o)
            /\ recorded' = recorded \o new
  BY FillKinds DEF StreamInv
<1>2. /\ Cands(work) = {o.cand} \union Cands(work')
      /\ Distinct(work') /\ o.cand \notin Cands(work') \ {0}
  BY <1>1, CandsTail DEF StreamInv, RunTypes, FatesOK, Waiting
<1>3. /\ new \in Seq(OutcomeRecords) /\ Cands(new) = {trade.cand} \ {0} /\ Distinct(new)
      /\ recorded \in Seq(OutcomeRecords)
  BY TradeOutcome DEF StreamInv, RunTypes, DataTypes, KnownInv
<1>4. /\ Accounted /\ Waiting /\ Distinct(shadows) /\ Distinct(recorded)
      /\ Distinct(shadows') /\ Cands(shadows') = Cands(shadows)
      /\ Distinct(pending') /\ Cands(pending') = Cands(pending)
  BY <1>1 DEF FatesOK, Waiting
<1>5. first \intersect Fated = {}
  BY <1>2, <1>4 DEF Waiting
<1> HIDE DEF o, new
<1>6. ASSUME Opens(o), position' # 0 PROVE Running' = first /\ Fated' = Fated \union first
  <2>1. trade'.cand = o.cand /\ openers' = openers \union {o.cand} /\ rejects' = rejects
    BY <1>1, <1>6 DEF Opens
  <2> QED  BY <1>6, <2>1 DEF Running, Fated
<1>7. openers' = openers => Fated' = Fated
  BY <1>1 DEF Fated
<1>8. /\ position = 0 => Running = {}
      /\ position' = 0 => Running' = {}
      /\ position # 0 => Running = {trade.cand} \ {0}
      /\ position # 0 /\ position' # 0 /\ trade' = trade => Running' = Running
  BY DEF Running
<1>9. Opens(o) /\ position' # 0 => Running' = first /\ Fated' = Fated \union first
  BY <1>6
<1> HIDE DEF first
<1>10. \/ /\ recorded' = recorded
          /\ \/ Running' = Running /\ Fated' = Fated
             \/ Running = {} /\ Running' = first /\ Fated' = Fated \union first
       \/ /\ recorded' = recorded \o new /\ Cands(new) = Running
          /\ \/ Running' = {} /\ Fated' = Fated
             \/ Running' = first /\ Fated' = Fated \union first
  <2>1. CASE position = 0 /\ position' # 0 /\ Opens(o) /\ recorded' = recorded
    BY <1>8, <1>9, <2>1
  <2>2. CASE /\ position # 0 /\ position' # 0
             /\ trade' = trade /\ openers' = openers /\ recorded' = recorded
    BY <1>7, <1>8, <2>2
  <2>3. CASE /\ position # 0 /\ position' = 0
             /\ recorded' = recorded \o new /\ openers' = openers
    BY <1>3, <1>7, <1>8, <2>3
  <2>4. CASE position # 0 /\ position' # 0 /\ Opens(o) /\ recorded' = recorded \o new
    BY <1>3, <1>8, <1>9, <2>4
  <2> QED  BY <1>1, <2>1, <2>2, <2>3, <2>4
<1>11. Waiting'
  BY <1>2, <1>4, <1>5, <1>10 DEF Waiting, first
<1>12. Accounted' /\ Distinct(recorded')
  <2>1. CASE recorded' = recorded /\ Running' = Running /\ Fated' = Fated
    BY <1>4, <2>1 DEF Accounted
  <2>2. CASE /\ recorded' = recorded /\ Running = {} /\ Running' = first
             /\ Fated' = Fated \union first
    BY <1>4, <1>5, <2>2 DEF Accounted
  <2>3. CASE /\ recorded' = recorded \o new /\ Cands(new) = Running
             /\ \/ Running' = {} /\ Fated' = Fated
                \/ Running' = first /\ Fated' = Fated \union first
    <3>1. Distinct(recorded') /\ Cands(recorded') = Cands(recorded) \union Running
      BY <1>3, <1>4, <2>3, RecordedMore DEF Accounted
    <3> QED  BY <1>4, <1>5, <2>3, <3>1 DEF Accounted
  <2> QED  BY <1>10, <2>1, <2>2, <2>3
<1> QED  BY <1>1, <1>4, <1>11, <1>12 DEF FatesOK

LEMMA ProposeFates ==
  ASSUME StreamInv, KnownInv, FatesOK, NEW lots \in Sizes, NEW rejected \in BOOLEAN,
         Propose(lots, rejected)
  PROVE  FatesOK'
<1> DEFINE n == nextCandidate
<1>1. /\ phase \in {"strategy", "stopping"} /\ lots \in Int \ {0} /\ n \in Nat \ {0}
      /\ UNCHANGED <<phase, work, position, trade, openers, recorded>>
      /\ pending \in Seq(Orders) /\ shadows \in Seq(Shadows)
  BY SessionAssumption DEF Propose, StreamInv, RunTypes, DataTypes
<1>2. n \notin Given \union {0}
  BY <1>1 DEF Given
<1>3. /\ n \notin Cands(pending) /\ n \notin Cands(work) /\ n \notin Cands(shadows)
      /\ n \notin Fated /\ n # trade.cand
  BY <1>2 DEF KnownInv, GivenOK, Fated
<1>4. ASSUME phase = "strategy" PROVE n \notin Cands(recorded)
  BY <1>3, <1>4 DEF FatesOK, Accounted
<1>5. ASSUME NEW cand \in Nat, Queue(cand, lots)
      PROVE  /\ Cands(pending') = Cands(pending) \union {cand}
             /\ Distinct(pending) /\ cand \notin Cands(pending) \ {0} => Distinct(pending')
  <2>1. [cand |-> cand, lots |-> lots] \in Orders
    BY <1>1 DEF Orders
  <2> QED  BY <1>1, <1>5, <2>1, CandsAppend DEF Queue
<1>6. /\ PassOrder(position, lots) => shadows' = shadows
      /\ Capture(position, lots, rejected) =>
           shadows' = IF rejected THEN Append(shadows, [cand |-> n, held |-> 0]) ELSE shadows
  BY DEF PassOrder, Capture, collectorVars
<1>7. ASSUME shadows' = Append(shadows, [cand |-> n, held |-> 0])
      PROVE  /\ Cands(shadows') = Cands(shadows) \union {n}
             /\ Distinct(shadows) => Distinct(shadows')
  <2>1. [cand |-> n, held |-> 0] \in Shadows
    BY <1>1 DEF Shadows
  <2> QED  BY <1>1, <1>3, <1>7, <2>1, CandsAppend
<1>8. n # 0
  BY <1>1
<1>9. \/ Queue(0, lots) /\ shadows' = shadows /\ rejects' = rejects
      \/ Queue(n, lots) /\ shadows' = shadows /\ rejects' = rejects
      \/ /\ pending' = pending /\ shadows' = Append(shadows, [cand |-> n, held |-> 0])
         /\ rejects' = IF phase = "strategy" THEN rejects \union {n} ELSE rejects
  BY <1>6 DEF Propose
<1>10. Running' = Running
  BY <1>1 DEF Running
<1> HIDE DEF n
<1>11. CASE phase = "stopping"
  <2>1. Fated' = Fated
    BY <1>1, <1>9, <1>11 DEF Fated
  <2> QED  BY <1>1, <1>11, <2>1 DEF FatesOK
<1>12. CASE phase = "strategy"
  <2>1. Accounted /\ Waiting /\ Distinct(shadows)
    BY <1>12 DEF FatesOK
  <2>2. \/ /\ Fated' = Fated /\ shadows' = shadows
           /\ Cands(pending') \subseteq Cands(pending) \union {0, n}
           /\ Distinct(pending')
        \/ /\ Fated' = Fated \union {n} /\ pending' = pending
           /\ Cands(shadows') = Cands(shadows) \union {n} /\ Distinct(shadows')
    <3>1. CASE Queue(0, lots) /\ shadows' = shadows /\ rejects' = rejects
      <4>1. Cands(pending') = Cands(pending) \union {0} /\ Distinct(pending')
        BY <1>5, <2>1, <3>1 DEF Waiting
      <4> QED  BY <1>1, <3>1, <4>1 DEF Fated
    <3>2. CASE Queue(n, lots) /\ shadows' = shadows /\ rejects' = rejects
      <4>1. Cands(pending') = Cands(pending) \union {n} /\ Distinct(pending')
        BY <1>1, <1>3, <1>5, <2>1, <3>2 DEF Waiting
      <4> QED  BY <1>1, <3>2, <4>1 DEF Fated
    <3>3. CASE /\ pending' = pending /\ shadows' = Append(shadows, [cand |-> n, held |-> 0])
               /\ rejects' = rejects \union {n}
      <4>1. Cands(shadows') = Cands(shadows) \union {n} /\ Distinct(shadows')
        BY <1>7, <2>1, <3>3
      <4> QED  BY <1>1, <3>3, <4>1 DEF Fated
    <3> QED  BY <1>9, <1>12, <3>1, <3>2, <3>3
  <2>3. Waiting'
    <3>1. Distinct(work') /\ Cands(work') = Cands(work) /\ Distinct(pending')
      BY <1>1, <2>1, <2>2 DEF Waiting
    <3>2. 0 \notin Fated
      BY DEF Fated, KnownInv, GivenOK, Given
    <3> QED  BY <1>3, <2>1, <2>2, <3>1, <3>2 DEF Waiting
  <2>4. Accounted' /\ Distinct(shadows')
    <3>1. n \notin Cands(recorded) /\ n \notin Running /\ Cands(recorded') = Cands(recorded)
      BY <1>1, <1>3, <1>4, <1>12 DEF Running
    <3> QED  BY <1>10, <2>1, <2>2, <3>1 DEF Accounted
  <2> QED  BY <1>1, <1>12, <2>3, <2>4 DEF FatesOK
<1> QED  BY <1>1, <1>11, <1>12

LEMMA CollectorBarFates ==
  ASSUME StreamInv, KnownInv, FatesOK, CollectorBar
  PROVE  FatesOK'
<1> DEFINE new == Closed(Aged)
           open == StillOpen(Aged)
<1>1. /\ phase = "collector" /\ phase' = "loop" /\ recorded' = recorded \o NewOutcomes
      /\ UNCHANGED <<work, pending, position, trade, openers, rejects>>
  BY DEF CollectorBar
<1>2. /\ trade \in Trades /\ shadows \in Seq(Shadows) /\ pendingOutcomes \in Seq(OutcomeRecords)
      /\ recorded \in Seq(OutcomeRecords)
  BY DEF StreamInv, RunTypes, DataTypes
<1>3. /\ new \in Seq(OutcomeRecords) /\ recorded' = recorded \o new
      /\ shadows' = IF Enabled THEN open ELSE shadows
  BY <1>1, <1>2, CollectorAdds
<1>4. Accounted /\ Waiting /\ Distinct(shadows) /\ Distinct(recorded)
  BY <1>1 DEF FatesOK
<1>5. /\ Cands(open) \union Cands(new) = Cands(shadows) /\ Cands(open) \intersect Cands(new) = {}
      /\ Distinct(open) /\ Distinct(new)
  BY <1>2, <1>4, AgedFacts, DividedAll DEF Divided
<1>6. ~Enabled => Cands(shadows) = {}
  BY DEF KnownInv, GivenOK, Given
<1>7. Running' = Running /\ Fated' = Fated /\ Waiting'
  BY <1>1, <1>4 DEF Running, Fated, Waiting
<1> HIDE DEF new, open
<1>8. Distinct(recorded') /\ Cands(recorded') = Cands(recorded) \union Cands(new)
  <2>1. Cands(recorded) \intersect Cands(new) = {}
    BY <1>4, <1>5 DEF Accounted
  <2> QED  BY <1>2, <1>3, <1>4, <1>5, <2>1, RecordedMore
<1>9. Distinct(shadows') /\ Cands(shadows') = Cands(shadows) \ Cands(new)
  <2>1. CASE Enabled
    BY <1>3, <1>5, <2>1
  <2>2. CASE ~Enabled
    BY <1>3, <1>4, <1>5, <1>6, <2>2
  <2> QED  BY <2>1, <2>2
<1>10. Accounted'
  BY <1>4, <1>5, <1>7, <1>8, <1>9 DEF Accounted
<1> QED  BY <1>1, <1>7, <1>8, <1>9, <1>10 DEF FatesOK

LEMMA CollectorStopFates ==
  ASSUME StreamInv, KnownInv, FatesOK, CollectorStop
  PROVE  FatesOK'
<1> DEFINE a == CensoredOf(OpenCands)
           b == CensoredShadows
           new == a \o b
<1>1. /\ phase = "loop" /\ phase' = "stopping" /\ recorded' = recorded \o NewOutcomes
      /\ UNCHANGED <<openers, rejects>>
  BY DEF CollectorStop
<1>2. /\ trade \in Trades /\ shadows \in Seq(Shadows) /\ pendingOutcomes \in Seq(OutcomeRecords)
      /\ recorded \in Seq(OutcomeRecords)
  BY DEF StreamInv, RunTypes, DataTypes
<1>3. Accounted /\ Distinct(shadows) /\ Distinct(recorded) /\ Fated' = Fated
  BY <1>1 DEF FatesOK, Fated
<1>4. CASE Enabled
  <2>1. /\ a \in Seq(OutcomeRecords) /\ b \in Seq(OutcomeRecords)
        /\ Cands(a) = Running /\ Cands(b) = Cands(shadows) /\ Distinct(a) /\ Distinct(b)
    BY <1>2, <1>3, CensoredFacts DEF Running
  <2>2. recorded' = recorded \o new
    BY <1>1, <1>2, <1>4, CollectorAdds
  <2> HIDE DEF a, b
  <2>3. new \in Seq(OutcomeRecords) /\ Cands(new) = Cands(a) \union Cands(b)
    BY <2>1, CandsConcat
  <2>4. Distinct(new)
    <3>1. Cands(a) \intersect Cands(b) \subseteq {0}
      BY <1>3, <2>1 DEF Accounted
    <3> QED  BY <2>1, <3>1, CandsConcat
  <2> HIDE DEF new
  <2>5. Cands(recorded) \intersect Cands(new) = {}
    BY <1>3, <2>1, <2>3 DEF Accounted
  <2>6. Distinct(recorded') /\ Cands(recorded') = Cands(recorded) \union Cands(new)
    BY <1>2, <1>3, <2>2, <2>3, <2>4, <2>5, RecordedMore
  <2>7. Cands(recorded') = Fated'
    BY <1>3, <2>1, <2>3, <2>6 DEF Accounted
  <2> QED  BY <1>1, <2>6, <2>7 DEF FatesOK
<1>5. CASE ~Enabled
  <2>1. NewOutcomes = <<>>
    BY <1>2, <1>5, CollectorAdds
  <2>2. recorded' = recorded
    BY <1>1, <1>2, <2>1, ConcatEmptySeq
  <2>3. Fated = {}
    BY <1>5 DEF KnownInv, GivenOK, Given, Fated
  <2>4. Cands(recorded') = Fated'
    BY <1>3, <2>2, <2>3 DEF Accounted
  <2> QED  BY <1>1, <1>3, <2>2, <2>4 DEF FatesOK
<1> QED  BY <1>4, <1>5

LEMMA FatesStep == StreamInv /\ KnownInv /\ FatesOK /\ [Next]_vars => FatesOK'
<1> SUFFICES ASSUME StreamInv, KnownInv, FatesOK, [Next]_vars PROVE FatesOK'
  OBVIOUS
<1> USE DEF collectorVars, batcherVars, auditVars
<1>1. CASE BeginBar
  <2>1. /\ phase = "loop" /\ phase' = "orders" /\ work' = pending /\ pending' = <<>>
        /\ UNCHANGED <<shadows, recorded, position, trade, openers, rejects>>
    BY <1>1 DEF BeginBar
  <2>2. Running' = Running /\ Fated' = Fated
    BY <2>1 DEF Running, Fated
  <2>3. Accounted /\ Waiting /\ Distinct(shadows) /\ Distinct(recorded)
    BY <2>1 DEF FatesOK
  <2>4. Accounted'
    BY <2>1, <2>2, <2>3 DEF Accounted
  <2>5. Waiting'
    BY <2>1, <2>2, <2>3, NoCands DEF Waiting
  <2> QED  BY <2>1, <2>3, <2>4, <2>5 DEF FatesOK
<1>2. CASE KeepOrder \/ DropOrder
  <2> DEFINE o == Head(work)
  <2>1. /\ phase = "orders" /\ phase' = "orders" /\ work # <<>> /\ work' = Tail(work)
        /\ pending' = pending \/ pending' = Append(pending, o)
        /\ UNCHANGED <<shadows, recorded, position, trade, openers, rejects>>
    BY <1>2 DEF KeepOrder, DropOrder, AtOrder
  <2>2. Running' = Running /\ Fated' = Fated
    BY <2>1 DEF Running, Fated
  <2>3. Accounted /\ Waiting /\ Distinct(shadows) /\ Distinct(recorded)
    BY <2>1 DEF FatesOK
  <2>4. /\ o \in Orders /\ Cands(work) = {o.cand} \union Cands(work')
        /\ Distinct(work') /\ o.cand \notin Cands(work') \ {0}
    BY <2>1, <2>3, CandsTail DEF StreamInv, RunTypes, Waiting
  <2> HIDE DEF o
  <2>5. /\ Cands(pending') \subseteq Cands(pending) \union {o.cand} /\ Distinct(pending')
    <3>1. pending \in Seq(Orders) /\ o.cand \notin Cands(pending) \ {0} /\ Distinct(pending)
      BY <2>3, <2>4 DEF StreamInv, RunTypes, Waiting
    <3>2. /\ Cands(Append(pending, o)) = Cands(pending) \union {o.cand}
          /\ Distinct(Append(pending, o))
      BY <2>4, <3>1, CandsAppend
    <3> QED  BY <2>1, <3>1, <3>2
  <2>6. Accounted'
    BY <2>1, <2>2, <2>3 DEF Accounted
  <2>7. Waiting'
    BY <2>2, <2>3, <2>4, <2>5 DEF Waiting
  <2> QED  BY <2>1, <2>3, <2>6, <2>7 DEF FatesOK
<1>3. ASSUME UNCHANGED <<shadows, recorded, position, trade, openers, rejects, work, pending>>,
             \/ phase' = "failed" \/ phase' = phase
             \/ phase = "orders" /\ phase' = "strategy"
             \/ phase = "strategy" /\ phase' = "collector"
             \/ phase = "stopping" /\ phase' = "done"
      PROVE  FatesOK'
  BY <1>3 DEF FatesOK, Accounted, Waiting, Running, Fated
<1>4. CASE OrdersDone
  BY <1>3, <1>4 DEF OrdersDone
<1>5. CASE UNCHANGED vars
  BY <1>3, <1>5 DEF vars, runVars
<1>6. ASSUME NEW timeIsUp \in BOOLEAN, NEW throws \in BOOLEAN, Observers(timeIsUp, throws)
      PROVE  FatesOK'
  BY <1>3, <1>6 DEF Observers
<1>7. ASSUME NEW throws \in BOOLEAN, ObserversStop(throws) PROVE FatesOK'
  <2>1. shadows' = shadows
    BY <1>7 DEF ObserversStop, FinalBatch, Emit, Drained
  <2> QED  BY <1>3, <1>7, <2>1 DEF ObserversStop
<1> QED
  BY <1>1, <1>2, <1>4, <1>5, <1>6, <1>7, FillFates, ProposeFates, CollectorBarFates,
     CollectorStopFates
  DEF Next, ProcessOrders

LEMMA FatesInit == Init => FatesOK
<1> SUFFICES ASSUME Init PROVE FatesOK
  OBVIOUS
<1>1. /\ shadows = <<>> /\ work = <<>> /\ pending = <<>> /\ recorded = <<>>
      /\ position = 0 /\ openers = {} /\ rejects = {} /\ phase = "loop"
  BY DEF Init, CollectorInit, BatcherInit
<1> QED  BY <1>1, NoCands DEF FatesOK, Accounted, Waiting, Running, Fated

\* At the end every candidate whose order opened a trade or that was rejected
\* before on_stop has one outcome, and none has two (on_trade_closed,
\* ShadowLedger::tick, on_stop).
THEOREM OneOutcomeEach == Spec => []DecidedHaveOneOutcome
<1>1. ASSUME StreamInv, FatesOK, phase = "done"
      PROVE  /\ \A i, j \in DOMAIN recorded : recorded[i].cand = recorded[j].cand => i = j
             /\ Cands(recorded) = Fated
  <2>1. \A i \in DOMAIN recorded : recorded[i].cand # 0
    <3>1. \A i \in DOMAIN recorded : recorded[i] \in OutcomeRecords
      BY <1>1, LenProperties, ElementOfSeq DEF StreamInv, DataTypes
    <3> QED  BY <3>1 DEF OutcomeRecords
  <2> QED  BY <1>1, <2>1 DEF FatesOK, Distinct
<1>2. StreamInv /\ FatesOK => DecidedHaveOneOutcome
  BY <1>1 DEF DecidedHaveOneOutcome, Fated, Cands
<1> QED
  BY <1>2, StreamInit, StreamStep, KnownInit, KnownStep, FatesInit, FatesStep, PTL DEF Spec
=============================================================================
