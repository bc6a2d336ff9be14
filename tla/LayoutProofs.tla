---------------------------- MODULE LayoutProofs ----------------------------
(***************************************************************************)
(* The layout arithmetic of Layout, for every sequence of column kinds:    *)
(* what an order changes is the padding alone.                             *)
(***************************************************************************)
EXTENDS TableReport, CollectionsProofs, FiniteSetTheorems

-----------------------------------------------------------------------------
(* Arithmetic. *)

LEMMA PadBounds ==
    ASSUME NEW offset \in Nat, NEW align \in Align
    PROVE  /\ Pad(offset, align) \in 0..(align - 1)
           /\ (offset + Pad(offset, align)) % align = 0
<1>1. CASE align = 1
  BY <1>1 DEF Pad
<1>2. CASE align = 2
  BY <1>2 DEF Pad
<1>3. CASE align = 4
  BY <1>3 DEF Pad
<1>4. CASE align = 8
  BY <1>4 DEF Pad
<1> QED BY <1>1, <1>2, <1>3, <1>4 DEF Align

LEMMA PadInNat ==
    ASSUME NEW offset \in Nat, NEW align \in Align
    PROVE  Pad(offset, align) \in Nat
<1>1. Pad(offset, align) \in 0..(align - 1)
  BY PadBounds
<1>2. align \in Nat
  BY DEF Align
<1> QED BY <1>1, <1>2

\* Only the offset's residue matters.
LEMMA PadOfResidue ==
    ASSUME NEW offset \in Nat, NEW align \in Align
    PROVE  Pad(offset % MAXALIGN, align) = Pad(offset, align)
<1>1. CASE align = 1
  BY <1>1 DEF Pad, MAXALIGN
<1>2. CASE align = 2
  BY <1>2 DEF Pad, MAXALIGN
<1>3. CASE align = 4
  BY <1>3 DEF Pad, MAXALIGN
<1>4. CASE align = 8
  BY <1>4 DEF Pad, MAXALIGN
<1> QED BY <1>1, <1>2, <1>3, <1>4 DEF Align

LEMMA MaxAlignFacts ==
    ASSUME NEW n \in Nat
    PROVE  /\ MaxAlign(n) \in Nat
           /\ MaxAlign(n) % MAXALIGN = 0
           /\ n <= MaxAlign(n)
           /\ \A m \in Nat : m <= n => MaxAlign(m) <= MaxAlign(n)
BY DEF MaxAlign, Pad, MAXALIGN

LEMMA MaxAlignAfter ==
    ASSUME NEW header \in Nat, header % MAXALIGN = 0, NEW n \in Nat
    PROVE  MaxAlign(header + n) = header + MaxAlign(n)
BY DEF MaxAlign, Pad, MAXALIGN

-----------------------------------------------------------------------------
(* The walk. *)

LEMMA LengthInNat ==
    ASSUME NEW len \in Length
    PROVE  len \in Nat
BY DEF Length

LEMMA KindFacts ==
    ASSUME NEW kind \in ColumnKind
    PROVE  /\ kind.align \in Align
           /\ kind.form = "fixed" => kind.len \in Length
           /\ SizeOf(kind) \in Nat
           /\ \A offset \in Nat : PadBefore(kind, offset) \in Nat
<1>1. CASE kind \in [form : {"fixed"}, len : Length, align : Align]
  <2>1. kind.form = "fixed" /\ kind.len \in Length /\ kind.align \in Align
    BY <1>1
  <2>2. kind.len \in Nat
    BY <2>1, LengthInNat
  <2>3. SizeOf(kind) \in Nat
    BY <2>1, <2>2 DEF SizeOf, IsFixed
  <2> QED BY <2>1, <2>3, PadInNat DEF PadBefore
<1>2. CASE kind \in [form : {"varlena"}, align : Align, short : BOOLEAN]
  <2>1. kind.form = "varlena" /\ kind.align \in Align
    BY <1>2
  <2>2. kind.form # "fixed"
    BY <2>1
  <2>3. SizeOf(kind) \in Nat
    BY <2>2 DEF SizeOf, IsFixed, VarlenaShortHeader, VarlenaLongHeader
  <2> QED BY <2>1, <2>2, <2>3, PadInNat DEF PadBefore
<1> QED BY <1>1, <1>2 DEF ColumnKind

\* The functions Ends and Padding are defined by.
EndsStep(kinds, F, i) ==
    IF i = 0 THEN 0
    ELSE F[i - 1] + PadBefore(kinds[i], F[i - 1]) + SizeOf(kinds[i])

IsEnds(kinds, F) == F = [i \in 0..Len(kinds) |-> EndsStep(kinds, F, i)]

TotalStep(kinds, F, i) == IF i = 0 THEN 0 ELSE F[i - 1] + Placed(kinds)[i].pad_before

IsTotal(kinds, F) == F = [i \in 0..Len(kinds) |-> TotalStep(kinds, F, i)]

LEMMA EndsFacts ==
    ASSUME NEW kinds \in Seq(ColumnKind)
    PROVE  /\ Ends(kinds) \in [0..Len(kinds) -> Nat]
           /\ Ends(kinds)[0] = 0
           /\ \A i \in 1..Len(kinds) :
                  Ends(kinds)[i] = Ends(kinds)[i - 1] + PadBefore(kinds[i], Ends(kinds)[i - 1])
                                     + SizeOf(kinds[i])
<1> DEFINE n == Len(kinds)
           step == [p \in (1..n) \X Nat |-> p[2] + PadBefore(kinds[p[1]], p[2]) + SizeOf(kinds[p[1]])]
           end == CHOOSE F : IsEnds(kinds, F)
<1>1. n \in Nat /\ \A i \in 1..n : kinds[i] \in ColumnKind
  OBVIOUS
<1>2. \A i \in 1..n, x \in Nat : x + PadBefore(kinds[i], x) + SizeOf(kinds[i]) \in Nat
  <2> SUFFICES ASSUME NEW i \in 1..n, NEW x \in Nat
               PROVE  x + PadBefore(kinds[i], x) + SizeOf(kinds[i]) \in Nat
    OBVIOUS
  <2>1. PadBefore(kinds[i], x) \in Nat /\ SizeOf(kinds[i]) \in Nat
    BY <1>1, KindFacts
  <2> QED BY <2>1
<1>3. step \in [(1..n) \X Nat -> Nat]
  BY <1>2
<1>4. \E F : IsLoop(F, n, Nat, 0, step)
  <2> HIDE DEF step, n
  <2> QED BY <1>1, <1>3, LoopExists
<1>5. \E F : IsEnds(kinds, F)
  <2>1. PICK F : IsLoop(F, n, Nat, 0, step)
    BY <1>4
  <2>2. F \in [0..n -> Nat] /\ F[0] = 0
    BY <2>1 DEF IsLoop
  <2>3. ASSUME NEW i \in 0..n PROVE F[i] = EndsStep(kinds, F, i)
    <3>1. CASE i = 0
      BY <2>2, <3>1 DEF EndsStep
    <3>2. CASE i # 0
      <4>1. i \in 1..n /\ i - 1 \in 0..n
        BY <1>1, <3>2
      <4>2. F[i] = step[<<i, F[i - 1]>>] /\ F[i - 1] \in Nat
        BY <2>1, <2>2, <4>1 DEF IsLoop
      <4>3. <<i, F[i - 1]>> \in (1..n) \X Nat
        BY <4>1, <4>2
      <4> QED BY <3>2, <4>2, <4>3 DEF EndsStep
    <3> QED BY <3>1, <3>2
  <2>4. F = [i \in 0..n |-> EndsStep(kinds, F, i)]
    BY <2>2, <2>3
  <2> QED BY <2>4 DEF IsEnds
<1>6. IsEnds(kinds, end)
  BY <1>5
<1>7. Ends(kinds) = end
  BY DEF Ends, IsEnds, EndsStep
<1> HIDE DEF end
<1>8. end = [i \in 0..n |-> EndsStep(kinds, end, i)]
  BY <1>6 DEF IsEnds
<1>9. end[0] = 0
  BY <1>1, <1>8 DEF EndsStep
<1>10. ASSUME NEW i \in 1..n
       PROVE  end[i] = end[i - 1] + PadBefore(kinds[i], end[i - 1]) + SizeOf(kinds[i])
  <2>1. i \in 0..n /\ i # 0
    BY <1>1
  <2>2. end[i] = EndsStep(kinds, end, i)
    BY <1>8, <2>1
  <2> QED BY <2>1, <2>2 DEF EndsStep
<1>11. ASSUME NEW k \in 0..n PROVE end[k] \in Nat
  <2> DEFINE T == {m \in 0..n : end[m] \in Nat}
  <2>1. 0 \in T
    BY <1>1, <1>9
  <2>2. ASSUME NEW m \in 0..(k - 1), m \in T PROVE m + 1 \in T
    <3>1. m + 1 \in 1..n /\ m + 1 \in 0..n /\ (m + 1) - 1 = m
      BY <1>1
    <3>2. end[m + 1] = end[m] + PadBefore(kinds[m + 1], end[m]) + SizeOf(kinds[m + 1])
      BY <1>10, <3>1
    <3> QED BY <1>2, <2>2, <3>1, <3>2
  <2>3. k \in T
    <3> HIDE DEF T
    <3>1. k \in Nat
      BY <1>1
    <3> QED BY <2>1, <2>2, <3>1, CountUp
  <2> QED BY <2>3
<1>12. end \in [0..n -> Nat]
  <2>1. DOMAIN end = 0..n
    BY <1>8
  <2> QED BY <1>8, <1>11, <2>1
<1> QED BY <1>7, <1>9, <1>10, <1>12

LEMMA PaddingFacts ==
    ASSUME NEW kinds \in Seq(ColumnKind)
    PROVE  \E total \in [0..Len(kinds) -> Nat] :
               /\ total[0] = 0
               /\ \A i \in 1..Len(kinds) :
                      total[i] = total[i - 1] + PadBefore(kinds[i], Ends(kinds)[i - 1])
               /\ Padding(kinds) = total[Len(kinds)]
<1> DEFINE n == Len(kinds)
           pad == [i \in 1..n |-> PadBefore(kinds[i], Ends(kinds)[i - 1])]
           step == [p \in (1..n) \X Nat |-> p[2] + pad[p[1]]]
           total == CHOOSE F : IsTotal(kinds, F)
<1>1. n \in Nat /\ DOMAIN kinds = 1..n /\ \A i \in 1..n : kinds[i] \in ColumnKind
  OBVIOUS
<1>2. ASSUME NEW i \in 1..n
      PROVE  Placed(kinds)[i].pad_before = pad[i] /\ pad[i] \in Nat
  <2>1. i \in DOMAIN kinds /\ i - 1 \in 0..n
    BY <1>1
  <2>2. Ends(kinds)[i - 1] \in Nat
    BY <2>1, EndsFacts
  <2>3. Placed(kinds)[i].pad_before = PadBefore(kinds[i], Ends(kinds)[i - 1])
    BY <2>1 DEF Placed
  <2> QED BY <1>1, <2>2, <2>3, KindFacts
<1> HIDE DEF pad
<1>3. step \in [(1..n) \X Nat -> Nat]
  BY <1>2
<1>4. \E F : IsLoop(F, n, Nat, 0, step)
  <2> HIDE DEF step, n
  <2> QED BY <1>1, <1>3, LoopExists
<1>5. \E F : IsTotal(kinds, F)
  <2>1. PICK F : IsLoop(F, n, Nat, 0, step)
    BY <1>4
  <2>2. F \in [0..n -> Nat] /\ F[0] = 0
    BY <2>1 DEF IsLoop
  <2>3. ASSUME NEW i \in 0..n PROVE F[i] = TotalStep(kinds, F, i)
    <3>1. CASE i = 0
      BY <2>2, <3>1 DEF TotalStep
    <3>2. CASE i # 0
      <4>1. i \in 1..n /\ i - 1 \in 0..n
        BY <1>1, <3>2
      <4>2. F[i] = step[<<i, F[i - 1]>>] /\ F[i - 1] \in Nat
        BY <2>1, <2>2, <4>1 DEF IsLoop
      <4>3. <<i, F[i - 1]>> \in (1..n) \X Nat
        BY <4>1, <4>2
      <4>4. F[i] = F[i - 1] + pad[i]
        BY <4>2, <4>3
      <4> QED BY <1>2, <3>2, <4>1, <4>4 DEF TotalStep
    <3> QED BY <3>1, <3>2
  <2>4. F = [i \in 0..n |-> TotalStep(kinds, F, i)]
    BY <2>2, <2>3
  <2> QED BY <2>4 DEF IsTotal
<1>6. IsTotal(kinds, total)
  BY <1>5
<1>7. Padding(kinds) = total[n]
  BY DEF Padding, IsTotal, TotalStep
<1> HIDE DEF total
<1>8. total = [i \in 0..n |-> TotalStep(kinds, total, i)]
  BY <1>6 DEF IsTotal
<1>9. total[0] = 0
  BY <1>1, <1>8 DEF TotalStep
<1>10. ASSUME NEW i \in 1..n PROVE total[i] = total[i - 1] + pad[i]
  <2>1. i \in 0..n /\ i # 0
    BY <1>1
  <2>2. total[i] = TotalStep(kinds, total, i)
    BY <1>8, <2>1
  <2> QED BY <1>2, <2>1, <2>2 DEF TotalStep
<1>11. ASSUME NEW k \in 0..n PROVE total[k] \in Nat
  <2> DEFINE T == {m \in 0..n : total[m] \in Nat}
  <2>1. 0 \in T
    BY <1>1, <1>9
  <2>2. ASSUME NEW m \in 0..(k - 1), m \in T PROVE m + 1 \in T
    <3>1. m + 1 \in 1..n /\ m + 1 \in 0..n /\ (m + 1) - 1 = m
      BY <1>1
    <3>2. total[m + 1] = total[m] + pad[m + 1]
      BY <1>10, <3>1
    <3> QED BY <1>2, <2>2, <3>1, <3>2
  <2>3. k \in T
    <3> HIDE DEF T
    <3>1. k \in Nat
      BY <1>1
    <3> QED BY <2>1, <2>2, <3>1, CountUp
  <2> QED BY <2>3
<1>12. total \in [0..n -> Nat]
  <2>1. DOMAIN total = 0..n
    BY <1>8
  <2> QED BY <1>8, <1>11, <2>1
<1> QED BY <1>7, <1>9, <1>10, <1>12 DEF pad

LEMMA WalkInNat ==
    ASSUME NEW kinds \in Seq(ColumnKind)
    PROVE  Padding(kinds) \in Nat /\ ScenarioEnd(kinds) \in Nat
<1>1. Len(kinds) \in 0..Len(kinds)
  OBVIOUS
<1>2. Padding(kinds) \in Nat
  BY <1>1, PaddingFacts
<1>3. ScenarioEnd(kinds) \in Nat
  BY <1>1, EndsFacts DEF ScenarioEnd
<1> QED BY <1>2, <1>3

-----------------------------------------------------------------------------
(* An order changes the padding alone. *)

\* The orders of n columns.
OrdersOf(n) == {order \in [1..n -> 1..n] : Injective(order)}

\* Sizes summed over a set of columns.
LEMMA SumExists ==
    ASSUME NEW n \in Nat, NEW size \in [1..n -> Nat]
    PROVE  \E sum \in [SUBSET (1..n) -> Nat] :
               /\ sum[{}] = 0
               /\ \A S \in SUBSET (1..n) : \A i \in S : sum[S] = sum[S \ {i}] + size[i]
<1> DEFINE Sums == [SUBSET (1..n) -> Nat]
           zero == [S \in SUBSET (1..n) |-> 0]
           upto == [p \in (1..n) \X Sums |->
                       [S \in SUBSET (1..n) |-> p[2][S] + (IF p[1] \in S THEN size[p[1]] ELSE 0)]]
<1>1. zero \in Sums
  OBVIOUS
<1>2. ASSUME NEW m \in 1..n, NEW f \in Sums
      PROVE  /\ upto[<<m, f>>] \in Sums
             /\ \A S \in SUBSET (1..n) :
                    upto[<<m, f>>][S] = f[S] + (IF m \in S THEN size[m] ELSE 0)
  <2>1. \A S \in SUBSET (1..n) : f[S] + (IF m \in S THEN size[m] ELSE 0) \in Nat
    OBVIOUS
  <2>2. upto[<<m, f>>] = [S \in SUBSET (1..n) |-> f[S] + (IF m \in S THEN size[m] ELSE 0)]
    OBVIOUS
  <2> QED BY <2>1, <2>2
<1>3. upto \in [(1..n) \X Sums -> Sums]
  <2>1. \A p \in (1..n) \X Sums : upto[p] \in Sums
    <3> SUFFICES ASSUME NEW p \in (1..n) \X Sums PROVE upto[p] \in Sums
      OBVIOUS
    <3>1. p[1] \in 1..n /\ p[2] \in Sums /\ p = <<p[1], p[2]>>
      OBVIOUS
    <3> HIDE DEF upto, Sums
    <3> QED BY <1>2, <3>1
  <2> QED BY <2>1
<1>4. PICK F : IsLoop(F, n, Sums, zero, upto)
  <2> HIDE DEF Sums, zero, upto
  <2> QED BY <1>1, <1>3, LoopExists
<1> DEFINE Splits(m) ==
               \A S \in SUBSET (1..n) : \A i \in S :
                   F[m][S] = F[m][S \ {i}] + (IF i <= m THEN size[i] ELSE 0)
           T == {m \in 0..n : F[m][{}] = 0 /\ Splits(m)}
<1>5. F \in [0..n -> Sums] /\ F[0] = zero
  BY <1>4 DEF IsLoop
<1>6. ASSUME NEW m \in 0..(n - 1), NEW S \in SUBSET (1..n)
      PROVE  /\ F[m + 1][S] = F[m][S] + (IF m + 1 \in S THEN size[m + 1] ELSE 0)
             /\ F[m][S] \in Nat
  <2>1. m + 1 \in 1..n /\ m \in 0..n /\ (m + 1) - 1 = m
    OBVIOUS
  <2>2. F[m + 1] = upto[<<m + 1, F[m]>>]
    BY <1>4, <2>1 DEF IsLoop
  <2>3. F[m] \in Sums
    BY <1>5, <2>1
  <2>4. F[m][S] \in Nat
    BY <2>3
  <2>5. F[m + 1][S] = F[m][S] + (IF m + 1 \in S THEN size[m + 1] ELSE 0)
    <3> HIDE DEF upto, Sums
    <3> QED BY <1>2, <2>1, <2>2, <2>3
  <2> QED BY <2>4, <2>5
<1>7. 0 \in T
  <2>1. \A S \in SUBSET (1..n) : F[0][S] = 0
    BY <1>5
  <2>2. \A i \in 1..n : ~(i <= 0)
    OBVIOUS
  <2> QED BY <2>1, <2>2
<1>8. ASSUME NEW m \in 0..(n - 1), m \in T PROVE m + 1 \in T
  <2>1. m + 1 \in 1..n /\ m + 1 \in 0..n /\ m \in 0..n
    OBVIOUS
  <2>2. F[m + 1][{}] = 0
    <3>1. {} \in SUBSET (1..n) /\ m + 1 \notin {}
      OBVIOUS
    <3>2. F[m + 1][{}] = F[m][{}] + 0 /\ F[m][{}] = 0
      <4> HIDE DEF Splits
      <4> QED BY <1>6, <1>8, <3>1
    <3> QED BY <3>2
  <2>3. ASSUME NEW S \in SUBSET (1..n), NEW i \in S
        PROVE  F[m + 1][S] = F[m + 1][S \ {i}] + (IF i <= m + 1 THEN size[i] ELSE 0)
    <3>1. S \ {i} \in SUBSET (1..n) /\ i \in 1..n
      OBVIOUS
    <3>2. F[m][S] = F[m][S \ {i}] + (IF i <= m THEN size[i] ELSE 0)
      BY <1>8
    <3>3. /\ F[m + 1][S] = F[m][S] + (IF m + 1 \in S THEN size[m + 1] ELSE 0)
          /\ F[m + 1][S \ {i}] = F[m][S \ {i}] + (IF m + 1 \in S \ {i} THEN size[m + 1] ELSE 0)
          /\ F[m][S] \in Nat /\ F[m][S \ {i}] \in Nat
      BY <1>6, <3>1
    <3>4. size[i] \in Nat /\ size[m + 1] \in Nat
      BY <2>1, <3>1
    <3>5. CASE i = m + 1
      BY <3>2, <3>3, <3>4, <3>5
    <3>6. CASE i # m + 1
      <4>1. m + 1 \in S <=> m + 1 \in S \ {i}
        BY <3>6
      <4>2. i <= m <=> i <= m + 1
        BY <3>1, <3>6
      <4> QED BY <3>2, <3>3, <3>4, <4>1, <4>2
    <3> QED BY <3>5, <3>6
  <2> QED BY <2>1, <2>2, <2>3
<1>9. n \in T
  <2> HIDE DEF T
  <2> QED BY <1>7, <1>8, CountUp
<1>10. \A i \in 1..n : i <= n
  OBVIOUS
<1>11. F[n] \in Sums
  BY <1>5
<1> QED BY <1>9, <1>10, <1>11

LEMMA OrderedFacts ==
    ASSUME NEW kinds \in Seq(ColumnKind), NEW order \in [1..Len(kinds) -> 1..Len(kinds)]
    PROVE  /\ Ordered(kinds, order) \in Seq(ColumnKind)
           /\ Len(Ordered(kinds, order)) = Len(kinds)
           /\ \A p \in 1..Len(kinds) : Ordered(kinds, order)[p] = kinds[order[p]]
<1> DEFINE n == Len(kinds)
<1>1. n \in Nat /\ \A i \in 1..n : kinds[i] \in ColumnKind
  OBVIOUS
<1>2. Ordered(kinds, order) = [p \in 1..n |-> kinds[order[p]]]
  BY DEF Ordered
<1>3. [p \in 1..n |-> kinds[order[p]]] \in [1..n -> ColumnKind]
  BY <1>1
<1> DEFINE new == Ordered(kinds, order)
<1>4. new \in [1..n -> ColumnKind] /\ \A p \in 1..n : new[p] = kinds[order[p]]
  BY <1>2, <1>3
<1> HIDE DEF new, n
<1>5. new \in Seq(ColumnKind) /\ Len(new) = n
  BY <1>1, <1>4
<1> QED BY <1>4, <1>5 DEF new, n

LEMMA AsWrittenFacts ==
    ASSUME NEW kinds \in Seq(ColumnKind)
    PROVE  /\ AsWritten(kinds) \in OrdersOf(Len(kinds))
           /\ Ordered(kinds, AsWritten(kinds)) = kinds
<1>1. AsWritten(kinds) = [i \in 1..Len(kinds) |-> i]
  BY DEF AsWritten
<1>2. AsWritten(kinds) \in OrdersOf(Len(kinds))
  BY <1>1 DEF OrdersOf, Injective
<1>3. Ordered(kinds, AsWritten(kinds)) = [p \in 1..Len(kinds) |-> kinds[p]]
  BY <1>1 DEF Ordered
<1> QED BY <1>2, <1>3

\* An order places every column.
LEMMA OrderIsOnto ==
    ASSUME NEW n \in Nat, NEW order \in OrdersOf(n)
    PROVE  {order[p] : p \in 1..n} = 1..n
<1>1. order \in [1..n -> 1..n] /\ \A i, j \in 1..n : order[i] = order[j] => i = j
  BY DEF OrdersOf, Injective
<1>2. order \in Injection(1..n, 1..n)
  BY <1>1 DEF Injection, IsInjective
<1>3. IsFiniteSet(1..n)
  BY FS_Interval
<1>4. order \in Surjection(1..n, 1..n)
  BY <1>2, <1>3, FS_Injection
<1> QED BY <1>1, <1>4 DEF Surjection

\* The columns in the first m places.
FirstOf(order, m) == {order[p] : p \in 1..m}

LEMMA NextPlaced ==
    ASSUME NEW n \in Nat, NEW order \in OrdersOf(n), NEW m \in 0..(n - 1)
    PROVE  /\ order[m + 1] \in 1..n
           /\ FirstOf(order, m) \in SUBSET (1..n)
           /\ order[m + 1] \notin FirstOf(order, m)
           /\ FirstOf(order, m + 1) = FirstOf(order, m) \cup {order[m + 1]}
<1>1. order \in [1..n -> 1..n] /\ \A i, j \in 1..n : order[i] = order[j] => i = j
  BY DEF OrdersOf, Injective
<1>2. m + 1 \in 1..n /\ m + 1 \in 1..(m + 1)
  OBVIOUS
<1>3. \A p \in 1..m : p \in 1..n /\ p # m + 1 /\ p \in 1..(m + 1)
  OBVIOUS
<1>4. \A p \in 1..(m + 1) : p \in 1..m \/ p = m + 1
  OBVIOUS
<1>5. order[m + 1] \in 1..n /\ FirstOf(order, m) \in SUBSET (1..n)
  BY <1>1, <1>2, <1>3 DEF FirstOf
<1>6. order[m + 1] \notin FirstOf(order, m)
  BY <1>1, <1>2, <1>3 DEF FirstOf
<1>7. FirstOf(order, m + 1) = FirstOf(order, m) \cup {order[m + 1]}
  BY <1>2, <1>3, <1>4 DEF FirstOf
<1> QED BY <1>5, <1>6, <1>7

\* Where the last column ends, less the padding, is the same for every order.
LEMMA EndIsPaddingAndSizes ==
    ASSUME NEW kinds \in Seq(ColumnKind)
    PROVE  \E sizes \in Nat : \A order \in OrdersOf(Len(kinds)) :
               /\ Padding(Ordered(kinds, order)) \in Nat
               /\ ScenarioEnd(Ordered(kinds, order)) = Padding(Ordered(kinds, order)) + sizes
<1> DEFINE n == Len(kinds)
           size == [i \in 1..n |-> SizeOf(kinds[i])]
<1>1. n \in Nat
  OBVIOUS
<1>2. size \in [1..n -> Nat]
  <2>1. ASSUME NEW i \in 1..n PROVE SizeOf(kinds[i]) \in Nat
    <3>1. kinds[i] \in ColumnKind
      OBVIOUS
    <3> QED BY <3>1, KindFacts
  <2> QED BY <2>1
<1>3. PICK sum \in [SUBSET (1..n) -> Nat] :
          /\ sum[{}] = 0
          /\ \A S \in SUBSET (1..n) : \A i \in S : sum[S] = sum[S \ {i}] + size[i]
  <2> HIDE DEF size, n
  <2> QED BY <1>1, <1>2, SumExists
<1> SUFFICES ASSUME NEW order \in OrdersOf(n)
             PROVE  /\ Padding(Ordered(kinds, order)) \in Nat
                    /\ ScenarioEnd(Ordered(kinds, order))
                         = Padding(Ordered(kinds, order)) + sum[1..n]
  <2>1. sum[1..n] \in Nat
    OBVIOUS
  <2> QED BY <2>1
<1> DEFINE new == Ordered(kinds, order)
           end == Ends(new)
<1>4. order \in [1..n -> 1..n] /\ \A i, j \in 1..n : order[i] = order[j] => i = j
  BY DEF OrdersOf, Injective
<1>5. new \in Seq(ColumnKind) /\ Len(new) = n /\ \A p \in 1..n : new[p] = kinds[order[p]]
  BY <1>4, OrderedFacts
<1> HIDE DEF new
<1>6. PICK total \in [0..n -> Nat] :
          /\ total[0] = 0
          /\ \A i \in 1..n : total[i] = total[i - 1] + PadBefore(new[i], end[i - 1])
          /\ Padding(new) = total[n]
  BY <1>5, PaddingFacts
<1>7. /\ end \in [0..n -> Nat]
      /\ end[0] = 0
      /\ \A i \in 1..n : end[i] = end[i - 1] + PadBefore(new[i], end[i - 1]) + SizeOf(new[i])
  BY <1>5, EndsFacts
<1> HIDE DEF end, size, n
<1> DEFINE T == {m \in 0..n : end[m] = total[m] + sum[FirstOf(order, m)]}
<1>8. 0 \in T
  <2>1. FirstOf(order, 0) = {}
    BY DEF FirstOf
  <2>2. end[0] = total[0] + sum[FirstOf(order, 0)]
    <3>1. sum[{}] = 0 /\ total[0] = 0 /\ end[0] = 0
      BY <1>3, <1>6, <1>7
    <3>2. end[0] = total[0] + sum[{}]
      BY <3>1
    <3> QED BY <2>1, <3>2
  <2> QED BY <1>1, <2>2
<1>9. ASSUME NEW m \in 0..(n - 1), m \in T PROVE m + 1 \in T
  <2> DEFINE last == order[m + 1]
  <2>1. m + 1 \in 1..n /\ m + 1 \in 0..n /\ m \in 0..n /\ (m + 1) - 1 = m
    BY <1>1
  <2>2. /\ last \in 1..n
        /\ FirstOf(order, m) \in SUBSET (1..n)
        /\ last \notin FirstOf(order, m)
        /\ FirstOf(order, m + 1) = FirstOf(order, m) \cup {last}
    BY <1>1, NextPlaced
  <2>3. new[m + 1] = kinds[last] /\ new[m + 1] \in ColumnKind
    BY <1>5, <2>1
  <2>4. size[last] = SizeOf(new[m + 1]) /\ SizeOf(new[m + 1]) \in Nat
    BY <1>2, <2>2, <2>3 DEF size
  <2> HIDE DEF last
  <2>5. FirstOf(order, m + 1) \in SUBSET (1..n) /\ last \in FirstOf(order, m + 1)
    BY <2>2
  <2>6. FirstOf(order, m + 1) \ {last} = FirstOf(order, m)
    BY <2>2
  <2>7. sum[FirstOf(order, m + 1)] = sum[FirstOf(order, m)] + size[last]
    BY <1>3, <2>5, <2>6
  <2>8. sum[FirstOf(order, m)] \in Nat
    BY <2>2
  <2>9. /\ total[m + 1] = total[m] + PadBefore(new[m + 1], end[m])
        /\ end[m + 1] = end[m] + PadBefore(new[m + 1], end[m]) + SizeOf(new[m + 1])
        /\ end[m] \in Nat /\ total[m] \in Nat
    BY <1>6, <1>7, <2>1
  <2>10. PadBefore(new[m + 1], end[m]) \in Nat
    BY <2>3, <2>9, KindFacts
  <2>11. end[m] = total[m] + sum[FirstOf(order, m)]
    BY <1>9
  <2>12. end[m + 1] = total[m + 1] + sum[FirstOf(order, m + 1)]
    BY <2>4, <2>7, <2>8, <2>9, <2>10, <2>11
  <2> QED BY <2>1, <2>12
<1>10. n \in T
  <2> HIDE DEF T
  <2> QED BY <1>1, <1>8, <1>9, CountUp
<1>11. FirstOf(order, n) = 1..n
  BY <1>1, OrderIsOnto DEF FirstOf
<1>12. end[n] = ScenarioEnd(new)
  BY <1>5 DEF ScenarioEnd, end
<1>13. total[n] \in Nat
  BY <1>1, <1>6
<1>14. end[n] = total[n] + sum[1..n]
  BY <1>10, <1>11
<1> QED BY <1>6, <1>12, <1>13, <1>14 DEF new

-----------------------------------------------------------------------------
(* The heuristic sort: an order, the fixed columns first. *)

\* SortsBefore compares three numbers and then the positions.
IrregularRank(kind) == IF Irregular(kind) THEN 1 ELSE 0

LEMMA SortKeys ==
    ASSUME NEW kinds \in Seq(ColumnKind), NEW i \in DOMAIN kinds, NEW j \in DOMAIN kinds
    PROVE  /\ SortClass(kinds[i]) \in 0..2
           /\ IrregularRank(kinds[i]) \in 0..1
           /\ kinds[i].align \in Nat
           /\ SortsBefore(kinds, i, j) <=>
                  \/ SortClass(kinds[i]) < SortClass(kinds[j])
                  \/ /\ SortClass(kinds[i]) = SortClass(kinds[j])
                     /\ \/ kinds[i].align > kinds[j].align
                        \/ /\ kinds[i].align = kinds[j].align
                           /\ \/ IrregularRank(kinds[i]) < IrregularRank(kinds[j])
                              \/ IrregularRank(kinds[i]) = IrregularRank(kinds[j]) /\ i < j
<1>1. kinds[i] \in ColumnKind
  OBVIOUS
<1>2. kinds[i].align \in Nat
  <2>1. kinds[i].align \in Align
    BY <1>1, KindFacts
  <2> QED BY <2>1 DEF Align
<1>3. \A kind : SortClass(kind) \in 0..2 /\ IrregularRank(kind) \in 0..1
  BY DEF SortClass, IrregularRank
<1>4. Irregular(kinds[i]) \in BOOLEAN /\ Irregular(kinds[j]) \in BOOLEAN
  BY DEF Irregular
<1>5. ~Irregular(kinds[i]) /\ Irregular(kinds[j])
        <=> IrregularRank(kinds[i]) < IrregularRank(kinds[j])
  BY DEF IrregularRank
<1>6. Irregular(kinds[i]) = Irregular(kinds[j])
        <=> IrregularRank(kinds[i]) = IrregularRank(kinds[j])
  BY <1>4 DEF IrregularRank
<1>7. SortsBefore(kinds, i, j) <=>
          \/ SortClass(kinds[i]) < SortClass(kinds[j])
          \/ /\ SortClass(kinds[i]) = SortClass(kinds[j])
             /\ \/ kinds[i].align > kinds[j].align
                \/ /\ kinds[i].align = kinds[j].align
                   /\ \/ IrregularRank(kinds[i]) < IrregularRank(kinds[j])
                      \/ IrregularRank(kinds[i]) = IrregularRank(kinds[j]) /\ i < j
  BY <1>5, <1>6 DEF SortsBefore
<1> QED BY <1>2, <1>3, <1>7

LEMMA SortsBeforeOrder ==
    ASSUME NEW kinds \in Seq(ColumnKind)
    PROVE  /\ \A i \in DOMAIN kinds : ~SortsBefore(kinds, i, i)
           /\ \A i, j \in DOMAIN kinds :
                  i # j => SortsBefore(kinds, i, j) \/ SortsBefore(kinds, j, i)
           /\ \A i, j, k \in DOMAIN kinds :
                  SortsBefore(kinds, i, j) /\ SortsBefore(kinds, j, k) => SortsBefore(kinds, i, k)
<1>1. DOMAIN kinds \subseteq Nat
  OBVIOUS
<1>2. ASSUME NEW i \in DOMAIN kinds PROVE ~SortsBefore(kinds, i, i)
  BY <1>1, SortKeys
<1>3. ASSUME NEW i \in DOMAIN kinds, NEW j \in DOMAIN kinds, i # j
      PROVE  SortsBefore(kinds, i, j) \/ SortsBefore(kinds, j, i)
  BY <1>1, <1>3, SortKeys
<1>4. ASSUME NEW i \in DOMAIN kinds, NEW j \in DOMAIN kinds, NEW k \in DOMAIN kinds,
             SortsBefore(kinds, i, j), SortsBefore(kinds, j, k)
      PROVE  SortsBefore(kinds, i, k)
  BY <1>1, <1>4, SortKeys
<1> QED BY <1>2, <1>3, <1>4

\* The columns sorting before column i, and how many they are.
Earlier(kinds, i) == {j \in DOMAIN kinds : SortsBefore(kinds, j, i)}

RankOf(kinds, i) == Cardinality(Earlier(kinds, i))

LEMMA RankFacts ==
    ASSUME NEW kinds \in Seq(ColumnKind)
    PROVE  /\ \A i \in DOMAIN kinds : RankOf(kinds, i) \in 0..(Len(kinds) - 1)
           /\ \A i, j \in DOMAIN kinds :
                  SortsBefore(kinds, i, j) => RankOf(kinds, i) < RankOf(kinds, j)
           /\ \A i, j \in DOMAIN kinds : RankOf(kinds, i) = RankOf(kinds, j) => i = j
<1> DEFINE D == DOMAIN kinds
<1>1. IsFiniteSet(D) /\ Cardinality(D) = Len(kinds) /\ Len(kinds) \in Nat
  <2>1. D = 1..Len(kinds) /\ Len(kinds) \in Nat
    OBVIOUS
  <2>2. IsFiniteSet(1..Len(kinds)) /\ Cardinality(1..Len(kinds)) = Len(kinds)
    BY <2>1, FS_Interval
  <2> QED BY <2>1, <2>2
<1>2. ASSUME NEW i \in D
      PROVE  /\ IsFiniteSet(Earlier(kinds, i))
             /\ RankOf(kinds, i) \in 0..(Len(kinds) - 1)
  <2>1. Earlier(kinds, i) \in SUBSET (D \ {i})
    BY SortsBeforeOrder DEF Earlier
  <2>2. IsFiniteSet(D \ {i}) /\ Cardinality(D \ {i}) = Len(kinds) - 1
    BY <1>1, FS_RemoveElement
  <2>3. IsFiniteSet(Earlier(kinds, i)) /\ RankOf(kinds, i) <= Len(kinds) - 1
    BY <2>1, <2>2, FS_Subset DEF RankOf
  <2>4. RankOf(kinds, i) \in Nat
    BY <2>3, FS_CardinalityType DEF RankOf
  <2> QED BY <1>1, <2>3, <2>4
<1>3. ASSUME NEW i \in D, NEW j \in D, SortsBefore(kinds, i, j)
      PROVE  RankOf(kinds, i) < RankOf(kinds, j)
  <2>1. Earlier(kinds, i) \subseteq Earlier(kinds, j) /\ i \in Earlier(kinds, j)
        /\ i \notin Earlier(kinds, i)
    BY <1>3, SortsBeforeOrder DEF Earlier
  <2>2. Earlier(kinds, i) \in SUBSET Earlier(kinds, j) /\ Earlier(kinds, i) # Earlier(kinds, j)
    BY <2>1
  <2>3. RankOf(kinds, i) <= RankOf(kinds, j) /\ RankOf(kinds, i) # RankOf(kinds, j)
    BY <1>2, <2>2, FS_Subset DEF RankOf
  <2>4. RankOf(kinds, i) \in Int /\ RankOf(kinds, j) \in Int
    BY <1>2
  <2> QED BY <2>3, <2>4
<1>4. ASSUME NEW i \in D, NEW j \in D, RankOf(kinds, i) = RankOf(kinds, j) PROVE i = j
  <2>1. RankOf(kinds, i) \in Int
    BY <1>2
  <2>2. ~SortsBefore(kinds, i, j) /\ ~SortsBefore(kinds, j, i)
    BY <1>3, <1>4, <2>1
  <2> QED BY <2>2, SortsBeforeOrder
<1> QED BY <1>2, <1>3, <1>4

FixedColumns(kinds) == {i \in DOMAIN kinds : IsFixed(kinds[i])}

LEMMA FixedRank ==
    ASSUME NEW kinds \in Seq(ColumnKind), NEW i \in FixedColumns(kinds)
    PROVE  RankOf(kinds, i) \in 0..(Cardinality(FixedColumns(kinds)) - 1)
<1> DEFINE B == FixedColumns(kinds)
<1>1. i \in DOMAIN kinds /\ SortClass(kinds[i]) = 0
  BY DEF FixedColumns, SortClass
<1>2. ASSUME NEW j \in Earlier(kinds, i) PROVE j \in B /\ j # i
  <2>1. j \in DOMAIN kinds /\ SortsBefore(kinds, j, i)
    BY DEF Earlier
  <2>2. SortClass(kinds[j]) = 0
    BY <1>1, <2>1, SortKeys
  <2>3. IsFixed(kinds[j])
    BY <2>2 DEF SortClass
  <2>4. j # i
    BY <2>1, SortsBeforeOrder
  <2> QED BY <2>1, <2>3, <2>4 DEF FixedColumns
<1>3. IsFiniteSet(B)
  <2>1. IsFiniteSet(1..Len(kinds)) /\ B \in SUBSET (1..Len(kinds))
    BY FS_Interval DEF FixedColumns
  <2> QED BY <2>1, FS_Subset
<1>4. IsFiniteSet(B \ {i}) /\ Cardinality(B \ {i}) = Cardinality(B) - 1
  BY <1>3, FS_RemoveElement
<1>5. Earlier(kinds, i) \in SUBSET (B \ {i})
  BY <1>2
<1>6. RankOf(kinds, i) <= Cardinality(B) - 1
  BY <1>4, <1>5, FS_Subset DEF RankOf
<1>7. RankOf(kinds, i) \in Nat /\ Cardinality(B) \in Nat
  BY <1>1, <1>3, RankFacts, FS_CardinalityType
<1> QED BY <1>6, <1>7

OfRank(kinds, p) == CHOOSE i \in DOMAIN kinds : RankOf(kinds, i) = p - 1

\* The sorted order is an order of the columns, by rank, and its fixed columns are
\* the block at its head.
LEMMA SortedFacts ==
    ASSUME NEW kinds \in Seq(ColumnKind)
    PROVE  /\ SortedOrder(kinds) \in OrdersOf(Len(kinds))
           /\ \A p \in 1..Len(kinds) : RankOf(kinds, SortedOrder(kinds)[p]) = p - 1
           /\ \A p \in 1..Len(kinds) :
                  p <= Cardinality(FixedColumns(kinds))
                    <=> SortedOrder(kinds)[p] \in FixedColumns(kinds)
<1> DEFINE n == Len(kinds)
           D == DOMAIN kinds
           B == FixedColumns(kinds)
           k == Cardinality(B)
           sorted == SortedOrder(kinds)
           rank == [i \in D |-> RankOf(kinds, i)]
           fixedRank == [i \in B |-> RankOf(kinds, i)]
<1>1. n \in Nat /\ D = 1..n /\ IsFiniteSet(D) /\ Cardinality(D) = n
  <2>1. n \in Nat /\ D = 1..n
    OBVIOUS
  <2>2. IsFiniteSet(1..n) /\ Cardinality(1..n) = n
    BY <2>1, FS_Interval
  <2> QED BY <2>1, <2>2
<1>2. IsFiniteSet(B) /\ k \in Nat /\ B \in SUBSET D
  <2>1. B \in SUBSET D
    BY DEF FixedColumns
  <2>2. IsFiniteSet(B)
    BY <1>1, <2>1, FS_Subset
  <2> QED BY <2>1, <2>2, FS_CardinalityType
<1>3. \A p \in 1..n : \E i \in D : RankOf(kinds, i) = p - 1
  <2>1. rank \in [D -> 0..(Cardinality(D) - 1)]
    BY <1>1, RankFacts
  <2>2. \A i, j \in D : rank[i] = rank[j] => i = j
    BY RankFacts
  <2>3. IsFiniteSet(D)
    BY <1>1
  <2>4. \A p \in 1..Cardinality(D) : \E i \in D : rank[i] = p - 1
    <3> HIDE DEF rank, D
    <3> QED BY <2>1, <2>2, <2>3, RanksFill
  <2> QED BY <1>1, <2>4
<1>4. \A p \in 1..n : sorted[p] \in D /\ RankOf(kinds, sorted[p]) = p - 1
  <2> SUFFICES ASSUME NEW p \in 1..n PROVE sorted[p] \in D /\ RankOf(kinds, sorted[p]) = p - 1
    OBVIOUS
  <2>1. p \in D
    BY <1>1
  <2>2. sorted[p] = OfRank(kinds, p)
    BY <2>1 DEF SortedOrder, RankOf, Earlier, OfRank
  <2> HIDE DEF sorted
  <2> QED BY <1>3, <2>2 DEF OfRank
<1>5. sorted \in [1..n -> 1..n]
  <2>1. sorted = [p \in D |-> OfRank(kinds, p)]
    BY DEF SortedOrder, RankOf, Earlier, OfRank
  <2> HIDE DEF sorted
  <2> QED BY <1>1, <1>4, <2>1
<1>6. \A p, q \in 1..n : sorted[p] = sorted[q] => p = q
  <2> SUFFICES ASSUME NEW p \in 1..n, NEW q \in 1..n, sorted[p] = sorted[q] PROVE p = q
    OBVIOUS
  <2>1. RankOf(kinds, sorted[p]) = p - 1 /\ RankOf(kinds, sorted[q]) = q - 1
    BY <1>4
  <2>2. p - 1 = q - 1
    BY <2>1
  <2> QED BY <2>2
<1>7. ASSUME NEW p \in 1..n, sorted[p] \in B PROVE p <= k
  <2>1. RankOf(kinds, sorted[p]) \in 0..(k - 1)
    BY <1>7, FixedRank
  <2> QED BY <1>2, <1>4, <2>1
<1>8. ASSUME NEW p \in 1..n, p <= k PROVE sorted[p] \in B
  <2>1. fixedRank \in [B -> 0..(k - 1)]
    BY FixedRank
  <2>2. \A i, j \in B : fixedRank[i] = fixedRank[j] => i = j
    BY <1>2, RankFacts
  <2>3. p \in 1..k
    BY <1>2, <1>8
  <2>4. PICK i \in B : fixedRank[i] = p - 1
    <3> HIDE DEF fixedRank, B
    <3> QED BY <1>2, <2>1, <2>2, <2>3, RanksFill
  <2>5. i \in D /\ RankOf(kinds, i) = p - 1
    BY <1>2, <2>4
  <2>6. sorted[p] = i
    <3> HIDE DEF sorted
    <3> QED BY <1>4, <2>5, RankFacts
  <2> QED BY <2>6
<1>9. sorted \in OrdersOf(n)
  <2> HIDE DEF sorted, n
  <2> QED BY <1>5, <1>6 DEF OrdersOf, Injective
<1> QED BY <1>4, <1>7, <1>8, <1>9

-----------------------------------------------------------------------------
(* The search for the least padding: it has a value for every set of columns. *)

\* What holds of a set whenever it holds of the set less any one element.
LEMMA SubsetInduction ==
    ASSUME NEW B, IsFiniteSet(B), NEW G,
           \A left \in SUBSET B : (\A i \in left : left \ {i} \in G) => left \in G
    PROVE  \A left \in SUBSET B : left \in G
<1> DEFINE T == {m \in Nat : \A left \in SUBSET B : Cardinality(left) <= m => left \in G}
<1>1. \A left \in SUBSET B :
          /\ Cardinality(left) \in Nat
          /\ Cardinality(left) = 0 => left = {}
          /\ \A i \in left : Cardinality(left \ {i}) = Cardinality(left) - 1
  <2> SUFFICES ASSUME NEW left \in SUBSET B
               PROVE  /\ Cardinality(left) \in Nat
                      /\ Cardinality(left) = 0 => left = {}
                      /\ \A i \in left : Cardinality(left \ {i}) = Cardinality(left) - 1
    OBVIOUS
  <2>1. IsFiniteSet(left)
    BY FS_Subset
  <2> QED BY <2>1, FS_CardinalityType, FS_EmptySet, FS_RemoveElement
<1>2. 0 \in T
  <2>1. ASSUME NEW left \in SUBSET B, Cardinality(left) <= 0 PROVE left \in G
    <3>1. left = {}
      BY <1>1, <2>1
    <3> QED BY <3>1
  <2> QED BY <2>1
<1>3. ASSUME NEW m \in T PROVE m + 1 \in T
  <2>1. ASSUME NEW left \in SUBSET B, Cardinality(left) <= m + 1 PROVE left \in G
    <3>1. ASSUME NEW i \in left PROVE left \ {i} \in G
      <4>1. left \ {i} \in SUBSET B /\ Cardinality(left \ {i}) <= m
        BY <1>1, <2>1
      <4> QED BY <1>3, <4>1
    <3> QED BY <3>1
  <2> QED BY <2>1
<1>4. T = Nat
  <2> HIDE DEF T
  <2>1. T \in SUBSET Nat
    BY DEF T
  <2> QED BY <1>2, <1>3, <2>1, NatSetInduction
<1>5. ASSUME NEW left \in SUBSET B PROVE left \in G
  <2>1. Cardinality(left) \in T
    BY <1>1, <1>4
  <2>2. Cardinality(left) \in Nat
    BY <1>1
  <2> QED BY <2>1, <2>2
<1> QED BY <1>5

Residues == 0..(MAXALIGN - 1)

Least(S) == CHOOSE c \in S : \A d \in S : c <= d

LEMMA LeastFacts ==
    ASSUME NEW S \in SUBSET Nat, S # {}
    PROVE  Least(S) \in S /\ \A d \in S : Least(S) <= d
BY LeastNumber DEF Least

LEMMA LeastEqual ==
    ASSUME NEW S, NEW T, S = T
    PROVE  Least(S) = Least(T)
OBVIOUS

\* The function MinPadding is defined by.
Costs(kinds, f, left, offset) ==
    {Pad(offset, kinds[i].align) + f[left \ {i}][After(kinds, i, offset)] :
        i \in Representatives(kinds, left)}

SearchStep(kinds, f, left) ==
    [offset \in 0..(MAXALIGN - 1) |->
        IF left = {} THEN 0 ELSE Least(Costs(kinds, f, left, offset))]

IsSearch(kinds, block, f) == f = [left \in SUBSET block |-> SearchStep(kinds, f, left)]

LEMMA FixedFacts ==
    ASSUME NEW kinds \in Seq(ColumnKind), NEW i \in FixedColumns(kinds)
    PROVE  /\ i \in DOMAIN kinds
           /\ kinds[i].align \in Align
           /\ kinds[i].len \in Nat
           /\ \A offset \in Nat : /\ Pad(offset, kinds[i].align) \in Nat
                                  /\ After(kinds, i, offset) \in Residues
<1>1. i \in DOMAIN kinds /\ IsFixed(kinds[i]) /\ kinds[i] \in ColumnKind
  BY DEF FixedColumns
<1>2. kinds[i].form = "fixed"
  BY <1>1 DEF IsFixed
<1>3. kinds[i].align \in Align /\ kinds[i].len \in Length
  BY <1>1, <1>2, KindFacts
<1>4. kinds[i].len \in Nat
  BY <1>3, LengthInNat
<1>5. ASSUME NEW offset \in Nat
      PROVE  Pad(offset, kinds[i].align) \in Nat /\ After(kinds, i, offset) \in Residues
  <2>1. Pad(offset, kinds[i].align) \in Nat
    BY <1>3, PadInNat
  <2>2. offset + Pad(offset, kinds[i].align) + kinds[i].len \in Nat
    BY <1>4, <2>1
  <2>3. \A x \in Nat : x % MAXALIGN \in Residues
    BY DEF MAXALIGN, Residues
  <2> QED BY <2>1, <2>2, <2>3 DEF After
<1> QED BY <1>1, <1>3, <1>4, <1>5

\* Every class left has its representative.
LEMMA RepresentativeFacts ==
    ASSUME NEW kinds \in Seq(ColumnKind), NEW left \in SUBSET DOMAIN kinds
    PROVE  /\ Representatives(kinds, left) \subseteq left
           /\ \A i \in left : \E r \in Representatives(kinds, left) :
                  ClassOf(kinds[r]) = ClassOf(kinds[i])
<1>1. Representatives(kinds, left) \subseteq left
  BY DEF Representatives
<1>2. ASSUME NEW i \in left
      PROVE  \E r \in Representatives(kinds, left) : ClassOf(kinds[r]) = ClassOf(kinds[i])
  <2> DEFINE S == {j \in left : ClassOf(kinds[j]) = ClassOf(kinds[i])}
  <2>1. S \in SUBSET Nat /\ S # {}
    OBVIOUS
  <2>2. PICK r \in S : \A j \in S : r <= j
    <3> HIDE DEF S
    <3> QED BY <2>1, LeastNumber
  <2>3. r \in left /\ ClassOf(kinds[r]) = ClassOf(kinds[i])
    OBVIOUS
  <2>4. \A j \in left : ClassOf(kinds[r]) = ClassOf(kinds[j]) => r <= j
    BY <2>2, <2>3
  <2> QED BY <2>3, <2>4 DEF Representatives
<1> QED BY <1>1, <1>2

LEMMA CostsTyped ==
    ASSUME NEW kinds \in Seq(ColumnKind), NEW left \in SUBSET FixedColumns(kinds), left # {},
           NEW f, \A i \in left : f[left \ {i}] \in [Residues -> Nat],
           NEW offset \in Residues
    PROVE  Costs(kinds, f, left, offset) \in SUBSET Nat /\ Costs(kinds, f, left, offset) # {}
<1>1. left \in SUBSET DOMAIN kinds
  BY DEF FixedColumns
<1>2. Representatives(kinds, left) \subseteq left /\ Representatives(kinds, left) # {}
  BY <1>1, RepresentativeFacts
<1>3. offset \in Nat
  BY DEF Residues, MAXALIGN
<1>4. ASSUME NEW i \in left
      PROVE  Pad(offset, kinds[i].align) + f[left \ {i}][After(kinds, i, offset)] \in Nat
  <2>1. Pad(offset, kinds[i].align) \in Nat /\ After(kinds, i, offset) \in Residues
    BY <1>3, FixedFacts
  <2>2. f[left \ {i}][After(kinds, i, offset)] \in Nat
    BY <2>1
  <2> QED BY <2>1, <2>2
<1> QED BY <1>2, <1>4 DEF Costs

LEMMA StepTyped ==
    ASSUME NEW kinds \in Seq(ColumnKind), NEW left \in SUBSET FixedColumns(kinds),
           NEW f, \A i \in left : f[left \ {i}] \in [Residues -> Nat]
    PROVE  SearchStep(kinds, f, left) \in [Residues -> Nat]
<1>1. ASSUME NEW offset \in Residues
      PROVE  (IF left = {} THEN 0 ELSE Least(Costs(kinds, f, left, offset))) \in Nat
  <2>1. CASE left = {}
    BY <2>1
  <2>2. CASE left # {}
    <3>1. Costs(kinds, f, left, offset) \in SUBSET Nat /\ Costs(kinds, f, left, offset) # {}
      BY <2>2, CostsTyped
    <3>2. Least(Costs(kinds, f, left, offset)) \in Nat
      BY <3>1, LeastFacts
    <3> QED BY <2>2, <3>2
  <2> QED BY <2>1, <2>2
<1> QED BY <1>1 DEF SearchStep, Residues

\* A step reads the sets one element smaller only.
LEMMA StepLocal ==
    ASSUME NEW kinds, NEW left, NEW f, NEW g, \A i \in left : f[left \ {i}] = g[left \ {i}]
    PROVE  SearchStep(kinds, f, left) = SearchStep(kinds, g, left)
<1>1. Representatives(kinds, left) \subseteq left
  BY DEF Representatives
<1>2. \A offset : Costs(kinds, f, left, offset) = Costs(kinds, g, left, offset)
  BY <1>1 DEF Costs
<1>3. \A offset : Least(Costs(kinds, f, left, offset)) = Least(Costs(kinds, g, left, offset))
  BY <1>2
<1> QED BY <1>3 DEF SearchStep

LEMMA SearchExists ==
    ASSUME NEW kinds \in Seq(ColumnKind), NEW block \in SUBSET FixedColumns(kinds),
           IsFiniteSet(block)
    PROVE  \E f : IsSearch(kinds, block, f)
<1> DEFINE N == Cardinality(block) + 1
           V == [SUBSET block -> [Residues -> Nat]]
           zero == [left \in SUBSET block |-> [offset \in Residues |-> 0]]
           deeper(f) == [left \in SUBSET block |-> SearchStep(kinds, f, left)]
           step == [p \in (1..N) \X V |-> deeper(p[2])]
<1>1. N \in Nat /\ N - 1 \in Nat /\ Cardinality(block) \in Nat
  BY FS_CardinalityType
<1>2. zero \in V
  OBVIOUS
<1>3. ASSUME NEW f \in V PROVE deeper(f) \in V
  <2>1. ASSUME NEW left \in SUBSET block PROVE SearchStep(kinds, f, left) \in [Residues -> Nat]
    <3>1. left \in SUBSET FixedColumns(kinds)
      OBVIOUS
    <3>2. \A i \in left : left \ {i} \in SUBSET block
      OBVIOUS
    <3>3. \A i \in left : f[left \ {i}] \in [Residues -> Nat]
      BY <3>2
    <3> QED BY <3>1, <3>3, StepTyped
  <2> QED BY <2>1
<1>4. step \in [(1..N) \X V -> V]
  <2> HIDE DEF V, deeper
  <2> QED BY <1>3
<1>5. PICK F : IsLoop(F, N, V, zero, step)
  <2> HIDE DEF V, zero, step, N
  <2> QED BY <1>1, <1>2, <1>4, LoopExists
<1>6. F \in [0..N -> V] /\ F[0] = zero
  BY <1>5 DEF IsLoop
<1>7. ASSUME NEW m \in 0..(N - 1) PROVE F[m + 1] = deeper(F[m]) /\ F[m] \in V
  <2>1. m + 1 \in 1..N /\ m \in 0..N /\ (m + 1) - 1 = m
    BY <1>1
  <2> HIDE DEF V
  <2>2. F[m + 1] = step[<<m + 1, F[m]>>] /\ F[m] \in V
    BY <1>5, <1>6, <2>1 DEF IsLoop
  <2> HIDE DEF deeper
  <2> QED BY <2>1, <2>2
<1> DEFINE Stable(m) == \A left \in SUBSET block :
                             Cardinality(left) <= m => F[m + 1][left] = F[m][left]
           T == {m \in 0..(N - 1) : Stable(m)}
<1>8. \A left \in SUBSET block :
          /\ Cardinality(left) \in Nat
          /\ Cardinality(left) <= Cardinality(block)
          /\ Cardinality(left) = 0 => left = {}
          /\ \A i \in left : Cardinality(left \ {i}) = Cardinality(left) - 1
  <2> SUFFICES ASSUME NEW left \in SUBSET block
               PROVE  /\ Cardinality(left) \in Nat
                      /\ Cardinality(left) <= Cardinality(block)
                      /\ Cardinality(left) = 0 => left = {}
                      /\ \A i \in left : Cardinality(left \ {i}) = Cardinality(left) - 1
    OBVIOUS
  <2>1. IsFiniteSet(left) /\ Cardinality(left) <= Cardinality(block)
    BY FS_Subset
  <2> QED BY <2>1, FS_CardinalityType, FS_EmptySet, FS_RemoveElement
<1>9. 0 \in T
  <2>1. ASSUME NEW left \in SUBSET block, Cardinality(left) <= 0
        PROVE  F[1][left] = F[0][left]
    <3>1. left = {}
      BY <1>8, <2>1
    <3>2. F[0 + 1] = deeper(F[0])
      <4> HIDE DEF deeper, V, N
      <4>1. 0 \in 0..(N - 1)
        BY <1>1
      <4> QED BY <1>7, <4>1
    <3>3. F[1][left] = SearchStep(kinds, F[0], left)
      BY <3>2
    <3>4. SearchStep(kinds, F[0], left) = [offset \in Residues |-> 0]
      BY <3>1 DEF SearchStep, Residues
    <3>5. F[0][left] = [offset \in Residues |-> 0]
      BY <1>6
    <3> QED BY <3>3, <3>4, <3>5
  <2>2. Stable(0)
    BY <2>1
  <2> HIDE DEF Stable
  <2> QED BY <1>1, <2>2
<1>10. ASSUME NEW m \in 0..((N - 1) - 1), m \in T PROVE m + 1 \in T
  <2>1. m \in 0..(N - 1) /\ m + 1 \in 0..(N - 1)
    BY <1>1
  <2>2. ASSUME NEW left \in SUBSET block, Cardinality(left) <= m + 1
        PROVE  F[(m + 1) + 1][left] = F[m + 1][left]
    <3>1. ASSUME NEW i \in left PROVE F[m + 1][left \ {i}] = F[m][left \ {i}]
      <4>1. left \ {i} \in SUBSET block /\ Cardinality(left \ {i}) <= m
        BY <1>8, <2>2
      <4> QED BY <1>10, <4>1
    <3>2. SearchStep(kinds, F[m + 1], left) = SearchStep(kinds, F[m], left)
      BY <3>1, StepLocal
    <3>3. F[(m + 1) + 1] = deeper(F[m + 1]) /\ F[m + 1] = deeper(F[m])
      <4> HIDE DEF deeper, V
      <4> QED BY <1>7, <2>1
    <3>4. F[(m + 1) + 1][left] = SearchStep(kinds, F[m + 1], left)
      BY <3>3
    <3>5. F[m + 1][left] = SearchStep(kinds, F[m], left)
      BY <3>3
    <3> QED BY <3>2, <3>4, <3>5
  <2> QED BY <2>1, <2>2
<1>11. N - 1 \in T
  <2> HIDE DEF T, N
  <2> QED BY <1>1, <1>9, <1>10, CountUp
<1>12. F[(N - 1) + 1] = deeper(F[N - 1]) /\ F[N - 1] \in V
  <2> HIDE DEF deeper, V
  <2>1. N - 1 \in 0..(N - 1)
    BY <1>1
  <2> QED BY <1>7, <2>1
<1>13. \A left \in SUBSET block : F[N - 1][left] = SearchStep(kinds, F[N - 1], left)
  <2> SUFFICES ASSUME NEW left \in SUBSET block
               PROVE  F[N - 1][left] = SearchStep(kinds, F[N - 1], left)
    OBVIOUS
  <2>1. Cardinality(left) <= N - 1
    BY <1>1, <1>8
  <2>2. F[(N - 1) + 1][left] = F[N - 1][left]
    BY <1>11, <2>1
  <2>3. F[(N - 1) + 1][left] = SearchStep(kinds, F[N - 1], left)
    BY <1>12
  <2> QED BY <2>2, <2>3
<1>14. F[N - 1] = [left \in SUBSET block |-> SearchStep(kinds, F[N - 1], left)]
  BY <1>12, <1>13
<1> QED BY <1>14 DEF IsSearch

\* What the search knows of every set of columns of the block.
LEMMA SearchFacts ==
    ASSUME NEW kinds \in Seq(ColumnKind), NEW block \in SUBSET FixedColumns(kinds),
           IsFiniteSet(block), NEW left \in SUBSET block
    PROVE  /\ MinPadding(kinds, block)[left] \in [Residues -> Nat]
           /\ left = {} => \A offset \in Residues : MinPadding(kinds, block)[left][offset] = 0
           /\ left # {} => \A offset \in Residues :
                  /\ MinPadding(kinds, block)[left][offset]
                       \in Costs(kinds, MinPadding(kinds, block), left, offset)
                  /\ \A c \in Costs(kinds, MinPadding(kinds, block), left, offset) :
                         MinPadding(kinds, block)[left][offset] <= c
<1> DEFINE search == CHOOSE f : IsSearch(kinds, block, f)
<1>1. MinPadding(kinds, block) = search
  BY DEF MinPadding, IsSearch, SearchStep, Costs, Least
<1>2. IsSearch(kinds, block, search)
  BY SearchExists
<1> HIDE DEF search
<1>3. \A l \in SUBSET block : search[l] = SearchStep(kinds, search, l)
  <2>1. search = [l \in SUBSET block |-> SearchStep(kinds, search, l)]
    BY <1>2 DEF IsSearch
  <2> QED BY <2>1
<1> DEFINE G == {l \in SUBSET block : search[l] \in [Residues -> Nat]}
<1>4. ASSUME NEW l \in SUBSET block, \A i \in l : l \ {i} \in G PROVE l \in G
  <2>1. l \in SUBSET FixedColumns(kinds)
    OBVIOUS
  <2>2. \A i \in l : search[l \ {i}] \in [Residues -> Nat]
    BY <1>4
  <2>3. SearchStep(kinds, search, l) \in [Residues -> Nat]
    BY <2>1, <2>2, StepTyped
  <2> QED BY <1>3, <2>3
<1>5. \A l \in SUBSET block : l \in G
  <2> HIDE DEF G
  <2> QED BY <1>4, SubsetInduction
<1>6. search[left] \in [Residues -> Nat]
  BY <1>5
<1>7. \A offset \in Residues :
          search[left][offset] =
              IF left = {} THEN 0 ELSE Least(Costs(kinds, search, left, offset))
  BY <1>3 DEF SearchStep, Residues
<1>8. ASSUME left # {}, NEW offset \in Residues
      PROVE  /\ search[left][offset] \in Costs(kinds, search, left, offset)
             /\ \A c \in Costs(kinds, search, left, offset) : search[left][offset] <= c
  <2> DEFINE costs == Costs(kinds, search, left, offset)
  <2>1. left \in SUBSET FixedColumns(kinds)
    OBVIOUS
  <2>2. \A i \in left : search[left \ {i}] \in [Residues -> Nat]
    <3>1. \A i \in left : left \ {i} \in SUBSET block
      OBVIOUS
    <3> QED BY <1>5, <3>1
  <2>3. costs \in SUBSET Nat /\ costs # {}
    BY <1>8, <2>1, <2>2, CostsTyped
  <2>4. search[left][offset] = Least(costs)
    BY <1>7, <1>8
  <2> HIDE DEF costs
  <2>5. Least(costs) \in costs /\ \A c \in costs : Least(costs) <= c
    BY <2>3, LeastFacts
  <2> QED BY <2>4, <2>5 DEF costs
<1> QED BY <1>1, <1>6, <1>7, <1>8

-----------------------------------------------------------------------------
(* The search is right: no order of the block pads less than it says. *)

\* Two columns of one class pad alike and leave the same residue.
LEMMA SameClass ==
    ASSUME NEW kinds \in Seq(ColumnKind),
           NEW i \in FixedColumns(kinds), NEW j \in FixedColumns(kinds),
           ClassOf(kinds[i]) = ClassOf(kinds[j]), NEW offset \in Nat
    PROVE  /\ Pad(offset, kinds[i].align) = Pad(offset, kinds[j].align)
           /\ After(kinds, i, offset) = After(kinds, j, offset)
<1> DEFINE a == kinds[i].len
           b == kinds[j].len
           x == offset + Pad(offset, kinds[i].align)
<1>1. kinds[i].align = kinds[j].align /\ a % MAXALIGN = b % MAXALIGN
  BY DEF ClassOf
<1>2. a \in Nat /\ b \in Nat /\ x \in Nat
  <2>1. Pad(offset, kinds[i].align) \in Nat /\ a \in Nat /\ b \in Nat
    BY FixedFacts
  <2> QED BY <2>1
<1>3. After(kinds, i, offset) = (x + a) % MAXALIGN
  BY DEF After
<1>4. After(kinds, j, offset) = (x + b) % MAXALIGN
  BY <1>1 DEF After
<1> HIDE DEF a, b, x
<1>5. (x + a) % MAXALIGN = (x + b) % MAXALIGN
  BY <1>1, <1>2 DEF MAXALIGN
<1> QED BY <1>1, <1>3, <1>4, <1>5

\* It makes no difference which column of a class has been placed.
LEMMA ClassExchange ==
    ASSUME NEW kinds \in Seq(ColumnKind), NEW block \in SUBSET FixedColumns(kinds),
           IsFiniteSet(block), NEW U \in SUBSET block, NEW x \in U, NEW y \in U,
           ClassOf(kinds[x]) = ClassOf(kinds[y])
    PROVE  MinPadding(kinds, block)[U \ {x}] = MinPadding(kinds, block)[U \ {y}]
<1> DEFINE search == MinPadding(kinds, block)
           Alike(i, j) == ClassOf(kinds[i]) = ClassOf(kinds[j])
           G == {W \in SUBSET block :
                    \A i, j \in W : Alike(i, j) => search[W \ {i}] = search[W \ {j}]}
<1>1. ASSUME NEW W \in SUBSET block, \A k \in W : W \ {k} \in G,
             NEW i \in W, NEW j \in W, Alike(i, j), i # j, NEW offset \in Residues
      PROVE  search[W \ {j}][offset] <= search[W \ {i}][offset]
  <2>1. /\ W \ {i} \in SUBSET block /\ W \ {j} \in SUBSET block
        /\ W \ {i} # {} /\ W \ {j} # {}
        /\ W \ {i} \in SUBSET DOMAIN kinds /\ W \ {j} \in SUBSET DOMAIN kinds
    BY <1>1 DEF FixedColumns
  <2>2. search[W \ {i}][offset] \in Costs(kinds, search, W \ {i}, offset)
    BY <2>1, SearchFacts
  <2>3. PICK r \in Representatives(kinds, W \ {i}) :
            search[W \ {i}][offset] =
                Pad(offset, kinds[r].align) + search[(W \ {i}) \ {r}][After(kinds, r, offset)]
    BY <2>2 DEF Costs
  <2>4. r \in W \ {i}
    BY <2>1, RepresentativeFacts
  <2>5. PICK s \in Representatives(kinds, W \ {j}) : Alike(s, r)
    <3>1. \E k \in W \ {j} : Alike(k, r)
      <4>1. CASE r = j
        BY <1>1, <4>1
      <4>2. CASE r # j
        BY <2>4, <4>2
      <4> QED BY <4>1, <4>2
    <3>2. PICK k \in W \ {j} : Alike(k, r)
      BY <3>1
    <3>3. PICK s \in Representatives(kinds, W \ {j}) : Alike(s, k)
      BY <2>1, RepresentativeFacts
    <3> QED BY <3>2, <3>3
  <2>6. s \in W \ {j}
    BY <2>1, RepresentativeFacts
  <2>7. search[(W \ {i}) \ {r}] = search[(W \ {j}) \ {s}]
    <3> HIDE DEF search
    <3>1. W \ {j} \in G /\ W \ {r} \in G
      BY <1>1, <2>4
    <3>2. CASE r = j
      <4>1. (W \ {i}) \ {r} = (W \ {j}) \ {i}
        BY <3>2
      <4>2. i \in W \ {j} /\ Alike(i, s)
        BY <1>1, <2>5, <3>2
      <4>3. search[(W \ {j}) \ {i}] = search[(W \ {j}) \ {s}]
        BY <2>6, <3>1, <4>2
      <4> QED BY <4>1, <4>3
    <3>3. CASE r # j
      <4>1. i \in W \ {r} /\ j \in W \ {r} /\ r \in W \ {j}
        BY <1>1, <2>4, <3>3
      <4>2. search[(W \ {r}) \ {i}] = search[(W \ {r}) \ {j}]
        BY <1>1, <3>1, <4>1
      <4>3. search[(W \ {j}) \ {r}] = search[(W \ {j}) \ {s}]
        BY <2>5, <2>6, <3>1, <4>1
      <4>4. (W \ {r}) \ {i} = (W \ {i}) \ {r} /\ (W \ {r}) \ {j} = (W \ {j}) \ {r}
        OBVIOUS
      <4> QED BY <4>2, <4>3, <4>4
    <3> QED BY <3>2, <3>3
  <2>8. r \in FixedColumns(kinds) /\ s \in FixedColumns(kinds) /\ offset \in Nat
    BY <2>4, <2>6 DEF Residues, MAXALIGN
  <2>9. /\ Pad(offset, kinds[r].align) = Pad(offset, kinds[s].align)
        /\ After(kinds, r, offset) = After(kinds, s, offset)
    BY <2>5, <2>8, SameClass
  <2>10. search[W \ {i}][offset] =
             Pad(offset, kinds[s].align) + search[(W \ {j}) \ {s}][After(kinds, s, offset)]
    BY <2>3, <2>7, <2>9
  <2>11. search[W \ {i}][offset] \in Costs(kinds, search, W \ {j}, offset)
    BY <2>10 DEF Costs
  <2> QED BY <2>1, <2>11, SearchFacts
<1>2. ASSUME NEW W \in SUBSET block, \A k \in W : W \ {k} \in G PROVE W \in G
  <2> SUFFICES ASSUME NEW i \in W, NEW j \in W, Alike(i, j)
               PROVE  search[W \ {i}] = search[W \ {j}]
    OBVIOUS
  <2>1. CASE i = j
    BY <2>1
  <2>2. CASE i # j
    <3> DEFINE f == search[W \ {i}]
               g == search[W \ {j}]
    <3>1. W \ {i} \in SUBSET block /\ W \ {j} \in SUBSET block
      OBVIOUS
    <3>2. f \in [Residues -> Nat] /\ g \in [Residues -> Nat]
      BY <3>1, SearchFacts
    <3>3. \A offset \in Residues : g[offset] <= f[offset] /\ f[offset] <= g[offset]
      <4> HIDE DEF search, G
      <4>1. Alike(j, i)
        OBVIOUS
      <4> HIDE DEF Alike
      <4> QED BY <1>1, <1>2, <2>2, <4>1
    <3> HIDE DEF f, g
    <3>4. \A offset \in Residues : f[offset] = g[offset]
      BY <3>2, <3>3
    <3>5. f = g
      BY <3>2, <3>4
    <3> QED BY <3>5 DEF f, g
  <2> QED BY <2>1, <2>2
<1>3. U \in G
  <2> HIDE DEF G
  <2> QED BY <1>2, SubsetInduction
<1> QED BY <1>3

\* Placing any column next, the first of its class or not, costs at least the least.
LEMMA AnyNextBound ==
    ASSUME NEW kinds \in Seq(ColumnKind), NEW block \in SUBSET FixedColumns(kinds),
           IsFiniteSet(block), NEW left \in SUBSET block, NEW i \in left, NEW offset \in Residues
    PROVE  /\ MinPadding(kinds, block)[left][offset] \in Nat
           /\ MinPadding(kinds, block)[left \ {i}][After(kinds, i, offset)] \in Nat
           /\ MinPadding(kinds, block)[left][offset]
                <= Pad(offset, kinds[i].align)
                     + MinPadding(kinds, block)[left \ {i}][After(kinds, i, offset)]
<1> DEFINE search == MinPadding(kinds, block)
<1>1. i \in FixedColumns(kinds) /\ offset \in Nat /\ left \in SUBSET DOMAIN kinds
  BY DEF FixedColumns, Residues, MAXALIGN
<1>2. After(kinds, i, offset) \in Residues
  BY <1>1, FixedFacts
<1>3. left \ {i} \in SUBSET block
  OBVIOUS
<1>4. search[left] \in [Residues -> Nat] /\ search[left \ {i}] \in [Residues -> Nat]
  BY <1>3, SearchFacts
<1>5. PICK r \in Representatives(kinds, left) : ClassOf(kinds[r]) = ClassOf(kinds[i])
  BY <1>1, RepresentativeFacts
<1>6. r \in left /\ r \in FixedColumns(kinds)
  BY <1>1, RepresentativeFacts
<1>7. Pad(offset, kinds[r].align) + search[left \ {r}][After(kinds, r, offset)]
        \in Costs(kinds, search, left, offset)
  BY DEF Costs
<1>8. search[left][offset]
        <= Pad(offset, kinds[r].align) + search[left \ {r}][After(kinds, r, offset)]
  BY <1>6, <1>7, SearchFacts
<1>9. search[left \ {r}] = search[left \ {i}]
  <2>1. \A x, y \in left : ClassOf(kinds[x]) = ClassOf(kinds[y])
                            => search[left \ {x}] = search[left \ {y}]
    BY ClassExchange
  <2> HIDE DEF search
  <2> QED BY <1>5, <1>6, <2>1
<1>10. /\ Pad(offset, kinds[r].align) = Pad(offset, kinds[i].align)
       /\ After(kinds, r, offset) = After(kinds, i, offset)
  BY <1>1, <1>5, <1>6, SameClass
<1> QED BY <1>2, <1>4, <1>8, <1>9, <1>10

\* Where all columns are fixed, the walk of an order sees the residues of the search.
LEMMA WalkResidue ==
    ASSUME NEW kinds \in Seq(ColumnKind), NEW i \in FixedColumns(kinds), NEW end \in Nat
    PROVE  /\ PadBefore(kinds[i], end) = Pad(end % MAXALIGN, kinds[i].align)
           /\ end % MAXALIGN \in Residues
           /\ (end + PadBefore(kinds[i], end) + SizeOf(kinds[i])) % MAXALIGN
                = After(kinds, i, end % MAXALIGN)
<1>1. IsFixed(kinds[i]) /\ kinds[i].align \in Align /\ kinds[i].len \in Nat
  BY FixedFacts DEF FixedColumns
<1>2. PadBefore(kinds[i], end) = Pad(end, kinds[i].align) /\ SizeOf(kinds[i]) = kinds[i].len
  BY <1>1 DEF PadBefore, Aligns, SizeOf
<1>3. Pad(end % MAXALIGN, kinds[i].align) = Pad(end, kinds[i].align)
  BY <1>1, PadOfResidue
<1>4. Pad(end, kinds[i].align) \in Nat
  BY <1>1, PadInNat
<1>5. \A p, l \in Nat : (end + p + l) % MAXALIGN = ((end % MAXALIGN) + p + l) % MAXALIGN
  BY DEF MAXALIGN
<1>6. end % MAXALIGN \in Residues
  BY DEF MAXALIGN, Residues
<1>7. After(kinds, i, end % MAXALIGN)
        = ((end % MAXALIGN) + Pad(end, kinds[i].align) + kinds[i].len) % MAXALIGN
  BY <1>3 DEF After
<1> QED BY <1>1, <1>2, <1>3, <1>4, <1>5, <1>6, <1>7

\* No order of columns that are all fixed pads less than the search says.
THEOREM SearchIsLowerBound ==
    ASSUME NEW kinds \in Seq(ColumnKind), FixedColumns(kinds) = DOMAIN kinds,
           NEW order \in OrdersOf(Len(kinds))
    PROVE  MinPadding(kinds, DOMAIN kinds)[DOMAIN kinds][0] <= Padding(Ordered(kinds, order))
<1> DEFINE n == Len(kinds)
           block == DOMAIN kinds
           search == MinPadding(kinds, block)
           new == Ordered(kinds, order)
           end == Ends(new)
           left(m) == block \ FirstOf(order, m)
<1>1. n \in Nat /\ block = 1..n /\ IsFiniteSet(block) /\ block \in SUBSET FixedColumns(kinds)
  <2>1. n \in Nat /\ block = 1..n
    OBVIOUS
  <2> QED BY <2>1, FS_Interval
<1>2. order \in [1..n -> 1..n]
  BY DEF OrdersOf
<1>3. new \in Seq(ColumnKind) /\ Len(new) = n /\ \A p \in 1..n : new[p] = kinds[order[p]]
  BY <1>2, OrderedFacts
<1> HIDE DEF new
<1>4. PICK total \in [0..n -> Nat] :
          /\ total[0] = 0
          /\ \A i \in 1..n : total[i] = total[i - 1] + PadBefore(new[i], end[i - 1])
          /\ Padding(new) = total[n]
  BY <1>3, PaddingFacts
<1>5. /\ end \in [0..n -> Nat]
      /\ end[0] = 0
      /\ \A i \in 1..n : end[i] = end[i - 1] + PadBefore(new[i], end[i - 1]) + SizeOf(new[i])
  BY <1>3, EndsFacts
<1> HIDE DEF end, block, n, search
<1> DEFINE T == {m \in 0..n :
                    search[block][0] <= total[m] + search[left(m)][end[m] % MAXALIGN]}
<1>6. search[block] \in [Residues -> Nat] /\ 0 \in Residues
  BY <1>1, SearchFacts DEF Residues, MAXALIGN, search
<1>7. 0 \in T
  <2>1. left(0) = block
    BY DEF FirstOf
  <2>2. end[0] % MAXALIGN = 0
    BY <1>5 DEF MAXALIGN
  <2>3. search[block][0] <= total[0] + search[left(0)][end[0] % MAXALIGN]
    <3>1. search[block][0] \in Nat /\ total[0] = 0
      BY <1>4, <1>6
    <3>2. search[block][0] <= total[0] + search[block][0]
      BY <3>1
    <3> QED BY <2>1, <2>2, <3>2
  <2> QED BY <1>1, <2>3
<1>8. ASSUME NEW m \in 0..(n - 1), m \in T PROVE m + 1 \in T
  <2> DEFINE i == order[m + 1]
             o == end[m] % MAXALIGN
  <2>1. m + 1 \in 1..n /\ m + 1 \in 0..n /\ m \in 0..n /\ (m + 1) - 1 = m
    BY <1>1
  <2>2. /\ i \in 1..n
        /\ i \notin FirstOf(order, m)
        /\ FirstOf(order, m + 1) = FirstOf(order, m) \cup {i}
    BY <1>1, NextPlaced DEF n
  <2>3. i \in left(m) /\ left(m) \in SUBSET block /\ left(m + 1) = left(m) \ {i}
    BY <1>1, <2>2
  <2>4. i \in FixedColumns(kinds) /\ new[m + 1] = kinds[i]
    BY <1>1, <1>3, <2>1, <2>2
  <2>5. end[m] \in Nat /\ total[m] \in Nat
    BY <1>4, <1>5, <2>1
  <2> HIDE DEF i, left
  <2>6. /\ PadBefore(kinds[i], end[m]) = Pad(o, kinds[i].align)
        /\ o \in Residues
        /\ (end[m] + PadBefore(kinds[i], end[m]) + SizeOf(kinds[i])) % MAXALIGN
             = After(kinds, i, o)
    BY <2>4, <2>5, WalkResidue
  <2>7. total[m + 1] = total[m] + Pad(o, kinds[i].align)
    BY <1>4, <2>1, <2>4, <2>6
  <2>8. end[m + 1] % MAXALIGN = After(kinds, i, o)
    BY <1>5, <2>1, <2>4, <2>6
  <2> HIDE DEF o
  <2>9. /\ search[left(m)][o] \in Nat
        /\ search[left(m) \ {i}][After(kinds, i, o)] \in Nat
        /\ search[left(m)][o]
             <= Pad(o, kinds[i].align) + search[left(m) \ {i}][After(kinds, i, o)]
    BY <1>1, <2>3, <2>6, AnyNextBound DEF search
  <2>10. search[block][0] <= total[m] + search[left(m)][o]
    BY <1>8 DEF o
  <2>11. Pad(o, kinds[i].align) \in Nat /\ search[block][0] \in Nat
    <3>1. o \in Nat
      BY <2>5 DEF o, MAXALIGN
    <3> QED BY <1>6, <2>4, <3>1, FixedFacts
  <2>12. search[block][0] <= total[m + 1] + search[left(m) \ {i}][After(kinds, i, o)]
    BY <2>5, <2>7, <2>9, <2>10, <2>11
  <2>13. search[block][0] <= total[m + 1] + search[left(m + 1)][end[m + 1] % MAXALIGN]
    BY <2>3, <2>8, <2>12
  <2> QED BY <2>1, <2>13
<1>9. n \in T
  <2> HIDE DEF T
  <2> QED BY <1>1, <1>7, <1>8, CountUp
<1>10. left(n) = {}
  BY <1>1, OrderIsOnto DEF FirstOf, n
<1>11. end[n] % MAXALIGN \in Residues
  <2>1. end[n] \in Nat
    BY <1>1, <1>5
  <2> QED BY <2>1 DEF Residues, MAXALIGN
<1>12. search[{}][end[n] % MAXALIGN] = 0
  <2>1. {} \in SUBSET block
    OBVIOUS
  <2> QED BY <1>1, <1>11, <2>1, SearchFacts DEF search
<1>13. search[block][0] <= total[n] + 0
  BY <1>9, <1>10, <1>12
<1>14. total[n] \in Nat
  BY <1>1, <1>4
<1> QED BY <1>4, <1>13, <1>14 DEF search, block, new

-----------------------------------------------------------------------------
(* One more column at the end of the walk. *)

LEMMA WalkAppend ==
    ASSUME NEW ks \in Seq(ColumnKind), NEW kind \in ColumnKind
    PROVE  /\ ScenarioEnd(ks) \in Nat
           /\ Padding(ks) \in Nat
           /\ ScenarioEnd(Append(ks, kind))
                = ScenarioEnd(ks) + PadBefore(kind, ScenarioEnd(ks)) + SizeOf(kind)
           /\ Padding(Append(ks, kind)) = Padding(ks) + PadBefore(kind, ScenarioEnd(ks))
<1> DEFINE n == Len(ks)
           longer == Append(ks, kind)
           end == Ends(ks)
           endL == Ends(longer)
<1>1. /\ n \in Nat /\ longer \in Seq(ColumnKind) /\ Len(longer) = n + 1
      /\ longer[n + 1] = kind
      /\ \A i \in 1..n : longer[i] = ks[i] /\ ks[i] \in ColumnKind
  OBVIOUS
<1> HIDE DEF longer
<1>2. PICK total \in [0..n -> Nat] :
          /\ total[0] = 0
          /\ \A i \in 1..n : total[i] = total[i - 1] + PadBefore(ks[i], end[i - 1])
          /\ Padding(ks) = total[n]
  BY PaddingFacts
<1>3. PICK totalL \in [0..(n + 1) -> Nat] :
          /\ totalL[0] = 0
          /\ \A i \in 1..(n + 1) : totalL[i] = totalL[i - 1] + PadBefore(longer[i], endL[i - 1])
          /\ Padding(longer) = totalL[n + 1]
  BY <1>1, PaddingFacts
<1>4. /\ end \in [0..n -> Nat]
      /\ end[0] = 0
      /\ \A i \in 1..n : end[i] = end[i - 1] + PadBefore(ks[i], end[i - 1]) + SizeOf(ks[i])
  BY EndsFacts
<1>5. /\ endL \in [0..(n + 1) -> Nat]
      /\ endL[0] = 0
      /\ \A i \in 1..(n + 1) :
             endL[i] = endL[i - 1] + PadBefore(longer[i], endL[i - 1]) + SizeOf(longer[i])
  BY <1>1, EndsFacts
<1>6. ScenarioEnd(ks) = end[n] /\ ScenarioEnd(longer) = endL[n + 1]
  BY <1>1 DEF ScenarioEnd
<1> HIDE DEF end, endL, n
<1> DEFINE T == {m \in 0..n : endL[m] = end[m] /\ totalL[m] = total[m]}
<1>7. 0 \in T
  BY <1>1, <1>2, <1>3, <1>4, <1>5
<1>8. ASSUME NEW m \in 0..(n - 1), m \in T PROVE m + 1 \in T
  <2>1. /\ m + 1 \in 1..n /\ m + 1 \in 1..(n + 1) /\ m + 1 \in 0..n /\ (m + 1) - 1 = m
        /\ endL[m] = end[m] /\ totalL[m] = total[m]
    BY <1>1, <1>8
  <2>2. longer[m + 1] = ks[m + 1]
    BY <1>1, <2>1
  <2>3. endL[m + 1] = end[m + 1]
    BY <1>4, <1>5, <2>1, <2>2
  <2>4. totalL[m + 1] = total[m + 1]
    BY <1>2, <1>3, <2>1, <2>2
  <2> QED BY <2>1, <2>3, <2>4
<1>9. n \in T
  <2> HIDE DEF T
  <2> QED BY <1>1, <1>7, <1>8, CountUp
<1>10. n + 1 \in 1..(n + 1) /\ (n + 1) - 1 = n /\ n \in 0..n
  BY <1>1
<1>11. endL[n + 1] = end[n] + PadBefore(kind, end[n]) + SizeOf(kind)
  BY <1>1, <1>5, <1>9, <1>10
<1>12. totalL[n + 1] = total[n] + PadBefore(kind, end[n])
  BY <1>1, <1>3, <1>9, <1>10
<1>13. end[n] \in Nat /\ total[n] \in Nat
  BY <1>2, <1>4, <1>10
<1> QED BY <1>2, <1>3, <1>6, <1>11, <1>12, <1>13 DEF longer

LEMMA EmptyWalk ==
    ScenarioEnd(<< >>) = 0 /\ Padding(<< >>) = 0
<1> DEFINE none == << >>
<1>1. none \in Seq(ColumnKind) /\ Len(none) = 0
  OBVIOUS
<1> HIDE DEF none
<1>2. Ends(none)[0] = 0
  BY <1>1, EndsFacts
<1>3. Padding(none) = 0
  BY <1>1, PaddingFacts
<1> QED BY <1>1, <1>2, <1>3 DEF ScenarioEnd, none

LEMMA OrderedAppend ==
    ASSUME NEW kinds \in Seq(ColumnKind), NEW placed \in Seq(DOMAIN kinds),
           NEW next \in DOMAIN kinds
    PROVE  /\ Ordered(kinds, placed) \in Seq(ColumnKind)
           /\ Ordered(kinds, Append(placed, next)) = Append(Ordered(kinds, placed), kinds[next])
<1> DEFINE n == Len(placed)
           longer == Append(placed, next)
           some == Ordered(kinds, placed)
           more == Ordered(kinds, longer)
<1>1. /\ n \in Nat /\ DOMAIN placed = 1..n /\ DOMAIN longer = 1..(n + 1)
      /\ longer[n + 1] = next /\ \A i \in 1..n : longer[i] = placed[i] /\ placed[i] \in DOMAIN kinds
  OBVIOUS
<1>2. \A i \in DOMAIN kinds : kinds[i] \in ColumnKind
  OBVIOUS
<1> HIDE DEF longer
<1>3. some = [p \in 1..n |-> kinds[placed[p]]] /\ more = [p \in 1..(n + 1) |-> kinds[longer[p]]]
  BY <1>1 DEF Ordered
<1> HIDE DEF some, more, n
<1>4. some \in Seq(ColumnKind) /\ Len(some) = n
  <2>1. some \in [1..n -> ColumnKind]
    BY <1>1, <1>2, <1>3
  <2> QED BY <1>1, <2>1
<1>5. more = Append(some, kinds[next])
  <2> DEFINE new == Append(some, kinds[next])
  <2>1. new \in Seq(ColumnKind) /\ Len(new) = n + 1 /\ new[n + 1] = kinds[next]
        /\ \A i \in 1..n : new[i] = some[i]
    BY <1>1, <1>2, <1>4
  <2> HIDE DEF new
  <2>2. DOMAIN new = 1..(n + 1) /\ DOMAIN more = 1..(n + 1)
    BY <1>1, <1>3, <2>1
  <2>3. \A i \in 1..(n + 1) : new[i] = more[i]
    BY <1>1, <1>3, <2>1
  <2>4. new = more
    <3>1. new = [i \in 1..(n + 1) |-> new[i]] /\ more = [i \in 1..(n + 1) |-> more[i]]
      BY <1>3, <2>1, <2>2
    <3> QED BY <2>3, <3>1
  <2> QED BY <2>4 DEF new
<1> QED BY <1>4, <1>5 DEF some, more, longer

-----------------------------------------------------------------------------
(* The rebuilt block: every fixed column once, padding what the search says. *)

LEMMA FixedColumnsFinite ==
    ASSUME NEW kinds \in Seq(ColumnKind)
    PROVE  /\ FixedColumns(kinds) \in SUBSET DOMAIN kinds
           /\ IsFiniteSet(FixedColumns(kinds))
           /\ Cardinality(FixedColumns(kinds)) \in 0..Len(kinds)
<1>1. FixedColumns(kinds) \in SUBSET (1..Len(kinds)) /\ Len(kinds) \in Nat
  BY DEF FixedColumns
<1>2. IsFiniteSet(1..Len(kinds)) /\ Cardinality(1..Len(kinds)) = Len(kinds)
  <2>1. \A m \in Nat : IsFiniteSet(1..m) /\ Cardinality(1..m) = m
    BY FS_Interval
  <2> QED BY <1>1, <2>1
<1>3. IsFiniteSet(FixedColumns(kinds)) /\ Cardinality(FixedColumns(kinds)) <= Len(kinds)
  BY <1>1, <1>2, FS_Subset
<1>4. Cardinality(FixedColumns(kinds)) \in Nat
  BY <1>3, FS_CardinalityType
<1> QED BY <1>1, <1>3, <1>4

\* Every column of the block has a rank among the classes.
LEMMA ClassRankTyped ==
    ASSUME NEW kinds \in Seq(ColumnKind), NEW i \in FixedColumns(kinds)
    PROVE  ClassRank(kinds, SortedOrder(kinds), FixedColumns(kinds), i) \in Nat
<1> DEFINE sorted == SortedOrder(kinds)
           B == FixedColumns(kinds)
           Alike(j) == ClassOf(kinds[j]) = ClassOf(kinds[i])
           S == {p \in 1..Len(kinds) : sorted[p] \in B /\ Alike(sorted[p])}
           First(p) == /\ sorted[p] \in B
                       /\ Alike(sorted[p])
                       /\ \A q \in 1..(p - 1) : ~Alike(sorted[q])
<1>1. /\ sorted \in [1..Len(kinds) -> 1..Len(kinds)]
      /\ \A p \in 1..Len(kinds) : p <= Cardinality(B) <=> sorted[p] \in B
      /\ Len(kinds) \in Nat /\ Cardinality(B) \in Nat /\ i \in 1..Len(kinds)
  BY SortedFacts, FixedColumnsFinite DEF OrdersOf
<1>2. \E p \in 1..Len(kinds) : sorted[p] = i
  <2>1. {sorted[p] : p \in 1..Len(kinds)} = 1..Len(kinds)
    BY <1>1, SortedFacts, OrderIsOnto
  <2> HIDE DEF sorted
  <2> QED BY <1>1, <2>1
<1> HIDE DEF sorted, B
<1>3. S \in SUBSET Nat /\ S # {}
  BY <1>1, <1>2 DEF B
<1>4. PICK p \in S : \A q \in S : p <= q
  <2> HIDE DEF S
  <2> QED BY <1>3, LeastNumber
<1>5. p \in 1..Len(kinds) /\ sorted[p] \in B /\ Alike(sorted[p])
  OBVIOUS
<1>6. ASSUME NEW q \in 1..(p - 1) PROVE ~Alike(sorted[q])
  <2>1. q \in 1..Len(kinds) /\ q <= Cardinality(B) /\ q < p
    BY <1>1, <1>5
  <2>2. sorted[q] \in B
    BY <1>1, <2>1
  <2>3. q \notin S
    BY <1>4, <1>5, <2>1
  <2> QED BY <2>1, <2>2, <2>3
<1>7. p \in DOMAIN sorted /\ First(p)
  BY <1>1, <1>5, <1>6
<1>8. \E r \in DOMAIN sorted : First(r)
  BY <1>7
<1>9. ClassRank(kinds, sorted, B, i) = CHOOSE r \in DOMAIN sorted : First(r)
  BY DEF ClassRank
<1>10. ClassRank(kinds, sorted, B, i) \in DOMAIN sorted
  <2> HIDE DEF First
  <2> QED BY <1>8, <1>9
<1>11. DOMAIN sorted \subseteq Nat
  BY <1>1
<1> QED BY <1>10, <1>11 DEF sorted, B

\* The column the rebuilding takes next, from `before`.
Taken(kinds, before) ==
    FirstRanked(kinds, SortedOrder(kinds), FixedColumns(kinds),
                OnTarget(kinds, MinPadding(kinds, FixedColumns(kinds)), before))

LEMMA TakenFacts ==
    ASSUME NEW kinds \in Seq(ColumnKind), NEW before,
           before.left \in SUBSET FixedColumns(kinds), before.left # {},
           before.offset \in Residues
    PROVE  /\ Taken(kinds, before) \in before.left
           /\ Pad(before.offset, kinds[Taken(kinds, before)].align)
                + MinPadding(kinds, FixedColumns(kinds))[before.left \ {Taken(kinds, before)}]
                      [After(kinds, Taken(kinds, before), before.offset)]
                = MinPadding(kinds, FixedColumns(kinds))[before.left][before.offset]
<1> DEFINE B == FixedColumns(kinds)
           sorted == SortedOrder(kinds)
           search == MinPadding(kinds, B)
           targets == OnTarget(kinds, search, before)
           Rank(i) == ClassRank(kinds, sorted, B, i)
           S == {Rank(i) : i \in targets}
<1>1. IsFiniteSet(B) /\ before.left \in SUBSET DOMAIN kinds
  BY FixedColumnsFinite
<1>2. search[before.left][before.offset] \in Costs(kinds, search, before.left, before.offset)
  BY <1>1, SearchFacts
<1>3. targets # {}
  BY <1>2 DEF Costs, OnTarget
<1>4. targets \subseteq Representatives(kinds, before.left)
  BY DEF OnTarget
<1>5. targets \subseteq before.left
  BY <1>1, <1>4, RepresentativeFacts
<1>6. \A i \in targets : Rank(i) \in Nat
  <2>1. \A i \in B : Rank(i) \in Nat
    BY ClassRankTyped
  <2> HIDE DEF Rank, targets
  <2> QED BY <1>5, <2>1
<1>7. \E i \in targets : \A j \in targets : Rank(i) <= Rank(j)
  <2> HIDE DEF Rank, targets
  <2>1. S \in SUBSET Nat /\ S # {}
    BY <1>3, <1>6
  <2>2. PICK c \in S : \A d \in S : c <= d
    <3> HIDE DEF S
    <3> QED BY <2>1, LeastNumber
  <2> QED BY <2>2
<1>8. Taken(kinds, before) = CHOOSE i \in targets : \A j \in targets : Rank(i) <= Rank(j)
  BY DEF Taken, FirstRanked
<1>9. Taken(kinds, before) \in targets
  <2> HIDE DEF Rank, targets
  <2> QED BY <1>7, <1>8
<1> QED BY <1>5, <1>9 DEF OnTarget

\* The function RefinedBlock is defined by.
StartOf(kinds) == [left |-> FixedColumns(kinds), offset |-> 0, placed |-> << >>]

BuildStep(kinds, F, n) ==
    IF n = 0 THEN StartOf(kinds) ELSE Place(kinds, F[n - 1], Taken(kinds, F[n - 1]))

IsBuild(kinds, F) ==
    F = [n \in 0..Cardinality(FixedColumns(kinds)) |-> BuildStep(kinds, F, n)]

BuildState(kinds) ==
    [left : SUBSET FixedColumns(kinds), offset : Residues, placed : Seq(FixedColumns(kinds))]

\* The rebuilding after n columns: they are the ones no longer left, each once, and with
\* the least the search promises for the others they pad as little as it promised at first.
Built(kinds, n, b) ==
    /\ b \in BuildState(kinds)
    /\ Cardinality(b.left) = Cardinality(FixedColumns(kinds)) - n
    /\ Len(b.placed) = n
    /\ Elements(b.placed) = FixedColumns(kinds) \ b.left
    /\ Injective(b.placed)
    /\ b.offset = ScenarioEnd(Ordered(kinds, b.placed)) % MAXALIGN
    /\ Padding(Ordered(kinds, b.placed))
         + MinPadding(kinds, FixedColumns(kinds))[b.left][b.offset]
       = MinPadding(kinds, FixedColumns(kinds))[FixedColumns(kinds)][0]

LEMMA StartBuilt ==
    ASSUME NEW kinds \in Seq(ColumnKind)
    PROVE  Built(kinds, 0, StartOf(kinds))
<1> DEFINE B == FixedColumns(kinds)
           b == StartOf(kinds)
           search == MinPadding(kinds, B)
<1>1. b.left = B /\ b.offset = 0 /\ b.placed = << >>
  BY DEF StartOf
<1>2. << >> \in Seq(B) /\ Len(<< >>) = 0 /\ Elements(<< >>) = {} /\ Injective(<< >>)
  BY DEF Elements, Injective
<1>3. b \in BuildState(kinds)
  BY <1>2 DEF StartOf, BuildState, Residues, MAXALIGN
<1>4. Ordered(kinds, << >>) = << >>
  BY DEF Ordered
<1>5. search[B][0] \in Nat
  <2>1. search[B] \in [Residues -> Nat] /\ 0 \in Residues
    BY FixedColumnsFinite, SearchFacts DEF Residues, MAXALIGN
  <2> QED BY <2>1
<1>6. Cardinality(B) \in Nat
  BY FixedColumnsFinite
<1> HIDE DEF b, B, search
<1>7. Cardinality(b.left) = Cardinality(B) - 0 /\ Len(b.placed) = 0
  BY <1>1, <1>2, <1>6
<1>8. Elements(b.placed) = B \ b.left /\ Injective(b.placed)
  BY <1>1, <1>2
<1>9. Ordered(kinds, b.placed) = << >>
  BY <1>1, <1>4
<1>10. b.offset = ScenarioEnd(Ordered(kinds, b.placed)) % MAXALIGN
  BY <1>1, <1>9, EmptyWalk DEF MAXALIGN
<1>11. Padding(Ordered(kinds, b.placed)) + search[b.left][b.offset] = search[B][0]
  BY <1>1, <1>5, <1>9, EmptyWalk
<1> QED BY <1>3, <1>7, <1>8, <1>10, <1>11 DEF Built, b, B, search

LEMMA BuiltStep ==
    ASSUME NEW kinds \in Seq(ColumnKind), NEW n \in 0..(Cardinality(FixedColumns(kinds)) - 1),
           NEW b, Built(kinds, n, b)
    PROVE  Built(kinds, n + 1, Place(kinds, b, Taken(kinds, b)))
<1> DEFINE B == FixedColumns(kinds)
           k == Cardinality(B)
           search == MinPadding(kinds, B)
           next == Taken(kinds, b)
           c == Place(kinds, b, next)
<1>1. k \in Nat /\ IsFiniteSet(B) /\ B \in SUBSET DOMAIN kinds
  BY FixedColumnsFinite
<1>2. /\ b \in BuildState(kinds)
      /\ Cardinality(b.left) = k - n
      /\ Len(b.placed) = n
      /\ Elements(b.placed) = B \ b.left
      /\ Injective(b.placed)
      /\ b.offset = ScenarioEnd(Ordered(kinds, b.placed)) % MAXALIGN
      /\ Padding(Ordered(kinds, b.placed)) + search[b.left][b.offset] = search[B][0]
  BY DEF Built
<1>3. b.left \in SUBSET B /\ b.offset \in Residues /\ b.placed \in Seq(B)
  BY <1>2 DEF BuildState
<1>4. IsFiniteSet(b.left) /\ b.left # {}
  <2>1. IsFiniteSet(b.left)
    BY <1>1, <1>3, FS_Subset
  <2>2. Cardinality(b.left) # 0
    BY <1>1, <1>2
  <2> QED BY <2>1, <2>2, FS_EmptySet
<1>5. /\ next \in b.left
      /\ Pad(b.offset, kinds[next].align)
           + search[b.left \ {next}][After(kinds, next, b.offset)]
           = search[b.left][b.offset]
  BY <1>3, <1>4, TakenFacts
<1> HIDE DEF next, search
<1>6. next \in B /\ next \in DOMAIN kinds /\ kinds[next] \in ColumnKind /\ b.offset \in Nat
  BY <1>1, <1>3, <1>5 DEF Residues, MAXALIGN
<1>7. Pad(b.offset, kinds[next].align) \in Nat /\ After(kinds, next, b.offset) \in Residues
  BY <1>6, FixedFacts
<1>8. /\ c.left = b.left \ {next}
      /\ c.offset = After(kinds, next, b.offset)
      /\ c.placed = Append(b.placed, next)
      /\ c = [left |-> c.left, offset |-> c.offset, placed |-> c.placed]
  BY DEF Place
<1>9. Append(b.placed, next) \in Seq(B) /\ Len(Append(b.placed, next)) = n + 1
  BY <1>2, <1>3, <1>6
<1>10. Cardinality(b.left \ {next}) = k - (n + 1)
  <2>1. Cardinality(b.left \ {next}) = Cardinality(b.left) - 1
    BY <1>4, <1>5, FS_RemoveElement
  <2> QED BY <1>1, <1>2, <2>1
<1>11. Elements(Append(b.placed, next)) = Elements(b.placed) \cup {next}
  BY <1>3, <1>6, AppendElements
<1>12. next \notin Elements(b.placed)
  BY <1>2, <1>5
<1>13. Injective(Append(b.placed, next))
  BY <1>2, <1>3, <1>6, <1>12, AppendInjective
<1> HIDE DEF c, B, k
<1>14. c \in BuildState(kinds)
  <2>1. c.left \in SUBSET B /\ c.offset \in Residues /\ c.placed \in Seq(B)
    BY <1>3, <1>7, <1>8, <1>9
  <2> QED BY <1>8, <2>1 DEF BuildState, B
<1>15. Elements(c.placed) = B \ c.left
  BY <1>2, <1>3, <1>5, <1>6, <1>8, <1>11
<1> DEFINE some == Ordered(kinds, b.placed)
           more == Ordered(kinds, c.placed)
<1>16. some \in Seq(ColumnKind) /\ more = Append(some, kinds[next])
  <2>1. b.placed \in Seq(DOMAIN kinds)
    BY <1>1, <1>3
  <2> QED BY <1>6, <1>8, <2>1, OrderedAppend
<1> HIDE DEF some, more
<1>17. /\ ScenarioEnd(some) \in Nat
       /\ Padding(some) \in Nat
       /\ ScenarioEnd(more)
            = ScenarioEnd(some) + PadBefore(kinds[next], ScenarioEnd(some)) + SizeOf(kinds[next])
       /\ Padding(more) = Padding(some) + PadBefore(kinds[next], ScenarioEnd(some))
  BY <1>6, <1>16, WalkAppend
<1>18. b.offset = ScenarioEnd(some) % MAXALIGN
  BY <1>2 DEF some
<1>19. /\ PadBefore(kinds[next], ScenarioEnd(some)) = Pad(b.offset, kinds[next].align)
       /\ ScenarioEnd(more) % MAXALIGN = After(kinds, next, b.offset)
  BY <1>6, <1>17, <1>18, WalkResidue DEF B
<1>20. c.offset = ScenarioEnd(more) % MAXALIGN
  BY <1>8, <1>19
<1>21. search[c.left][c.offset] \in Nat
  <2>1. c.left \in SUBSET B /\ c.offset \in Residues
    BY <1>3, <1>7, <1>8
  <2>2. search[c.left] \in [Residues -> Nat]
    BY <1>1, <2>1, SearchFacts DEF search, B
  <2> QED BY <2>1, <2>2
<1>22. Padding(more) + search[c.left][c.offset] = search[B][0]
  <2>1. Padding(some) + search[b.left][b.offset] = search[B][0]
    BY <1>2 DEF some
  <2>2. search[b.left][b.offset] = Pad(b.offset, kinds[next].align) + search[c.left][c.offset]
    BY <1>5, <1>8
  <2>3. Padding(more) = Padding(some) + Pad(b.offset, kinds[next].align)
    BY <1>17, <1>19
  <2> QED BY <1>7, <1>17, <1>21, <2>1, <2>2, <2>3
<1>23. Cardinality(c.left) = k - (n + 1) /\ Len(c.placed) = n + 1 /\ Injective(c.placed)
  BY <1>8, <1>9, <1>10, <1>13
<1>24. Built(kinds, n + 1, c)
  BY <1>14, <1>15, <1>20, <1>22, <1>23 DEF Built, B, k, search, more
<1> QED BY <1>24 DEF c, next

LEMMA StillLeft ==
    ASSUME NEW k \in Nat, NEW m \in 0..(k - 1), NEW left, Cardinality(left) = k - m
    PROVE  left # {}
<1>1. Cardinality(left) # 0
  OBVIOUS
<1>2. Cardinality({}) = 0
  BY FS_EmptySet
<1> QED BY <1>1, <1>2

\* Any sequence of states that rebuilds as long as columns are left, rebuilds.
LEMMA BuildingIsBuilt ==
    ASSUME NEW kinds \in Seq(ColumnKind), NEW F, F[0] = StartOf(kinds),
           \A m \in 1..Cardinality(FixedColumns(kinds)) :
               F[m - 1].left # {} => F[m] = Place(kinds, F[m - 1], Taken(kinds, F[m - 1])),
           NEW n \in 0..Cardinality(FixedColumns(kinds))
    PROVE  Built(kinds, n, F[n])
<1> DEFINE k == Cardinality(FixedColumns(kinds))
           T == {m \in 0..k : Built(kinds, m, F[m])}
<1>1. k \in Nat /\ n \in Nat
  BY FixedColumnsFinite
<1>2. 0 \in T
  <2>1. Built(kinds, 0, F[0])
    BY StartBuilt
  <2> QED BY <1>1, <2>1
<1>3. ASSUME NEW m \in 0..(n - 1), m \in T PROVE m + 1 \in T
  <2>1. m \in 0..(k - 1) /\ m + 1 \in 1..k /\ m + 1 \in 0..k /\ (m + 1) - 1 = m
    BY <1>1
  <2>2. Built(kinds, m, F[m])
    BY <1>3
  <2>3. F[m].left # {}
    <3>1. Cardinality(F[m].left) = k - m
      BY <2>2 DEF Built
    <3> QED BY <1>1, <2>1, <3>1, StillLeft
  <2>4. F[m + 1] = Place(kinds, F[m], Taken(kinds, F[m]))
    BY <2>1, <2>3
  <2>5. Built(kinds, m + 1, F[m + 1])
    BY <2>1, <2>2, <2>4, BuiltStep
  <2> QED BY <2>1, <2>5
<1>4. n \in T
  <2> HIDE DEF T
  <2> QED BY <1>1, <1>2, <1>3, CountUp
<1> QED BY <1>4

LEMMA BuildExists ==
    ASSUME NEW kinds \in Seq(ColumnKind)
    PROVE  \E F : IsBuild(kinds, F)
<1> DEFINE k == Cardinality(FixedColumns(kinds))
           V == BuildState(kinds)
           onward(b) == IF b.left # {} THEN Place(kinds, b, Taken(kinds, b)) ELSE b
           step == [p \in (1..k) \X V |-> onward(p[2])]
<1>1. k \in Nat
  BY FixedColumnsFinite
<1>2. StartOf(kinds) \in V
  BY StartBuilt DEF Built
<1>3. ASSUME NEW b \in V PROVE onward(b) \in V
  <2> DEFINE next == Taken(kinds, b)
  <2>1. /\ b.left \in SUBSET FixedColumns(kinds) /\ b.offset \in Residues
        /\ b.placed \in Seq(FixedColumns(kinds)) /\ b.offset \in Nat
    BY DEF BuildState, Residues, MAXALIGN
  <2>2. CASE b.left # {}
    <3>1. next \in FixedColumns(kinds)
      BY <2>1, <2>2, TakenFacts
    <3> HIDE DEF next
    <3>2. After(kinds, next, b.offset) \in Residues
      BY <2>1, <3>1, FixedFacts
    <3>3. Append(b.placed, next) \in Seq(FixedColumns(kinds))
      BY <2>1, <3>1
    <3>4. Place(kinds, b, next) \in V
      BY <2>1, <3>2, <3>3 DEF Place, BuildState
    <3> QED BY <2>2, <3>4 DEF next
  <2>3. CASE b.left = {}
    BY <2>3
  <2> QED BY <2>2, <2>3
<1>4. step \in [(1..k) \X V -> V]
  <2> HIDE DEF onward, V
  <2> QED BY <1>3
<1>5. PICK F : IsLoop(F, k, V, StartOf(kinds), step)
  <2> HIDE DEF V, step, k
  <2> QED BY <1>1, <1>2, <1>4, LoopExists
<1>6. F \in [0..k -> V] /\ F[0] = StartOf(kinds)
  BY <1>5 DEF IsLoop
<1>7. ASSUME NEW m \in 1..k PROVE F[m] = onward(F[m - 1])
  <2> HIDE DEF V, onward
  <2>1. m - 1 \in 0..k
    BY <1>1
  <2>2. F[m] = step[<<m, F[m - 1]>>] /\ F[m - 1] \in V
    BY <1>5, <1>6, <2>1 DEF IsLoop
  <2> QED BY <2>2
<1>8. \A m \in 1..k : F[m - 1].left # {} => F[m] = Place(kinds, F[m - 1], Taken(kinds, F[m - 1]))
  BY <1>7
<1>9. ASSUME NEW m \in 0..k PROVE Built(kinds, m, F[m])
  <2> HIDE DEF V, onward
  <2> QED BY <1>6, <1>8, BuildingIsBuilt
<1>10. ASSUME NEW m \in 0..k PROVE F[m] = BuildStep(kinds, F, m)
  <2>1. CASE m = 0
    BY <1>6, <2>1 DEF BuildStep
  <2>2. CASE m # 0
    <3>1. m \in 1..k /\ m - 1 \in 0..k
      BY <1>1, <2>2
    <3>2. Cardinality(F[m - 1].left) = k - (m - 1)
      BY <1>9, <3>1 DEF Built
    <3>3. F[m - 1].left # {}
      <4>1. m - 1 \in 0..(k - 1)
        BY <1>1, <3>1
      <4> QED BY <1>1, <3>2, <4>1, StillLeft
    <3> QED BY <1>8, <2>2, <3>1, <3>3 DEF BuildStep
  <2> QED BY <2>1, <2>2
<1>11. F = [m \in 0..k |-> BuildStep(kinds, F, m)]
  <2> HIDE DEF V
  <2> QED BY <1>6, <1>10
<1> QED BY <1>11 DEF IsBuild

LEMMA RefinedBlockFacts ==
    ASSUME NEW kinds \in Seq(ColumnKind), NEW block, block = RefinedBlock(kinds, SortedOrder(kinds), FixedColumns(kinds))
    PROVE  /\ block \in Seq(FixedColumns(kinds))
           /\ Len(block) = Cardinality(FixedColumns(kinds))
           /\ Elements(block) = FixedColumns(kinds)
           /\ Injective(block)
           /\ Padding(Ordered(kinds, block))
                = MinPadding(kinds, FixedColumns(kinds))[FixedColumns(kinds)][0]
<1> DEFINE k == Cardinality(FixedColumns(kinds))
           build == CHOOSE F : IsBuild(kinds, F)
           b == build[k]
<1>1. k \in Nat
  BY FixedColumnsFinite
<1>2. IsBuild(kinds, build)
  BY BuildExists
<1>3. block = b.placed
  BY DEF RefinedBlock, IsBuild, BuildStep, StartOf, Taken
<1> HIDE DEF build
<1>4. \A m \in 0..k : build[m] = BuildStep(kinds, build, m)
  <2>1. build = [m \in 0..k |-> BuildStep(kinds, build, m)]
    BY <1>2 DEF IsBuild
  <2> QED BY <2>1
<1>5. build[0] = StartOf(kinds)
  BY <1>1, <1>4 DEF BuildStep
<1>6. ASSUME NEW m \in 1..k PROVE build[m] = Place(kinds, build[m - 1], Taken(kinds, build[m - 1]))
  <2>1. m \in 0..k /\ m # 0
    BY <1>1
  <2> QED BY <1>4, <2>1 DEF BuildStep
<1>7. Built(kinds, k, b)
  BY <1>1, <1>5, <1>6, BuildingIsBuilt
<1> HIDE DEF b
<1>8. /\ b \in BuildState(kinds)
      /\ Cardinality(b.left) = k - k
      /\ Len(b.placed) = k
      /\ Elements(b.placed) = FixedColumns(kinds) \ b.left
      /\ Injective(b.placed)
      /\ Padding(Ordered(kinds, b.placed))
           + MinPadding(kinds, FixedColumns(kinds))[b.left][b.offset]
         = MinPadding(kinds, FixedColumns(kinds))[FixedColumns(kinds)][0]
  BY <1>7 DEF Built
<1>9. b.left \in SUBSET FixedColumns(kinds) /\ b.placed \in Seq(FixedColumns(kinds)) /\ b.offset \in Residues
  BY <1>8 DEF BuildState
<1>10. b.left = {}
  <2>1. IsFiniteSet(b.left)
    BY <1>9, FixedColumnsFinite, FS_Subset
  <2>2. Cardinality(b.left) = 0
    BY <1>1, <1>8
  <2> QED BY <2>1, <2>2, FS_EmptySet
<1>11. MinPadding(kinds, FixedColumns(kinds))[b.left][b.offset] = 0
  BY <1>9, <1>10, FixedColumnsFinite, SearchFacts
<1>12. Padding(Ordered(kinds, b.placed)) \in Nat
  <2>1. b.placed \in Seq(DOMAIN kinds)
    BY <1>9, FixedColumnsFinite
  <2>2. Ordered(kinds, b.placed) \in Seq(ColumnKind)
    <3>1. \A i \in DOMAIN kinds : kinds[i] \in ColumnKind
      OBVIOUS
    <3>2. Ordered(kinds, b.placed) = [p \in 1..Len(b.placed) |-> kinds[b.placed[p]]]
      BY <2>1 DEF Ordered
    <3>3. [p \in 1..Len(b.placed) |-> kinds[b.placed[p]]] \in [1..Len(b.placed) -> ColumnKind]
      BY <2>1, <3>1
    <3>4. [p \in 1..Len(b.placed) |-> kinds[b.placed[p]]] \in Seq(ColumnKind)
      BY <2>1, <3>3
    <3> QED BY <3>2, <3>4
  <2> QED BY <2>2, WalkInNat
<1>13. Padding(Ordered(kinds, b.placed)) = MinPadding(kinds, FixedColumns(kinds))[FixedColumns(kinds)][0]
  BY <1>8, <1>11, <1>12
<1>14. Elements(b.placed) = FixedColumns(kinds)
  BY <1>8, <1>10
<1> QED BY <1>3, <1>8, <1>9, <1>13, <1>14

-----------------------------------------------------------------------------
(* The suggestion. *)

\* The suggested order names every column once, the rebuilt block at its head.
THEOREM SuggestionIsOrder ==
    ASSUME NEW kinds \in Seq(ColumnKind)
    PROVE  SuggestedOrder(kinds) \in OrdersOf(Len(kinds))
<1> DEFINE n == Len(kinds)
           B == FixedColumns(kinds)
           k == Cardinality(B)
           sorted == SortedOrder(kinds)
           block == RefinedBlock(kinds, sorted, B)
           rest == VarlenasOf(sorted, k)
           new == block \o rest
<1>1. n \in Nat /\ k \in 0..n /\ B \in SUBSET (1..n)
  BY FixedColumnsFinite
<1>2. sorted \in OrdersOf(n) /\ \A p \in 1..n : p <= k <=> sorted[p] \in B
  BY SortedFacts
<1>3. sorted \in [1..n -> 1..n] /\ \A p, q \in 1..n : sorted[p] = sorted[q] => p = q
  BY <1>2 DEF OrdersOf, Injective
<1>4. block \in Seq(B) /\ Len(block) = k /\ Elements(block) = B /\ Injective(block)
  BY RefinedBlockFacts
<1>5. SuggestedOrder(kinds) = new \/ SuggestedOrder(kinds) = sorted
  BY DEF SuggestedOrder, RefineFixedBlock, FixedColumns
<1> HIDE DEF n, B, k, sorted, block
<1>6. sorted \in Seq(1..n) /\ Len(sorted) = n
  BY <1>1, <1>3
<1>7. rest \in Seq(1..n) /\ Len(rest) = n - k /\ \A p \in 1..(n - k) : rest[p] = sorted[k + p]
  <2>1. rest = SubSeq(sorted, k + 1, n)
    BY <1>6 DEF VarlenasOf
  <2>2. \A p \in (k + 1)..n : sorted[p] \in 1..n
    BY <1>1, <1>3
  <2> HIDE DEF rest
  <2>3. Len(rest) = n - k /\ \A p \in 1..(n - k) : rest[p] = sorted[k + p]
    BY <1>1, <1>6, <2>1
  <2>4. rest \in Seq(1..n)
    BY <1>1, <1>6, <2>1, <2>2
  <2> QED BY <2>3, <2>4
<1> HIDE DEF rest
<1>8. /\ new \in Seq(1..n) /\ Len(new) = n
      /\ \A p \in 1..k : new[p] = block[p]
      /\ \A p \in (k + 1)..n : new[p] = sorted[p]
  <2> DEFINE D == 1..n
  <2>0. B \subseteq D /\ rest \in Seq(D)
    BY <1>1, <1>7
  <2> HIDE DEF D
  <2>1. block \in Seq(D)
    BY <1>4, <2>0
  <2>2. new \in Seq(D) /\ Len(new) = n
    BY <1>1, <1>4, <1>7, <2>0, <2>1
  <2>3. \A p \in 1..k : new[p] = block[p]
    BY <1>1, <1>4, <1>7, <2>1
  <2>4. ASSUME NEW p \in (k + 1)..n PROVE new[p] = sorted[p]
    <3>1. p - k \in 1..(n - k) /\ k + (p - k) = p
      BY <1>1
    <3>2. new[p] = rest[p - k]
      BY <1>1, <1>4, <1>7, <2>1, <3>1
    <3> QED BY <1>7, <3>1, <3>2
  <2> QED BY <2>2, <2>3, <2>4 DEF D
<1> HIDE DEF new
<1>9. new \in [1..n -> 1..n]
  BY <1>1, <1>8
<1>10. ASSUME NEW p \in 1..n, NEW q \in 1..n, new[p] = new[q] PROVE p = q
  <2>1. \A r \in 1..k : r \in DOMAIN block /\ block[r] \in B
    BY <1>1, <1>4
  <2>2. \A r \in 1..n : r \in 1..k \/ r \in (k + 1)..n
    BY <1>1
  <2>3. \A r \in (k + 1)..n : r \in 1..n /\ sorted[r] \notin B
    BY <1>1, <1>2
  <2>4. CASE p \in 1..k /\ q \in 1..k
    BY <1>4, <1>8, <1>10, <2>1, <2>4 DEF Injective
  <2>5. CASE p \in (k + 1)..n /\ q \in (k + 1)..n
    BY <1>3, <1>8, <1>10, <2>3, <2>5
  <2>6. CASE p \in 1..k /\ q \in (k + 1)..n
    BY <1>8, <1>10, <2>1, <2>3, <2>6
  <2>7. CASE p \in (k + 1)..n /\ q \in 1..k
    BY <1>8, <1>10, <2>1, <2>3, <2>7
  <2> QED BY <2>2, <2>4, <2>5, <2>6, <2>7
<1>11. new \in OrdersOf(n)
  BY <1>9, <1>10 DEF OrdersOf, Injective
<1> QED BY <1>2, <1>5, <1>11 DEF n

\* Within the limits of the refinement no order of a table of fixed columns pads less
\* than the suggested one.
THEOREM SuggestionPadsLeast ==
    ASSUME NEW kinds \in Seq(ColumnKind), FixedColumns(kinds) = DOMAIN kinds,
           Len(kinds) \in MinFixed..MaxFixed,
           Cardinality({ClassOf(kinds[i]) : i \in DOMAIN kinds}) <= MaxClasses,
           NEW order \in OrdersOf(Len(kinds))
    PROVE  Padding(Ordered(kinds, SuggestedOrder(kinds))) <= Padding(Ordered(kinds, order))
<1> DEFINE n == Len(kinds)
           B == FixedColumns(kinds)
           sorted == SortedOrder(kinds)
           block == RefinedBlock(kinds, sorted, B)
<1>1. n \in Nat /\ B = 1..n /\ Cardinality(B) = n
  <2>1. n \in Nat /\ B = 1..n
    OBVIOUS
  <2>2. \A m \in Nat : Cardinality(1..m) = m
    BY FS_Interval
  <2> HIDE DEF B, n
  <2> QED BY <2>1, <2>2
<1>2. sorted \in OrdersOf(n)
  BY SortedFacts
<1>3. sorted \in [1..n -> 1..n] /\ {sorted[p] : p \in 1..n} = 1..n
  BY <1>1, <1>2, OrderIsOnto DEF OrdersOf
<1>4. sorted \in Seq(1..n) /\ Len(sorted) = n
  <2> HIDE DEF sorted, n
  <2> QED BY <1>1, <1>3
<1>5. SubSeq(sorted, 1, n) = sorted
  <2> HIDE DEF sorted, n
  <2> QED BY <1>1, <1>4
<1>6. {ClassOf(kinds[sorted[p]]) : p \in 1..n} = {ClassOf(kinds[i]) : i \in DOMAIN kinds}
  <2> HIDE DEF sorted
  <2>1. DOMAIN kinds = 1..n
    OBVIOUS
  <2> HIDE DEF n
  <2>2. ASSUME NEW p \in 1..n PROVE \E i \in 1..n : kinds[sorted[p]] = kinds[i]
    BY <1>3
  <2>3. ASSUME NEW i \in 1..n PROVE \E p \in 1..n : kinds[sorted[p]] = kinds[i]
    <3>1. PICK p \in 1..n : sorted[p] = i
      BY <1>3
    <3> QED BY <3>1
  <2> QED BY <2>1, <2>2, <2>3
<1>7. Refines(kinds, sorted, Cardinality(B)) <=> Padding(Ordered(kinds, sorted)) # 0
  <2> HIDE DEF sorted, B, n
  <2>1. Refines(kinds, sorted, n) <=> Padding(Ordered(kinds, sorted)) # 0
    BY <1>5, <1>6 DEF Refines, n
  <2> QED BY <1>1, <2>1
<1>8. Padding(Ordered(kinds, order)) \in Nat
  <2>1. Ordered(kinds, order) \in Seq(ColumnKind)
    BY OrderedFacts DEF OrdersOf
  <2> QED BY <2>1, WalkInNat
<1>9. CASE Refines(kinds, sorted, Cardinality(B))
  <2>1. SuggestedOrder(kinds) = block \o VarlenasOf(sorted, Cardinality(B))
    BY <1>9 DEF SuggestedOrder, RefineFixedBlock, FixedColumns
  <2>2. /\ block \in Seq(B)
        /\ Padding(Ordered(kinds, block)) = MinPadding(kinds, B)[B][0]
    BY RefinedBlockFacts
  <2>3. VarlenasOf(sorted, Cardinality(B)) = << >>
    <3> HIDE DEF sorted, B, n
    <3>1. VarlenasOf(sorted, Cardinality(B)) = SubSeq(sorted, n + 1, n)
      BY <1>1, <1>4 DEF VarlenasOf
    <3>2. SubSeq(sorted, n + 1, n) = << >>
      BY <1>1, <1>4
    <3> QED BY <3>1, <3>2
  <2>4. SuggestedOrder(kinds) = block
    <3> HIDE DEF block, sorted, B
    <3>1. block \o << >> = block
      BY <2>2
    <3> QED BY <2>1, <2>3, <3>1
  <2>5. MinPadding(kinds, DOMAIN kinds)[DOMAIN kinds][0] <= Padding(Ordered(kinds, order))
    BY SearchIsLowerBound
  <2>6. Padding(Ordered(kinds, block)) <= Padding(Ordered(kinds, order))
    BY <2>2, <2>5
  <2> QED BY <2>4, <2>6
<1>10. CASE ~Refines(kinds, sorted, Cardinality(B))
  <2>1. SuggestedOrder(kinds) = sorted
    BY <1>10 DEF SuggestedOrder, RefineFixedBlock, FixedColumns
  <2>2. Padding(Ordered(kinds, sorted)) = 0
    BY <1>7, <1>10
  <2> QED BY <1>8, <2>1, <2>2
<1> QED BY <1>9, <1>10

-----------------------------------------------------------------------------
(* A table's report. *)

LEMMA THoffFacts ==
    ASSUME NEW kinds \in Seq(ColumnKind), NEW dropped \in Nat
    PROVE  THoff(kinds, dropped) \in Nat /\ THoff(kinds, dropped) % MAXALIGN = 0
<1>1. BareTHoff \in Nat /\ BareTHoff % MAXALIGN = 0
  <2>1. TupleHeader \in Nat
    BY DEF TupleHeader
  <2> QED BY <2>1, MaxAlignFacts DEF BareTHoff
<1>2. ASSUME NEW natts \in Nat PROVE NullTHoff(natts) \in Nat /\ NullTHoff(natts) % MAXALIGN = 0
  <2>1. TupleHeader + (natts + 7) \div 8 \in Nat
    BY DEF TupleHeader
  <2> QED BY <2>1, MaxAlignFacts DEF NullTHoff
<1>3. Len(kinds) + dropped \in Nat
  OBVIOUS
<1> QED BY <1>1, <1>2, <1>3 DEF THoff

\* The advice of a report: the columns' order, unless the suggestion pads more.
Advice(kinds) == Guarded(kinds, SuggestedOrder(kinds))

LEMMA AdviceFacts ==
    ASSUME NEW kinds \in Seq(ColumnKind)
    PROVE  /\ Advice(kinds) \in OrdersOf(Len(kinds))
           /\ Padding(Ordered(kinds, Advice(kinds))) <= Padding(kinds)
           /\ Padding(Ordered(kinds, Advice(kinds)))
                <= Padding(Ordered(kinds, SuggestedOrder(kinds)))
<1>1. SuggestedOrder(kinds) \in OrdersOf(Len(kinds))
  BY SuggestionIsOrder
<1>2. /\ AsWritten(kinds) \in OrdersOf(Len(kinds))
      /\ Ordered(kinds, AsWritten(kinds)) = kinds
  BY AsWrittenFacts
<1>3. Ordered(kinds, SuggestedOrder(kinds)) \in Seq(ColumnKind)
  BY <1>1, OrderedFacts DEF OrdersOf
<1>4. Padding(kinds) \in Nat /\ Padding(Ordered(kinds, SuggestedOrder(kinds))) \in Nat
  BY <1>3, WalkInNat
<1> QED BY <1>1, <1>2, <1>4 DEF Advice, Guarded

\* Of two orders of one table the one with less padding ends no later, and its row is
\* no larger; a row that is smaller pads less.
LEMMA FootprintFollowsPadding ==
    ASSUME NEW kinds \in Seq(ColumnKind), NEW tHoff \in Nat,
           NEW x \in OrdersOf(Len(kinds)), NEW y \in OrdersOf(Len(kinds))
    PROVE  /\ FootprintAt(tHoff, ScenarioEnd(Ordered(kinds, x))) \in Nat
           /\ Padding(Ordered(kinds, x)) <= Padding(Ordered(kinds, y)) =>
                  FootprintAt(tHoff, ScenarioEnd(Ordered(kinds, x)))
                    <= FootprintAt(tHoff, ScenarioEnd(Ordered(kinds, y)))
           /\ FootprintAt(tHoff, ScenarioEnd(Ordered(kinds, x)))
                < FootprintAt(tHoff, ScenarioEnd(Ordered(kinds, y))) =>
                  Padding(Ordered(kinds, x)) < Padding(Ordered(kinds, y))
<1> DEFINE endX == ScenarioEnd(Ordered(kinds, x))
           endY == ScenarioEnd(Ordered(kinds, y))
           padX == Padding(Ordered(kinds, x))
           padY == Padding(Ordered(kinds, y))
<1>1. PICK sizes \in Nat : \A order \in OrdersOf(Len(kinds)) :
          /\ Padding(Ordered(kinds, order)) \in Nat
          /\ ScenarioEnd(Ordered(kinds, order)) = Padding(Ordered(kinds, order)) + sizes
  BY EndIsPaddingAndSizes
<1>2. padX \in Nat /\ padY \in Nat /\ endX = padX + sizes /\ endY = padY + sizes
  BY <1>1
<1> HIDE DEF endX, endY, padX, padY
<1>3. tHoff + endX \in Nat /\ tHoff + endY \in Nat
  BY <1>2
<1>4. MaxAlign(tHoff + endX) \in Nat /\ MaxAlign(tHoff + endY) \in Nat
  BY <1>3, MaxAlignFacts
<1>5. padX <= padY => MaxAlign(tHoff + endX) <= MaxAlign(tHoff + endY)
  <2>1. padX <= padY => tHoff + endX <= tHoff + endY
    BY <1>2
  <2> QED BY <1>3, <2>1, MaxAlignFacts
<1>6. padY <= padX => MaxAlign(tHoff + endY) <= MaxAlign(tHoff + endX)
  <2>1. padY <= padX => tHoff + endY <= tHoff + endX
    BY <1>2
  <2> QED BY <1>3, <2>1, MaxAlignFacts
<1>7. MaxAlign(tHoff + endX) < MaxAlign(tHoff + endY) => padX < padY
  BY <1>2, <1>4, <1>6
<1> QED BY <1>4, <1>5, <1>7 DEF FootprintAt, endX, endY, padX, padY

TierOf(kinds, partial) == IF partial THEN "unknown" ELSE Tier(kinds)

\* The report before and after nothing avoidable resets the suggestion.
LEMMA ScoredFacts ==
    ASSUME NEW kinds, NEW tHoff, NEW tier, NEW partial, NEW order
    PROVE  LET s == Scored(kinds, tHoff, tier, partial, order)
           IN  /\ s.tier = tier /\ s.incomplete = partial
               /\ s.current = OrderStats(tier, kinds, tHoff)
               /\ s.suggested = OrderStats(tier, Ordered(kinds, order), tHoff)
               /\ s.suggested_order = order
               /\ s.avoidable = Avoidable(tier, s.current, s.suggested)
               /\ s.layout_signature = kinds
               /\ Settled(s).tier = tier /\ Settled(s).incomplete = partial
               /\ Settled(s).current = s.current
               /\ Settled(s).avoidable = s.avoidable
               /\ Settled(s).layout_signature = kinds
               /\ s.avoidable = 0 => /\ Settled(s).suggested = s.current
                                     /\ Settled(s).suggested_order = AsWritten(kinds)
               /\ s.avoidable # 0 => /\ Settled(s).suggested = s.suggested
                                     /\ Settled(s).suggested_order = order
<1> DEFINE current == OrderStats(tier, kinds, tHoff)
           suggested == OrderStats(tier, Ordered(kinds, order), tHoff)
           avoidable == Avoidable(tier, current, suggested)
           written == AsWritten(kinds)
           s == Scored(kinds, tHoff, tier, partial, order)
<1>1. s = [tier |-> tier, incomplete |-> partial, current |-> current,
           suggested |-> suggested, suggested_order |-> order, avoidable |-> avoidable,
           layout_signature |-> kinds]
  BY DEF Scored
<1>2. Settled(s) = IF s.avoidable = 0
                   THEN [s EXCEPT !.suggested = s.current,
                                  !.suggested_order = AsWritten(s.layout_signature)]
                   ELSE s
  BY DEF Settled
<1> HIDE DEF current, suggested, s
<1>3. /\ s.tier = tier /\ s.incomplete = partial /\ s.current = current
      /\ s.suggested = suggested /\ s.suggested_order = order
      /\ s.avoidable = avoidable /\ s.layout_signature = kinds
  BY <1>1
<1> HIDE DEF avoidable
<1>4. CASE s.avoidable = 0
  <2>1. Settled(s) = [tier |-> tier, incomplete |-> partial, current |-> current,
                      suggested |-> current, suggested_order |-> written, avoidable |-> avoidable,
                      layout_signature |-> kinds]
    <3> HIDE DEF written
    <3>1. AsWritten(s.layout_signature) = written
      BY <1>3 DEF written
    <3> QED BY <1>1, <1>2, <1>3, <1>4, <3>1
  <2> HIDE DEF written
  <2>2. /\ Settled(s).tier = tier /\ Settled(s).incomplete = partial
        /\ Settled(s).current = current /\ Settled(s).avoidable = avoidable
        /\ Settled(s).layout_signature = kinds
        /\ Settled(s).suggested = current /\ Settled(s).suggested_order = written
    BY <2>1
  <2> QED BY <1>3, <1>4, <2>2 DEF current, suggested, avoidable, written, s
<1>5. CASE s.avoidable # 0
  <2>1. Settled(s) = s
    BY <1>2, <1>5
  <2> QED BY <1>3, <1>5, <2>1 DEF current, suggested, avoidable, s
<1> QED BY <1>4, <1>5

\* The avoidable bytes, from the columns alone.
AvoidableOf(kinds, partial) ==
    IF TierOf(kinds, partial) = "exact"
    THEN SaturatingSub(MaxAlign(ScenarioEnd(kinds)),
                       MaxAlign(ScenarioEnd(Ordered(kinds, Advice(kinds)))))
    ELSE IF TierOf(kinds, partial) = "estimate"
    THEN SaturatingSub(Padding(kinds), Padding(Ordered(kinds, Advice(kinds))))
    ELSE 0

LEMMA BuildFacts ==
    ASSUME NEW kinds \in Seq(ColumnKind), NEW dropped \in Nat, NEW partial \in BOOLEAN
    PROVE  LET r == Build(kinds, dropped, partial)
           IN  /\ r.tier = TierOf(kinds, partial) /\ r.incomplete = partial
               /\ r.layout_signature = kinds
               /\ r.current = OrderStats(r.tier, kinds, THoff(kinds, dropped))
               /\ r.avoidable = AvoidableOf(kinds, partial)
               /\ r.avoidable \in Nat
               /\ partial => r.avoidable = 0
               /\ r.suggested_order =
                      IF r.avoidable = 0 THEN AsWritten(kinds) ELSE Advice(kinds)
               /\ r.suggested_order \in OrdersOf(Len(kinds))
               /\ r.suggested =
                      OrderStats(r.tier, Ordered(kinds, r.suggested_order), THoff(kinds, dropped))
<1> DEFINE r == Build(kinds, dropped, partial)
           tHoff == THoff(kinds, dropped)
           tier == TierOf(kinds, partial)
           advice == Advice(kinds)
           s == Scored(kinds, tHoff, tier, partial, advice)
           end == ScenarioEnd(kinds)
           best == ScenarioEnd(Ordered(kinds, advice))
<1>1. r = Settled(s)
  BY DEF Build, TierOf, Advice
<1>2. /\ s.current = OrderStats(tier, kinds, tHoff)
      /\ s.suggested = OrderStats(tier, Ordered(kinds, advice), tHoff)
      /\ s.avoidable = Avoidable(tier, s.current, s.suggested)
      /\ Settled(s).tier = tier /\ Settled(s).incomplete = partial
      /\ Settled(s).current = s.current
      /\ Settled(s).avoidable = s.avoidable
      /\ Settled(s).layout_signature = kinds
      /\ s.avoidable = 0 => /\ Settled(s).suggested = s.current
                            /\ Settled(s).suggested_order = AsWritten(kinds)
      /\ s.avoidable # 0 => /\ Settled(s).suggested = s.suggested
                            /\ Settled(s).suggested_order = advice
  <2> HIDE DEF tHoff, tier, advice
  <2> QED BY ScoredFacts
<1>3. /\ advice \in OrdersOf(Len(kinds))
      /\ AsWritten(kinds) \in OrdersOf(Len(kinds))
      /\ Ordered(kinds, AsWritten(kinds)) = kinds
  BY AdviceFacts, AsWrittenFacts
<1>4. Ordered(kinds, advice) \in Seq(ColumnKind)
  BY <1>3, OrderedFacts DEF OrdersOf
<1>5. /\ end \in Nat /\ best \in Nat
      /\ Padding(kinds) \in Nat /\ Padding(Ordered(kinds, advice)) \in Nat
  BY <1>4, WalkInNat
<1>6. tHoff \in Nat /\ tHoff % MAXALIGN = 0
  BY THoffFacts
<1>7. tier \in {"exact", "estimate", "unknown"} /\ (partial => tier = "unknown")
  BY DEF TierOf, Tier
<1> HIDE DEF r, s, tHoff, tier, advice, end, best
<1>8. /\ FootprintAt(tHoff, end) = tHoff + MaxAlign(end)
      /\ FootprintAt(tHoff, best) = tHoff + MaxAlign(best)
      /\ MaxAlign(end) \in Nat /\ MaxAlign(best) \in Nat
  BY <1>5, <1>6, MaxAlignAfter, MaxAlignFacts DEF FootprintAt
<1>9. \A x, y \in Nat : /\ SaturatingSub(tHoff + x, tHoff + y) = SaturatingSub(x, y)
                        /\ SaturatingSub(x, y) \in Nat
  BY <1>6 DEF SaturatingSub
<1>10. s.avoidable = AvoidableOf(kinds, partial)
  <2>1. CASE tier = "exact"
    <3>1. s.avoidable = SaturatingSub(s.current.footprint, s.suggested.footprint)
      BY <1>2, <2>1 DEF Avoidable
    <3>2. s.current.footprint = FootprintAt(tHoff, end)
          /\ s.suggested.footprint = FootprintAt(tHoff, best)
      BY <1>2, <2>1 DEF OrderStats, end, best
    <3>3. s.avoidable = SaturatingSub(MaxAlign(end), MaxAlign(best))
      BY <1>8, <1>9, <3>1, <3>2
    <3> QED BY <2>1, <3>3 DEF AvoidableOf, tier, end, best, advice
  <2>2. CASE tier = "estimate"
    <3>1. s.avoidable = SaturatingSub(s.current.padding, s.suggested.padding)
      BY <1>2, <2>2 DEF Avoidable
    <3>2. s.current.padding = Padding(kinds)
          /\ s.suggested.padding = Padding(Ordered(kinds, advice))
      BY <1>2, <2>2 DEF OrderStats
    <3>3. s.avoidable = SaturatingSub(Padding(kinds), Padding(Ordered(kinds, advice)))
      BY <3>1, <3>2
    <3> QED BY <2>2, <3>3 DEF AvoidableOf, tier, advice
  <2>3. CASE tier = "unknown"
    <3>1. s.avoidable = 0
      BY <1>2, <2>3 DEF Avoidable
    <3> QED BY <2>3, <3>1 DEF AvoidableOf, tier
  <2> QED BY <1>7, <2>1, <2>2, <2>3
<1>11. AvoidableOf(kinds, partial) \in Nat /\ (tier = "unknown" => AvoidableOf(kinds, partial) = 0)
  BY <1>5, <1>8, <1>9 DEF AvoidableOf, tier, end, best, advice
<1>12. r.suggested_order = IF r.avoidable = 0 THEN AsWritten(kinds) ELSE advice
  BY <1>1, <1>2
<1>13. r.suggested_order \in OrdersOf(Len(kinds))
  BY <1>3, <1>12
<1>14. r.suggested = OrderStats(r.tier, Ordered(kinds, r.suggested_order), tHoff)
  <2>1. CASE s.avoidable = 0
    <3>1. r.suggested = s.current /\ r.suggested_order = AsWritten(kinds) /\ r.tier = tier
      BY <1>1, <1>2, <2>1
    <3> QED BY <1>2, <1>3, <3>1
  <2>2. CASE s.avoidable # 0
    BY <1>1, <1>2, <2>2
  <2> QED BY <2>1, <2>2
<1>15. /\ r.tier = tier /\ r.incomplete = partial /\ r.layout_signature = kinds
       /\ r.current = OrderStats(r.tier, kinds, tHoff) /\ r.avoidable = s.avoidable
  BY <1>1, <1>2
<1> HIDE DEF r
<1>16. r.avoidable = AvoidableOf(kinds, partial) /\ r.avoidable \in Nat
       /\ (partial => r.avoidable = 0)
  BY <1>7, <1>10, <1>11, <1>15
<1> QED BY <1>12, <1>13, <1>14, <1>15, <1>16 DEF r, tier, tHoff, advice

\* The order a report suggests: where something is avoidable it pads less; at the exact
\* tier its row is no larger than the advice's.
LEMMA SuggestedFacts ==
    ASSUME NEW kinds \in Seq(ColumnKind), NEW dropped \in Nat, NEW partial \in BOOLEAN,
           NEW r, r = Build(kinds, dropped, partial)
    PROVE  /\ r.avoidable # 0 =>
                  Padding(Ordered(kinds, r.suggested_order)) < Padding(kinds)
           /\ r.tier = "exact" =>
                  FootprintAt(THoff(kinds, dropped), ScenarioEnd(Ordered(kinds, r.suggested_order)))
                    <= FootprintAt(THoff(kinds, dropped), ScenarioEnd(Ordered(kinds, Advice(kinds))))
<1> DEFINE tHoff == THoff(kinds, dropped)
           advice == Advice(kinds)
           written == AsWritten(kinds)
           Foot(order) == FootprintAt(tHoff, ScenarioEnd(Ordered(kinds, order)))
           Aligned(order) == MaxAlign(ScenarioEnd(Ordered(kinds, order)))
<1>1. /\ r.tier = TierOf(kinds, partial)
      /\ r.avoidable = AvoidableOf(kinds, partial)
      /\ r.suggested_order = IF r.avoidable = 0 THEN written ELSE advice
  BY BuildFacts
<1>2. advice \in OrdersOf(Len(kinds)) /\ written \in OrdersOf(Len(kinds))
      /\ Ordered(kinds, written) = kinds
  BY AdviceFacts, AsWrittenFacts
<1>3. Ordered(kinds, advice) \in Seq(ColumnKind)
  BY <1>2, OrderedFacts DEF OrdersOf
<1>4. /\ ScenarioEnd(kinds) \in Nat /\ ScenarioEnd(Ordered(kinds, advice)) \in Nat
      /\ Padding(kinds) \in Nat /\ Padding(Ordered(kinds, advice)) \in Nat
  BY <1>3, WalkInNat
<1>5. tHoff \in Nat /\ tHoff % MAXALIGN = 0
  BY THoffFacts
<1> HIDE DEF tHoff, advice, written
<1>6. /\ Foot(advice) = tHoff + Aligned(advice)
      /\ Foot(written) = tHoff + Aligned(written)
      /\ Aligned(advice) \in Nat /\ Aligned(written) \in Nat
  BY <1>2, <1>4, <1>5, MaxAlignAfter, MaxAlignFacts DEF FootprintAt
<1>7. Foot(advice) < Foot(written) =>
          Padding(Ordered(kinds, advice)) < Padding(Ordered(kinds, written))
  BY <1>2, <1>5, FootprintFollowsPadding
<1>8. r.tier = "exact" => r.avoidable = SaturatingSub(Aligned(written), Aligned(advice))
  BY <1>1, <1>2 DEF AvoidableOf, advice
<1> HIDE DEF Foot, Aligned
<1>9. ASSUME r.avoidable # 0
      PROVE  Padding(Ordered(kinds, r.suggested_order)) < Padding(kinds)
  <2>1. CASE r.tier = "exact"
    <3>1. Foot(advice) < Foot(written)
      BY <1>5, <1>6, <1>8, <1>9, <2>1 DEF SaturatingSub
    <3> QED BY <1>1, <1>2, <1>7, <1>9, <3>1
  <2>2. CASE r.tier = "estimate"
    <3>1. r.avoidable = SaturatingSub(Padding(kinds), Padding(Ordered(kinds, advice)))
      BY <1>1, <2>2 DEF AvoidableOf, advice
    <3> QED BY <1>1, <1>4, <1>9, <3>1 DEF SaturatingSub
  <2>3. CASE r.tier # "exact" /\ r.tier # "estimate"
    <3>1. r.avoidable = 0
      BY <1>1, <2>3 DEF AvoidableOf
    <3> QED BY <1>9, <3>1
  <2> QED BY <2>1, <2>2, <2>3
<1>10. ASSUME r.tier = "exact" PROVE Foot(r.suggested_order) <= Foot(advice)
  <2>1. CASE r.avoidable = 0
    <3>1. Aligned(written) <= Aligned(advice)
      BY <1>6, <1>8, <1>10, <2>1 DEF SaturatingSub
    <3>2. Foot(written) <= Foot(advice)
      BY <1>5, <1>6, <3>1
    <3> QED BY <1>1, <2>1, <3>2
  <2>2. CASE r.avoidable # 0
    <3>1. Foot(advice) \in Nat
      BY <1>5, <1>6
    <3> QED BY <1>1, <2>2, <3>1
  <2> QED BY <2>1, <2>2
<1> QED BY <1>9, <1>10 DEF Foot, tHoff, advice
=============================================================================
