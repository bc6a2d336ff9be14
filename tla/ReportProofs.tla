---------------------------- MODULE ReportProofs ----------------------------
(***************************************************************************)
(* Proofs about the report of a table of any columns: its suggestion is a  *)
(* reordering whose numbers agree with it, at the exact tier no order of   *)
(* the columns has a smaller row, and dropped columns do not move it.      *)
(***************************************************************************)
EXTENDS Report, LayoutProofs

\* The table, at any length: what the replay's edits keep.
TableOK ==
    /\ kinds \in Seq(ColumnKind)
    /\ dropped \in Nat
    /\ incomplete \in BOOLEAN

LEMMA TableStep ==
    ASSUME TableOK, [Next]_vars
    PROVE  TableOK'
<1> USE DEF TableOK
<1>1. CASE \E kind \in Kinds : AddColumn(kind)
  BY <1>1, ReportAssumption DEF AddColumn
<1>2. CASE \E i \in DOMAIN kinds : DropColumn(i)
  <2>1. PICK i \in DOMAIN kinds : DropColumn(i)
    BY <1>2
  <2>2. SubSeq(kinds, 1, i - 1) \o SubSeq(kinds, i + 1, Len(kinds)) \in Seq(ColumnKind)
    BY CutOut DEF Cut
  <2> QED BY <2>1, <2>2 DEF DropColumn
<1>3. CASE \E i \in DOMAIN kinds, kind \in Kinds : SetColumnType(i, kind)
  <2>1. PICK i \in DOMAIN kinds, kind \in Kinds : SetColumnType(i, kind)
    BY <1>3
  <2>2. kind \in ColumnKind
    BY ReportAssumption
  <2>3. [kinds EXCEPT ![i] = kind] \in Seq(ColumnKind)
    BY <2>2
  <2> QED BY <2>1, <2>3 DEF SetColumnType
<1>4. CASE FlagIncomplete
  BY <1>4 DEF FlagIncomplete
<1>5. CASE UNCHANGED vars
  BY <1>5 DEF vars
<1> QED BY <1>1, <1>2, <1>3, <1>4, <1>5 DEF Next

LEMMA TableAlwaysOK == Spec => []TableOK
<1>1. Init => TableOK
  BY ReportAssumption DEF Init, TableOK
<1>2. TableOK /\ [Next]_vars => TableOK'
  BY TableStep
<1> QED BY <1>1, <1>2, PTL DEF Spec

-----------------------------------------------------------------------------
(* What a table's state implies of its report. *)

LEMMA Consistent ==
    ASSUME TableOK
    PROVE  SuggestionConsistent
<1> USE DEF TableOK
<1> DEFINE r == report
           n == Len(kinds)
<1>1. r = Build(kinds, dropped, incomplete) /\ n \in Nat /\ DOMAIN kinds = 1..n
  BY DEF report
<1>2. /\ r.current = OrderStats(r.tier, kinds, THoff(kinds, dropped))
      /\ r.avoidable = AvoidableOf(kinds, incomplete)
      /\ r.suggested_order = IF r.avoidable = 0 THEN AsWritten(kinds) ELSE Advice(kinds)
      /\ r.suggested_order \in OrdersOf(n)
      /\ r.suggested =
             OrderStats(r.tier, Ordered(kinds, r.suggested_order), THoff(kinds, dropped))
  BY <1>1, BuildFacts
<1>3. r.avoidable # 0 => Padding(Ordered(kinds, r.suggested_order)) < Padding(kinds)
  BY <1>1, SuggestedFacts
<1> HIDE DEF r, n
<1>4. \A tier, ordered, tHoff : OrderStats(tier, ordered, tHoff).padding = Padding(ordered)
  BY DEF OrderStats
<1>5. /\ DOMAIN r.suggested_order = DOMAIN kinds
      /\ Elements(r.suggested_order) = DOMAIN kinds
  <2>1. {r.suggested_order[p] : p \in 1..n} = 1..n
    BY <1>1, <1>2, OrderIsOnto
  <2>2. DOMAIN r.suggested_order = 1..n
    BY <1>2 DEF OrdersOf
  <2> QED BY <1>1, <2>1, <2>2 DEF Elements
<1>6. r.avoidable # 0 => r.suggested.padding < r.current.padding
  BY <1>2, <1>3, <1>4
<1>7. r.avoidable = 0 => r.suggested_order = AsWritten(kinds)
  BY <1>2
<1>8. report = r
  BY DEF r
<1> QED BY <1>2, <1>5, <1>6, <1>7, <1>8 DEF SuggestionConsistent

LEMMA DropsMoveNothing ==
    ASSUME TableOK
    PROVE  DropsDoNotMoveAdvice
<1> USE DEF TableOK
<1> DEFINE r == report
           undropped == Build(kinds, 0, incomplete)
<1>1. /\ r.avoidable = AvoidableOf(kinds, incomplete)
      /\ r.suggested_order = IF r.avoidable = 0 THEN AsWritten(kinds) ELSE Advice(kinds)
  BY BuildFacts DEF report
<1>2. /\ undropped.avoidable = AvoidableOf(kinds, incomplete)
      /\ undropped.suggested_order =
             IF undropped.avoidable = 0 THEN AsWritten(kinds) ELSE Advice(kinds)
  BY BuildFacts
<1>3. r.avoidable = undropped.avoidable /\ r.suggested_order = undropped.suggested_order
  <2> HIDE DEF r, undropped
  <2> QED BY <1>1, <1>2
<1> QED BY <1>3 DEF DropsDoNotMoveAdvice

LEMMA Optimal ==
    ASSUME TableOK
    PROVE  ExactIsOptimal
<1> USE DEF TableOK
<1> DEFINE r == report
           n == Len(kinds)
           tHoff == THoff(kinds, dropped)
           advice == Advice(kinds)
           Foot(order) == FootprintAt(tHoff, ScenarioEnd(Ordered(kinds, order)))
<1>1. SUFFICES ASSUME r.tier = "exact", n \in MinFixed..MaxFixed,
                      Cardinality({ClassOf(kinds[i]) : i \in DOMAIN kinds}) <= MaxClasses,
                      NEW order \in Orders(kinds)
               PROVE  r.suggested.footprint <= Foot(order)
  BY DEF ExactIsOptimal
<1>2. /\ r.tier = TierOf(kinds, incomplete)
      /\ r.suggested_order \in OrdersOf(n)
      /\ r.suggested = OrderStats(r.tier, Ordered(kinds, r.suggested_order), tHoff)
  BY BuildFacts DEF report
<1>3. Foot(r.suggested_order) <= Foot(advice)
  BY <1>1, SuggestedFacts DEF report
<1>4. FixedColumns(kinds) = DOMAIN kinds
  <2>1. Tier(kinds) = "exact"
    BY <1>1, <1>2 DEF TierOf
  <2>2. \A i \in DOMAIN kinds : IsFixed(kinds[i])
    BY <2>1 DEF Tier
  <2> QED BY <2>2 DEF FixedColumns
<1>5. order \in OrdersOf(n)
  <2>1. DOMAIN kinds = 1..n
    OBVIOUS
  <2> HIDE DEF n
  <2> QED BY <2>1 DEF Orders, OrdersOf, Injective
<1>6. tHoff \in Nat
  BY THoffFacts
<1>7. Padding(Ordered(kinds, SuggestedOrder(kinds))) <= Padding(Ordered(kinds, order))
  BY <1>1, <1>4, <1>5, SuggestionPadsLeast
<1>8. advice \in OrdersOf(n) /\ Padding(Ordered(kinds, advice)) <= Padding(Ordered(kinds, order))
  <2>1. /\ advice \in OrdersOf(n)
        /\ Padding(Ordered(kinds, advice)) <= Padding(Ordered(kinds, SuggestedOrder(kinds)))
    BY AdviceFacts
  <2>2. SuggestedOrder(kinds) \in OrdersOf(n)
    BY SuggestionIsOrder
  <2>3. \A any \in OrdersOf(n) : Padding(Ordered(kinds, any)) \in Nat
    BY OrderedFacts, WalkInNat DEF OrdersOf
  <2> QED BY <1>5, <1>7, <2>1, <2>2, <2>3
<1>9. \A x, y \in OrdersOf(n) :
          /\ Foot(x) \in Nat
          /\ Padding(Ordered(kinds, x)) <= Padding(Ordered(kinds, y)) => Foot(x) <= Foot(y)
  BY <1>6, FootprintFollowsPadding
<1>10. r.suggested.footprint = Foot(r.suggested_order)
  <2>1. \A ordered, hoff : OrderStats("exact", ordered, hoff).footprint
                             = FootprintAt(hoff, ScenarioEnd(ordered))
    BY DEF OrderStats
  <2> HIDE DEF r
  <2> QED BY <1>1, <1>2, <2>1
<1>11. Foot(advice) <= Foot(order)
  BY <1>5, <1>8, <1>9
<1>12. Foot(r.suggested_order) \in Nat /\ Foot(advice) \in Nat /\ Foot(order) \in Nat
  BY <1>2, <1>5, <1>8, <1>9
<1> HIDE DEF Foot, r
<1> QED BY <1>3, <1>10, <1>11, <1>12

-----------------------------------------------------------------------------
(* The report of every table the replay can build. *)

\* Whatever the columns and their edits, the suggestion is a reordering of the table
\* with the numbers of that order, the table itself where nothing is avoidable, and an
\* order that pads less where something is (report.rs build).
THEOREM SuggestionAlwaysConsistent == Spec => []SuggestionConsistent
BY TableAlwaysOK, Consistent, PTL

\* Columns dropped from a table of any size change neither the avoidable bytes nor the
\* advice, only the footprints (layout.rs null_thoff: "Order-invariant").
THEOREM AdviceIgnoresDrops == Spec => []DropsDoNotMoveAdvice
BY TableAlwaysOK, DropsMoveNothing, PTL

\* Within the limits of the search, on every table of fixed-width columns, no order at
\* all has a smaller row than the suggested one (layout.rs refine_fixed_block).
THEOREM ExactAlwaysOptimal == Spec => []ExactIsOptimal
BY TableAlwaysOK, Optimal, PTL
=============================================================================
