--------------------------- MODULE BaselineProofs ---------------------------
(***************************************************************************)
(* Proofs about the gate, the maintenance of its file and what the outputs *)
(* say of it, for any tables, layouts and limits: debt passes only where   *)
(* it was accepted, maintenance settles it, an append keeps its allowance, *)
(* and no output hides a failure.                                          *)
(***************************************************************************)
EXTENDS Renderings, LayoutProofs

-----------------------------------------------------------------------------
(* The reports of the layouts a series can grow. *)

\* A layout with columns appended, as far as the bound goes.
LEMMA Grows ==
    ASSUME NEW l \in Layouts, NEW n \in 0..(MaxColumns - Len(l)), NEW ext \in [1..n -> Kinds]
    PROVE  l \o ext \in Growths
<1> DEFINE Exts(layout) == UNION {[1..m -> Kinds] : m \in 0..(MaxColumns - Len(layout))}
           Grown(layout) == {layout \o any : any \in Exts(layout)}
<1>1. ext \in Exts(l)
  OBVIOUS
<1>2. Growths = UNION {Grown(layout) : layout \in Layouts}
  BY DEF Growths
<1> HIDE DEF Exts
<1>3. l \o ext \in Grown(l)
  BY <1>1
<1> HIDE DEF Grown
<1> QED BY <1>2, <1>3

LEMMA LayoutsGrow ==
    ASSUME NEW layout \in Layouts
    PROVE  layout \in Growths
<1>1. /\ layout \in Seq(ColumnKind) /\ Len(layout) <= MaxColumns /\ MaxColumns \in Nat
      /\ Len(layout) \in Nat
  BY BaselineAssumption
<1> DEFINE ext == << >>
           grown == layout \o ext
<1>2. ext \in [1..0 -> Kinds] /\ ext \in Seq(ColumnKind) /\ Len(ext) = 0
  OBVIOUS
<1>3. /\ grown \in Seq(ColumnKind) /\ Len(grown) = Len(layout) + Len(ext)
      /\ \A p \in 1..(Len(layout) + Len(ext)) :
             grown[p] = IF p <= Len(layout) THEN layout[p] ELSE ext[p - Len(layout)]
  BY <1>1, <1>2, ConcatFacts
<1>4. grown = layout
  <2> HIDE DEF grown, ext
  <2>1. Len(grown) = Len(layout) /\ \A p \in 1..Len(layout) : grown[p] = layout[p]
    BY <1>1, <1>2, <1>3
  <2> QED BY <1>1, <1>3, <2>1
<1>5. grown \in Growths
  <2>1. 0 \in 0..(MaxColumns - Len(layout))
    BY <1>1
  <2> HIDE DEF ext
  <2> QED BY <1>2, <2>1, Grows
<1> QED BY <1>4, <1>5

LEMMA GrowthFacts ==
    ASSUME NEW layout \in Growths
    PROVE  /\ layout \in Seq(ColumnKind)
           /\ \A kind \in Kinds :
                  Len(layout) < MaxColumns => Append(layout, kind) \in Growths
<1>1. PICK l \in Layouts :
          layout \in {l \o ext : ext \in UNION {[1..n -> Kinds] : n \in 0..(MaxColumns - Len(l))}}
  BY DEF Growths
<1>2. PICK n \in 0..(MaxColumns - Len(l)) : \E ext \in [1..n -> Kinds] : layout = l \o ext
  BY <1>1
<1>3. /\ n \in Nat /\ MaxColumns \in Nat /\ Len(l) + n <= MaxColumns
      /\ l \in Seq(ColumnKind) /\ Len(l) \in Nat /\ Kinds \subseteq ColumnKind
  <2>1. /\ MaxColumns \in Nat /\ l \in Seq(ColumnKind) /\ Len(l) <= MaxColumns
        /\ Kinds \subseteq ColumnKind
    BY BaselineAssumption
  <2> QED BY <2>1
<1> PICK ext \in [1..n -> Kinds] : layout = l \o ext
  BY <1>2
<1>4. ext \in Seq(Kinds) /\ ext \in Seq(ColumnKind) /\ Len(ext) = n
  BY <1>2, <1>3
<1>5. layout \in Seq(ColumnKind) /\ Len(layout) = Len(l) + n
  BY <1>3, <1>4, ConcatFacts
<1>6. ASSUME NEW kind \in Kinds, Len(layout) < MaxColumns
      PROVE  Append(layout, kind) \in Growths
  <2> DEFINE longer == Append(ext, kind)
             grown == l \o longer
             target == Append(layout, kind)
  <2>1. longer \in [1..(n + 1) -> Kinds]
    <3>1. longer \in Seq(Kinds) /\ Len(longer) = n + 1
      BY <1>4
    <3> HIDE DEF longer
    <3>2. \A p \in 1..(n + 1) : longer[p] \in Kinds
      BY <3>1
    <3> QED BY <3>1, <3>2
  <2>2. longer \in Seq(ColumnKind) /\ Len(longer) = n + 1
    BY <1>3, <1>4
  <2>3. \A p \in 1..(n + 1) : longer[p] = IF p <= n THEN ext[p] ELSE kind
    BY <1>3, <1>4
  <2>4. /\ target \in Seq(ColumnKind) /\ Len(target) = Len(l) + n + 1
        /\ \A p \in 1..(Len(l) + n + 1) :
               target[p] = IF p <= Len(l) + n THEN layout[p] ELSE kind
    BY <1>3, <1>5
  <2> HIDE DEF longer
  <2>5. /\ grown \in Seq(ColumnKind) /\ Len(grown) = Len(l) + Len(longer)
        /\ \A p \in 1..(Len(l) + Len(longer)) :
               grown[p] = IF p <= Len(l) THEN l[p] ELSE longer[p - Len(l)]
    BY <1>3, <2>2, ConcatFacts
  <2>6. \A p \in 1..(Len(l) + n) :
            layout[p] = IF p <= Len(l) THEN l[p] ELSE ext[p - Len(l)]
    BY <1>3, <1>4, ConcatFacts
  <2>7. grown \in Growths
    <3>1. n + 1 \in 0..(MaxColumns - Len(l))
      BY <1>3, <1>5, <1>6
    <3> QED BY <2>1, <3>1, Grows
  <2> HIDE DEF grown, target
  <2>8. ASSUME NEW p \in 1..(Len(l) + n + 1)
        PROVE  grown[p] = target[p]
    <3>1. p \in Int /\ Len(l) \in Int /\ n \in Int /\ 1 <= p /\ p <= Len(l) + n + 1
          /\ 0 <= Len(l) /\ 0 <= n
      BY <1>3
    <3>2. grown[p] = IF p <= Len(l) THEN l[p] ELSE longer[p - Len(l)]
      BY <3>1, <2>2, <2>5
    <3>3. CASE p <= Len(l)
      BY <3>1, <3>2, <3>3, <2>4, <2>6
    <3>4. CASE Len(l) < p /\ p <= Len(l) + n
      <4>1. p - Len(l) \in 1..(n + 1) /\ p - Len(l) <= n /\ ~(p <= Len(l))
        BY <3>1, <3>4
      <4>2. p \in 1..(Len(l) + n)
        BY <3>1, <3>4
      <4>3. grown[p] = ext[p - Len(l)]
        BY <4>1, <3>2, <2>3
      <4> QED BY <4>1, <4>2, <4>3, <3>4, <2>4, <2>6
    <3>5. CASE p = Len(l) + n + 1
      <4>1. p - Len(l) \in 1..(n + 1) /\ ~(p - Len(l) <= n) /\ ~(p <= Len(l))
            /\ ~(p <= Len(l) + n)
        BY <3>1, <3>5
      <4> QED BY <4>1, <3>2, <2>3, <2>4
    <3> QED BY <3>1, <3>3, <3>4, <3>5
  <2>9. grown = target
    BY <2>2, <2>4, <2>5, <2>8
  <2> QED BY <2>7, <2>9 DEF target
<1> QED BY <1>5, <1>6

\* A table of the analysis, and what its report says of it.
TableRow ==
    {row \in [name : Table, ignored : BOOLEAN, incomplete : BOOLEAN,
              avoidable : Nat, layout_signature : Growths] :
        row.avoidable = AvoidableOf(row.layout_signature, row.incomplete)}

LEMMA RowFacts ==
    ASSUME NEW name \in Table, NEW layout \in Growths,
           NEW ignored \in BOOLEAN, NEW partial \in BOOLEAN
    PROVE  /\ Row(name, layout, ignored, partial) \in TableRow
           /\ Row(name, layout, ignored, partial).name = name
           /\ Row(name, layout, ignored, partial).ignored = ignored
           /\ Row(name, layout, ignored, partial).incomplete = partial
           /\ Row(name, layout, ignored, partial).layout_signature = layout
<1> DEFINE r == Build(layout, 0, partial)
           row == Row(name, layout, ignored, partial)
<1>1. layout \in Seq(ColumnKind)
  BY GrowthFacts
<1>2. /\ r.layout_signature = layout
      /\ r.avoidable = AvoidableOf(layout, partial) /\ r.avoidable \in Nat
  BY <1>1, BuildFacts
<1>3. Reports[layout][partial] = r
  BY DEF Reports
<1> HIDE DEF r
<1>4. row = [name |-> name, ignored |-> ignored, incomplete |-> partial,
             avoidable |-> AvoidableOf(layout, partial), layout_signature |-> layout]
  BY <1>2, <1>3 DEF Row
<1>5. AvoidableOf(layout, partial) \in Nat
  BY <1>2
<1> HIDE DEF row
<1>6. /\ row \in [name : Table, ignored : BOOLEAN, incomplete : BOOLEAN,
                  avoidable : Nat, layout_signature : Growths]
      /\ row.name = name /\ row.ignored = ignored /\ row.incomplete = partial
      /\ row.layout_signature = layout /\ row.avoidable = AvoidableOf(layout, partial)
  BY <1>4, <1>5
<1> QED BY <1>6 DEF TableRow, row

\* An incomplete table has nothing avoidable, nor has one without columns.
LEMMA NothingAvoidable ==
    ASSUME NEW row \in TableRow
    PROVE  /\ row.incomplete => row.avoidable = 0
           /\ row.layout_signature = << >> => row.avoidable = 0
<1> DEFINE layout == row.layout_signature
           r == Build(layout, 0, row.incomplete)
<1>1. /\ layout \in Seq(ColumnKind) /\ row.incomplete \in BOOLEAN
      /\ row.avoidable = AvoidableOf(layout, row.incomplete)
  BY GrowthFacts DEF TableRow
<1>2. /\ r.avoidable = row.avoidable
      /\ row.incomplete => r.avoidable = 0
      /\ r.suggested_order \in OrdersOf(Len(layout))
  BY <1>1, BuildFacts
<1>3. r.avoidable # 0 =>
          Padding(Ordered(layout, r.suggested_order)) < Padding(layout)
  BY <1>1, SuggestedFacts
<1>4. Ordered(layout, r.suggested_order) \in Seq(ColumnKind)
  BY <1>1, <1>2, OrderedFacts DEF OrdersOf
<1>5. Padding(Ordered(layout, r.suggested_order)) \in Nat
  BY <1>4, WalkInNat
<1>6. layout = << >> => r.avoidable = 0
  <2> HIDE DEF r
  <2>1. layout = << >> => Padding(layout) = 0
    BY EmptyWalk
  <2> HIDE DEF layout
  <2> QED BY <2>1, <1>3, <1>5
<1> QED BY <1>2, <1>6

-----------------------------------------------------------------------------
(* The inductive invariant: rows are reports, of one table each; the file  *)
(* is a baseline; and its entries are accepted ones, tightened at most.    *)

UniqueNames == \A i, j \in DOMAIN tables : tables[i].name = tables[j].name => i = j

TablesOK == tables \in Seq(TableRow) /\ UniqueNames

FileOK == file # NoFile => file \in BaselineContents

EntriesAccepted ==
    file # NoFile =>
        \A name \in DOMAIN file.tables :
            /\ name \in DOMAIN accepted
            /\ accepted[name] \in AcceptedDebt
            /\ file.tables[name].bytes <= accepted[name].bytes
            /\ file.tables[name].layout = accepted[name].layout

GateInv == TablesOK /\ FileOK /\ EntriesAccepted

LEMMA ContentsFacts ==
    ASSUME NEW b \in BaselineContents
    PROVE  /\ b.fail_over \in Nat
           /\ DOMAIN b.tables \in SUBSET Table
           /\ b.tables \in [DOMAIN b.tables -> AcceptedDebt]
           /\ b = [fail_over |-> b.fail_over, tables |-> b.tables]
<1> DEFINE Maps == UNION {[names -> AcceptedDebt] : names \in SUBSET Table}
<1>1. \A map \in Maps : DOMAIN map \in SUBSET Table /\ map \in [DOMAIN map -> AcceptedDebt]
  <2> TAKE map \in Maps
  <2>1. PICK names \in SUBSET Table : map \in [names -> AcceptedDebt]
    OBVIOUS
  <2> QED BY <2>1
<1> HIDE DEF Maps
<1>2. b \in [fail_over : Nat, tables : Maps]
  BY DEF BaselineContents, Maps
<1> QED BY <1>1, <1>2

LEMMA ContentsMade ==
    ASSUME NEW limit \in Nat, NEW names \in SUBSET Table, NEW map \in [names -> AcceptedDebt]
    PROVE  [fail_over |-> limit, tables |-> map] \in BaselineContents
<1> DEFINE Maps == UNION {[some -> AcceptedDebt] : some \in SUBSET Table}
<1>1. map \in Maps
  OBVIOUS
<1> HIDE DEF Maps
<1>2. [fail_over |-> limit, tables |-> map] \in [fail_over : Nat, tables : Maps]
  BY <1>1
<1> QED BY <1>2 DEF BaselineContents, Maps

LEMMA NoFileIsNone ==
    ASSUME NEW b \in BaselineContents
    PROVE  b # NoFile
BY BaselineAssumption

LEMMA GatedFacts ==
    ASSUME TablesOK
    PROVE  /\ GatedTables \subseteq TableRow
           /\ \A table \in GatedTables :
                  /\ table.ignored = FALSE
                  /\ \E i \in DOMAIN tables : table = tables[i]
           /\ \A t, u \in GatedTables : t.name = u.name => t = u
<1>1. \A i \in DOMAIN tables : tables[i] \in TableRow
  BY DEF TablesOK
<1>2. \A table \in GatedTables :
          table \in TableRow /\ ~table.ignored /\ \E i \in DOMAIN tables : table = tables[i]
  BY <1>1 DEF GatedTables, Elements
<1>3. \A table \in TableRow : table.ignored \in BOOLEAN
  BY DEF TableRow
<1> QED BY <1>2, <1>3 DEF TablesOK, UniqueNames

LEMMA EntryTyped ==
    ASSUME NEW table \in TableRow
    PROVE  /\ Entry(table) \in AcceptedDebt
           /\ Entry(table).bytes = table.avoidable
           /\ Entry(table).layout = table.layout_signature
           /\ table.name \in Table /\ table.avoidable \in Nat
           /\ table.layout_signature \in Seq(ColumnKind)
           /\ table.incomplete \in BOOLEAN
<1>1. /\ table.name \in Table /\ table.avoidable \in Nat
      /\ table.layout_signature \in Growths /\ table.incomplete \in BOOLEAN
  BY DEF TableRow
<1>2. table.layout_signature \in Seq(ColumnKind)
  BY <1>1, GrowthFacts
<1> QED BY <1>1, <1>2 DEF Entry, AcceptedDebt

\* The file has of a table what accepting it now would make of its entry.
Records(baseline, table) ==
    IF table.avoidable > baseline.fail_over
    THEN /\ table.name \in DOMAIN baseline.tables
         /\ baseline.tables[table.name] = Entry(table)
    ELSE table.name \notin DOMAIN baseline.tables

LEMMA BuildFromFacts ==
    ASSUME TablesOK, NEW limit \in Nat
    PROVE  /\ BuildFrom(limit) \in BaselineContents
           /\ BuildFrom(limit).fail_over = limit
           /\ \A name \in DOMAIN BuildFrom(limit).tables :
                  \E table \in GatedTables : table.name = name
           /\ \A table \in GatedTables : Records(BuildFrom(limit), table)
<1> DEFINE indebted == {table \in GatedTables : table.avoidable > limit}
           names == {table.name : table \in indebted}
           Chosen(name) == CHOOSE table \in indebted : table.name = name
           map == [name \in names |-> Entry(Chosen(name))]
           b == [fail_over |-> limit, tables |-> map]
<1>1. BuildFrom(limit) = b
  BY DEF BuildFrom
<1>2. /\ \A table \in indebted : table \in TableRow
      /\ \A t, u \in indebted : t.name = u.name => t = u
  BY GatedFacts
<1>3. \A table \in indebted : Chosen(table.name) = table
  BY <1>2
<1>4. \A name \in names : \E table \in indebted : name = table.name
  OBVIOUS
<1>5. \A table \in indebted : table.name \in names
  OBVIOUS
<1>6. \A table \in indebted : Entry(table) \in AcceptedDebt /\ table.name \in Table
  BY <1>2, EntryTyped
<1>7. \A table \in GatedTables : table \in indebted <=> table.avoidable > limit
  OBVIOUS
<1>8. \A table \in indebted : table \in GatedTables
  OBVIOUS
<1> HIDE DEF indebted, names, Chosen
<1>9. names \in SUBSET Table
  BY <1>4, <1>6
<1>10. \A name \in names : Entry(Chosen(name)) \in AcceptedDebt
  BY <1>3, <1>4, <1>6
<1>11. map \in [names -> AcceptedDebt]
  BY <1>10
<1>12. /\ DOMAIN map = names
       /\ \A table \in indebted : map[table.name] = Entry(table)
  BY <1>3, <1>5
<1>13. b.fail_over = limit /\ b.tables = map
  OBVIOUS
<1> HIDE DEF map
<1>14. b \in BaselineContents
  BY <1>9, <1>11, ContentsMade
<1> HIDE DEF b
<1>15. \A name \in names : \E table \in GatedTables : table.name = name
  BY <1>4, <1>8
<1>16. ASSUME NEW table \in GatedTables
       PROVE  Records(b, table)
  <2>1. CASE table.avoidable > limit
    BY <2>1, <1>5, <1>7, <1>12, <1>13 DEF Records
  <2>2. CASE ~(table.avoidable > limit)
    <3>1. table.name \notin names
      <4>1. SUFFICES ASSUME NEW other \in indebted, table.name = other.name PROVE FALSE
        BY <1>4
      <4>2. other = table
        BY <4>1, <1>8, GatedFacts
      <4> QED BY <4>1, <4>2, <2>2, <1>7
    <3> QED BY <2>2, <3>1, <1>12, <1>13 DEF Records
  <2> QED BY <2>1, <2>2
<1> QED BY <1>1, <1>12, <1>13, <1>14, <1>15, <1>16

-----------------------------------------------------------------------------
(* --accept, one name after the other.                                     *)

\* The other entries of a baseline are those of another.
KeepsOthers(later, baseline, names) ==
    \A name \in DOMAIN later.tables :
        name \notin names =>
            /\ name \in DOMAIN baseline.tables
            /\ later.tables[name] = baseline.tables[name]

LEMMA AcceptOneFacts ==
    ASSUME NEW b \in BaselineContents, NEW table \in TableRow
    PROVE  /\ AcceptOne(b, table) \in BaselineContents
           /\ AcceptOne(b, table).fail_over = b.fail_over
           /\ Records(AcceptOne(b, table), table)
           /\ \A name : name # table.name =>
                  /\ name \in DOMAIN AcceptOne(b, table).tables <=> name \in DOMAIN b.tables
                  /\ AcceptOne(b, table).tables[name] = b.tables[name]
                       \/ name \notin DOMAIN b.tables
<1> DEFINE put == Put(b.tables, table.name, Entry(table))
           removed == Remove(b.tables, table.name)
           map == IF table.avoidable > b.fail_over THEN put ELSE removed
           c == AcceptOne(b, table)
<1>1. /\ b.fail_over \in Nat /\ DOMAIN b.tables \in SUBSET Table
      /\ b.tables \in [DOMAIN b.tables -> AcceptedDebt]
      /\ b = [fail_over |-> b.fail_over, tables |-> b.tables]
  BY ContentsFacts
<1>2. Entry(table) \in AcceptedDebt /\ table.name \in Table
  BY EntryTyped
<1>3. c = [fail_over |-> b.fail_over, tables |-> map]
  <2>1. c = [b EXCEPT !.tables = map]
    BY DEF AcceptOne
  <2> HIDE DEF map, c
  <2> QED BY <1>1, <2>1
<1>4. /\ DOMAIN put = DOMAIN b.tables \cup {table.name}
      /\ put \in [DOMAIN put -> AcceptedDebt]
      /\ put[table.name] = Entry(table)
      /\ \A name \in DOMAIN b.tables : name # table.name => put[name] = b.tables[name]
  BY <1>1, <1>2 DEF Put
<1>5. /\ DOMAIN removed = DOMAIN b.tables \ {table.name}
      /\ removed \in [DOMAIN removed -> AcceptedDebt]
      /\ \A name \in DOMAIN b.tables : name # table.name => removed[name] = b.tables[name]
  BY <1>1 DEF Remove
<1> HIDE DEF put, removed
<1>6. /\ DOMAIN map \in SUBSET Table
      /\ map \in [DOMAIN map -> AcceptedDebt]
  BY <1>1, <1>2, <1>4, <1>5
<1>7. c.fail_over = b.fail_over /\ c.tables = map
  BY <1>3
<1>8. c \in BaselineContents
  <2> HIDE DEF map, c
  <2> QED BY <1>1, <1>3, <1>6, ContentsMade
<1>9. Records(c, table)
  <2> HIDE DEF c
  <2> QED BY <1>4, <1>5, <1>7 DEF Records
<1>10. ASSUME NEW name, name # table.name
       PROVE  /\ name \in DOMAIN c.tables <=> name \in DOMAIN b.tables
              /\ c.tables[name] = b.tables[name] \/ name \notin DOMAIN b.tables
  <2> HIDE DEF c
  <2> QED BY <1>4, <1>5, <1>7, <1>10
<1> HIDE DEF c
<1>11. /\ c \in BaselineContents /\ c.fail_over = b.fail_over /\ Records(c, table)
       /\ \A name : name # table.name =>
              /\ name \in DOMAIN c.tables <=> name \in DOMAIN b.tables
              /\ c.tables[name] = b.tables[name] \/ name \notin DOMAIN b.tables
  BY <1>7, <1>8, <1>9, <1>10
<1> QED BY <1>11 DEF c

LEMMA AcceptAgain ==
    ASSUME NEW b \in BaselineContents, NEW table \in TableRow, Records(b, table)
    PROVE  AcceptOne(b, table) = b
<1>1. /\ b.tables \in [DOMAIN b.tables -> AcceptedDebt]
      /\ b = [fail_over |-> b.fail_over, tables |-> b.tables]
  BY ContentsFacts
<1>2. table.avoidable > b.fail_over => Put(b.tables, table.name, Entry(table)) = b.tables
  <2>1. SUFFICES ASSUME table.name \in DOMAIN b.tables,
                        b.tables[table.name] = Entry(table)
                 PROVE  Put(b.tables, table.name, Entry(table)) = b.tables
    BY DEF Records
  <2>2. DOMAIN b.tables \cup {table.name} = DOMAIN b.tables
    BY <2>1
  <2> QED BY <1>1, <2>1, <2>2 DEF Put
<1>3. ~(table.avoidable > b.fail_over) => Remove(b.tables, table.name) = b.tables
  <2>1. SUFFICES ASSUME table.name \notin DOMAIN b.tables
                 PROVE  Remove(b.tables, table.name) = b.tables
    BY DEF Records
  <2>2. DOMAIN b.tables \ {table.name} = DOMAIN b.tables
    BY <2>1
  <2> QED BY <1>1, <2>1, <2>2 DEF Remove
<1>4. AcceptOne(b, table) = [b EXCEPT !.tables = b.tables]
  BY <1>2, <1>3 DEF AcceptOne
<1> QED BY <1>1, <1>4

LEMMA MeantFacts ==
    ASSUME TablesOK, NEW name, Candidates(name) # {}
    PROVE  /\ Meant(name) \in GatedTables /\ Meant(name) \in TableRow
           /\ name \in {Meant(name).name, Display[Meant(name).name]}
<1> DEFINE first == CHOOSE i \in Candidates(name) : \A j \in Candidates(name) : i <= j
<1>1. Candidates(name) \in SUBSET Nat /\ DOMAIN tables = 1..Len(tables)
  BY DEF TablesOK, Candidates
<1>2. \E i \in Candidates(name) : \A j \in Candidates(name) : i <= j
  BY <1>1, LeastNumber
<1>3. first \in Candidates(name)
  BY <1>2
<1>4. Meant(name) = tables[first]
  BY DEF Meant
<1> HIDE DEF first
<1>5. /\ first \in DOMAIN tables /\ ~tables[first].ignored
      /\ name \in {tables[first].name, Display[tables[first].name]}
  BY <1>3 DEF Candidates
<1>6. Meant(name) \in GatedTables
  BY <1>4, <1>5 DEF GatedTables, Elements
<1> QED BY <1>4, <1>5, <1>6, GatedFacts

\* The entries made one after the other, of one name or two.
LEMMA AcceptTablesOne ==
    ASSUME NEW b, NEW m
    PROVE  AcceptTables(b, << m >>) = AcceptOne(b, Meant(m))
<1> DEFINE one == AcceptOne(b, Meant(m))
           Step(acc) == [i \in 0..1 |->
                            IF i = 0 THEN b ELSE AcceptOne(acc[i - 1], Meant(<< m >>[i]))]
           acc == CHOOSE acc : acc = Step(acc)
           found == [i \in 0..1 |-> IF i = 0 THEN b ELSE one]
<1>1. found = Step(found)
  <2>1. \A i \in 0..1 : i # 0 => i = 1 /\ i - 1 = 0
    OBVIOUS
  <2>2. << m >>[1] = m /\ found[0] = b
    OBVIOUS
  <2>3. \A i \in 0..1 : i # 0 => AcceptOne(found[i - 1], Meant(<< m >>[i])) = one
    BY <2>1, <2>2
  <2> HIDE DEF one
  <2> QED BY <2>3
<1>2. acc = Step(acc)
  <2> HIDE DEF found, Step
  <2> QED BY <1>1
<1>3. 0 \in 0..1 /\ 1 \in 0..1 /\ 1 # 0 /\ 1 - 1 = 0 /\ << m >>[1] = m
  OBVIOUS
<1>4. acc[0] = b
  <2> HIDE DEF acc
  <2> QED BY <1>2, <1>3
<1>5. acc[1] = AcceptOne(acc[0], Meant(m))
  <2> HIDE DEF acc
  <2> QED BY <1>2, <1>3
<1>6. AcceptTables(b, << m >>) = acc[1]
  <2>1. Len(<< m >>) = 1
    OBVIOUS
  <2> QED BY <2>1 DEF AcceptTables
<1> HIDE DEF acc
<1> QED BY <1>4, <1>5, <1>6

LEMMA AcceptTablesTwo ==
    ASSUME NEW b, NEW m, NEW n
    PROVE  AcceptTables(b, << m, n >>) = AcceptOne(AcceptOne(b, Meant(m)), Meant(n))
<1> DEFINE names == << m, n >>
           one == AcceptOne(b, Meant(m))
           two == AcceptOne(one, Meant(n))
           Step(acc) == [i \in 0..2 |->
                            IF i = 0 THEN b ELSE AcceptOne(acc[i - 1], Meant(names[i]))]
           acc == CHOOSE acc : acc = Step(acc)
           found == [i \in 0..2 |-> IF i = 0 THEN b ELSE IF i = 1 THEN one ELSE two]
<1>1. found = Step(found)
  <2>1. \A i \in 0..2 : i # 0 => (i = 1 /\ i - 1 = 0) \/ (i = 2 /\ i - 1 = 1)
    OBVIOUS
  <2>2. names[1] = m /\ names[2] = n /\ found[0] = b /\ found[1] = one
    OBVIOUS
  <2>3. \A i \in 0..2 : i # 0 =>
            AcceptOne(found[i - 1], Meant(names[i])) = IF i = 1 THEN one ELSE two
    BY <2>1, <2>2
  <2> HIDE DEF one, two
  <2> QED BY <2>3
<1>2. acc = Step(acc)
  <2> HIDE DEF found, Step
  <2> QED BY <1>1
<1>3. /\ 0 \in 0..2 /\ 1 \in 0..2 /\ 2 \in 0..2 /\ 1 # 0 /\ 2 # 0 /\ 1 - 1 = 0 /\ 2 - 1 = 1
      /\ names[1] = m /\ names[2] = n /\ Len(names) = 2
  OBVIOUS
<1> HIDE DEF names
<1>4. /\ acc[0] = b
      /\ acc[1] = AcceptOne(acc[0], Meant(m))
      /\ acc[2] = AcceptOne(acc[1], Meant(n))
  <2> HIDE DEF acc
  <2> QED BY <1>2, <1>3
<1>5. AcceptTables(b, names) = acc[2]
  BY <1>3 DEF AcceptTables
<1> HIDE DEF acc
<1> QED BY <1>4, <1>5 DEF names

NamesAccepted(names) == {Meant(names[i]).name : i \in DOMAIN names}

LEMMA AcceptTablesFacts ==
    ASSUME TablesOK, NEW b \in BaselineContents, NEW names \in NameLists,
           \A i \in DOMAIN names : Candidates(names[i]) # {}
    PROVE  /\ AcceptTables(b, names) \in BaselineContents
           /\ \A i \in DOMAIN names : Records(AcceptTables(b, names), Meant(names[i]))
           /\ KeepsOthers(AcceptTables(b, names), b, NamesAccepted(names))
           /\ (\A i \in DOMAIN names : Records(b, Meant(names[i]))) =>
                  AcceptTables(b, names) = b
<1>1. CASE \E m : names = << m >>
  <2>1. PICK m : names = << m >>
    BY <1>1
  <2>2. DOMAIN names = {1} /\ names[1] = m
    BY <2>1
  <2> DEFINE t == Meant(m)
             c == AcceptOne(b, t)
  <2>3. t \in TableRow
    BY <2>2, MeantFacts
  <2>4. AcceptTables(b, names) = c
    BY <2>1, AcceptTablesOne
  <2> HIDE DEF t
  <2>5. /\ c \in BaselineContents /\ Records(c, t)
        /\ \A name : name # t.name =>
               /\ name \in DOMAIN c.tables <=> name \in DOMAIN b.tables
               /\ c.tables[name] = b.tables[name] \/ name \notin DOMAIN b.tables
    BY <2>3, AcceptOneFacts
  <2>6. Records(b, t) => c = b
    BY <2>3, AcceptAgain
  <2> HIDE DEF c
  <2>7. NamesAccepted(names) = {t.name}
    BY <2>2 DEF NamesAccepted, t
  <2>8. KeepsOthers(c, b, NamesAccepted(names))
    BY <2>5, <2>7 DEF KeepsOthers
  <2>9. \A i \in DOMAIN names : Meant(names[i]) = t
    BY <2>2 DEF t
  <2> QED BY <2>2, <2>4, <2>5, <2>6, <2>8, <2>9
<1>2. CASE \E m, n : names = << m, n >>
  <2>1. PICK m, n : names = << m, n >>
    BY <1>2
  <2>2. DOMAIN names = {1, 2} /\ names[1] = m /\ names[2] = n
    BY <2>1
  <2> DEFINE t == Meant(m)
             u == Meant(n)
             c == AcceptOne(b, t)
             d == AcceptOne(c, u)
  <2>3. t \in TableRow /\ u \in TableRow /\ t \in GatedTables /\ u \in GatedTables
    BY <2>2, MeantFacts
  <2>4. AcceptTables(b, names) = d
    <3>1. AcceptTables(b, << m, n >>) = AcceptOne(AcceptOne(b, Meant(m)), Meant(n))
      BY AcceptTablesTwo
    <3> QED BY <2>1, <3>1
  <2>5. t.name = u.name => t = u
    BY <2>3, GatedFacts
  <2>6. NamesAccepted(names) = {t.name, u.name}
    BY <2>2 DEF NamesAccepted
  <2>7. (\A i \in DOMAIN names : Meant(names[i]) = t \/ Meant(names[i]) = u)
        /\ Meant(names[1]) = t /\ Meant(names[2]) = u
    BY <2>2
  <2> HIDE DEF t, u
  <2>8. /\ c \in BaselineContents /\ c.fail_over = b.fail_over /\ Records(c, t)
        /\ \A name : name # t.name =>
               /\ name \in DOMAIN c.tables <=> name \in DOMAIN b.tables
               /\ c.tables[name] = b.tables[name] \/ name \notin DOMAIN b.tables
    BY <2>3, AcceptOneFacts
  <2>9. /\ Records(b, t) => c = b
        /\ Records(c, u) => d = c
    BY <2>3, <2>8, AcceptAgain
  <2> HIDE DEF c
  <2>10. /\ d \in BaselineContents /\ d.fail_over = c.fail_over /\ Records(d, u)
         /\ \A name : name # u.name =>
                /\ name \in DOMAIN d.tables <=> name \in DOMAIN c.tables
                /\ d.tables[name] = c.tables[name] \/ name \notin DOMAIN c.tables
    BY <2>3, <2>8, AcceptOneFacts
  <2> HIDE DEF d
  <2>11. Records(d, t)
    <3>1. CASE t = u
      BY <3>1, <2>10
    <3>2. CASE t # u
      BY <3>2, <2>5, <2>8, <2>10 DEF Records
    <3> QED BY <3>1, <3>2
  <2>12. KeepsOthers(d, b, NamesAccepted(names))
    BY <2>6, <2>8, <2>10 DEF KeepsOthers
  <2>13. Records(b, t) /\ Records(b, u) => d = b
    BY <2>9
  <2>14. (\A i \in DOMAIN names : Records(b, Meant(names[i]))) => d = b
    BY <2>2, <2>7, <2>13
  <2> QED BY <2>4, <2>7, <2>10, <2>11, <2>12, <2>14
<1> QED BY <1>1, <1>2 DEF NameLists

-----------------------------------------------------------------------------
(* What the gate says of a table.                                          *)

Over(table, cli) == Exceeds(table.avoidable, DefaultLimit(cli))

LEMMA LimitFacts ==
    ASSUME FileOK, NEW cli \in AnyLimit
    PROVE  /\ DefaultLimit(cli) = NoLimit \/ DefaultLimit(cli) \in Nat
           /\ file # NoFile => DefaultLimit(NoLimit) = file.fail_over
           /\ DefaultLimit(cli) # NoLimit => DefaultLimit(cli) \in Nat
<1>1. file # NoFile => file.fail_over \in Nat
  BY ContentsFacts DEF FileOK
<1>2. Limits \subseteq Nat
  BY BaselineAssumption
<1> QED BY <1>1, <1>2 DEF DefaultLimit, AnyLimit

LEMMA EntryFacts ==
    ASSUME FileOK, NEW name, HasEntry(name)
    PROVE  /\ file.tables[name] \in AcceptedDebt /\ file.tables[name].bytes \in Nat
           /\ file.tables[name].layout \in Seq(ColumnKind) /\ file.fail_over \in Nat
<1>1. file # NoFile /\ file \in BaselineContents /\ name \in DOMAIN file.tables
  BY DEF FileOK, HasEntry
<1>2. file.tables[name] \in AcceptedDebt /\ file.fail_over \in Nat
  BY <1>1, ContentsFacts
<1> QED BY <1>2 DEF AcceptedDebt

\* A table fails only by bytes: over the limit where no entry stands for its layout,
\* over the entry's allowance where one does.
LEMMA FailingForm ==
    ASSUME FileOK, NEW table \in TableRow, NEW cli \in AnyLimit
    PROVE  Failing(TableVerdict(table, cli)) <=>
               /\ ~table.incomplete
               /\ IF HasEntry(table.name) /\ RelationOf(table) # "Different"
                  THEN table.avoidable > file.tables[table.name].bytes
                  ELSE Over(table, cli)
<1>1. table.avoidable \in Nat
  BY EntryTyped
<1>2. HasEntry(table.name) => file.tables[table.name].bytes \in Nat
  BY EntryFacts
<1>3. RelationOf(table) \in {"Match", "Grown", "Different"}
  BY DEF RelationOf, Relation
<1>4. CASE table.incomplete
  BY <1>4 DEF TableVerdict, Failing
<1>5. CASE ~table.incomplete /\ ~HasEntry(table.name)
  BY <1>5 DEF TableVerdict, Failing, Over
<1>6. CASE ~table.incomplete /\ HasEntry(table.name)
  <2>1. TableVerdict(table, cli) = EntryVerdict(table, Over(table, cli))
    BY <1>6 DEF TableVerdict, Over
  <2>2. CASE RelationOf(table) = "Different"
    BY <1>6, <2>1, <2>2 DEF EntryVerdict, Failing
  <2>3. CASE RelationOf(table) # "Different"
    BY <1>1, <1>2, <1>3, <1>6, <2>1, <2>3 DEF EntryVerdict, Failing
  <2> QED BY <2>2, <2>3
<1> QED BY <1>4, <1>5, <1>6

\* A layout an entry stands for is the entry's, or begins with it.
LEMMA RelatedBegins ==
    ASSUME NEW x \in Seq(ColumnKind), NEW y \in Seq(ColumnKind), Relation(x, y) # "Different"
    PROVE  Begins(y, x)
<1>1. Len(x) \in Nat /\ SubSeq(x, 1, Len(x)) = x
  OBVIOUS
<1> QED BY <1>1 DEF Relation, Begins

LEMMA EntryForLayout ==
    ASSUME FileOK, NEW table \in TableRow, HasEntry(table.name),
           file.tables[table.name].layout = table.layout_signature
    PROVE  RelationOf(table) = "Match"
BY DEF RelationOf, Relation

\* A table whose entry accepting it now would not change is green, and expired nowhere.
LEMMA RecordedIsGreen ==
    ASSUME FileOK, file # NoFile, NEW table \in TableRow, Records(file, table)
    PROVE  /\ ~Failing(TableVerdict(table, NoLimit))
           /\ ~Expired(table, NoLimit)
<1>1. /\ table.avoidable \in Nat
      /\ Entry(table).bytes = table.avoidable
      /\ Entry(table).layout = table.layout_signature
  BY EntryTyped
<1>2. NoLimit \in AnyLimit /\ DefaultLimit(NoLimit) = file.fail_over /\ file.fail_over \in Nat
  BY LimitFacts, ContentsFacts DEF AnyLimit, FileOK
<1>3. CASE table.avoidable > file.fail_over
  <2>1. HasEntry(table.name) /\ file.tables[table.name] = Entry(table)
    BY <1>3 DEF Records, HasEntry
  <2>2. RelationOf(table) = "Match"
    BY <1>1, <2>1, EntryForLayout
  <2>3. ~(table.avoidable > file.tables[table.name].bytes)
    BY <1>1, <2>1
  <2> QED BY <1>2, <2>1, <2>2, <2>3, FailingForm DEF Expired
<1>4. CASE ~(table.avoidable > file.fail_over)
  <2>1. ~HasEntry(table.name)
    BY <1>4 DEF Records, HasEntry
  <2>2. ~Over(table, NoLimit)
    BY <1>2, <1>4 DEF Over, Exceeds
  <2> QED BY <1>2, <2>1, <2>2, FailingForm DEF Expired
<1> QED BY <1>3, <1>4

-----------------------------------------------------------------------------
(* Every step keeps the invariant: the series first, then the file.        *)

LEMMA CreateKeeps ==
    ASSUME TablesOK, NEW name \in Table, NEW layout \in Layouts,
           NEW ignored \in BOOLEAN, NEW partial \in BOOLEAN,
           CreateTable(name, layout, ignored, partial)
    PROVE  TablesOK'
<1> DEFINE row == Row(name, layout, ignored, partial)
           n == Len(tables)
<1>1. row \in TableRow /\ row.name = name
  BY LayoutsGrow, RowFacts
<1>2. tables \in Seq(TableRow) /\ n \in Nat /\ DOMAIN tables = 1..n
  BY DEF TablesOK
<1>3. \A i \in 1..n : tables[i].name # name
  BY <1>2 DEF CreateTable, Analyzed
<1>4. tables' = Append(tables, row)
  BY DEF CreateTable
<1> HIDE DEF row
<1>5. /\ tables' \in Seq(TableRow) /\ DOMAIN tables' = 1..(n + 1)
      /\ \A i \in 1..(n + 1) : tables'[i] = IF i <= n THEN tables[i] ELSE row
  BY <1>1, <1>2, <1>4
<1> HIDE DEF n
<1>6. ASSUME NEW i \in 1..(n + 1), NEW j \in 1..(n + 1), tables'[i].name = tables'[j].name
      PROVE  i = j
  <2>1. (i \in 1..n \/ i = n + 1) /\ (j \in 1..n \/ j = n + 1)
    BY <1>2
  <2>2. CASE i \in 1..n /\ j \in 1..n
    <3>1. tables'[i] = tables[i] /\ tables'[j] = tables[j]
      BY <2>2, <1>2, <1>5
    <3> QED BY <2>2, <3>1, <1>2, <1>6 DEF TablesOK, UniqueNames
  <2>3. CASE i \in 1..n /\ j = n + 1
    BY <2>3, <1>1, <1>2, <1>3, <1>5, <1>6
  <2>4. CASE i = n + 1 /\ j \in 1..n
    BY <2>4, <1>1, <1>2, <1>3, <1>5, <1>6
  <2> QED BY <2>1, <2>2, <2>3, <2>4
<1> QED BY <1>5, <1>6 DEF TablesOK, UniqueNames

LEMMA DropKeeps ==
    ASSUME TablesOK, NEW i \in DOMAIN tables, DropTable(i)
    PROVE  TablesOK'
<1> DEFINE n == Len(tables)
<1>1. tables \in Seq(TableRow) /\ n \in Nat /\ DOMAIN tables = 1..n /\ i \in 1..n
  BY DEF TablesOK
<1>2. tables' = Cut(tables, i)
  BY DEF DropTable, Cut
<1>3. /\ tables' \in Seq(TableRow) /\ Len(tables') = n - 1
      /\ \A p \in 1..(n - 1) : tables'[p] = IF p < i THEN tables[p] ELSE tables[p + 1]
  BY <1>1, <1>2, CutOut
<1> HIDE DEF n
<1>4. ASSUME NEW p \in 1..(n - 1), NEW q \in 1..(n - 1), tables'[p].name = tables'[q].name
      PROVE  p = q
  <2> DEFINE At(k) == IF k < i THEN k ELSE k + 1
  <2>1. At(p) \in 1..n /\ At(q) \in 1..n
    BY <1>1
  <2>2. tables'[p] = tables[At(p)] /\ tables'[q] = tables[At(q)]
    BY <1>3
  <2>3. At(p) = At(q)
    <3> HIDE DEF At
    <3> QED BY <2>1, <2>2, <1>1, <1>4 DEF TablesOK, UniqueNames
  <2> QED BY <2>3, <1>1
<1>5. DOMAIN tables' = 1..(n - 1)
  BY <1>3
<1> QED BY <1>3, <1>4, <1>5 DEF TablesOK, UniqueNames

LEMMA ChangeKeeps ==
    ASSUME TablesOK, NEW i \in DOMAIN tables, NEW layout \in Growths,
           NEW partial \in BOOLEAN, ChangeTable(i, layout, partial)
    PROVE  /\ TablesOK'
           /\ UNCHANGED <<file, notes, accepted>>
           /\ tables'[i] = Row(tables[i].name, layout, tables[i].ignored, partial)
<1> DEFINE n == Len(tables)
           row == Row(tables[i].name, layout, tables[i].ignored, partial)
<1>1. /\ tables \in Seq(TableRow) /\ n \in Nat /\ DOMAIN tables = 1..n /\ i \in 1..n
      /\ tables[i] \in TableRow
  BY DEF TablesOK
<1>2. tables[i].name \in Table /\ tables[i].ignored \in BOOLEAN
  BY <1>1 DEF TableRow
<1>3. row \in TableRow /\ row.name = tables[i].name
  BY <1>2, RowFacts
<1>4. tables' = [tables EXCEPT ![i] = row]
  BY DEF ChangeTable
<1> HIDE DEF row
<1>5. /\ tables' \in Seq(TableRow) /\ DOMAIN tables' = 1..n /\ tables'[i] = row
      /\ \A j \in 1..n : tables'[j].name = tables[j].name
  BY <1>1, <1>3, <1>4
<1> HIDE DEF n
<1>6. TablesOK'
  BY <1>1, <1>5 DEF TablesOK, UniqueNames
<1> QED BY <1>5, <1>6 DEF ChangeTable, row

LEMMA AppendIsChange ==
    ASSUME TablesOK, NEW i \in DOMAIN tables, NEW kind \in Kinds, AppendColumn(i, kind)
    PROVE  /\ Append(tables[i].layout_signature, kind) \in Growths
           /\ ChangeTable(i, Append(tables[i].layout_signature, kind), tables[i].incomplete)
           /\ tables[i] \in TableRow
<1>1. tables[i] \in TableRow
  BY DEF TablesOK
<1>2. tables[i].layout_signature \in Growths
  BY <1>1 DEF TableRow
<1> QED BY <1>1, <1>2, GrowthFacts DEF AppendColumn

LEMMA SeriesKeeps ==
    ASSUME GateInv,
           \/ \E name \in Table, layout \in Layouts, ignored, partial \in BOOLEAN :
                  CreateTable(name, layout, ignored, partial)
           \/ \E i \in DOMAIN tables : DropTable(i)
           \/ \E i \in DOMAIN tables, kind \in Kinds : AppendColumn(i, kind)
           \/ \E i \in DOMAIN tables, layout \in Layouts : Rewrite(i, layout)
           \/ \E i \in DOMAIN tables, partial \in BOOLEAN : SetIncomplete(i, partial)
           \/ \E kinds \in SUBSET NoteKinds : AnalyzeWith(kinds)
    PROVE  GateInv'
<1>1. SUFFICES TablesOK' /\ UNCHANGED <<file, accepted>>
  BY DEF GateInv, FileOK, EntriesAccepted
<1>2. TablesOK /\ \A i \in DOMAIN tables : tables[i] \in TableRow
  BY DEF GateInv, TablesOK
<1>3. \A i \in DOMAIN tables :
          tables[i].layout_signature \in Growths /\ tables[i].incomplete \in BOOLEAN
  BY <1>2 DEF TableRow
<1>4. CASE \E name \in Table, layout \in Layouts, ignored, partial \in BOOLEAN :
               CreateTable(name, layout, ignored, partial)
  BY <1>2, <1>4, CreateKeeps DEF CreateTable
<1>5. CASE \E i \in DOMAIN tables : DropTable(i)
  BY <1>2, <1>5, DropKeeps DEF DropTable
<1>6. CASE \E i \in DOMAIN tables, kind \in Kinds : AppendColumn(i, kind)
  <2>1. PICK i \in DOMAIN tables, kind \in Kinds : AppendColumn(i, kind)
    BY <1>6
  <2> QED BY <1>2, <1>3, <2>1, AppendIsChange, ChangeKeeps
<1>7. CASE \E i \in DOMAIN tables, layout \in Layouts : Rewrite(i, layout)
  <2>1. PICK i \in DOMAIN tables, layout \in Layouts :
            ChangeTable(i, layout, tables[i].incomplete)
    BY <1>7 DEF Rewrite
  <2> QED BY <1>2, <1>3, <2>1, LayoutsGrow, ChangeKeeps
<1>8. CASE \E i \in DOMAIN tables, partial \in BOOLEAN : SetIncomplete(i, partial)
  <2>1. PICK i \in DOMAIN tables, partial \in BOOLEAN :
            ChangeTable(i, tables[i].layout_signature, partial)
    BY <1>8 DEF SetIncomplete
  <2> QED BY <1>2, <1>3, <2>1, ChangeKeeps
<1>9. CASE \E kinds \in SUBSET NoteKinds : AnalyzeWith(kinds)
  BY <1>2, <1>9 DEF AnalyzeWith, TablesOK, UniqueNames
<1> QED BY <1>4, <1>5, <1>6, <1>7, <1>8, <1>9

\* A baseline whose entries are the file's, or recorded as accepted now.
LEMMA RecordedAccepts ==
    ASSUME FileOK, EntriesAccepted, NEW c \in BaselineContents, NEW names,
           file # NoFile => KeepsOthers(c, file, names),
           file = NoFile => DOMAIN c.tables \subseteq names
    PROVE  \A name \in DOMAIN c.tables :
               /\ name \in DOMAIN Recorded(names, c)
               /\ Recorded(names, c)[name] \in AcceptedDebt
               /\ c.tables[name].bytes <= Recorded(names, c)[name].bytes
               /\ c.tables[name].layout = Recorded(names, c)[name].layout
<1> TAKE name \in DOMAIN c.tables
<1>1. c.tables[name] \in AcceptedDebt
  BY ContentsFacts
<1>2. c.tables[name].bytes \in Nat
  BY <1>1 DEF AcceptedDebt
<1>3. CASE name \in names
  <2>1. /\ name \in DOMAIN Recorded(names, c)
        /\ Recorded(names, c)[name] = c.tables[name]
    BY <1>3 DEF Recorded
  <2> QED BY <1>1, <1>2, <2>1
<1>4. CASE name \notin names
  <2>1. /\ file # NoFile /\ name \in DOMAIN file.tables
        /\ c.tables[name] = file.tables[name]
    BY <1>4 DEF KeepsOthers
  <2>2. /\ name \in DOMAIN accepted /\ accepted[name] \in AcceptedDebt
        /\ file.tables[name].bytes <= accepted[name].bytes
        /\ file.tables[name].layout = accepted[name].layout
    BY <2>1 DEF EntriesAccepted
  <2>3. name \in DOMAIN Recorded(names, c) /\ Recorded(names, c)[name] = accepted[name]
    BY <1>4, <2>2 DEF Recorded
  <2> QED BY <2>1, <2>2, <2>3
<1> QED BY <1>3, <1>4

LEMMA UpdateFacts ==
    ASSUME GateInv, NEW cli \in AnyLimit, UpdateBaseline(cli)
    PROVE  /\ DefaultLimit(cli) \in Nat
           /\ file' = BuildFrom(DefaultLimit(cli)) /\ file' \in BaselineContents
           /\ file' # NoFile /\ TablesOK'
<1>1. DefaultLimit(cli) \in Nat
  BY LimitFacts DEF GateInv, UpdateBaseline
<1>2. file' = BuildFrom(DefaultLimit(cli)) /\ tables' = tables
  BY DEF UpdateBaseline
<1>3. file' \in BaselineContents
  BY <1>1, <1>2, BuildFromFacts DEF GateInv
<1>4. file' # NoFile
  BY <1>3, NoFileIsNone
<1> QED BY <1>1, <1>2, <1>3, <1>4 DEF GateInv, TablesOK, UniqueNames

LEMMA UpdateKeeps ==
    ASSUME GateInv, NEW cli \in AnyLimit, UpdateBaseline(cli)
    PROVE  GateInv'
<1>1. file' \in BaselineContents /\ file' # NoFile /\ TablesOK'
  BY UpdateFacts
<1>2. DOMAIN file'.tables \subseteq Table
  BY <1>1, ContentsFacts
<1>3. file # NoFile => KeepsOthers(file', file, Table)
  BY <1>2 DEF KeepsOthers
<1>4. accepted' = Recorded(Table, file')
  BY DEF UpdateBaseline
<1>5. \A name \in DOMAIN file'.tables :
          /\ name \in DOMAIN accepted' /\ accepted'[name] \in AcceptedDebt
          /\ file'.tables[name].bytes <= accepted'[name].bytes
          /\ file'.tables[name].layout = accepted'[name].layout
  <2>1. \A c \in BaselineContents :
            (file # NoFile => KeepsOthers(c, file, Table)) /\ DOMAIN c.tables \subseteq Table =>
            \A name \in DOMAIN c.tables :
               /\ name \in DOMAIN Recorded(Table, c)
               /\ Recorded(Table, c)[name] \in AcceptedDebt
               /\ c.tables[name].bytes <= Recorded(Table, c)[name].bytes
               /\ c.tables[name].layout = Recorded(Table, c)[name].layout
    BY RecordedAccepts DEF GateInv
  <2> QED BY <1>1, <1>2, <1>3, <1>4, <2>1
<1> QED BY <1>1, <1>5 DEF GateInv, FileOK, EntriesAccepted

LEMMA AcceptFacts ==
    ASSUME GateInv, NEW names \in NameLists, Accept(names)
    PROVE  /\ file \in BaselineContents /\ file # NoFile
           /\ \A i \in DOMAIN names : Candidates(names[i]) # {}
           /\ file' = AcceptTables(file, names) /\ file' \in BaselineContents
           /\ file' # NoFile /\ TablesOK'
           /\ KeepsOthers(file', file, NamesAccepted(names))
           /\ \A i \in DOMAIN names : Records(file', Meant(names[i]))
<1>1. /\ file # NoFile /\ \A i \in DOMAIN names : Candidates(names[i]) # {}
      /\ file' = AcceptTables(file, names) /\ tables' = tables
  BY DEF Accept
<1>2. file \in BaselineContents /\ TablesOK
  BY <1>1 DEF GateInv, FileOK
<1>3. /\ AcceptTables(file, names) \in BaselineContents
      /\ \A i \in DOMAIN names : Records(AcceptTables(file, names), Meant(names[i]))
      /\ KeepsOthers(AcceptTables(file, names), file, NamesAccepted(names))
  BY <1>1, <1>2, AcceptTablesFacts
<1>4. file' # NoFile
  BY <1>1, <1>3, NoFileIsNone
<1>5. TablesOK'
  BY <1>1, <1>2 DEF TablesOK, UniqueNames
<1> QED BY <1>1, <1>2, <1>3, <1>4, <1>5

LEMMA AcceptKeeps ==
    ASSUME GateInv, NEW names \in NameLists, Accept(names)
    PROVE  GateInv'
<1> DEFINE recorded == NamesAccepted(names)
<1>1. /\ file # NoFile /\ file' \in BaselineContents /\ file' # NoFile /\ TablesOK'
      /\ KeepsOthers(file', file, recorded)
  BY AcceptFacts
<1>2. accepted' = Recorded(recorded, file')
  BY DEF Accept, NamesAccepted
<1> HIDE DEF recorded
<1>3. \A name \in DOMAIN file'.tables :
          /\ name \in DOMAIN accepted' /\ accepted'[name] \in AcceptedDebt
          /\ file'.tables[name].bytes <= accepted'[name].bytes
          /\ file'.tables[name].layout = accepted'[name].layout
  <2>1. \A c \in BaselineContents :
            KeepsOthers(c, file, recorded) =>
            \A name \in DOMAIN c.tables :
               /\ name \in DOMAIN Recorded(recorded, c)
               /\ Recorded(recorded, c)[name] \in AcceptedDebt
               /\ c.tables[name].bytes <= Recorded(recorded, c)[name].bytes
               /\ c.tables[name].layout = Recorded(recorded, c)[name].layout
    BY <1>1, RecordedAccepts DEF GateInv
  <2> QED BY <1>1, <1>2, <2>1
<1> QED BY <1>1, <1>3 DEF GateInv, FileOK, EntriesAccepted

LEMMA TightenKeeps ==
    ASSUME GateInv, NEW name \in Table, NEW bytes \in Allowances, TightenByHand(name, bytes)
    PROVE  GateInv'
<1> DEFINE map == [file.tables EXCEPT ![name].bytes = bytes]
<1>1. /\ file # NoFile /\ file \in BaselineContents /\ name \in DOMAIN file.tables
      /\ bytes \in Nat /\ bytes < file.tables[name].bytes
  BY BaselineAssumption DEF TightenByHand, HasEntry, GateInv, FileOK
<1>2. /\ file.fail_over \in Nat /\ DOMAIN file.tables \in SUBSET Table
      /\ file.tables \in [DOMAIN file.tables -> AcceptedDebt]
      /\ file = [fail_over |-> file.fail_over, tables |-> file.tables]
  BY <1>1, ContentsFacts
<1>3. /\ map = [file.tables EXCEPT ![name] = [file.tables[name] EXCEPT !.bytes = bytes]]
      /\ tables' = tables /\ accepted' = accepted
      /\ file' = [file EXCEPT !.tables = map]
  BY DEF TightenByHand
<1>4. /\ [file.tables[name] EXCEPT !.bytes = bytes] \in AcceptedDebt
      /\ [file.tables[name] EXCEPT !.bytes = bytes].bytes = bytes
      /\ [file.tables[name] EXCEPT !.bytes = bytes].layout = file.tables[name].layout
      /\ \A other \in DOMAIN file.tables : file.tables[other].bytes \in Nat
  BY <1>1, <1>2 DEF AcceptedDebt
<1> HIDE DEF map
<1>5. /\ map \in [DOMAIN file.tables -> AcceptedDebt]
      /\ DOMAIN map = DOMAIN file.tables
      /\ \A other \in DOMAIN map :
             /\ map[other].bytes <= file.tables[other].bytes
             /\ map[other].layout = file.tables[other].layout
  BY <1>1, <1>2, <1>3, <1>4
<1>6. file' = [fail_over |-> file.fail_over, tables |-> map]
  BY <1>2, <1>3
<1>7. file' \in BaselineContents /\ file'.tables = map
  BY <1>2, <1>5, <1>6, ContentsMade
<1>8. \A other \in DOMAIN map : accepted'[other].bytes \in Nat /\
          file.tables[other].bytes <= accepted'[other].bytes
  BY <1>1, <1>3, <1>5 DEF GateInv, EntriesAccepted, AcceptedDebt
<1>9. EntriesAccepted'
  BY <1>1, <1>3, <1>4, <1>5, <1>7, <1>8 DEF GateInv, EntriesAccepted, AcceptedDebt
<1> QED BY <1>3, <1>7, <1>9 DEF GateInv, FileOK, TablesOK, UniqueNames

LEMMA GateInvStep ==
    ASSUME GateInv, [Next]_vars
    PROVE  GateInv'
<1>1. CASE \E cli \in AnyLimit : UpdateBaseline(cli)
  BY <1>1, UpdateKeeps
<1>2. CASE \E names \in NameLists : Accept(names)
  BY <1>2, AcceptKeeps
<1>3. CASE \E name \in Table, bytes \in Allowances : TightenByHand(name, bytes)
  BY <1>3, TightenKeeps
<1>4. CASE UNCHANGED vars
  BY <1>4 DEF vars, GateInv, TablesOK, UniqueNames, FileOK, EntriesAccepted
<1>5. CASE \/ \E name \in Table, layout \in Layouts, ignored, partial \in BOOLEAN :
                  CreateTable(name, layout, ignored, partial)
           \/ \E i \in DOMAIN tables : DropTable(i)
           \/ \E i \in DOMAIN tables, kind \in Kinds : AppendColumn(i, kind)
           \/ \E i \in DOMAIN tables, layout \in Layouts : Rewrite(i, layout)
           \/ \E i \in DOMAIN tables, partial \in BOOLEAN : SetIncomplete(i, partial)
           \/ \E kinds \in SUBSET NoteKinds : AnalyzeWith(kinds)
  BY <1>5, SeriesKeeps
<1> QED BY <1>1, <1>2, <1>3, <1>4, <1>5 DEF Next, AnyLimit

LEMMA GateInvAlways == Spec => []GateInv
<1>1. Init => GateInv
  BY DEF Init, GateInv, TablesOK, UniqueNames, FileOK, EntriesAccepted
<1>2. GateInv /\ [Next]_vars => GateInv'
  BY GateInvStep
<1> QED BY <1>1, <1>2, PTL DEF Spec

-----------------------------------------------------------------------------
(* The gate: debt passes only where it was accepted.                       *)

LEMMA DebtAccepted ==
    ASSUME GateInv
    PROVE  DebtWasAccepted
<1> SUFFICES ASSUME file # NoFile, NEW table \in GatedTables,
                    table.avoidable > file.fail_over,
                    ~Failing(TableVerdict(table, NoLimit))
             PROVE  /\ table.name \in DOMAIN accepted
                    /\ table.avoidable <= accepted[table.name].bytes
                    /\ Begins(table.layout_signature, accepted[table.name].layout)
  BY DEF DebtWasAccepted
<1>1. FileOK /\ EntriesAccepted /\ TablesOK
  BY DEF GateInv
<1>2. table \in TableRow
  BY <1>1, GatedFacts
<1>3. table.avoidable \in Nat /\ table.layout_signature \in Seq(ColumnKind)
  BY <1>2, EntryTyped
<1>4. NoLimit \in AnyLimit /\ file.fail_over \in Nat /\ DefaultLimit(NoLimit) = file.fail_over
  BY <1>1, LimitFacts, ContentsFacts DEF AnyLimit, FileOK
<1>5. ~table.incomplete
  BY <1>2, <1>3, <1>4, NothingAvoidable
<1>6. Over(table, NoLimit)
  BY <1>4, BaselineAssumption DEF Over, Exceeds
<1>7. /\ HasEntry(table.name) /\ RelationOf(table) # "Different"
      /\ ~(table.avoidable > file.tables[table.name].bytes)
  BY <1>1, <1>2, <1>4, <1>5, <1>6, FailingForm
<1>8. /\ file.tables[table.name].bytes \in Nat
      /\ file.tables[table.name].layout \in Seq(ColumnKind)
  BY <1>1, <1>7, EntryFacts
<1>9. Begins(table.layout_signature, file.tables[table.name].layout)
  BY <1>3, <1>7, <1>8, RelatedBegins DEF RelationOf
<1>10. /\ table.name \in DOMAIN accepted /\ accepted[table.name].bytes \in Nat
       /\ file.tables[table.name].bytes <= accepted[table.name].bytes
       /\ file.tables[table.name].layout = accepted[table.name].layout
  BY <1>1, <1>7 DEF EntriesAccepted, HasEntry, AcceptedDebt
<1> QED BY <1>3, <1>7, <1>8, <1>9, <1>10

\* Whatever the series does in between, and however allowances are tightened by hand, a
\* table that passes over the fail-over has the bytes and the layout, or a longer one,
\* that maintenance recorded for it (baseline.rs table_verdict, relation).
THEOREM DebtAlwaysAccepted == Spec => []DebtWasAccepted
BY GateInvAlways, DebtAccepted, PTL

-----------------------------------------------------------------------------
(* Maintenance settles.                                                    *)

\* Right after --update-baseline.
Updated ==
    /\ FileOK /\ TablesOK /\ file # NoFile
    /\ \A table \in GatedTables : Records(file, table)
    /\ \A name \in DOMAIN file.tables : \E table \in GatedTables : table.name = name

NothingLeft ==
    LET outcome == Evaluate(NoLimit, FALSE)
    IN  ~outcome.exceeded /\ outcome.orphaned = {} /\ outcome.expired = {}

LEMMA UpdatedIsGreen == Updated => NothingLeft
<1> SUFFICES ASSUME Updated PROVE NothingLeft
  OBVIOUS
<1> USE DEF Updated
<1>1. \A table \in GatedTables :
          ~Failing(TableVerdict(table, NoLimit)) /\ ~Expired(table, NoLimit)
  BY GatedFacts, RecordedIsGreen
<1>2. {table.name : table \in {row \in GatedTables : Expired(row, NoLimit)}} = {}
  BY <1>1
<1>3. DOMAIN file.tables \ {table.name : table \in GatedTables} = {}
  OBVIOUS
<1>4. Evaluate(NoLimit, FALSE).exceeded =
          (\/ \E table \in GatedTables : Failing(TableVerdict(table, NoLimit))
           \/ FALSE /\ Evaluate(NoLimit, FALSE).degraded)
  BY DEF Evaluate
<1>5. Evaluate(NoLimit, FALSE).orphaned = {} /\ Evaluate(NoLimit, FALSE).expired = {}
  BY <1>2, <1>3 DEF Evaluate
<1> QED BY <1>1, <1>4, <1>5 DEF NothingLeft

\* A table accepted by its fold key is the one the name means, unless the name is the
\* spelling of another.
Accepted(names) ==
    /\ FileOK /\ TablesOK /\ file # NoFile
    /\ \A i \in DOMAIN names : Candidates(names[i]) # {}
    /\ \A i \in DOMAIN names : Records(file, Meant(names[i]))

LEMMA AcceptedIsGreen ==
    ASSUME NEW names, Accepted(names),
           NEW table \in GatedTables, table.name \in Elements(names), SpellsNoOther(table.name)
    PROVE  ~Failing(VerdictOf(table.name, NoLimit))
<1> USE DEF Accepted
<1>1. PICK i \in DOMAIN names : names[i] = table.name
  BY DEF Elements
<1>2. Meant(table.name) \in GatedTables /\ Records(file, Meant(table.name))
      /\ table.name \in {Meant(table.name).name, Display[Meant(table.name).name]}
  BY <1>1, MeantFacts
<1>3. Meant(table.name).name = table.name
  BY <1>2 DEF SpellsNoOther
<1>4. Meant(table.name) = table
  BY <1>2, <1>3, GatedFacts
<1>5. (CHOOSE other \in GatedTables : other.name = table.name) = table
  BY GatedFacts
<1>6. table \in TableRow
  BY GatedFacts
<1>7. ~Failing(TableVerdict(table, NoLimit))
  BY <1>2, <1>4, <1>6, RecordedIsGreen
<1> QED BY <1>5, <1>7 DEF VerdictOf

NamedAreGreen(names) ==
    Accepted(names) =>
        /\ file = AcceptTables(file, names)
        /\ \A table \in GatedTables :
               table.name \in Elements(names) /\ SpellsNoOther(table.name) =>
                   ~Failing(VerdictOf(table.name, NoLimit))

LEMMA AcceptedIsSettled == \A names \in NameLists : NamedAreGreen(names)
<1> SUFFICES ASSUME NEW names \in NameLists, Accepted(names)
             PROVE  file = AcceptTables(file, names)
  BY AcceptedIsGreen DEF NamedAreGreen
<1>1. file \in BaselineContents
  BY DEF Accepted, FileOK
<1> QED BY <1>1, AcceptTablesFacts DEF Accepted

LEMMA Settles ==
    ASSUME GateInv, [Next]_vars, Updated' => NothingLeft',
           (\A names \in NameLists : NamedAreGreen(names))'
    PROVE  /\ \A cli \in Limits \cup {NoLimit} :
                  UpdateBaseline(cli) =>
                      LET outcome == Evaluate(NoLimit, FALSE)'
                      IN  ~outcome.exceeded /\ outcome.orphaned = {} /\ outcome.expired = {}
           /\ \A names \in NameLists :
                  Accept(names) =>
                      /\ file' = AcceptTables(file, names)'
                      /\ \A table \in GatedTables :
                             table.name \in Elements(names) /\ SpellsNoOther(table.name) =>
                                 ~Failing(VerdictOf(table.name, NoLimit)')
<1>1. ASSUME NEW cli \in AnyLimit, UpdateBaseline(cli)
      PROVE  NothingLeft'
  <2>1. /\ DefaultLimit(cli) \in Nat /\ TablesOK'
        /\ file' = BuildFrom(DefaultLimit(cli)) /\ file' # NoFile
        /\ file' \in BaselineContents
    BY <1>1, UpdateFacts
  <2>2. /\ \A table \in GatedTables : Records(file', table)
        /\ \A name \in DOMAIN file'.tables : \E table \in GatedTables : table.name = name
    BY <2>1, BuildFromFacts DEF GateInv
  <2>3. GatedTables' = GatedTables
    BY <1>1 DEF UpdateBaseline, GatedTables
  <2>4. Updated'
    BY <2>1, <2>2, <2>3 DEF Updated, FileOK, Records
  <2> QED BY <2>4
<1>2. ASSUME NEW names \in NameLists, Accept(names)
      PROVE  /\ file' = AcceptTables(file, names)'
             /\ \A table \in GatedTables :
                    table.name \in Elements(names) /\ SpellsNoOther(table.name) =>
                        ~Failing(VerdictOf(table.name, NoLimit)')
  <2>1. /\ file' \in BaselineContents /\ file' # NoFile /\ TablesOK'
        /\ \A i \in DOMAIN names : Candidates(names[i]) # {}
        /\ \A i \in DOMAIN names : Records(file', Meant(names[i]))
    BY <1>2, AcceptFacts
  <2>2. tables' = tables
    BY <1>2 DEF Accept
  <2>3. GatedTables' = GatedTables
    BY <2>2 DEF GatedTables
  <2>4. \A name : Candidates(name)' = Candidates(name) /\ Meant(name)' = Meant(name)
    BY <2>2 DEF Candidates, Meant
  <2>5. Accepted(names)'
    BY <2>1, <2>4 DEF Accepted, FileOK, Records
  <2>6. \A name : SpellsNoOther(name)' <=> SpellsNoOther(name)
    BY <2>3 DEF SpellsNoOther
  <2>7. NamedAreGreen(names)'
    OBVIOUS
  <2> QED BY <2>3, <2>5, <2>6, <2>7 DEF NamedAreGreen
<1> QED BY <1>1, <1>2 DEF NothingLeft, AnyLimit

\* --update-baseline leaves a green gate without orphans and expired entries, a table
\* accepted by an unambiguous fold key passes, and accepting once more changes nothing
\* (baseline.rs build_from, accept_tables).
THEOREM MaintenanceAlwaysSettles == Spec => MaintenanceSettles
<1>1. (Updated => NothingLeft)'
  BY UpdatedIsGreen, PTL
<1>2. (\A names \in NameLists : NamedAreGreen(names))'
  BY AcceptedIsSettled, PTL
<1> QED BY <1>1, <1>2, GateInvAlways, Settles, PTL DEF Spec, MaintenanceSettles

-----------------------------------------------------------------------------
(* An append keeps the allowance.                                          *)

LEMMA PrefixOfAppend ==
    ASSUME NEW x \in Seq(ColumnKind), NEW y \in Seq(ColumnKind), NEW kind \in ColumnKind,
           x # << >>, Relation(x, y) # "Different"
    PROVE  Relation(x, Append(y, kind)) = "Grown"
<1> DEFINE z == Append(y, kind)
<1>1. /\ Len(x) \in Nat /\ Len(y) \in Nat /\ SubSeq(x, 1, Len(x)) = x
      /\ z \in Seq(ColumnKind) /\ Len(z) = Len(y) + 1
      /\ \A p \in 1..Len(y) : z[p] = y[p]
  OBVIOUS
<1>2. Len(x) <= Len(y) /\ SubSeq(y, 1, Len(x)) = x
  BY <1>1 DEF Relation
<1> HIDE DEF z
<1>3. SubSeq(z, 1, Len(x)) = SubSeq(y, 1, Len(x))
  <2>1. \A p \in 1..Len(x) : z[p] = y[p]
    BY <1>1, <1>2
  <2> DEFINE n == Len(x)
  <2>2. SubSeq(z, 1, n) = [p \in 1..n |-> z[p]] /\ SubSeq(y, 1, n) = [p \in 1..n |-> y[p]]
    BY <1>1, <1>2
  <2> HIDE DEF n
  <2>3. [p \in 1..n |-> z[p]] = [p \in 1..n |-> y[p]]
    BY <2>1 DEF n
  <2> QED BY <2>2, <2>3 DEF n
<1>4. x # z /\ Len(z) > Len(x)
  BY <1>1, <1>2
<1> QED BY <1>2, <1>3, <1>4 DEF Relation, z

LEMMA AppendKeeps ==
    ASSUME GateInv, NEW i \in DOMAIN tables, NEW kind \in Kinds, AppendColumn(i, kind),
           HasEntry(tables[i].name), RelationOf(tables[i]) # "Different",
           ~Failing(TableVerdict(tables[i], NoLimit)),
           tables'[i].avoidable <= tables[i].avoidable
    PROVE  ~Failing(TableVerdict(tables[i], NoLimit)')
<1> DEFINE t == tables[i]
           u == tables'[i]
           base == file.tables[t.name].layout
<1>1. FileOK /\ TablesOK /\ t \in TableRow
  BY DEF GateInv, TablesOK
<1>2. /\ Append(t.layout_signature, kind) \in Growths
      /\ ChangeTable(i, Append(t.layout_signature, kind), t.incomplete)
  BY <1>1, AppendIsChange
<1>3. /\ t.incomplete \in BOOLEAN /\ t.ignored \in BOOLEAN /\ t.name \in Table
      /\ t.layout_signature \in Seq(ColumnKind) /\ t.avoidable \in Nat
  BY <1>1, EntryTyped DEF TableRow
<1>4. /\ UNCHANGED <<file, notes, accepted>>
      /\ u = Row(t.name, Append(t.layout_signature, kind), t.ignored, t.incomplete)
  BY <1>1, <1>2, <1>3, ChangeKeeps
<1>5. /\ u \in TableRow /\ u.name = t.name /\ u.incomplete = t.incomplete
      /\ u.layout_signature = Append(t.layout_signature, kind)
  <2>1. ASSUME NEW name \in Table, NEW layout \in Growths, NEW ignored \in BOOLEAN,
               NEW partial \in BOOLEAN, u = Row(name, layout, ignored, partial)
        PROVE  /\ u \in TableRow /\ u.name = name /\ u.incomplete = partial
               /\ u.layout_signature = layout
    <3> HIDE DEF u
    <3> QED BY <2>1, RowFacts
  <2> QED BY <2>1, <1>2, <1>3, <1>4
<1>6. u.avoidable \in Nat /\ u.avoidable <= t.avoidable
  BY <1>5, EntryTyped
<1>7. TableVerdict(tables[i], NoLimit)' = TableVerdict(u, NoLimit)
  BY <1>4 DEF TableVerdict, HasEntry, EntryVerdict, RelationOf, DefaultLimit
<1>8. /\ base \in Seq(ColumnKind) /\ file.tables[t.name].bytes \in Nat
      /\ file.fail_over \in Nat /\ kind \in ColumnKind
  BY <1>1, EntryFacts, BaselineAssumption
<1> HIDE DEF u
<1>9. SUFFICES ASSUME ~t.incomplete
               PROVE  IF HasEntry(u.name) /\ RelationOf(u) # "Different"
                      THEN ~(u.avoidable > file.tables[u.name].bytes)
                      ELSE ~Over(u, NoLimit)
  BY <1>1, <1>5, <1>7, FailingForm DEF AnyLimit
<1>10. ~(t.avoidable > file.tables[t.name].bytes)
  BY <1>1, <1>9, FailingForm DEF AnyLimit
<1>11. CASE base # << >>
  <2>1. RelationOf(u) = Relation(base, Append(t.layout_signature, kind))
    BY <1>5 DEF RelationOf
  <2>2. RelationOf(u) = "Grown"
    BY <2>1, <1>3, <1>8, <1>11, PrefixOfAppend DEF RelationOf
  <2> QED BY <2>2, <1>3, <1>5, <1>6, <1>8, <1>10
<1>12. CASE base = << >>
  <2>1. t.layout_signature = << >>
    BY <1>12 DEF RelationOf, Relation
  <2>2. u.avoidable = 0
    BY <2>1, <1>1, <1>3, <1>6, NothingAvoidable
  <2>3. ~Over(u, NoLimit)
    <3>1. DefaultLimit(NoLimit) = file.fail_over
      BY <1>1, LimitFacts DEF HasEntry, AnyLimit
    <3> QED BY <2>2, <3>1, <1>8 DEF Over, Exceeds
  <2>4. ~(u.avoidable > file.tables[u.name].bytes)
    BY <2>2, <1>5, <1>8
  <2> QED BY <2>3, <2>4
<1> QED BY <1>11, <1>12

\* A column appended to a baselined table that passes, at no more avoidable bytes, never
\* fails it, however long the table and whatever the entry's layout (baseline.rs relation).
THEOREM AppendAlwaysKeepsAllowance == Spec => AppendKeepsAllowance
<1>1. GateInv /\ [Next]_vars =>
          \A i \in DOMAIN tables, kind \in Kinds :
              /\ AppendColumn(i, kind)
              /\ HasEntry(tables[i].name)
              /\ RelationOf(tables[i]) # "Different"
              /\ ~Failing(TableVerdict(tables[i], NoLimit))
              /\ tables'[i].avoidable <= tables[i].avoidable
              => ~Failing(TableVerdict(tables[i], NoLimit)')
  BY AppendKeeps
<1> QED BY <1>1, GateInvAlways, PTL DEF Spec, AppendKeepsAllowance

-----------------------------------------------------------------------------
(* What the outputs say.                                                   *)

\* Only bytes fail a table.
LEMMA FailingHasBytes ==
    ASSUME FileOK, NEW table \in TableRow, NEW cli \in AnyLimit,
           Failing(TableVerdict(table, cli))
    PROVE  ~table.incomplete /\ table.avoidable # 0
<1>1. table.avoidable \in Nat
  BY EntryTyped
<1>2. HasEntry(table.name) => file.tables[table.name].bytes \in Nat
  BY EntryFacts
<1>3. Over(table, cli) => table.avoidable # 0
  BY <1>1, LimitFacts DEF Over, Exceeds
<1> QED BY <1>1, <1>2, <1>3, FailingForm

LEMMA NothingHidden ==
    ASSUME GateInv
    PROVE  NoFailureHidden
<1> SUFFICES ASSUME NEW cli \in AnyLimit, NEW table \in Elements(tables)
             PROVE  LET fails == ~table.ignored /\ Failing(TableVerdict(table, cli))
                    IN  /\ fails <=> Annotation(table, cli) = "error"
                        /\ fails => Mark(table) = "block" /\ SummaryRow(table, cli).bold
  BY DEF NoFailureHidden
<1>1. FileOK /\ table \in TableRow
  BY DEF GateInv, TablesOK, Elements
<1>2. Failing(TableVerdict(table, cli)) => ~table.incomplete /\ table.avoidable # 0
  BY <1>1, FailingHasBytes
<1>3. SummaryRow(table, cli).bold = Failing(TableVerdict(table, cli))
  BY DEF SummaryRow
<1>4. CASE ~table.ignored /\ Failing(TableVerdict(table, cli))
  <2>1. Annotation(table, cli) = "error"
    BY <1>2, <1>4 DEF Annotation
  <2>2. Mark(table) = "block"
    BY <1>2, <1>4 DEF Mark
  <2> QED BY <2>1, <2>2, <1>3, <1>4
<1>5. CASE ~(~table.ignored /\ Failing(TableVerdict(table, cli)))
  BY <1>5 DEF Annotation
<1> QED BY <1>4, <1>5

\* A table that fails the gate is an error annotation, an open block and a bold row, and
\* nothing else is an error, for every state of the file (render.rs).
THEOREM NoFailureEverHidden == Spec => []NoFailureHidden
BY GateInvAlways, NothingHidden, PTL

LEMMA EvaluateForm ==
    ASSUME NEW cli \in AnyLimit, NEW strict \in BOOLEAN
    PROVE  /\ Evaluate(cli, strict).exceeded <=>
                  Causes(cli) # {} \/ (strict /\ Evaluate(cli, strict).degraded)
           /\ Evaluate(cli, strict).degraded <=> AnalysisDegraded
<1>1. Causes(cli) # {} <=> \E table \in GatedTables : Failing(TableVerdict(table, cli))
  BY DEF Causes, Verdicts, Failing
<1>2. Evaluate(cli, strict).degraded <=>
          \/ "SkippedStatement" \in notes
          \/ \E table \in GatedTables : table.incomplete
          \/ "EmptyScan" \in notes
  BY DEF Evaluate
<1>3. AnalysisDegraded <=>
          \/ "SkippedStatement" \in notes
          \/ \E table \in GatedTables : table.incomplete
          \/ "EmptyScan" \in notes
  BY DEF AnalysisDegraded, IsDegradation
<1>4. Evaluate(cli, strict).exceeded <=>
          \/ \E table \in GatedTables : Failing(TableVerdict(table, cli))
          \/ strict /\ Evaluate(cli, strict).degraded
  BY DEF Evaluate
<1> QED BY <1>1, <1>2, <1>3, <1>4

LEMMA Explains == FailureIsExplained
<1> SUFFICES ASSUME NEW cli \in AnyLimit, NEW strict \in BOOLEAN
             PROVE  /\ FailLine(cli, strict) = {"degraded analysis"} =>
                           strict /\ ~Evaluate(cli, FALSE).exceeded
                    /\ GateOk(cli, strict) => ~Evaluate(cli, TRUE).exceeded
                    /\ GateSummary(cli, strict).degraded = AnalysisDegraded
  BY DEF FailureIsExplained
<1>1. \A flag \in BOOLEAN :
          /\ Evaluate(cli, flag).exceeded <=>
                 Causes(cli) # {} \/ (flag /\ Evaluate(cli, flag).degraded)
          /\ Evaluate(cli, flag).degraded <=> AnalysisDegraded
  BY EvaluateForm
<1>2. "degraded analysis" \notin Causes(cli)
  BY DEF Causes
<1>3. /\ GateSummary(cli, strict).degraded = Evaluate(cli, strict).degraded
      /\ GateSummary(cli, strict).fail = FailLine(cli, strict)
  BY DEF GateSummary
<1>4. FailLine(cli, strict) = {"degraded analysis"} =>
          Evaluate(cli, strict).exceeded /\ Causes(cli) = {}
  BY <1>2 DEF FailLine
<1>5. FailLine(cli, strict) = {} => ~Evaluate(cli, strict).exceeded
  BY DEF FailLine
<1>6. GateOk(cli, strict) => FailLine(cli, strict) = {} /\ Evaluate(cli, strict).degraded = FALSE
  <2>1. GateOk(cli, strict) => /\ GateSummary(cli, strict).fail = {}
                               /\ GateSummary(cli, strict).degraded = FALSE
    BY DEF GateOk
  <2> QED BY <2>1, <1>3
<1>7. Evaluate(cli, strict).degraded = AnalysisDegraded
  BY DEF Evaluate, AnalysisDegraded, IsDegradation
<1> QED BY <1>1, <1>3, <1>4, <1>5, <1>6, <1>7

\* A red gate names its cause and a silent one hides none, whatever the tables, notes and
\* flags; what the gate calls degraded is what the analysis does (report.rs degraded).
THEOREM FailureAlwaysExplained == Spec => []FailureIsExplained
BY Explains, PTL
=============================================================================
