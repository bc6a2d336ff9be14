---------------------------- MODULE FolderProofs ----------------------------
(***************************************************************************)
(* Proofs about the replay (Folder) and its type catalog, for any tables,  *)
(* columns, types and series, of any length: type references resolve, the  *)
(* order lists the modeled tables, and the state keeps the shape that the  *)
(* report and the gate rely on; loss is noted; history runs one way.       *)
(***************************************************************************)
EXTENDS Folder, CollectionsProofs

-----------------------------------------------------------------------------
(* The catalog resolves every reference to a storage class, whatever types *)
(* the series has defined, and type DDL keeps the session layer well typed.*)

ResolvedType == [kind : ColumnKind, known : BOOLEAN, implicit_not_null : BOOLEAN]

SessionOK(layer) ==
    /\ DOMAIN layer \subseteq TypeName
    /\ \A key \in DOMAIN layer : layer[key] \in SessionEntry

LEMMA FixedKind ==
    ASSUME NEW len \in Length, NEW align \in Align
    PROVE  Fixed(len, align) \in ColumnKind
BY DEF Fixed, ColumnKind

LEMMA VarlenaKind ==
    ASSUME NEW align \in Align, NEW short \in BOOLEAN
    PROVE  Varlena(align, short) \in ColumnKind
BY DEF Varlena, ColumnKind

LEMMA KindAlign ==
    ASSUME NEW kind \in ColumnKind
    PROVE  kind.align \in Align /\ RangeAlign(kind.align) \in Align
<1>1. kind.align \in Align
  BY DEF ColumnKind
<1>2. \A align : RangeAlign(align) \in Align
  BY DEF RangeAlign, Align
<1> QED BY <1>1, <1>2

LEMMA BuiltinTyped ==
    ASSUME NEW key, NEW short \in BOOLEAN
    PROVE  Builtin(key, short) \in ResolvedType
<1> DEFINE T == ResolvedType
<1>1. \A kind \in ColumnKind : Plain(kind) \in T /\ Serial(kind) \in T
  BY DEF Plain, Serial, Resolved, ResolvedType
<1>2. /\ Fixed(1, 1) \in ColumnKind /\ Fixed(2, 2) \in ColumnKind
      /\ Fixed(4, 4) \in ColumnKind /\ Fixed(8, 8) \in ColumnKind
      /\ Fixed(12, 8) \in ColumnKind /\ Fixed(16, 8) \in ColumnKind
      /\ Fixed(16, 1) \in ColumnKind /\ Fixed(6, 4) \in ColumnKind
      /\ Fixed(8, 4) \in ColumnKind /\ Fixed(64, 1) \in ColumnKind
      /\ Fixed(32, 8) \in ColumnKind /\ Fixed(24, 8) \in ColumnKind
      /\ Fixed(52, 8) \in ColumnKind
  <2>1. {1, 2, 4, 6, 8, 12, 16, 24, 32, 52, 64} \subseteq Length
    BY DEF Length
  <2> QED BY <2>1, FixedKind DEF Align
<1>3. /\ Varlena(4, short) \in ColumnKind
      /\ Varlena(4, FALSE) \in ColumnKind
      /\ Varlena(8, FALSE) \in ColumnKind
  BY VarlenaKind DEF Align
<1>4. Unresolvable \in T
  BY <1>3 DEF Unresolvable, Resolved, ResolvedType
<1>5. /\ Plain(Fixed(1, 1)) \in T /\ Plain(Fixed(2, 2)) \in T
      /\ Plain(Fixed(4, 4)) \in T /\ Plain(Fixed(8, 8)) \in T
      /\ Plain(Fixed(12, 8)) \in T /\ Plain(Fixed(16, 8)) \in T
      /\ Plain(Fixed(16, 1)) \in T /\ Plain(Fixed(6, 4)) \in T
      /\ Plain(Fixed(8, 4)) \in T /\ Plain(Fixed(64, 1)) \in T
      /\ Plain(Fixed(32, 8)) \in T /\ Plain(Fixed(24, 8)) \in T
      /\ Plain(Fixed(52, 8)) \in T
      /\ Plain(Varlena(4, short)) \in T
      /\ Plain(Varlena(4, FALSE)) \in T /\ Plain(Varlena(8, FALSE)) \in T
      /\ Serial(Fixed(4, 4)) \in T /\ Serial(Fixed(8, 8)) \in T
      /\ Serial(Fixed(2, 2)) \in T
  BY <1>1, <1>2, <1>3
<1> HIDE DEF T
<1>6. Builtin(key, short) \in T
  BY <1>4, <1>5, ZenonT(60) DEF Builtin
<1> QED BY <1>6 DEF T

LEMMA ResolveScalarTyped ==
    ASSUME NEW layer, SessionOK(layer), NEW key, NEW short \in BOOLEAN
    PROVE  ResolveScalar(layer, key, short) \in ResolvedType
BY AssumeAssumption, BuiltinTyped
   DEF SessionOK, SessionEntry, ResolveScalar, Resolved, ResolvedType

\* Resolution never fails: a reference of any session resolves to a storage class.
THEOREM ResolveTyped ==
    ASSUME NEW layer, SessionOK(layer), NEW ref \in TypeRef
    PROVE  Resolve(layer, ref) \in ResolvedType
<1>1. CASE ref.array
  <2> DEFINE elem == ResolveScalar(layer, ref.key, FALSE)
  <2>1. elem \in ResolvedType
    BY ResolveScalarTyped
  <2>2. Varlena(RangeAlign(elem.kind.align), FALSE) \in ColumnKind
    BY <2>1, KindAlign, VarlenaKind DEF ResolvedType
  <2> QED BY <1>1, <2>1, <2>2 DEF Resolve, Resolved, ResolvedType
<1>2. CASE ~ref.array
  BY <1>2, ResolveScalarTyped DEF Resolve, TypeRef
<1> QED BY <1>1, <1>2

LEMMA DefineOK ==
    ASSUME NEW layer, SessionOK(layer), NEW key \in TypeName,
           NEW kind \in ColumnKind, NEW known \in BOOLEAN
    PROVE  SessionOK(Define(layer, key, kind, known))
BY DEF SessionOK, SessionEntry, Define, Put

LEMMA SimpleTypesOK ==
    ASSUME NEW layer, SessionOK(layer), NEW key \in TypeName
    PROVE  /\ SessionOK(DefineEnum(layer, key))
           /\ SessionOK(DefineComposite(layer, key))
           /\ SessionOK(DefineShell(layer, key))
<1>1. Fixed(4, 4) \in ColumnKind
  <2>1. 4 \in Length
    BY DEF Length
  <2> QED BY <2>1, FixedKind DEF Align
<1>2. Varlena(8, FALSE) \in ColumnKind /\ Varlena(4, FALSE) \in ColumnKind
  BY VarlenaKind DEF Align
<1> QED BY <1>1, <1>2, DefineOK DEF DefineEnum, DefineComposite, DefineShell

LEMMA DefineDomainOK ==
    ASSUME NEW layer, SessionOK(layer), NEW key \in TypeName, NEW base \in TypeRef
    PROVE  SessionOK(DefineDomain(layer, key, base))
<1>1. Resolve(layer, base) \in ResolvedType
  BY ResolveTyped
<1> QED BY <1>1, DefineOK DEF DefineDomain, ResolvedType

LEMMA DefineRangeOK ==
    ASSUME NEW layer, SessionOK(layer), NEW key \in TypeName,
           NEW subtypes \in SUBSET TypeRef
    PROVE  SessionOK(DefineRange(layer, key, subtypes))
<1>1. CASE subtypes = {}
  BY <1>1, DefineOK, VarlenaKind DEF DefineRange, Align
<1>2. CASE subtypes # {}
  <2> DEFINE sub == Resolve(layer, CHOOSE ref \in subtypes : TRUE)
  <2>1. sub \in ResolvedType
    BY <1>2, ResolveTyped
  <2>2. Varlena(RangeAlign(sub.kind.align), FALSE) \in ColumnKind /\ sub.known \in BOOLEAN
    BY <2>1, KindAlign, VarlenaKind DEF ResolvedType
  <2>3. SessionOK(Define(layer, key, Varlena(RangeAlign(sub.kind.align), FALSE), sub.known))
    BY <2>2, DefineOK
  <2> QED BY <1>2, <2>3 DEF DefineRange
<1> QED BY <1>1, <1>2

LEMMA RenameTypeOK ==
    ASSUME NEW layer, SessionOK(layer), NEW old \in TypeName, NEW new \in TypeName
    PROVE  SessionOK(RenameType(layer, old, new))
BY DEF SessionOK, RenameType, Put, Remove

-----------------------------------------------------------------------------
(* `order` lists the modeled tables.  The property is inductive once order *)
(* is known to be a sequence of table names.                               *)

OrderInv ==
    /\ order \in Seq(Table)
    /\ OrderMatchesTables

LEMMA OrderInvForm ==
    OrderInv <=> /\ order \in Seq(Table)
                 /\ Elements(order) = DOMAIN tables
                 /\ Injective(order)
BY DEF OrderInv, OrderMatchesTables, Injective

LEMMA OrderInvFormPrime ==
    OrderInv' <=> /\ order' \in Seq(Table)
                  /\ Elements(order') = DOMAIN tables'
                  /\ Injective(order')
BY DEF OrderInv, OrderMatchesTables, Injective, Elements

\* A step that creates, drops and renames no table.
SameKeys == order' = order /\ DOMAIN tables' = DOMAIN tables

LEMMA SameKeysKeepOrder == OrderInv /\ SameKeys => OrderInv'
BY OrderInvForm, OrderInvFormPrime DEF SameKeys

LEMMA EstablishOrder ==
    ASSUME OrderInv, NEW name \in Table, NEW create, NEW ignore_marker,
           Establish(name, create, ignore_marker)
    PROVE  OrderInv'
<1> DEFINE kept == IF name \in DOMAIN tables THEN Retain(order, {name}) ELSE order
<1>1. order \in Seq(Table) /\ Elements(order) = DOMAIN tables /\ Injective(order)
  BY OrderInvForm
<1>2. order' = Append(kept, name)
  BY DEF Establish
<1>3. DOMAIN tables' = DOMAIN tables \cup {name}
  BY PutDomain DEF Establish
<1>4. /\ kept \in Seq(Table)
      /\ Elements(kept) = DOMAIN tables \ {name}
      /\ Injective(kept)
  BY <1>1, RetainFacts
<1>5. order' \in Seq(Table) /\ Elements(order') = DOMAIN tables'
  <2> HIDE DEF kept
  <2> QED BY <1>2, <1>3, <1>4, AppendElements
<1>6. Injective(order')
  <2> HIDE DEF kept
  <2>1. name \notin Elements(kept)
    BY <1>4
  <2> QED BY <1>2, <1>4, <2>1, AppendInjective
<1> QED BY <1>5, <1>6, OrderInvFormPrime

LEMMA CreateTableOrder ==
    ASSUME OrderInv, NEW name \in Table, NEW create, NEW ignore_marker,
           CreateTable(name, create, ignore_marker)
    PROVE  OrderInv'
<1>1. CASE SkipTemporary(name, create)
  BY <1>1, SameKeysKeepOrder DEF SkipTemporary, SameKeys
<1>2. CASE SkipCtas(name, create)
  BY <1>2, SameKeysKeepOrder DEF SkipCtas, SameKeys
<1>3. CASE KeepExisting(name, create)
  BY <1>3, SameKeysKeepOrder DEF KeepExisting, SameKeys
<1>4. CASE Establish(name, create, ignore_marker)
  BY <1>4, EstablishOrder
<1> QED BY <1>1, <1>2, <1>3, <1>4 DEF CreateTable

LEMMA AlterOperationOrder ==
    ASSUME OrderInv, NEW t \in Table, AlterOperation(t)
    PROVE  OrderInv'
<1>1. CASE Unanalyzable(t)
  BY <1>1, SameKeysKeepOrder DEF Unanalyzable, SameKeys
<1>2. ASSUME NEW raw \in Raws, NEW if_not_exists \in BOOLEAN,
             AddColumn(t, raw, if_not_exists)
      PROVE  OrderInv'
  BY <1>2, SameKeysKeepOrder DEF AddColumn, SameKeys
<1>3. ASSUME NEW column \in Column, NEW if_exists \in BOOLEAN,
             DropColumns(t, column, if_exists)
      PROVE  OrderInv'
  BY <1>3, SameKeysKeepOrder DEF DropColumns, SameKeys
<1>4. ASSUME NEW column \in Column, NEW ref \in NewTypes, SetColumnType(t, column, ref)
      PROVE  OrderInv'
  BY <1>4, SameKeysKeepOrder DEF SetColumnType, EditColumn, SameKeys
<1>5. ASSUME NEW column \in Column, NEW value \in BOOLEAN, SetNotNull(t, column, value)
      PROVE  OrderInv'
  BY <1>5, SameKeysKeepOrder DEF SetNotNull, EditColumn, SameKeys
<1> QED BY <1>1, <1>2, <1>3, <1>4, <1>5 DEF AlterOperation

LEMMA RenameTableOrder ==
    ASSUME OrderInv, NEW t \in Table, NEW new \in Table, RenameTable(t, new)
    PROVE  OrderInv'
<1> DEFINE replaced == IF new # t /\ new \in DOMAIN tables THEN {new} ELSE {}
           remaining == Retain(order, replaced)
<1>1. order \in Seq(Table) /\ Elements(order) = DOMAIN tables /\ Injective(order)
  BY OrderInvForm
<1>2. /\ remaining \in Seq(Table)
      /\ Elements(remaining) = DOMAIN tables \ replaced
      /\ Injective(remaining)
  BY <1>1, RetainFacts
<1>3. /\ t \in DOMAIN tables
      /\ order' = [i \in DOMAIN remaining |->
                      IF remaining[i] = t THEN new ELSE remaining[i]]
  BY DEF RenameTable
<1>4. DOMAIN tables' = (DOMAIN tables \ {t}) \cup {new}
  <2>1. tables' = Put(Remove(tables, t), new, MarkAltered(tables[t]))
    BY DEF RenameTable
  <2>2. DOMAIN tables' = DOMAIN Remove(tables, t) \cup {new}
    BY <2>1 DEF Put
  <2> QED BY <2>2, RemoveDomain
<1>5. t \notin replaced /\ (new \in DOMAIN tables \ replaced => new = t)
  OBVIOUS
<1>6. DOMAIN remaining = 1..Len(remaining) /\ Len(remaining) \in Nat
  BY <1>2
<1> HIDE DEF remaining
<1>7. order' \in Seq(Table)
  <2>1. \A i \in 1..Len(remaining) : remaining[i] \in Table
    BY <1>2
  <2> QED BY <1>3, <1>6, <2>1
<1>8. DOMAIN order' = DOMAIN remaining
  BY <1>3
<1>9. Elements(order') = DOMAIN tables'
  <2>1. PICK k \in DOMAIN remaining : remaining[k] = t
    BY <1>2, <1>3, <1>5 DEF Elements
  <2>2. new \in Elements(order')
    BY <1>3, <1>8, <2>1 DEF Elements
  <2>3. ASSUME NEW x \in Elements(order') PROVE x \in DOMAIN tables'
    <3>1. PICK i \in DOMAIN remaining : x = order'[i]
      BY <1>8, <2>3 DEF Elements
    <3>2. remaining[i] \in DOMAIN tables
      BY <1>2, <3>1 DEF Elements
    <3> QED BY <1>3, <1>4, <3>1, <3>2
  <2>4. ASSUME NEW x \in DOMAIN tables' PROVE x \in Elements(order')
    <3>1. CASE x = new
      BY <2>2, <3>1
    <3>2. CASE x # new
      <4>1. x \in Elements(remaining) /\ x # t
        BY <1>2, <1>4, <2>4, <3>2
      <4>2. PICK i \in DOMAIN remaining : x = remaining[i]
        BY <4>1 DEF Elements
      <4>3. order'[i] = x
        BY <1>3, <4>1, <4>2
      <4> QED BY <1>8, <4>3 DEF Elements
    <3> QED BY <3>1, <3>2
  <2> QED BY <2>3, <2>4
<1>10. Injective(order')
  <2> SUFFICES ASSUME NEW i \in DOMAIN remaining, NEW j \in DOMAIN remaining,
                      order'[i] = order'[j]
               PROVE  i = j
    BY <1>8 DEF Injective
  <2>1. remaining[i] \in Elements(remaining) /\ remaining[j] \in Elements(remaining)
    BY DEF Elements
  <2>2. remaining[i] = remaining[j]
    BY <1>2, <1>3, <1>5, <2>1
  <2> QED BY <1>2, <2>2 DEF Injective
<1> QED BY <1>7, <1>9, <1>10, OrderInvFormPrime

LEMMA RenameOrder ==
    ASSUME OrderInv, NEW t \in Table, Rename(t)
    PROVE  OrderInv'
<1>1. CASE Unanalyzable(t)
  BY <1>1, SameKeysKeepOrder DEF Unanalyzable, SameKeys
<1>2. ASSUME NEW old \in Column, NEW new \in Column, RenameColumn(t, old, new)
      PROVE  OrderInv'
  BY <1>2, SameKeysKeepOrder DEF RenameColumn, EditColumn, SameKeys
<1>3. ASSUME NEW new \in Table, RenameTable(t, new)
      PROVE  OrderInv'
  BY <1>3, RenameTableOrder
<1> QED BY <1>1, <1>2, <1>3 DEF Rename

LEMMA DropTablesOrder ==
    ASSUME OrderInv, NEW names, NEW if_exists, DropTables(names, if_exists)
    PROVE  OrderInv'
<1>1. order \in Seq(Table) /\ Elements(order) = DOMAIN tables /\ Injective(order)
  BY OrderInvForm
<1>2. /\ order' = Retain(order, Elements(names))
      /\ DOMAIN tables' = DOMAIN tables \ Elements(names)
  BY DEF DropTables
<1> QED BY <1>1, <1>2, RetainFacts, OrderInvFormPrime

LEMMA OtherStepsOrder ==
    ASSUME OrderInv,
           \/ TypeDdl
           \/ \E t \in Table, sniffs \in {"alter", "create", "nothing"} : Skipped(sniffs, t)
           \/ \E t \in Table : ConditionalTableDdl(t)
           \/ DoBlockNote
           \/ UnusedIgnoreMarker
           \/ UNCHANGED vars
    PROVE  OrderInv'
BY SameKeysKeepOrder
   DEF TypeDdl, Skipped, ConditionalTableDdl, DoBlockNote, UnusedIgnoreMarker, vars, SameKeys

LEMMA OrderInvStep ==
    ASSUME OrderInv, [Next]_vars
    PROVE  OrderInv'
<1>1. CASE \E t \in Table, create \in Creates, ignore_marker \in BOOLEAN :
               CreateTable(t, create, ignore_marker)
  BY <1>1, CreateTableOrder
<1>2. CASE \E t \in Table : AlterOperation(t)
  BY <1>2, AlterOperationOrder
<1>3. CASE \E t \in Table : Rename(t)
  BY <1>3, RenameOrder
<1>4. CASE \E names \in DropLists, if_exists \in BOOLEAN : DropTables(names, if_exists)
  BY <1>4, DropTablesOrder
<1> QED BY <1>1, <1>2, <1>3, <1>4, OtherStepsOrder DEF Next

LEMMA OrderInvAlways == Spec => []OrderInv
<1>1. Init => OrderInv
  BY DEF Init, OrderInv, OrderMatchesTables, EmptyMap, Elements
<1>2. OrderInv /\ [Next]_vars => OrderInv'
  BY OrderInvStep
<1> QED BY <1>1, <1>2, PTL DEF Spec

\* finish() finds every table it lists, lists every table it holds, and none twice:
\* after any series of operations the creation order names each modeled table once.
THEOREM OrderAlwaysMatches == Spec => []OrderMatchesTables
<1>1. OrderInv => OrderMatchesTables
  BY DEF OrderInv
<1> QED BY <1>1, OrderInvAlways, PTL

-----------------------------------------------------------------------------
(* Columns and notes. *)

LEMMA NoteTyped ==
    ASSUME NEW kind \in NoteKind, NEW about \in Table \cup TypeName \cup {NoName},
           line' \in Nat
    PROVE  Note(kind, about) \in NoteRecord
BY DEF Note, NoteRecord

LEMMA TypeNotesTyped ==
    ASSUME NEW ref \in TypeRef, NEW noted \in SUBSET TypeName, line' \in Nat
    PROVE  /\ TypeNotes(ref, noted) \in Seq(NoteRecord)
           /\ TypesNoted(ref, noted) \in SUBSET TypeName
<1>1. ref.key \in TypeName
  BY DEF TypeRef
<1>2. Note("UnknownType", ref.key) \in NoteRecord
  BY <1>1, NoteTyped DEF NoteKind
<1> QED BY <1>1, <1>2 DEF TypeNotes, TypesNoted

LEMMA ResolveColumnTyped ==
    ASSUME NEW raw \in RawColumn, SessionOK(session)
    PROVE  ResolveColumn(raw) \in FoldedColumn
<1>1. Resolve(session, raw.type) \in ResolvedType
  BY ResolveTyped DEF RawColumn
<1> QED BY <1>1 DEF ResolveColumn, RawColumn, FoldedColumn, ResolvedType, TypeRef

-----------------------------------------------------------------------------
(* The loop over a statement's columns. *)

Declaration ==
    [ columns : Seq(FoldedColumn), noted : SUBSET TypeName, notes : Seq(NoteRecord),
      duplicate : BOOLEAN ]

LEMMA DeclareColumnTyped ==
    ASSUME NEW name \in Table, NEW create, NEW before \in Declaration,
           NEW raw \in RawColumn, SessionOK(session), line' \in Nat
    PROVE  DeclareColumn(name, create, before, raw) \in Declaration
<1> DEFINE column == [ResolveColumn(raw) EXCEPT
                          !.not_null = @ \/ raw.key \in create.pk_columns]
           repeated == HasColumn(before, raw.key)
           note == Note("DuplicateColumn", name)
<1>1. column \in FoldedColumn
  BY ResolveColumnTyped DEF FoldedColumn
<1>2. /\ TypeNotes(raw.type, before.noted) \in Seq(NoteRecord)
      /\ TypesNoted(raw.type, before.noted) \in SUBSET TypeName
  BY TypeNotesTyped DEF RawColumn, Declaration
<1>3. << note >> \in Seq(NoteRecord)
  BY NoteTyped DEF NoteKind
<1>4. repeated \in BOOLEAN
  BY DEF HasColumn
<1>5. /\ before.columns \in Seq(FoldedColumn) /\ before.notes \in Seq(NoteRecord)
      /\ before.duplicate \in BOOLEAN
  BY DEF Declaration
<1> HIDE DEF column, repeated, note
<1>6. (IF repeated THEN before.columns ELSE Append(before.columns, column))
          \in Seq(FoldedColumn)
  BY <1>1, <1>5
<1>7. before.notes \o TypeNotes(raw.type, before.noted)
          \o (IF repeated THEN << note >> ELSE << >>) \in Seq(NoteRecord)
  BY <1>2, <1>3, <1>5
<1>8. (before.duplicate \/ repeated) \in BOOLEAN
  BY <1>4, <1>5
<1> QED BY <1>2, <1>6, <1>7, <1>8 DEF DeclareColumn, Declaration, column, repeated, note

\* The loop's intermediate values, as DeclareColumns defines them.
IsDeclaring(name, create, inherited, F) ==
    F = [i \in 0..Len(create.columns) |->
            IF i = 0
            THEN [ columns |-> inherited, noted |-> unknown_types_noted,
                   notes |-> << >>, duplicate |-> FALSE ]
            ELSE DeclareColumn(name, create, F[i - 1], create.columns[i])]

LEMMA DeclaringExists ==
    ASSUME NEW name \in Table, NEW create \in CreateStatement,
           NEW inherited \in Seq(FoldedColumn), unknown_types_noted \subseteq TypeName,
           SessionOK(session), line' \in Nat
    PROVE  \E F : IsDeclaring(name, create, inherited, F)
<1> DEFINE n == Len(create.columns)
           V == Declaration
           init == [ columns |-> inherited, noted |-> unknown_types_noted,
                     notes |-> << >>, duplicate |-> FALSE ]
           step == [p \in (1..n) \X V |->
                       DeclareColumn(name, create, p[2], create.columns[p[1]])]
<1>1. n \in Nat /\ \A i \in 1..n : create.columns[i] \in RawColumn
  BY DEF CreateStatement
<1>2. init \in V
  BY DEF Declaration
<1>3. step \in [(1..n) \X V -> V]
  <2>1. ASSUME NEW p \in (1..n) \X V
        PROVE  DeclareColumn(name, create, p[2], create.columns[p[1]]) \in V
    BY <1>1, DeclareColumnTyped
  <2> QED BY <2>1
<1>4. \A i \in 1..n, v \in V :
          step[<<i, v>>] = DeclareColumn(name, create, v, create.columns[i])
  OBVIOUS
<1> HIDE DEF n, V, init, step
<1>5. PICK F : IsLoop(F, n, V, init, step)
  BY <1>1, <1>2, <1>3, LoopExists
<1>6. ASSUME NEW i \in 0..n
      PROVE  F[i] = IF i = 0 THEN init
                    ELSE DeclareColumn(name, create, F[i - 1], create.columns[i])
  <2>1. CASE i = 0
    BY <1>5, <2>1 DEF IsLoop
  <2>2. CASE i # 0
    <3>1. i \in 1..n /\ i - 1 \in 0..n
      BY <1>1, <2>2
    <3>2. F[i - 1] \in V /\ F[i] = step[<<i, F[i - 1]>>]
      BY <1>5, <3>1 DEF IsLoop
    <3> QED BY <1>4, <2>2, <3>1, <3>2
  <2> QED BY <2>1, <2>2
<1>7. F = [i \in 0..n |-> F[i]]
  BY <1>5 DEF IsLoop
<1>8. IsDeclaring(name, create, inherited, F)
  BY <1>6, <1>7 DEF IsDeclaring, init, n
<1> QED BY <1>8

\* The loop over the declared columns keeps what each of its rounds keeps.
LEMMA DeclareInvariant ==
    ASSUME NEW name \in Table, NEW create \in CreateStatement,
           NEW inherited \in Seq(FoldedColumn), unknown_types_noted \subseteq TypeName,
           SessionOK(session), line' \in Nat, NEW G,
           << 0, [ columns |-> inherited, noted |-> unknown_types_noted,
                   notes |-> << >>, duplicate |-> FALSE ] >> \in G,
           \A i \in 1..Len(create.columns), before \in Declaration :
               << i - 1, before >> \in G =>
                   << i, DeclareColumn(name, create, before, create.columns[i]) >> \in G
    PROVE  /\ DeclareColumns(name, create, inherited) \in Declaration
           /\ << Len(create.columns), DeclareColumns(name, create, inherited) >> \in G
<1> DEFINE n == Len(create.columns)
           init == [ columns |-> inherited, noted |-> unknown_types_noted,
                     notes |-> << >>, duplicate |-> FALSE ]
           acc == CHOOSE F : IsDeclaring(name, create, inherited, F)
           T == {m \in 0..n : acc[m] \in Declaration /\ << m, acc[m] >> \in G}
<1>1. IsDeclaring(name, create, inherited, acc)
  BY DeclaringExists
<1>2. DeclareColumns(name, create, inherited) = acc[n]
  BY DEF DeclareColumns, IsDeclaring
<1>3. n \in Nat /\ \A i \in 1..n : create.columns[i] \in RawColumn
  BY DEF CreateStatement
<1> HIDE DEF acc
<1>4. 0 \in T
  <2>1. acc[0] = init
    BY <1>1, <1>3 DEF IsDeclaring
  <2>2. init \in Declaration
    BY DEF Declaration
  <2>3. << 0, init >> \in G
    OBVIOUS
  <2> HIDE DEF init
  <2> QED BY <1>3, <2>1, <2>2, <2>3
<1>5. ASSUME NEW m \in 0..(n - 1), m \in T PROVE m + 1 \in T
  <2>1. m + 1 \in 1..n /\ m + 1 \in 0..n /\ (m + 1) - 1 = m /\ m + 1 # 0
    BY <1>3
  <2>2. acc[m + 1] = DeclareColumn(name, create, acc[m], create.columns[m + 1])
    BY <1>1, <2>1 DEF IsDeclaring
  <2>3. acc[m] \in Declaration /\ << m, acc[m] >> \in G
    BY <1>5
  <2>4. acc[m + 1] \in Declaration
    BY <1>3, <2>1, <2>2, <2>3, DeclareColumnTyped
  <2>5. << m + 1, acc[m + 1] >> \in G
    BY <2>1, <2>2, <2>3
  <2> QED BY <2>1, <2>4, <2>5
<1>6. n \in T
  <2> HIDE DEF T, n
  <2> QED BY <1>3, <1>4, <1>5, CountUp
<1> QED BY <1>2, <1>6

LEMMA DeclareColumnsTyped ==
    ASSUME NEW name \in Table, NEW create \in CreateStatement,
           NEW inherited \in Seq(FoldedColumn), unknown_types_noted \subseteq TypeName,
           SessionOK(session), line' \in Nat
    PROVE  DeclareColumns(name, create, inherited) \in Declaration
<1> DEFINE n == Len(create.columns)
           init == [ columns |-> inherited, noted |-> unknown_types_noted,
                     notes |-> << >>, duplicate |-> FALSE ]
           G == {<< 0, init >>} \cup (1..n) \X Declaration
<1>1. \A i \in 1..n : create.columns[i] \in RawColumn
  BY DEF CreateStatement
<1>2. \A i \in 1..n, before \in Declaration :
          << i, DeclareColumn(name, create, before, create.columns[i]) >> \in G
  BY <1>1, DeclareColumnTyped
<1>3. << 0, init >> \in G
  OBVIOUS
<1> HIDE DEF G
<1> QED BY <1>2, <1>3, DeclareInvariant
-----------------------------------------------------------------------------
(* The state but for `order`, which OrderInv types. *)

TablesOK(map) ==
    /\ DOMAIN map \subseteq Table
    /\ \A key \in DOMAIN map : map[key] \in FoldedTable

StateOK ==
    /\ SessionOK(session)
    /\ TablesOK(tables)
    /\ ghosts \subseteq Table
    /\ notes \in Seq(NoteRecord)
    /\ unknown_types_noted \subseteq TypeName

PositionOK == line \in 0..MaxStatements /\ open \in Table \cup {NoName}

LEMMA StateOKPrime ==
    StateOK' <=> /\ SessionOK(session')
                 /\ TablesOK(tables')
                 /\ ghosts' \subseteq Table
                 /\ notes' \in Seq(NoteRecord)
                 /\ unknown_types_noted' \subseteq TypeName
BY DEF StateOK, SessionOK, TablesOK

LEMMA TypeOKForm == TypeOK <=> PositionOK /\ StateOK /\ order \in Seq(Table)
BY DEF TypeOK, PositionOK, StateOK, SessionOK, TablesOK

LEMMA NewStatementPosition ==
    ASSUME PositionOK, NewStatement
    PROVE  PositionOK' /\ line' \in Nat
BY WorkloadAssumption DEF PositionOK, NewStatement

LEMMA AlterTablePosition ==
    ASSUME PositionOK, NEW t \in Table, AlterTable(t)
    PROVE  PositionOK' /\ line' \in Nat
BY WorkloadAssumption DEF PositionOK, AlterTable

LEMMA NotedStep ==
    ASSUME notes \in Seq(NoteRecord), NEW kind \in NoteKind,
           NEW about \in Table \cup TypeName \cup {NoName}, line' \in Nat
    PROVE  Append(notes, Note(kind, about)) \in Seq(NoteRecord)
BY NoteTyped

LEMMA MarkAlteredTyped ==
    ASSUME NEW table \in FoldedTable, line' \in Nat
    PROVE  MarkAltered(table) \in FoldedTable
<1>1. table.altered_in \in Seq(Nat) /\ Append(table.altered_in, line') \in Seq(Nat)
  BY DEF FoldedTable
<1> QED BY <1>1 DEF MarkAltered, FoldedTable

LEMMA ColumnsReplaced ==
    ASSUME NEW table \in FoldedTable, NEW columns \in Seq(FoldedColumn), NEW count \in Nat
    PROVE  /\ [table EXCEPT !.columns = columns] \in FoldedTable
           /\ [table EXCEPT !.columns = columns, !.dropped_count = count] \in FoldedTable
<1>1. \A one \in FoldedTable : [one EXCEPT !.columns = columns] \in FoldedTable
  BY DEF FoldedTable
<1>2. \A one \in FoldedTable : [one EXCEPT !.dropped_count = count] \in FoldedTable
  BY DEF FoldedTable
<1> QED BY <1>1, <1>2

LEMMA EntryReplaced ==
    ASSUME TablesOK(tables), NEW t \in DOMAIN tables, NEW table \in FoldedTable
    PROVE  TablesOK([tables EXCEPT ![t] = table])
BY DEF TablesOK

-----------------------------------------------------------------------------
(* CREATE TABLE. *)

LEMMA InheritTyped ==
    ASSUME StateOK, NEW name \in Table, NEW create \in CreateStatement, line' \in Nat
    PROVE  /\ Inherit(name, create).columns \in Seq(FoldedColumn)
           /\ Inherit(name, create).dropped \in Nat
           /\ Inherit(name, create).incomplete \in BOOLEAN
           /\ Inherit(name, create).notes \in Seq(NoteRecord)
<1>1. << Note("IncompleteColumns", name) >> \in Seq(NoteRecord)
  BY NoteTyped DEF NoteKind
<1>2. \A from \in DOMAIN tables :
          /\ tables[from].columns \in Seq(FoldedColumn)
          /\ tables[from].dropped_count \in Nat
          /\ tables[from].incomplete \in BOOLEAN
  BY DEF StateOK, TablesOK, FoldedTable
<1>3. << >> \in Seq(FoldedColumn) /\ << >> \in Seq(NoteRecord)
  OBVIOUS
<1> DEFINE from == IF create.partition_of # NoName THEN create.partition_of
                   ELSE create.like_source
           expands == /\ from \in DOMAIN tables
                      /\ create.partition_of # NoName \/ create.columns = << >>
<1>4. CASE from = NoName
  BY <1>3, <1>4 DEF Inherit
<1>5. CASE from # NoName /\ expands
  <2>1. Inherit(name, create) =
            [ columns |-> tables[from].columns, dropped |-> tables[from].dropped_count,
              incomplete |-> tables[from].incomplete, notes |-> << >> ]
    BY <1>5 DEF Inherit
  <2> HIDE DEF from
  <2> QED BY <1>2, <1>3, <1>5, <2>1
<1>6. CASE from # NoName /\ ~expands
  <2>1. Inherit(name, create) =
            [ columns |-> << >>, dropped |-> 0, incomplete |-> TRUE,
              notes |-> << Note("IncompleteColumns", name) >> ]
    BY <1>6 DEF Inherit
  <2> QED BY <1>1, <1>3, <2>1
<1> QED BY <1>4, <1>5, <1>6

LEMMA EstablishTyped ==
    ASSUME StateOK, NEW name \in Table, NEW create \in Creates,
           NEW ignore_marker \in BOOLEAN, line' \in Nat,
           Establish(name, create, ignore_marker)
    PROVE  StateOK'
<1> DEFINE inherited == Inherit(name, create)
           declared == DeclareColumns(name, create, inherited.columns)
           table == [ origin |-> line', altered_in |-> << >>, ignored |-> ignore_marker,
                      incomplete |-> \/ create.incomplete_columns
                                     \/ inherited.incomplete
                                     \/ declared.duplicate,
                      columns |-> declared.columns, dropped_count |-> inherited.dropped ]
           redefined == IF name \in DOMAIN tables THEN << Note("Redefined", name) >> ELSE << >>
           partial == IF create.incomplete_columns
                      THEN << Note("IncompleteColumns", name) >> ELSE << >>
<1>1. create \in CreateStatement /\ create.incomplete_columns \in BOOLEAN
  BY WorkloadAssumption DEF CreateStatement
<1>2. /\ inherited.columns \in Seq(FoldedColumn) /\ inherited.dropped \in Nat
      /\ inherited.incomplete \in BOOLEAN /\ inherited.notes \in Seq(NoteRecord)
  BY <1>1, InheritTyped
<1>3. declared \in Declaration
  <2> HIDE DEF inherited
  <2> QED BY <1>1, <1>2, DeclareColumnsTyped DEF StateOK
<1>4. /\ declared.columns \in Seq(FoldedColumn) /\ declared.noted \subseteq TypeName
      /\ declared.notes \in Seq(NoteRecord) /\ declared.duplicate \in BOOLEAN
  <2> HIDE DEF declared
  <2> QED BY <1>3 DEF Declaration
<1>5. redefined \in Seq(NoteRecord) /\ partial \in Seq(NoteRecord)
  BY NoteTyped DEF NoteKind
<1>6. /\ tables' = Put(tables, name, table)
      /\ notes' = notes \o redefined \o partial \o inherited.notes \o declared.notes
      /\ unknown_types_noted' = declared.noted
      /\ ghosts' = ghosts \ {name} /\ session' = session
  BY DEF Establish
<1>7. table \in FoldedTable
  <2> HIDE DEF inherited, declared
  <2>1. (create.incomplete_columns \/ inherited.incomplete \/ declared.duplicate) \in BOOLEAN
    BY <1>1, <1>2, <1>4
  <2> QED BY <1>2, <1>4, <2>1 DEF FoldedTable
<1> HIDE DEF inherited, declared, table, redefined, partial
<1>8. TablesOK(tables')
  BY <1>6, <1>7 DEF StateOK, TablesOK, Put
<1>9. notes' \in Seq(NoteRecord)
  BY <1>2, <1>4, <1>5, <1>6 DEF StateOK
<1> QED BY <1>4, <1>6, <1>8, <1>9, StateOKPrime DEF StateOK

LEMMA CreateTableTyped ==
    ASSUME StateOK, PositionOK, NEW name \in Table, NEW create \in Creates,
           NEW ignore_marker \in BOOLEAN, CreateTable(name, create, ignore_marker)
    PROVE  StateOK' /\ PositionOK'
<1>1. PositionOK' /\ line' \in Nat
  BY NewStatementPosition DEF CreateTable
<1>2. CASE SkipTemporary(name, create)
  <2>1. notes' \in Seq(NoteRecord)
    BY <1>1, <1>2, NotedStep DEF SkipTemporary, StateOK, NoteKind
  <2> QED BY <1>1, <1>2, <2>1, StateOKPrime DEF SkipTemporary, StateOK
<1>3. CASE SkipCtas(name, create)
  <2>1. notes' \in Seq(NoteRecord)
    BY <1>1, <1>3, NotedStep DEF SkipCtas, StateOK, NoteKind
  <2> QED BY <1>1, <1>3, <2>1, StateOKPrime DEF SkipCtas, StateOK
<1>4. CASE KeepExisting(name, create)
  BY <1>1, <1>4, StateOKPrime DEF KeepExisting, StateOK
<1>5. CASE Establish(name, create, ignore_marker)
  BY <1>1, <1>5, EstablishTyped
<1> QED BY <1>2, <1>3, <1>4, <1>5 DEF CreateTable

-----------------------------------------------------------------------------
(* ALTER TABLE. *)

\* A step that edits one table and adds notes.
LEMMA TableEdited ==
    ASSUME StateOK, NEW t \in DOMAIN tables, NEW table \in FoldedTable,
           NEW more \in Seq(NoteRecord),
           tables' = [tables EXCEPT ![t] = table] \/ tables' = tables,
           notes' = notes \o more,
           unknown_types_noted' \subseteq TypeName,
           UNCHANGED <<session, ghosts>>
    PROVE  StateOK'
<1>1. TablesOK(tables')
  BY EntryReplaced DEF StateOK
<1>2. notes' \in Seq(NoteRecord)
  BY DEF StateOK
<1> QED BY <1>1, <1>2, StateOKPrime DEF StateOK

LEMMA UnanalyzableTyped ==
    ASSUME StateOK, NEW t \in Table, line' \in Nat, Unanalyzable(t)
    PROVE  StateOK'
<1>1. notes' \in Seq(NoteRecord)
  BY NotedStep DEF Unanalyzable, StateOK, NoteKind
<1> QED BY <1>1, StateOKPrime DEF Unanalyzable, StateOK

LEMMA AddColumnTyped ==
    ASSUME StateOK, NEW t \in Table, line' \in Nat, NEW raw \in Raws,
           NEW if_not_exists \in BOOLEAN, AddColumn(t, raw, if_not_exists)
    PROVE  StateOK'
<1>1. raw \in RawColumn /\ raw.type \in TypeRef
  BY WorkloadAssumption DEF RawColumn
<1>2. t \in DOMAIN tables /\ tables[t] \in FoldedTable
  BY DEF AddColumn, StateOK, TablesOK
<1>3. UNCHANGED <<session, ghosts>>
  BY DEF AddColumn
<1>4. CASE HasColumn(tables[t], raw.key)
  <2>1. /\ notes' = IF if_not_exists THEN notes ELSE Append(notes, Note("DuplicateColumn", t))
        /\ UNCHANGED <<tables, unknown_types_noted>>
    BY <1>4 DEF AddColumn
  <2>2. Append(notes, Note("DuplicateColumn", t)) \in Seq(NoteRecord)
    BY NotedStep DEF StateOK, NoteKind
  <2> QED BY <1>3, <2>1, <2>2, StateOKPrime DEF StateOK
<1>5. CASE ~HasColumn(tables[t], raw.key)
  <2> DEFINE grown == [tables[t] EXCEPT
                          !.columns = Append(tables[t].columns, ResolveColumn(raw))]
  <2>1. /\ tables' = [tables EXCEPT ![t] = MarkAltered(grown)]
        /\ notes' = notes \o TypeNotes(raw.type, unknown_types_noted)
        /\ unknown_types_noted' = TypesNoted(raw.type, unknown_types_noted)
    BY <1>5 DEF AddColumn
  <2>2. ResolveColumn(raw) \in FoldedColumn
    BY <1>1, ResolveColumnTyped DEF StateOK
  <2>3. grown \in FoldedTable
    <3>1. tables[t].columns \in Seq(FoldedColumn)
      BY <1>2 DEF FoldedTable
    <3>2. Append(tables[t].columns, ResolveColumn(raw)) \in Seq(FoldedColumn)
      BY <2>2, <3>1
    <3> QED BY <1>2, <3>2, ColumnsReplaced
  <2>4. MarkAltered(grown) \in FoldedTable
    <3> HIDE DEF grown
    <3> QED BY <2>3, MarkAlteredTyped
  <2>5. /\ TypeNotes(raw.type, unknown_types_noted) \in Seq(NoteRecord)
        /\ unknown_types_noted' \subseteq TypeName
    BY <1>1, <2>1, TypeNotesTyped DEF StateOK
  <2> HIDE DEF grown
  <2> QED BY <1>2, <1>3, <2>1, <2>4, <2>5, TableEdited
<1> QED BY <1>4, <1>5

LEMMA DropColumnsTyped ==
    ASSUME StateOK, NEW t \in Table, line' \in Nat, NEW column \in Column,
           NEW if_exists \in BOOLEAN, DropColumns(t, column, if_exists)
    PROVE  StateOK'
<1>1. t \in DOMAIN tables /\ tables[t] \in FoldedTable
  BY DEF DropColumns, StateOK, TablesOK
<1>2. UNCHANGED <<session, ghosts, unknown_types_noted>>
  BY DEF DropColumns
<1>3. CASE HasColumn(tables[t], column)
  <2> DEFINE kept == WithoutColumn(tables[t], column)
             cut == [tables[t] EXCEPT
                        !.columns = kept, !.dropped_count = tables[t].dropped_count + 1]
  <2>1. /\ tables' = [tables EXCEPT ![t] = MarkAltered(cut)]
        /\ notes' = Append(notes, Note("DroppedColumn", t))
    BY <1>3 DEF DropColumns
  <2>2. kept \in Seq(FoldedColumn)
    BY <1>1, RetainFacts DEF FoldedTable, WithoutColumn
  <2>3. cut \in FoldedTable
    <3>1. tables[t].dropped_count + 1 \in Nat
      BY <1>1 DEF FoldedTable
    <3> HIDE DEF kept
    <3> QED BY <1>1, <2>2, <3>1, ColumnsReplaced
  <2>4. MarkAltered(cut) \in FoldedTable
    <3> HIDE DEF cut
    <3> QED BY <2>3, MarkAlteredTyped
  <2>5. notes' \in Seq(NoteRecord)
    BY <2>1, NotedStep DEF StateOK, NoteKind
  <2> HIDE DEF cut
  <2>6. TablesOK(tables')
    BY <1>1, <2>1, <2>4, EntryReplaced DEF StateOK
  <2> QED BY <1>2, <2>5, <2>6, StateOKPrime DEF StateOK
<1>4. CASE ~HasColumn(tables[t], column)
  <2>1. /\ notes' = IF if_exists THEN notes ELSE Append(notes, Note("UnknownColumn", t))
        /\ UNCHANGED tables
    BY <1>4 DEF DropColumns
  <2>2. Append(notes, Note("UnknownColumn", t)) \in Seq(NoteRecord)
    BY NotedStep DEF StateOK, NoteKind
  <2> QED BY <1>2, <2>1, <2>2, StateOKPrime DEF StateOK
<1> QED BY <1>3, <1>4

\* The first column of a name is one.
LEMMA FirstColumnFound ==
    ASSUME NEW table \in FoldedTable, NEW key, HasColumn(table, key)
    PROVE  /\ FirstColumn(table, key) \in DOMAIN table.columns
           /\ table.columns[FirstColumn(table, key)].key = key
<1> DEFINE At(i) == i \in DOMAIN table.columns /\ table.columns[i].key = key
           T == {m \in Nat : \A i \in 0..m : ~At(i)}
<1>1. DOMAIN table.columns = 1..Len(table.columns) /\ Len(table.columns) \in Nat
  BY DEF FoldedTable
<1>2. PICK k \in Nat : At(k)
  BY <1>1 DEF HasColumn, Elements
<1>3. \E i \in DOMAIN table.columns :
          /\ table.columns[i].key = key
          /\ \A j \in 1..(i - 1) : table.columns[j].key # key
  <2> SUFFICES ASSUME \A i \in DOMAIN table.columns :
                          table.columns[i].key = key
                          => \E j \in 1..(i - 1) : table.columns[j].key = key
               PROVE  FALSE
    OBVIOUS
  <2>1. 0 \in T
    BY <1>1
  <2>2. ASSUME NEW m \in T PROVE m + 1 \in T
    <3>1. ~At(m + 1)
      <4> SUFFICES ASSUME At(m + 1) PROVE FALSE
        OBVIOUS
      <4>1. PICK j \in 1..((m + 1) - 1) : table.columns[j].key = key
        OBVIOUS
      <4>2. j \in 0..m /\ j \in DOMAIN table.columns
        BY <1>1
      <4> QED BY <4>1, <4>2
    <3> QED BY <3>1
  <2>3. T = Nat
    <3> HIDE DEF T
    <3>1. T \in SUBSET Nat
      BY DEF T
    <3> QED BY <2>1, <2>2, <3>1, NatSetInduction
  <2> QED BY <1>2, <2>3
<1> QED BY <1>3 DEF FirstColumn

LEMMA ColumnEdited ==
    ASSUME StateOK, NEW t \in DOMAIN tables, NEW column, HasColumn(tables[t], column),
           NEW edit \in FoldedColumn, line' \in Nat
    PROVE  MarkAltered([tables[t] EXCEPT !.columns =
               [tables[t].columns EXCEPT ![FirstColumn(tables[t], column)] = edit]])
           \in FoldedTable
<1> DEFINE edited == [tables[t].columns EXCEPT ![FirstColumn(tables[t], column)] = edit]
           table == [tables[t] EXCEPT !.columns = edited]
<1>1. tables[t] \in FoldedTable /\ tables[t].columns \in Seq(FoldedColumn)
  BY DEF StateOK, TablesOK, FoldedTable
<1>2. edited \in Seq(FoldedColumn)
  BY <1>1, ElementReplaced
<1>3. table \in FoldedTable
  <2> HIDE DEF edited
  <2>1. 0 \in Nat
    OBVIOUS
  <2> QED BY <1>1, <1>2, <2>1, ColumnsReplaced
<1>4. MarkAltered(table) \in FoldedTable
  <2> HIDE DEF table
  <2> QED BY <1>3, MarkAlteredTyped
<1> QED BY <1>4

\* The first column of that name, where there is one.
LEMMA FirstColumnTyped ==
    ASSUME StateOK, NEW t \in DOMAIN tables, NEW column, HasColumn(tables[t], column)
    PROVE  tables[t].columns[FirstColumn(tables[t], column)] \in FoldedColumn
<1>1. tables[t] \in FoldedTable /\ tables[t].columns \in Seq(FoldedColumn)
  BY DEF StateOK, TablesOK, FoldedTable
<1> QED BY <1>1, FirstColumnFound

LEMMA ColumnNotesTyped ==
    ASSUME NEW t \in Table, NEW column, line' \in Nat
    PROVE  ColumnNotes(t, column) \in Seq(NoteRecord)
BY NoteTyped DEF ColumnNotes, NoteKind

LEMMA RenameColumnTyped ==
    ASSUME StateOK, NEW t \in Table, line' \in Nat, NEW old \in Column, NEW new \in Column,
           RenameColumn(t, old, new)
    PROVE  StateOK'
<1> DEFINE c == tables[t].columns[FirstColumn(tables[t], old)]
           edit == [c EXCEPT !.key = new]
           table == MarkAltered([tables[t] EXCEPT !.columns =
                        [tables[t].columns EXCEPT ![FirstColumn(tables[t], old)] = edit]])
<1>1. /\ t \in DOMAIN tables
      /\ notes' = notes \o ColumnNotes(t, old)
      /\ UNCHANGED <<session, ghosts, unknown_types_noted>>
  BY DEF RenameColumn
<1>2. tables' = IF HasColumn(tables[t], old) THEN [tables EXCEPT ![t] = table] ELSE tables
  BY DEF RenameColumn, EditColumn
<1>3. notes' \in Seq(NoteRecord)
  BY <1>1, ColumnNotesTyped DEF StateOK
<1>4. TablesOK(tables')
  <2>1. CASE HasColumn(tables[t], old)
    <3>1. edit \in FoldedColumn
      BY <1>1, <2>1, FirstColumnTyped DEF FoldedColumn
    <3>2. table \in FoldedTable
      <4> HIDE DEF edit
      <4> QED BY <1>1, <2>1, <3>1, ColumnEdited
    <3> HIDE DEF table
    <3> QED BY <1>1, <1>2, <2>1, <3>2, EntryReplaced DEF StateOK
  <2>2. CASE ~HasColumn(tables[t], old)
    BY <1>2, <2>2 DEF StateOK
  <2> QED BY <2>1, <2>2
<1> QED BY <1>1, <1>3, <1>4, StateOKPrime DEF StateOK

LEMMA SetNotNullTyped ==
    ASSUME StateOK, NEW t \in Table, line' \in Nat, NEW column \in Column,
           NEW value \in BOOLEAN, SetNotNull(t, column, value)
    PROVE  StateOK'
<1> DEFINE c == tables[t].columns[FirstColumn(tables[t], column)]
           edit == [c EXCEPT !.not_null = value]
           table == MarkAltered([tables[t] EXCEPT !.columns =
                        [tables[t].columns EXCEPT ![FirstColumn(tables[t], column)] = edit]])
<1>1. /\ t \in DOMAIN tables
      /\ notes' = notes \o ColumnNotes(t, column)
      /\ UNCHANGED <<session, ghosts, unknown_types_noted>>
  BY DEF SetNotNull
<1>2. tables' = IF HasColumn(tables[t], column) THEN [tables EXCEPT ![t] = table] ELSE tables
  BY DEF SetNotNull, EditColumn
<1>3. notes' \in Seq(NoteRecord)
  BY <1>1, ColumnNotesTyped DEF StateOK
<1>4. TablesOK(tables')
  <2>1. CASE HasColumn(tables[t], column)
    <3>1. edit \in FoldedColumn
      BY <1>1, <2>1, FirstColumnTyped DEF FoldedColumn
    <3>2. table \in FoldedTable
      <4> HIDE DEF edit
      <4> QED BY <1>1, <2>1, <3>1, ColumnEdited
    <3> HIDE DEF table
    <3> QED BY <1>1, <1>2, <2>1, <3>2, EntryReplaced DEF StateOK
  <2>2. CASE ~HasColumn(tables[t], column)
    BY <1>2, <2>2 DEF StateOK
  <2> QED BY <2>1, <2>2
<1> QED BY <1>1, <1>3, <1>4, StateOKPrime DEF StateOK

LEMMA SetColumnTypeTyped ==
    ASSUME StateOK, NEW t \in Table, line' \in Nat, NEW column \in Column,
           NEW ref \in NewTypes, SetColumnType(t, column, ref)
    PROVE  StateOK'
<1> DEFINE resolved == Resolve(session, ref)
           c == tables[t].columns[FirstColumn(tables[t], column)]
           edit == [c EXCEPT !.kind = resolved.kind, !.known_type = resolved.known,
                             !.type = ref.key]
           table == MarkAltered([tables[t] EXCEPT !.columns =
                        [tables[t].columns EXCEPT ![FirstColumn(tables[t], column)] = edit]])
<1>1. /\ t \in DOMAIN tables
      /\ notes' = notes \o TypeNotes(ref, unknown_types_noted) \o ColumnNotes(t, column)
      /\ unknown_types_noted' = TypesNoted(ref, unknown_types_noted)
      /\ UNCHANGED <<session, ghosts>>
  BY DEF SetColumnType
<1>2. tables' = IF HasColumn(tables[t], column) THEN [tables EXCEPT ![t] = table] ELSE tables
  BY DEF SetColumnType, EditColumn
<1>3. ref \in TypeRef /\ ref.key \in TypeName /\ resolved \in ResolvedType
  BY WorkloadAssumption, ResolveTyped DEF TypeRef, StateOK
<1>4. notes' \in Seq(NoteRecord) /\ unknown_types_noted' \subseteq TypeName
  <2>1. /\ TypeNotes(ref, unknown_types_noted) \in Seq(NoteRecord)
        /\ TypesNoted(ref, unknown_types_noted) \in SUBSET TypeName
    BY <1>3, TypeNotesTyped DEF StateOK
  <2> QED BY <1>1, <2>1, ColumnNotesTyped DEF StateOK
<1>5. TablesOK(tables')
  <2>1. CASE HasColumn(tables[t], column)
    <3>1. c \in FoldedColumn
      BY <1>1, <2>1, FirstColumnTyped
    <3>2. edit \in FoldedColumn
      <4> HIDE DEF c, resolved
      <4>1. resolved.kind \in ColumnKind /\ resolved.known \in BOOLEAN
        BY <1>3 DEF ResolvedType
      <4> QED BY <1>3, <3>1, <4>1 DEF FoldedColumn
    <3>3. table \in FoldedTable
      <4> HIDE DEF edit
      <4> QED BY <1>1, <2>1, <3>2, ColumnEdited
    <3> HIDE DEF table
    <3> QED BY <1>1, <1>2, <2>1, <3>3, EntryReplaced DEF StateOK
  <2>2. CASE ~HasColumn(tables[t], column)
    BY <1>2, <2>2 DEF StateOK
  <2> QED BY <2>1, <2>2
<1> QED BY <1>1, <1>4, <1>5, StateOKPrime DEF StateOK

LEMMA AlterOperationTyped ==
    ASSUME StateOK, PositionOK, NEW t \in Table, AlterOperation(t)
    PROVE  StateOK' /\ PositionOK'
<1>1. PositionOK' /\ line' \in Nat
  BY AlterTablePosition DEF AlterOperation
<1>2. CASE Unanalyzable(t)
  BY <1>1, <1>2, UnanalyzableTyped
<1>3. ASSUME NEW raw \in Raws, NEW if_not_exists \in BOOLEAN,
             AddColumn(t, raw, if_not_exists)
      PROVE  StateOK'
  BY <1>1, <1>3, AddColumnTyped
<1>4. ASSUME NEW column \in Column, NEW if_exists \in BOOLEAN,
             DropColumns(t, column, if_exists)
      PROVE  StateOK'
  BY <1>1, <1>4, DropColumnsTyped
<1>5. ASSUME NEW column \in Column, NEW ref \in NewTypes, SetColumnType(t, column, ref)
      PROVE  StateOK'
  BY <1>1, <1>5, SetColumnTypeTyped
<1>6. ASSUME NEW column \in Column, NEW value \in BOOLEAN, SetNotNull(t, column, value)
      PROVE  StateOK'
  BY <1>1, <1>6, SetNotNullTyped
<1> QED BY <1>1, <1>2, <1>3, <1>4, <1>5, <1>6 DEF AlterOperation

-----------------------------------------------------------------------------
(* RENAME and DROP TABLE. *)

LEMMA RenameTableTyped ==
    ASSUME StateOK, NEW t \in Table, line' \in Nat, NEW new \in Table,
           RenameTable(t, new)
    PROVE  StateOK'
<1> DEFINE moved == MarkAltered(tables[t])
           replaced == IF new # t /\ new \in DOMAIN tables THEN {new} ELSE {}
<1>1. /\ t \in DOMAIN tables
      /\ tables' = Put(Remove(tables, t), new, moved)
      /\ notes' = IF replaced = {} THEN notes ELSE Append(notes, Note("Redefined", t))
      /\ UNCHANGED <<session, ghosts, unknown_types_noted>>
  BY DEF RenameTable
<1>2. moved \in FoldedTable
  BY <1>1, MarkAlteredTyped DEF StateOK, TablesOK
<1>3. Append(notes, Note("Redefined", t)) \in Seq(NoteRecord)
  BY NotedStep DEF StateOK, NoteKind
<1> HIDE DEF moved, replaced
<1>4. TablesOK(tables')
  BY <1>1, <1>2 DEF StateOK, TablesOK, Put, Remove
<1> QED BY <1>1, <1>3, <1>4, StateOKPrime DEF StateOK

LEMMA RenameTyped ==
    ASSUME StateOK, PositionOK, NEW t \in Table, Rename(t)
    PROVE  StateOK' /\ PositionOK'
<1>1. PositionOK' /\ line' \in Nat
  BY NewStatementPosition DEF Rename
<1>2. CASE Unanalyzable(t)
  BY <1>1, <1>2, UnanalyzableTyped
<1>3. ASSUME NEW old \in Column, NEW new \in Column, RenameColumn(t, old, new)
      PROVE  StateOK'
  BY <1>1, <1>3, RenameColumnTyped
<1>4. ASSUME NEW new \in Table, RenameTable(t, new)
      PROVE  StateOK'
  BY <1>1, <1>4, RenameTableTyped
<1> QED BY <1>1, <1>2, <1>3, <1>4 DEF Rename

LEMMA DropTablesTyped ==
    ASSUME StateOK, PositionOK, NEW names \in DropLists, NEW if_exists \in BOOLEAN,
           DropTables(names, if_exists)
    PROVE  StateOK' /\ PositionOK'
<1> DEFINE missing == IF if_exists THEN << >> ELSE Retain(names, DOMAIN tables \cup ghosts)
           more == [i \in DOMAIN missing |-> Note("AlterUnknownTable", missing[i])]
<1>1. PositionOK' /\ line' \in Nat
  BY NewStatementPosition DEF DropTables
<1>2. missing \in Seq(Table)
  BY WorkloadAssumption, RetainFacts
<1>3. /\ tables' = [key \in DOMAIN tables \ Elements(names) |-> tables[key]]
      /\ ghosts' = ghosts \ Elements(names)
      /\ notes' = notes \o more
      /\ UNCHANGED <<session, unknown_types_noted>>
  BY DEF DropTables
<1>4. more \in Seq(NoteRecord)
  <2> HIDE DEF missing
  <2>1. Len(missing) \in Nat /\ DOMAIN missing = 1..Len(missing)
    BY <1>2
  <2>2. \A i \in 1..Len(missing) : Note("AlterUnknownTable", missing[i]) \in NoteRecord
    BY <1>1, <1>2, NoteTyped DEF NoteKind
  <2> QED BY <2>1, <2>2
<1> HIDE DEF more
<1>5. notes' \in Seq(NoteRecord)
  BY <1>3, <1>4 DEF StateOK
<1>6. TablesOK(tables') /\ ghosts' \subseteq Table
  BY <1>3 DEF StateOK, TablesOK
<1> QED BY <1>1, <1>3, <1>5, <1>6, StateOKPrime DEF StateOK

-----------------------------------------------------------------------------
(* Type DDL, skipped statements, DO blocks, stranded markers. *)

LEMMA TypeDdlTyped ==
    ASSUME StateOK, PositionOK, TypeDdl
    PROVE  StateOK' /\ PositionOK'
<1>1. PositionOK' /\ UNCHANGED <<tables, ghosts, notes, unknown_types_noted>>
  BY NewStatementPosition DEF TypeDdl
<1>2. SessionOK(session) /\ {} \subseteq TypeRef
      /\ \A ref \in NewTypes : ref \in TypeRef /\ {ref} \in SUBSET TypeRef
  BY WorkloadAssumption DEF StateOK
<1>3. ASSUME NEW name \in TypeName, CreateEnum(name) \/ CreateComposite(name) \/ CreateBase(name)
      PROVE  SessionOK(session')
  BY <1>2, <1>3, SimpleTypesOK DEF CreateEnum, CreateComposite, CreateBase
<1>4. ASSUME NEW name \in TypeName, CreateRange(name, {})
      PROVE  SessionOK(session')
  BY <1>2, <1>4, DefineRangeOK DEF CreateRange
<1>5. ASSUME NEW name \in TypeName, NEW ref \in NewTypes, CreateRange(name, {ref})
      PROVE  SessionOK(session')
  BY <1>2, <1>5, DefineRangeOK DEF CreateRange
<1>6. ASSUME NEW name \in TypeName, NEW ref \in NewTypes, CreateDomain(name, ref)
      PROVE  SessionOK(session')
  BY <1>2, <1>6, DefineDomainOK DEF CreateDomain
<1>7. ASSUME NEW names, DropTypes(names)
      PROVE  SessionOK(session')
  BY <1>2, <1>7 DEF DropTypes, SessionOK
<1>8. ASSUME NEW old \in TypeName, NEW new \in TypeName, RenameTypeTo(old, new)
      PROVE  SessionOK(session')
  BY <1>2, <1>8, RenameTypeOK DEF RenameTypeTo
<1>9. SessionOK(session')
  BY <1>3, <1>4, <1>5, <1>6, <1>7, <1>8 DEF TypeDdl
<1> QED BY <1>1, <1>9, StateOKPrime DEF StateOK

\* Marking a table incomplete keeps it a table.
LEMMA MarkedIncomplete ==
    ASSUME StateOK, NEW t \in DOMAIN tables
    PROVE  TablesOK([tables EXCEPT ![t].incomplete = TRUE])
<1>1. [tables[t] EXCEPT !.incomplete = TRUE] \in FoldedTable
  BY DEF StateOK, TablesOK, FoldedTable
<1>2. [tables EXCEPT ![t].incomplete = TRUE]
          = [tables EXCEPT ![t] = [tables[t] EXCEPT !.incomplete = TRUE]]
  OBVIOUS
<1> QED BY <1>1, <1>2, EntryReplaced DEF StateOK

LEMMA SkippedTyped ==
    ASSUME StateOK, PositionOK, NEW t \in Table, NEW sniffs, Skipped(sniffs, t)
    PROVE  StateOK' /\ PositionOK'
<1>1. PositionOK' /\ line' \in Nat
  BY NewStatementPosition DEF Skipped
<1>2. notes' \in Seq(NoteRecord)
  BY <1>1, NotedStep DEF Skipped, StateOK, NoteKind
<1>3. TablesOK(tables')
  BY MarkedIncomplete DEF Skipped, StateOK
<1>4. ghosts' \subseteq Table
  BY DEF Skipped, StateOK
<1> QED BY <1>1, <1>2, <1>3, <1>4, StateOKPrime DEF Skipped, StateOK

LEMMA DoBlockTyped ==
    ASSUME StateOK, PositionOK,
           \/ \E t \in Table : ConditionalTableDdl(t)
           \/ DoBlockNote
           \/ UnusedIgnoreMarker
    PROVE  StateOK' /\ PositionOK'
<1>1. PositionOK' /\ line' \in Nat
  BY NewStatementPosition DEF ConditionalTableDdl, DoBlockNote, UnusedIgnoreMarker
<1>2. ASSUME NEW t \in Table, ConditionalTableDdl(t)
      PROVE  StateOK'
  <2>1. notes' \in Seq(NoteRecord)
    BY <1>1, <1>2, NotedStep DEF ConditionalTableDdl, StateOK, NoteKind
  <2>2. TablesOK(tables')
    BY <1>2, MarkedIncomplete DEF ConditionalTableDdl, StateOK
  <2> QED BY <1>2, <2>1, <2>2, StateOKPrime DEF ConditionalTableDdl, StateOK
<1>3. CASE DoBlockNote
  <2>1. notes' \in Seq(NoteRecord)
    BY <1>1, <1>3, NotedStep DEF DoBlockNote, StateOK, NoteKind
  <2> QED BY <1>1, <1>3, <2>1, StateOKPrime DEF DoBlockNote, StateOK
<1>4. CASE UnusedIgnoreMarker
  <2>1. notes' \in Seq(NoteRecord)
    BY <1>1, <1>4, NotedStep DEF UnusedIgnoreMarker, StateOK, NoteKind
  <2> QED BY <1>1, <1>4, <2>1, StateOKPrime DEF UnusedIgnoreMarker, StateOK
<1> QED BY <1>1, <1>2, <1>3, <1>4

-----------------------------------------------------------------------------

LEMMA StateStep ==
    ASSUME StateOK, PositionOK, [Next]_vars
    PROVE  StateOK' /\ PositionOK'
<1>1. CASE \E t \in Table, create \in Creates, ignore_marker \in BOOLEAN :
               CreateTable(t, create, ignore_marker)
  BY <1>1, CreateTableTyped
<1>2. CASE \E t \in Table : AlterOperation(t)
  BY <1>2, AlterOperationTyped
<1>3. CASE \E t \in Table : Rename(t)
  BY <1>3, RenameTyped
<1>4. CASE \E names \in DropLists, if_exists \in BOOLEAN : DropTables(names, if_exists)
  BY <1>4, DropTablesTyped
<1>5. CASE TypeDdl
  BY <1>5, TypeDdlTyped
<1>6. CASE \E t \in Table, sniffs \in {"alter", "create", "nothing"} : Skipped(sniffs, t)
  BY <1>6, SkippedTyped
<1>7. CASE (\E t \in Table : ConditionalTableDdl(t)) \/ DoBlockNote \/ UnusedIgnoreMarker
  BY <1>7, DoBlockTyped
<1>8. CASE UNCHANGED vars
  BY <1>8, StateOKPrime DEF vars, StateOK, PositionOK
<1> QED BY <1>1, <1>2, <1>3, <1>4, <1>5, <1>6, <1>7, <1>8 DEF Next

LEMMA InitTyped ==
    ASSUME Init
    PROVE  StateOK /\ PositionOK
<1>1. SessionOK(EmptyMap) /\ TablesOK(EmptyMap)
  BY DEF SessionOK, TablesOK, EmptyMap
<1> QED BY <1>1, WorkloadAssumption DEF Init, StateOK, PositionOK

\* Whatever the series, every modeled table keeps its columns resolved to storage
\* classes, its counts natural numbers and its notes about known names; the order,
\* typed with OrderInv, lists tables only.
THEOREM TypesAlwaysHold == Spec => []TypeOK
<1>1. Init => StateOK /\ PositionOK
  BY InitTyped
<1>2. StateOK /\ PositionOK /\ [Next]_vars => (StateOK /\ PositionOK)'
  BY StateStep
<1>3. Spec => [](StateOK /\ PositionOK)
  BY <1>1, <1>2, PTL DEF Spec
<1>4. StateOK /\ PositionOK /\ OrderInv => TypeOK
  BY TypeOKForm DEF OrderInv
<1> QED BY <1>3, <1>4, OrderInvAlways, PTL

-----------------------------------------------------------------------------
(* Loud degradation, for any series: a table is flagged incomplete, and a  *)
(* name held back as a ghost, only together with a note; an enum guess is  *)
(* noted once.  Notes are never taken back, and every step that flags a    *)
(* table, holds back a name or guesses a type makes one.                   *)

\* Notes that say why a table is incomplete, and why a name is held back.
Flagged(seq) ==
    \E note \in Elements(seq) :
        note.kind \in {"SkippedStatement", "IncompleteColumns",
                       "DuplicateColumn", "DoBlockDdl"}

Held(seq, ghost) ==
    \E note \in Elements(seq) :
        /\ note.kind \in {"CtasSkipped", "SkippedStatement"}
        /\ note.about = ghost

Explained ==
    /\ \A key \in DOMAIN tables : tables[key].incomplete => Flagged(notes)
    /\ \A ghost \in ghosts : Held(notes, ghost)

LEMMA ExplainedForm == Explained <=> IncompleteExplained /\ GhostsExplained
BY DEF Explained, IncompleteExplained, GhostsExplained, Flagged, Held

Extended(shorter, longer) ==
    /\ DOMAIN shorter \subseteq DOMAIN longer
    /\ \A i \in DOMAIN shorter : longer[i] = shorter[i]

NotesKept == Extended(notes, notes')

LEMMA KeptNotes == NotesKept => Elements(notes) \subseteq Elements(notes')
BY DEF NotesKept, Extended, Elements

LEMMA SameNotes == notes' = notes => NotesKept
BY DEF NotesKept, Extended

LEMMA ConcatExtends ==
    ASSUME NEW S, NEW seq \in Seq(S), NEW more \in Seq(S)
    PROVE  Extended(seq, seq \o more)
BY DEF Extended

\* A step keeps every note, and traces every new flag and every new ghost.
Traced ==
    /\ NotesKept
    /\ \A later \in DOMAIN tables' :
           tables'[later].incomplete =>
               Flagged(notes') \/ \E key \in DOMAIN tables : tables[key].incomplete
    /\ \A ghost \in ghosts' : ghost \in ghosts \/ Held(notes', ghost)

LEMMA TracedExplains ==
    ASSUME Explained, Traced
    PROVE  Explained'
<1>1. Flagged(notes) => Flagged(notes')
  BY KeptNotes DEF Traced, Flagged
<1>2. \A ghost : Held(notes, ghost) => Held(notes', ghost)
  BY KeptNotes DEF Traced, Held
<1>3. \A later \in DOMAIN tables' : tables'[later].incomplete => Flagged(notes')
  BY <1>1 DEF Traced, Explained
<1>4. \A ghost \in ghosts' : Held(notes', ghost)
  BY <1>2 DEF Traced, Explained
<1> QED BY <1>3, <1>4 DEF Explained, Flagged, Held, Elements

-----------------------------------------------------------------------------
(* Notes. *)

LEMMA ConcatElements ==
    ASSUME NEW S, NEW seq \in Seq(S), NEW more \in Seq(S)
    PROVE  Elements(seq \o more) = Elements(seq) \cup Elements(more)
<1> DEFINE all == seq \o more
<1>1. /\ DOMAIN seq = 1..Len(seq) /\ Len(seq) \in Nat
      /\ DOMAIN more = 1..Len(more) /\ Len(more) \in Nat
      /\ DOMAIN all = 1..(Len(seq) + Len(more))
  OBVIOUS
<1>2. \A i \in 1..Len(seq) : all[i] = seq[i]
  OBVIOUS
<1>3. \A i \in 1..Len(more) : all[Len(seq) + i] = more[i]
  OBVIOUS
<1> HIDE DEF all
<1>4. ASSUME NEW x \in Elements(all) PROVE x \in Elements(seq) \cup Elements(more)
  <2>1. PICK i \in 1..(Len(seq) + Len(more)) : x = all[i]
    BY <1>1, <1>4 DEF Elements
  <2>2. CASE i <= Len(seq)
    BY <1>1, <1>2, <2>1, <2>2 DEF Elements
  <2>3. CASE i > Len(seq)
    <3>1. i - Len(seq) \in 1..Len(more) /\ Len(seq) + (i - Len(seq)) = i
      BY <1>1, <2>1, <2>3
    <3> QED BY <1>1, <1>3, <2>1, <3>1 DEF Elements
  <2> QED BY <1>1, <2>1, <2>2, <2>3
<1>5. ASSUME NEW x \in Elements(seq) PROVE x \in Elements(all)
  <2>1. PICK i \in 1..Len(seq) : x = seq[i]
    BY <1>1, <1>5 DEF Elements
  <2>2. i \in DOMAIN all
    BY <1>1
  <2> QED BY <1>2, <2>1, <2>2 DEF Elements
<1>6. ASSUME NEW x \in Elements(more) PROVE x \in Elements(all)
  <2>1. PICK i \in 1..Len(more) : x = more[i]
    BY <1>1, <1>6 DEF Elements
  <2>2. Len(seq) + i \in DOMAIN all
    BY <1>1
  <2> QED BY <1>3, <2>1, <2>2 DEF Elements
<1> QED BY <1>4, <1>5, <1>6 DEF all

LEMMA ConcatFlagged ==
    ASSUME NEW seq \in Seq(NoteRecord), NEW more \in Seq(NoteRecord),
           Flagged(seq) \/ Flagged(more)
    PROVE  Flagged(seq \o more)
BY ConcatElements DEF Flagged

LEMMA OneNote ==
    ASSUME NEW kind, NEW about
    PROVE  /\ Elements(<< Note(kind, about) >>) = {Note(kind, about)}
           /\ Note(kind, about).kind = kind
           /\ Note(kind, about).about = about
BY DEF Elements, Note

-----------------------------------------------------------------------------
(* Steps that flag nothing and hold back nothing. *)

LEMMA NotesAdded ==
    ASSUME StateOK, NEW more \in Seq(NoteRecord),
           notes' = notes \o more
    PROVE  NotesKept
BY ConcatExtends DEF StateOK, NotesKept

LEMMA NoteAdded ==
    ASSUME StateOK, line' \in Nat, NEW kind \in NoteKind,
           NEW about \in Table \cup TypeName \cup {NoName},
           notes' = Append(notes, Note(kind, about))
    PROVE  NotesKept /\ Elements(notes') = Elements(notes) \cup {Note(kind, about)}
<1>1. Note(kind, about) \in NoteRecord /\ notes \in Seq(NoteRecord)
  BY NoteTyped DEF StateOK
<1>2. NotesKept
  BY <1>1 DEF NotesKept, Extended
<1> QED BY <1>1, <1>2, AppendElements

LEMMA SameFlags ==
    ASSUME NotesKept, ghosts' \subseteq ghosts,
           \A later \in DOMAIN tables' :
               \E key \in DOMAIN tables : tables'[later].incomplete = tables[key].incomplete
    PROVE  Traced
BY DEF Traced

LEMMA EditTraced ==
    ASSUME StateOK, NEW t \in DOMAIN tables, NEW table,
           table.incomplete = tables[t].incomplete,
           tables' = [tables EXCEPT ![t] = table] \/ tables' = tables,
           NotesKept, ghosts' = ghosts
    PROVE  Traced
<1>1. \A later \in DOMAIN tables' :
          \E key \in DOMAIN tables : tables'[later].incomplete = tables[key].incomplete
  OBVIOUS
<1> QED BY <1>1, SameFlags

\* Edits of columns and counts keep the flag.
LEMMA FlagKept ==
    ASSUME NEW table \in FoldedTable, NEW columns
    PROVE  /\ MarkAltered(table).incomplete = table.incomplete
           /\ MarkAltered([table EXCEPT !.columns = columns]).incomplete = table.incomplete
BY DEF MarkAltered, FoldedTable

-----------------------------------------------------------------------------
(* CREATE TABLE. *)

LEMMA DeclareColumnTraced ==
    ASSUME NEW name \in Table, NEW create, NEW before \in Declaration,
           NEW raw \in RawColumn, line' \in Nat,
           before.duplicate => Flagged(before.notes)
    PROVE  DeclareColumn(name, create, before, raw).duplicate
           => Flagged(DeclareColumn(name, create, before, raw).notes)
<1> DEFINE after == DeclareColumn(name, create, before, raw)
           repeated == HasColumn(before, raw.key)
           note == Note("DuplicateColumn", name)
           resolved == before.notes \o TypeNotes(raw.type, before.noted)
<1>1. /\ after.duplicate = (before.duplicate \/ repeated)
      /\ after.notes = resolved \o IF repeated THEN << note >> ELSE << >>
  BY DEF DeclareColumn
<1>2. before.notes \in Seq(NoteRecord) /\ TypeNotes(raw.type, before.noted) \in Seq(NoteRecord)
  BY TypeNotesTyped DEF RawColumn, Declaration
<1>3. resolved \in Seq(NoteRecord) /\ (Flagged(before.notes) => Flagged(resolved))
  BY <1>2, ConcatFlagged
<1>4. << note >> \in Seq(NoteRecord) /\ << >> \in Seq(NoteRecord) /\ Flagged(<< note >>)
  BY NoteTyped, OneNote DEF NoteKind, Flagged
<1> HIDE DEF after, note, resolved, repeated
<1>5. after.duplicate => Flagged(after.notes)
  <2>1. CASE repeated
    BY <1>1, <1>3, <1>4, <2>1, ConcatFlagged
  <2>2. CASE ~repeated
    BY <1>1, <1>3, <1>4, <2>2, ConcatFlagged
  <2> QED BY <2>1, <2>2
<1> QED BY <1>5 DEF after

LEMMA DeclareColumnsTraced ==
    ASSUME NEW name \in Table, NEW create \in CreateStatement,
           NEW inherited \in Seq(FoldedColumn), unknown_types_noted \subseteq TypeName,
           SessionOK(session), line' \in Nat
    PROVE  DeclareColumns(name, create, inherited).duplicate
           => Flagged(DeclareColumns(name, create, inherited).notes)
<1> DEFINE n == Len(create.columns)
           init == [ columns |-> inherited, noted |-> unknown_types_noted,
                     notes |-> << >>, duplicate |-> FALSE ]
           G == {p \in (0..n) \X Declaration : p[2].duplicate => Flagged(p[2].notes)}
<1>1. n \in Nat /\ \A i \in 1..n : create.columns[i] \in RawColumn
  BY DEF CreateStatement
<1>2. \A m \in 0..n, d \in Declaration : << m, d >> \in G <=> (d.duplicate => Flagged(d.notes))
  OBVIOUS
<1>3. init \in Declaration /\ ~init.duplicate
  BY DEF Declaration
<1>4. << 0, init >> \in G
  <2> HIDE DEF init, G
  <2>1. 0 \in 0..n
    BY <1>1
  <2> QED BY <1>2, <1>3, <2>1
<1>5. \A i \in 1..n, before \in Declaration :
          << i - 1, before >> \in G =>
              << i, DeclareColumn(name, create, before, create.columns[i]) >> \in G
  <2> SUFFICES ASSUME NEW i \in 1..n, NEW before \in Declaration, << i - 1, before >> \in G
               PROVE  << i, DeclareColumn(name, create, before, create.columns[i]) >> \in G
    OBVIOUS
  <2>1. i - 1 \in 0..n /\ i \in 0..n /\ create.columns[i] \in RawColumn
    BY <1>1
  <2>2. before.duplicate => Flagged(before.notes)
    BY <1>2, <2>1
  <2>3. DeclareColumn(name, create, before, create.columns[i]) \in Declaration
    BY <2>1, DeclareColumnTyped
  <2>4. DeclareColumn(name, create, before, create.columns[i]).duplicate
        => Flagged(DeclareColumn(name, create, before, create.columns[i]).notes)
    BY <2>1, <2>2, DeclareColumnTraced
  <2> QED BY <1>2, <2>1, <2>3, <2>4
<1> HIDE DEF G
<1>6. /\ DeclareColumns(name, create, inherited) \in Declaration
      /\ << n, DeclareColumns(name, create, inherited) >> \in G
  BY <1>4, <1>5, DeclareInvariant
<1> QED BY <1>1, <1>2, <1>6

\* What is inherited is complete, or noted, or the copy of an incomplete table.
LEMMA InheritTraced ==
    ASSUME NEW name, NEW create, Inherit(name, create).incomplete
    PROVE  \/ Flagged(Inherit(name, create).notes)
           \/ \E key \in DOMAIN tables : tables[key].incomplete
<1> DEFINE from == IF create.partition_of # NoName THEN create.partition_of
                   ELSE create.like_source
           expands == /\ from \in DOMAIN tables
                      /\ create.partition_of # NoName \/ create.columns = << >>
<1>1. from # NoName
  BY DEF Inherit
<1>2. CASE expands
  <2>1. Inherit(name, create).incomplete = tables[from].incomplete
    BY <1>1, <1>2 DEF Inherit
  <2> HIDE DEF from
  <2> QED BY <1>2, <2>1
<1>3. CASE ~expands
  <2>1. Inherit(name, create).notes = << Note("IncompleteColumns", name) >>
    BY <1>1, <1>3 DEF Inherit
  <2> QED BY <2>1, OneNote DEF Flagged
<1> QED BY <1>2, <1>3

LEMMA EstablishTraced ==
    ASSUME StateOK, NEW name \in Table, NEW create \in Creates,
           NEW ignore_marker \in BOOLEAN, line' \in Nat,
           Establish(name, create, ignore_marker)
    PROVE  Traced
<1> DEFINE inherited == Inherit(name, create)
           declared == DeclareColumns(name, create, inherited.columns)
           table == [ origin |-> line', altered_in |-> << >>, ignored |-> ignore_marker,
                      incomplete |-> \/ create.incomplete_columns
                                     \/ inherited.incomplete
                                     \/ declared.duplicate,
                      columns |-> declared.columns, dropped_count |-> inherited.dropped ]
           redefined == IF name \in DOMAIN tables THEN << Note("Redefined", name) >> ELSE << >>
           partial == IF create.incomplete_columns
                      THEN << Note("IncompleteColumns", name) >> ELSE << >>
           before == notes \o redefined
           own == before \o partial
           copied == own \o inherited.notes
<1>1. create \in CreateStatement
  BY WorkloadAssumption
<1>2. /\ inherited.columns \in Seq(FoldedColumn) /\ inherited.notes \in Seq(NoteRecord)
  BY <1>1, InheritTyped
<1>3. declared \in Declaration /\ (declared.duplicate => Flagged(declared.notes))
  <2> HIDE DEF inherited
  <2>1. unknown_types_noted \subseteq TypeName /\ SessionOK(session)
    BY DEF StateOK
  <2> QED BY <1>1, <1>2, <2>1, DeclareColumnsTyped, DeclareColumnsTraced
<1>4. declared.notes \in Seq(NoteRecord)
  <2> HIDE DEF declared
  <2> QED BY <1>3 DEF Declaration
<1>5. redefined \in Seq(NoteRecord) /\ partial \in Seq(NoteRecord)
  BY NoteTyped DEF NoteKind
<1>6. create.incomplete_columns => Flagged(partial)
  BY OneNote DEF Flagged
<1>7. /\ tables' = Put(tables, name, table)
      /\ notes' = copied \o declared.notes
      /\ ghosts' = ghosts \ {name}
  BY DEF Establish
<1>8. table.incomplete = \/ create.incomplete_columns
                         \/ inherited.incomplete
                         \/ declared.duplicate
  OBVIOUS
<1>9. inherited.incomplete => \/ Flagged(inherited.notes)
                              \/ \E key \in DOMAIN tables : tables[key].incomplete
  BY InheritTraced
<1> HIDE DEF inherited, declared, table, redefined, partial
<1>10. before \in Seq(NoteRecord) /\ own \in Seq(NoteRecord) /\ copied \in Seq(NoteRecord)
  BY <1>2, <1>5 DEF StateOK
<1>11. NotesKept
  <2>1. Extended(notes, before)
    BY <1>5, ConcatExtends DEF StateOK
  <2>2. Extended(before, own)
    <3> HIDE DEF before
    <3> QED BY <1>5, <1>10, ConcatExtends
  <2>3. Extended(own, copied)
    <3> HIDE DEF own
    <3> QED BY <1>2, <1>10, ConcatExtends
  <2>4. Extended(copied, notes')
    <3> HIDE DEF copied
    <3> QED BY <1>4, <1>7, <1>10, ConcatExtends
  <2> HIDE DEF before, own, copied
  <2> QED BY <2>1, <2>2, <2>3, <2>4 DEF NotesKept, Extended
<1>12. Flagged(partial) \/ Flagged(inherited.notes) \/ Flagged(declared.notes)
       => Flagged(notes')
  <2> HIDE DEF before
  <2>1. Flagged(partial) => Flagged(own)
    BY <1>5, <1>10, ConcatFlagged
  <2> HIDE DEF own
  <2>2. Flagged(own) \/ Flagged(inherited.notes) => Flagged(copied)
    BY <1>2, <1>10, ConcatFlagged
  <2> HIDE DEF copied
  <2> QED BY <1>4, <1>7, <1>10, <2>1, <2>2, ConcatFlagged
<1>13. ASSUME NEW later \in DOMAIN tables', tables'[later].incomplete
       PROVE  Flagged(notes') \/ \E key \in DOMAIN tables : tables[key].incomplete
  <2>1. CASE later = name
    <3>1. tables'[later] = table
      BY <1>7, <2>1, <1>13 DEF Put
    <3> QED BY <1>3, <1>6, <1>8, <1>9, <1>12, <1>13, <3>1
  <2>2. CASE later # name
    <3>1. later \in DOMAIN tables /\ tables'[later] = tables[later]
      BY <1>7, <2>2, <1>13 DEF Put
    <3> QED BY <1>13, <3>1
  <2> QED BY <2>1, <2>2
<1> QED BY <1>7, <1>11, <1>13 DEF Traced

LEMMA CreateTableTraced ==
    ASSUME StateOK, PositionOK, NEW name \in Table, NEW create \in Creates,
           NEW ignore_marker \in BOOLEAN, CreateTable(name, create, ignore_marker)
    PROVE  Traced
<1>1. line' \in Nat
  BY NewStatementPosition DEF CreateTable
<1>2. CASE SkipTemporary(name, create)
  <2>1. NotesKept
    BY <1>1, <1>2, NoteAdded DEF SkipTemporary, NoteKind
  <2> QED BY <1>2, <2>1, SameFlags DEF SkipTemporary
<1>3. CASE SkipCtas(name, create)
  <2>1. NotesKept /\ Elements(notes') = Elements(notes) \cup {Note("CtasSkipped", name)}
    BY <1>1, <1>3, NoteAdded DEF SkipCtas, NoteKind
  <2>2. Held(notes', name)
    BY <2>1, OneNote DEF Held
  <2> QED BY <1>3, <2>1, <2>2 DEF SkipCtas, Traced
<1>4. CASE KeepExisting(name, create)
  BY <1>4, SameNotes, SameFlags DEF KeepExisting
<1>5. CASE Establish(name, create, ignore_marker)
  BY <1>1, <1>5, EstablishTraced
<1> QED BY <1>2, <1>3, <1>4, <1>5 DEF CreateTable

-----------------------------------------------------------------------------
(* ALTER TABLE, RENAME, DROP TABLE. *)

LEMMA UnanalyzableTraced ==
    ASSUME StateOK, NEW t \in Table, line' \in Nat, Unanalyzable(t)
    PROVE  Traced
<1>1. NotesKept
  BY NoteAdded DEF Unanalyzable, NoteKind
<1> QED BY <1>1, SameFlags DEF Unanalyzable

LEMMA AddColumnTraced ==
    ASSUME StateOK, NEW t \in Table, line' \in Nat, NEW raw \in Raws,
           NEW if_not_exists \in BOOLEAN, AddColumn(t, raw, if_not_exists)
    PROVE  Traced
<1>1. t \in DOMAIN tables /\ tables[t] \in FoldedTable /\ ghosts' = ghosts
  BY DEF AddColumn, StateOK, TablesOK
<1>2. CASE HasColumn(tables[t], raw.key)
  <2>1. /\ notes' = IF if_not_exists THEN notes ELSE Append(notes, Note("DuplicateColumn", t))
        /\ tables' = tables
    BY <1>2 DEF AddColumn
  <2>2. NotesKept
    BY <2>1, SameNotes, NoteAdded DEF NoteKind
  <2> QED BY <1>1, <2>1, <2>2, SameFlags
<1>3. CASE ~HasColumn(tables[t], raw.key)
  <2> DEFINE grown == MarkAltered([tables[t] EXCEPT
                          !.columns = Append(tables[t].columns, ResolveColumn(raw))])
  <2>1. /\ tables' = [tables EXCEPT ![t] = grown]
        /\ notes' = notes \o TypeNotes(raw.type, unknown_types_noted)
    BY <1>3 DEF AddColumn
  <2>2. grown.incomplete = tables[t].incomplete
    BY <1>1, FlagKept
  <2>3. TypeNotes(raw.type, unknown_types_noted) \in Seq(NoteRecord)
    BY WorkloadAssumption, TypeNotesTyped DEF StateOK, RawColumn
  <2>4. NotesKept
    BY <2>1, <2>3, NotesAdded
  <2> HIDE DEF grown
  <2> QED BY <1>1, <2>1, <2>2, <2>4, EditTraced
<1> QED BY <1>2, <1>3

LEMMA DropColumnsTraced ==
    ASSUME StateOK, NEW t \in Table, line' \in Nat, NEW column \in Column,
           NEW if_exists \in BOOLEAN, DropColumns(t, column, if_exists)
    PROVE  Traced
<1>1. t \in DOMAIN tables /\ tables[t] \in FoldedTable /\ ghosts' = ghosts
  BY DEF DropColumns, StateOK, TablesOK
<1>2. NotesKept
  <2>1. CASE notes' = Append(notes, Note("DroppedColumn", t))
    BY <2>1, SameNotes, NoteAdded DEF NoteKind
  <2>2. CASE notes' = Append(notes, Note("UnknownColumn", t))
    BY <2>2, NoteAdded DEF NoteKind
  <2>3. CASE notes' = notes
    BY <2>3, SameNotes
  <2> QED BY <2>1, <2>2, <2>3 DEF DropColumns
<1> DEFINE cut == MarkAltered([tables[t] EXCEPT
                      !.columns = WithoutColumn(tables[t], column),
                      !.dropped_count = tables[t].dropped_count + 1])
<1>3. tables' = [tables EXCEPT ![t] = cut] \/ tables' = tables
  BY DEF DropColumns
<1>4. cut.incomplete = tables[t].incomplete
  <2> DEFINE columns == WithoutColumn(tables[t], column)
             count == tables[t].dropped_count + 1
  <2> HIDE DEF columns, count
  <2>1. MarkAltered([tables[t] EXCEPT !.columns = columns,
                                      !.dropped_count = count]).incomplete
        = tables[t].incomplete
    BY <1>1 DEF MarkAltered, FoldedTable
  <2> QED BY <2>1 DEF columns, count
<1> HIDE DEF cut
<1> QED BY <1>1, <1>2, <1>3, <1>4, EditTraced

LEMMA EditColumnTraced ==
    ASSUME StateOK, NEW t \in DOMAIN tables, NEW columns, NEW more \in Seq(NoteRecord),
           \/ tables' = [tables EXCEPT ![t] = MarkAltered([tables[t] EXCEPT
                            !.columns = columns])]
           \/ tables' = tables,
           notes' = notes \o more, ghosts' = ghosts
    PROVE  Traced
<1> DEFINE edited == MarkAltered([tables[t] EXCEPT !.columns = columns])
<1>1. edited.incomplete = tables[t].incomplete
  BY FlagKept DEF StateOK, TablesOK
<1>2. NotesKept
  BY NotesAdded
<1>3. tables' = [tables EXCEPT ![t] = edited] \/ tables' = tables
  OBVIOUS
<1> HIDE DEF edited
<1> QED BY <1>1, <1>2, <1>3, EditTraced

LEMMA RenameColumnTraced ==
    ASSUME StateOK, NEW t \in Table, line' \in Nat, NEW old \in Column, NEW new \in Column,
           RenameColumn(t, old, new)
    PROVE  Traced
<1>1. /\ t \in DOMAIN tables /\ ghosts' = ghosts
      /\ notes' = notes \o ColumnNotes(t, old)
      /\ ColumnNotes(t, old) \in Seq(NoteRecord)
  BY ColumnNotesTyped DEF RenameColumn
<1>2. \E columns : \/ tables' = [tables EXCEPT ![t] = MarkAltered([tables[t] EXCEPT
                                    !.columns = columns])]
                   \/ tables' = tables
  BY DEF RenameColumn, EditColumn
<1> QED BY <1>1, <1>2, EditColumnTraced

LEMMA SetNotNullTraced ==
    ASSUME StateOK, NEW t \in Table, line' \in Nat, NEW column \in Column,
           NEW value \in BOOLEAN, SetNotNull(t, column, value)
    PROVE  Traced
<1>1. /\ t \in DOMAIN tables /\ ghosts' = ghosts
      /\ notes' = notes \o ColumnNotes(t, column)
      /\ ColumnNotes(t, column) \in Seq(NoteRecord)
  BY ColumnNotesTyped DEF SetNotNull
<1>2. \E columns : \/ tables' = [tables EXCEPT ![t] = MarkAltered([tables[t] EXCEPT
                                    !.columns = columns])]
                   \/ tables' = tables
  BY DEF SetNotNull, EditColumn
<1> QED BY <1>1, <1>2, EditColumnTraced

LEMMA SetColumnTypeTraced ==
    ASSUME StateOK, NEW t \in Table, line' \in Nat, NEW column \in Column,
           NEW ref \in NewTypes, SetColumnType(t, column, ref)
    PROVE  Traced
<1> DEFINE more == TypeNotes(ref, unknown_types_noted) \o ColumnNotes(t, column)
<1>1. /\ t \in DOMAIN tables /\ ghosts' = ghosts
      /\ notes' = (notes \o TypeNotes(ref, unknown_types_noted)) \o ColumnNotes(t, column)
  BY DEF SetColumnType
<1>2. /\ TypeNotes(ref, unknown_types_noted) \in Seq(NoteRecord)
      /\ ColumnNotes(t, column) \in Seq(NoteRecord)
  BY WorkloadAssumption, TypeNotesTyped, ColumnNotesTyped DEF StateOK
<1>3. more \in Seq(NoteRecord) /\ notes' = notes \o more
  BY <1>1, <1>2 DEF StateOK
<1>4. \E columns : \/ tables' = [tables EXCEPT ![t] = MarkAltered([tables[t] EXCEPT
                                    !.columns = columns])]
                   \/ tables' = tables
  BY DEF SetColumnType, EditColumn
<1> HIDE DEF more
<1> QED BY <1>1, <1>3, <1>4, EditColumnTraced

LEMMA AlterOperationTraced ==
    ASSUME StateOK, PositionOK, NEW t \in Table, AlterOperation(t)
    PROVE  Traced
<1>1. line' \in Nat
  BY AlterTablePosition DEF AlterOperation
<1>2. CASE Unanalyzable(t)
  BY <1>1, <1>2, UnanalyzableTraced
<1>3. ASSUME NEW raw \in Raws, NEW if_not_exists \in BOOLEAN,
             AddColumn(t, raw, if_not_exists)
      PROVE  Traced
  BY <1>1, <1>3, AddColumnTraced
<1>4. ASSUME NEW column \in Column, NEW if_exists \in BOOLEAN,
             DropColumns(t, column, if_exists)
      PROVE  Traced
  BY <1>1, <1>4, DropColumnsTraced
<1>5. ASSUME NEW column \in Column, NEW ref \in NewTypes, SetColumnType(t, column, ref)
      PROVE  Traced
  BY <1>1, <1>5, SetColumnTypeTraced
<1>6. ASSUME NEW column \in Column, NEW value \in BOOLEAN, SetNotNull(t, column, value)
      PROVE  Traced
  BY <1>1, <1>6, SetNotNullTraced
<1> QED BY <1>2, <1>3, <1>4, <1>5, <1>6 DEF AlterOperation

LEMMA RenameTableTraced ==
    ASSUME StateOK, NEW t \in Table, line' \in Nat, NEW new \in Table,
           RenameTable(t, new)
    PROVE  Traced
<1> DEFINE moved == MarkAltered(tables[t])
<1>1. /\ t \in DOMAIN tables /\ ghosts' = ghosts
      /\ tables' = Put(Remove(tables, t), new, moved)
      /\ notes' = notes \/ notes' = Append(notes, Note("Redefined", t))
  BY DEF RenameTable
<1>2. moved.incomplete = tables[t].incomplete
  BY <1>1, FlagKept DEF StateOK, TablesOK
<1>3. NotesKept
  BY <1>1, SameNotes, NoteAdded DEF NoteKind
<1> HIDE DEF moved
<1>4. \A later \in DOMAIN tables' :
          \E key \in DOMAIN tables : tables'[later].incomplete = tables[key].incomplete
  BY <1>1, <1>2 DEF Put, Remove
<1> QED BY <1>1, <1>3, <1>4, SameFlags

LEMMA RenameTraced ==
    ASSUME StateOK, PositionOK, NEW t \in Table, Rename(t)
    PROVE  Traced
<1>1. line' \in Nat
  BY NewStatementPosition DEF Rename
<1>2. CASE Unanalyzable(t)
  BY <1>1, <1>2, UnanalyzableTraced
<1>3. ASSUME NEW old \in Column, NEW new \in Column, RenameColumn(t, old, new)
      PROVE  Traced
  BY <1>1, <1>3, RenameColumnTraced
<1>4. ASSUME NEW new \in Table, RenameTable(t, new)
      PROVE  Traced
  BY <1>1, <1>4, RenameTableTraced
<1> QED BY <1>2, <1>3, <1>4 DEF Rename

LEMMA DropTablesTraced ==
    ASSUME StateOK, PositionOK, NEW names \in DropLists, NEW if_exists \in BOOLEAN,
           DropTables(names, if_exists)
    PROVE  Traced
<1> DEFINE missing == IF if_exists THEN << >> ELSE Retain(names, DOMAIN tables \cup ghosts)
           more == [i \in DOMAIN missing |-> Note("AlterUnknownTable", missing[i])]
<1>1. line' \in Nat
  BY NewStatementPosition DEF DropTables
<1>2. missing \in Seq(Table)
  BY WorkloadAssumption, RetainFacts
<1>3. /\ tables' = [key \in DOMAIN tables \ Elements(names) |-> tables[key]]
      /\ ghosts' = ghosts \ Elements(names)
      /\ notes' = notes \o more
  BY DEF DropTables
<1>4. more \in Seq(NoteRecord)
  <2> HIDE DEF missing
  <2>1. Len(missing) \in Nat /\ DOMAIN missing = 1..Len(missing)
    BY <1>2
  <2>2. \A i \in 1..Len(missing) : Note("AlterUnknownTable", missing[i]) \in NoteRecord
    BY <1>1, <1>2, NoteTyped DEF NoteKind
  <2> QED BY <2>1, <2>2
<1> HIDE DEF more
<1>5. NotesKept
  BY <1>3, <1>4, NotesAdded
<1> QED BY <1>3, <1>5, SameFlags

-----------------------------------------------------------------------------
(* Skipped statements and DO blocks. *)

LEMMA SkippedTraced ==
    ASSUME StateOK, PositionOK, NEW t \in Table, NEW sniffs, Skipped(sniffs, t)
    PROVE  Traced
<1> DEFINE about == IF sniffs = "nothing" THEN NoName ELSE t
           note == Note("SkippedStatement", about)
<1>1. line' \in Nat
  BY NewStatementPosition DEF Skipped
<1>2. NotesKept /\ Elements(notes') = Elements(notes) \cup {note}
  BY <1>1, NoteAdded DEF Skipped, NoteKind
<1>3. Flagged(notes')
  <2>1. note.kind = "SkippedStatement"
    BY OneNote
  <2> QED BY <1>2, <2>1 DEF Flagged
<1>4. sniffs = "create" => Held(notes', t)
  <2> SUFFICES ASSUME sniffs = "create" PROVE Held(notes', t)
    OBVIOUS
  <2>1. note.kind = "SkippedStatement" /\ note.about = t
    BY OneNote
  <2> QED BY <1>2, <2>1 DEF Held
<1>5. ghosts' = IF sniffs = "create" THEN ghosts \cup {t} ELSE ghosts
  BY DEF Skipped
<1> QED BY <1>2, <1>3, <1>4, <1>5 DEF Traced

LEMMA DoBlockTraced ==
    ASSUME StateOK, PositionOK,
           \/ \E t \in Table : ConditionalTableDdl(t)
           \/ DoBlockNote
           \/ UnusedIgnoreMarker
    PROVE  Traced
<1>1. line' \in Nat
  BY NewStatementPosition DEF ConditionalTableDdl, DoBlockNote, UnusedIgnoreMarker
<1>2. ASSUME NEW t \in Table, ConditionalTableDdl(t)
      PROVE  Traced
  <2>1. NotesKept /\ Elements(notes') = Elements(notes) \cup {Note("DoBlockDdl", t)}
    BY <1>1, <1>2, NoteAdded DEF ConditionalTableDdl, NoteKind
  <2>2. Flagged(notes')
    <3>1. Note("DoBlockDdl", t).kind = "DoBlockDdl"
      BY OneNote
    <3> QED BY <2>1, <3>1 DEF Flagged
  <2> QED BY <1>2, <2>1, <2>2 DEF ConditionalTableDdl, Traced
<1>3. CASE DoBlockNote
  <2>1. NotesKept
    BY <1>1, <1>3, NoteAdded DEF DoBlockNote, NoteKind
  <2> QED BY <1>3, <2>1, SameFlags DEF DoBlockNote
<1>4. CASE UnusedIgnoreMarker
  <2>1. NotesKept
    BY <1>1, <1>4, NoteAdded DEF UnusedIgnoreMarker, NoteKind
  <2> QED BY <1>4, <2>1, SameFlags DEF UnusedIgnoreMarker
<1> QED BY <1>2, <1>3, <1>4

-----------------------------------------------------------------------------

LEMMA StepTraced ==
    ASSUME StateOK, PositionOK, [Next]_vars
    PROVE  Traced
<1>1. CASE \E t \in Table, create \in Creates, ignore_marker \in BOOLEAN :
               CreateTable(t, create, ignore_marker)
  BY <1>1, CreateTableTraced
<1>2. CASE \E t \in Table : AlterOperation(t)
  BY <1>2, AlterOperationTraced
<1>3. CASE \E t \in Table : Rename(t)
  BY <1>3, RenameTraced
<1>4. CASE \E names \in DropLists, if_exists \in BOOLEAN : DropTables(names, if_exists)
  BY <1>4, DropTablesTraced
<1>5. CASE TypeDdl
  BY <1>5, SameNotes, SameFlags DEF TypeDdl
<1>6. CASE \E t \in Table, sniffs \in {"alter", "create", "nothing"} : Skipped(sniffs, t)
  BY <1>6, SkippedTraced
<1>7. CASE (\E t \in Table : ConditionalTableDdl(t)) \/ DoBlockNote \/ UnusedIgnoreMarker
  BY <1>7, DoBlockTraced
<1>8. CASE UNCHANGED vars
  BY <1>8, SameNotes, SameFlags DEF vars
<1> QED BY <1>1, <1>2, <1>3, <1>4, <1>5, <1>6, <1>7, <1>8 DEF Next

\* Loud degradation (README.md:59): however the series runs, a table called
\* incomplete has a note that says why, whether a statement flagged it or it copied
\* an incomplete table.
THEOREM IncompleteAlwaysExplained == Spec => []IncompleteExplained
<1>1. Init => Explained
  BY DEF Init, Explained, EmptyMap
<1>2. StateOK /\ PositionOK /\ Explained /\ [Next]_vars => Explained'
  BY StepTraced, TracedExplains
<1>3. TypeOK => StateOK /\ PositionOK
  BY TypeOKForm
<1>4. Explained => IncompleteExplained
  BY ExplainedForm
<1> QED BY <1>1, <1>2, <1>3, <1>4, TypesAlwaysHold, PTL DEF Spec

\* A name is held back as a ghost, so that statements about it are not taken for
\* typing errors, only after a note about that very name.
THEOREM GhostsAlwaysExplained == Spec => []GhostsExplained
<1>1. Init => Explained
  BY DEF Init, Explained, EmptyMap
<1>2. StateOK /\ PositionOK /\ Explained /\ [Next]_vars => Explained'
  BY StepTraced, TracedExplains
<1>3. TypeOK => StateOK /\ PositionOK
  BY TypeOKForm
<1>4. Explained => GhostsExplained
  BY ExplainedForm
<1> QED BY <1>1, <1>2, <1>3, <1>4, TypesAlwaysHold, PTL DEF Spec

-----------------------------------------------------------------------------
(* Guessed types.  The set of noted types and the notes about them say the   *)
(* same, whatever else is noted in between, and every guess is in the set.   *)

NotedOnce(seq, noted) ==
    /\ \A i, j \in DOMAIN seq :
           /\ seq[i].kind = "UnknownType"
           /\ seq[j].kind = "UnknownType"
           /\ seq[i].about = seq[j].about
           => i = j
    /\ \A i \in DOMAIN seq : seq[i].kind = "UnknownType" => seq[i].about \in noted
    /\ \A type \in noted :
           \E i \in DOMAIN seq : seq[i].kind = "UnknownType" /\ seq[i].about = type

GuessesIn(columns, noted) ==
    \A i \in DOMAIN columns : ~columns[i].known_type => columns[i].type \in noted

GuessInv ==
    /\ NotedOnce(notes, unknown_types_noted)
    /\ \A key \in DOMAIN tables : GuessesIn(tables[key].columns, unknown_types_noted)

LEMMA GuessInvNotes ==
    ASSUME GuessInv
    PROVE  GuessesNotedOnce
<1>1. ASSUME NEW key \in DOMAIN tables, NEW c \in Elements(tables[key].columns), ~c.known_type
      PROVE  \E note \in Elements(notes) : note.kind = "UnknownType" /\ note.about = c.type
  <2>1. c.type \in unknown_types_noted
    BY <1>1 DEF GuessInv, GuessesIn, Elements
  <2> QED BY <2>1 DEF GuessInv, NotedOnce, Elements
<1> QED BY <1>1 DEF GuessesNotedOnce, GuessInv, NotedOnce

\* Notes about anything else.
NoGuess(seq) == \A i \in DOMAIN seq : seq[i].kind # "UnknownType"

LEMMA ConcatIndex ==
    ASSUME NEW S, NEW seq \in Seq(S), NEW more \in Seq(S)
    PROVE  /\ \A i \in DOMAIN seq : i \in DOMAIN (seq \o more) /\ (seq \o more)[i] = seq[i]
           /\ \A i \in DOMAIN (seq \o more) :
                  \/ i \in DOMAIN seq /\ (seq \o more)[i] = seq[i]
                  \/ /\ i \notin DOMAIN seq
                     /\ i - Len(seq) \in DOMAIN more
                     /\ (seq \o more)[i] = more[i - Len(seq)]
OBVIOUS

LEMMA PlainAdded ==
    ASSUME NEW seq \in Seq(NoteRecord), NEW more \in Seq(NoteRecord), NEW noted,
           NotedOnce(seq, noted), NoGuess(more)
    PROVE  NotedOnce(seq \o more, noted)
<1> DEFINE all == seq \o more
<1>1. /\ \A i \in DOMAIN seq : i \in DOMAIN all /\ all[i] = seq[i]
      /\ \A i \in DOMAIN all : \/ i \in DOMAIN seq /\ all[i] = seq[i]
                               \/ all[i].kind # "UnknownType"
  BY ConcatIndex DEF NoGuess
<1> HIDE DEF all
<1> QED BY <1>1 DEF NotedOnce, all

LEMMA GuessAdded ==
    ASSUME NEW seq \in Seq(NoteRecord), NEW ref \in TypeRef, NEW noted \in SUBSET TypeName,
           line' \in Nat, NotedOnce(seq, noted)
    PROVE  NotedOnce(seq \o TypeNotes(ref, noted), TypesNoted(ref, noted))
<1> DEFINE more == TypeNotes(ref, noted)
           all == seq \o more
<1>1. CASE Resolve(session, ref).known \/ ref.key \in noted
  <2>1. more = << >> /\ TypesNoted(ref, noted) = noted
    BY <1>1 DEF TypeNotes, TypesNoted
  <2>2. seq \o << >> = seq
    OBVIOUS
  <2> QED BY <2>1, <2>2
<1>2. CASE ~(Resolve(session, ref).known \/ ref.key \in noted)
  <2>1. more = << Note("UnknownType", ref.key) >> /\ TypesNoted(ref, noted) = noted \cup {ref.key}
    BY <1>2 DEF TypeNotes, TypesNoted
  <2>2. more \in Seq(NoteRecord)
    BY TypeNotesTyped
  <2>3. /\ DOMAIN more = {1}
        /\ more[1].kind = "UnknownType" /\ more[1].about = ref.key
    BY <2>1 DEF Note
  <2>4. DOMAIN seq = 1..Len(seq) /\ Len(seq) \in Nat
    OBVIOUS
  <2> DEFINE last == Len(seq) + 1
  <2>5. /\ \A i \in DOMAIN seq : i \in DOMAIN all /\ all[i] = seq[i]
        /\ \A i \in DOMAIN all : i \in DOMAIN seq \/ i = last
        /\ last \in DOMAIN all /\ all[last] = more[1]
    <3>1. DOMAIN all = 1..last
      BY <2>1, <2>4
    <3> HIDE DEF more
    <3> QED BY <2>2, <2>3, <2>4, <3>1
  <2> HIDE DEF all, more
  <2>6. all[last].kind = "UnknownType" /\ all[last].about = ref.key
    BY <2>3, <2>5
  <2> HIDE DEF last
  <2>7. NotedOnce(all, noted \cup {ref.key})
    <3>1. \A i \in DOMAIN seq : seq[i].kind = "UnknownType" => seq[i].about # ref.key
      BY <1>2 DEF NotedOnce
    <3>2. \A i, j \in DOMAIN all :
              /\ all[i].kind = "UnknownType"
              /\ all[j].kind = "UnknownType"
              /\ all[i].about = all[j].about
              => i = j
      BY <2>5, <2>6, <3>1 DEF NotedOnce
    <3>3. \A i \in DOMAIN all : all[i].kind = "UnknownType" => all[i].about \in noted \cup {ref.key}
      BY <2>5, <2>6 DEF NotedOnce
    <3>4. \A type \in noted \cup {ref.key} :
              \E i \in DOMAIN all : all[i].kind = "UnknownType" /\ all[i].about = type
      BY <2>5, <2>6 DEF NotedOnce
    <3> QED BY <3>2, <3>3, <3>4 DEF NotedOnce
  <2> QED BY <2>1, <2>7 DEF all, more
<1> QED BY <1>1, <1>2

LEMMA MoreNoted ==
    ASSUME NEW columns, NEW noted, NEW more, noted \subseteq more, GuessesIn(columns, noted)
    PROVE  GuessesIn(columns, more)
BY DEF GuessesIn

LEMMA TypesStayNoted ==
    ASSUME NEW ref, NEW noted
    PROVE  /\ noted \subseteq TypesNoted(ref, noted)
           /\ ~Resolve(session, ref).known => ref.key \in TypesNoted(ref, noted)
BY DEF TypesNoted

LEMMA GuessAppended ==
    ASSUME NEW columns \in Seq(FoldedColumn), NEW column \in FoldedColumn, NEW noted,
           GuessesIn(columns, noted), ~column.known_type => column.type \in noted
    PROVE  GuessesIn(Append(columns, column), noted)
<1> DEFINE longer == Append(columns, column)
<1>1. \A i \in DOMAIN longer : \/ i \in DOMAIN columns /\ longer[i] = columns[i]
                               \/ longer[i] = column
  OBVIOUS
<1> HIDE DEF longer
<1> QED BY <1>1 DEF GuessesIn, longer

\* One declared column: its type is noted before the column is pushed.
LEMMA DeclareColumnNoted ==
    ASSUME NEW name \in Table, NEW create, NEW before \in Declaration, NEW raw \in RawColumn,
           SessionOK(session), line' \in Nat, NEW base \in Seq(NoteRecord),
           NotedOnce(base \o before.notes, before.noted),
           GuessesIn(before.columns, before.noted),
           NEW after, after = DeclareColumn(name, create, before, raw)
    PROVE  /\ before.noted \subseteq after.noted
           /\ NotedOnce(base \o after.notes, after.noted)
           /\ GuessesIn(after.columns, after.noted)
<1> DEFINE column == [ResolveColumn(raw) EXCEPT !.not_null = @ \/ raw.key \in create.pk_columns]
           guess == TypeNotes(raw.type, before.noted)
           repeat == IF HasColumn(before, raw.key) THEN << Note("DuplicateColumn", name) >>
                     ELSE << >>
           earlier == base \o before.notes
           own == earlier \o guess
<1>1. /\ before.columns \in Seq(FoldedColumn) /\ before.noted \in SUBSET TypeName
      /\ before.notes \in Seq(NoteRecord) /\ raw.type \in TypeRef
  BY DEF Declaration, RawColumn
<1>2. /\ after.noted = TypesNoted(raw.type, before.noted)
      /\ after.notes = (before.notes \o guess) \o repeat
      /\ after.columns = IF HasColumn(before, raw.key) THEN before.columns
                         ELSE Append(before.columns, column)
  BY DEF DeclareColumn
<1>3. /\ column \in FoldedColumn
      /\ column.known_type = Resolve(session, raw.type).known
      /\ column.type = raw.type.key
  <2>1. /\ ResolveColumn(raw) \in FoldedColumn
        /\ ResolveColumn(raw).known_type = Resolve(session, raw.type).known
        /\ ResolveColumn(raw).type = raw.type.key
    BY ResolveColumnTyped DEF ResolveColumn
  <2> QED BY <2>1 DEF FoldedColumn
<1>4. guess \in Seq(NoteRecord) /\ after.noted \in SUBSET TypeName
  BY <1>1, <1>2, TypeNotesTyped
<1>5. repeat \in Seq(NoteRecord) /\ NoGuess(repeat)
  BY NoteTyped DEF NoteKind, NoGuess, Note
<1> HIDE DEF column, repeat
<1>6. NotedOnce(own, after.noted)
  <2>1. earlier \in Seq(NoteRecord)
    BY <1>1
  <2> HIDE DEF earlier
  <2> QED BY <1>1, <1>2, <2>1, GuessAdded DEF earlier
<1>7. base \o after.notes = own \o repeat
  <2> DEFINE said == before.notes
             both == said \o guess
  <2>1. said \in Seq(NoteRecord) /\ guess \in Seq(NoteRecord) /\ repeat \in Seq(NoteRecord)
    BY <1>1, <1>4, <1>5
  <2> HIDE DEF said, guess
  <2>2. (base \o said) \o guess = base \o both
    BY <2>1
  <2>3. both \in Seq(NoteRecord)
    BY <2>1
  <2> HIDE DEF both
  <2>4. (base \o both) \o repeat = base \o (both \o repeat)
    BY <2>1, <2>3
  <2> QED BY <1>2, <2>2, <2>4 DEF both, said
<1>8. own \in Seq(NoteRecord)
  <2> HIDE DEF guess
  <2> QED BY <1>1, <1>4
<1> HIDE DEF guess, own
<1>9. NotedOnce(base \o after.notes, after.noted)
  BY <1>5, <1>6, <1>7, <1>8, PlainAdded
<1>10. before.noted \subseteq after.noted
  BY <1>2, TypesStayNoted
<1>11. ~column.known_type => column.type \in after.noted
  BY <1>2, <1>3, TypesStayNoted
<1>12. GuessesIn(before.columns, after.noted)
  BY <1>10, MoreNoted
<1>13. GuessesIn(Append(before.columns, column), after.noted)
  BY <1>1, <1>3, <1>11, <1>12, GuessAppended
<1> QED BY <1>2, <1>9, <1>10, <1>12, <1>13

LEMMA DeclareColumnsNoted ==
    ASSUME NEW name \in Table, NEW create \in CreateStatement,
           NEW inherited \in Seq(FoldedColumn), GuessesIn(inherited, unknown_types_noted),
           unknown_types_noted \subseteq TypeName, SessionOK(session), line' \in Nat,
           NEW base \in Seq(NoteRecord), NotedOnce(base, unknown_types_noted),
           NEW after, after = DeclareColumns(name, create, inherited)
    PROVE  /\ unknown_types_noted \subseteq after.noted
           /\ NotedOnce(base \o after.notes, after.noted)
           /\ GuessesIn(after.columns, after.noted)
<1> DEFINE n == Len(create.columns)
           init == [ columns |-> inherited, noted |-> unknown_types_noted,
                     notes |-> << >>, duplicate |-> FALSE ]
           Good(d) == /\ unknown_types_noted \subseteq d.noted
                      /\ NotedOnce(base \o d.notes, d.noted)
                      /\ GuessesIn(d.columns, d.noted)
           G == {p \in (0..n) \X Declaration : Good(p[2])}
<1>1. n \in Nat /\ \A i \in 1..n : create.columns[i] \in RawColumn
  BY DEF CreateStatement
<1>2. \A m \in 0..n, d \in Declaration : << m, d >> \in G <=> Good(d)
  OBVIOUS
<1>3. init \in Declaration /\ Good(init)
  <2>1. base \o << >> = base
    OBVIOUS
  <2>2. init \in Declaration
    BY DEF Declaration
  <2> QED BY <2>1, <2>2
<1>4. << 0, init >> \in G
  <2> HIDE DEF init, G, Good
  <2>1. 0 \in 0..n
    BY <1>1
  <2> QED BY <1>2, <1>3, <2>1
<1>5. \A i \in 1..n, before \in Declaration :
          << i - 1, before >> \in G =>
              << i, DeclareColumn(name, create, before, create.columns[i]) >> \in G
  <2> SUFFICES ASSUME NEW i \in 1..n, NEW before \in Declaration, << i - 1, before >> \in G
               PROVE  << i, DeclareColumn(name, create, before, create.columns[i]) >> \in G
    OBVIOUS
  <2> DEFINE next == DeclareColumn(name, create, before, create.columns[i])
  <2>1. i - 1 \in 0..n /\ i \in 0..n /\ create.columns[i] \in RawColumn
    BY <1>1
  <2>2. Good(before)
    BY <1>2, <2>1
  <2>3. next \in Declaration
    BY <2>1, DeclareColumnTyped
  <2>4. /\ before.noted \subseteq next.noted
        /\ NotedOnce(base \o next.notes, next.noted)
        /\ GuessesIn(next.columns, next.noted)
    BY <2>1, <2>2, DeclareColumnNoted
  <2>5. Good(next)
    BY <2>2, <2>4
  <2> HIDE DEF G, Good, next
  <2> QED BY <1>2, <2>1, <2>3, <2>5 DEF next
<1> HIDE DEF G
<1>6. /\ DeclareColumns(name, create, inherited) \in Declaration
      /\ << n, DeclareColumns(name, create, inherited) >> \in G
  BY <1>4, <1>5, DeclareInvariant
<1>7. Good(DeclareColumns(name, create, inherited))
  <2> HIDE DEF Good
  <2> QED BY <1>1, <1>2, <1>6
<1> QED BY <1>7

-----------------------------------------------------------------------------
(* Steps: what they note, and the columns they leave. *)

LEMMA PlainNote ==
    ASSUME StateOK, GuessInv, line' \in Nat, NEW kind \in NoteKind \ {"UnknownType"},
           NEW about \in Table \cup TypeName \cup {NoName},
           notes' = Append(notes, Note(kind, about))
    PROVE  NotedOnce(notes', unknown_types_noted)
<1>1. Note(kind, about) \in NoteRecord /\ notes \in Seq(NoteRecord)
  BY NoteTyped DEF StateOK
<1>2. << Note(kind, about) >> \in Seq(NoteRecord) /\ NoGuess(<< Note(kind, about) >>)
  BY <1>1 DEF NoGuess, Note
<1>3. notes' = notes \o << Note(kind, about) >>
  BY <1>1
<1> QED BY <1>1, <1>2, <1>3, PlainAdded DEF GuessInv

\* A step that resolves no type.
LEMMA SameColumnsNoted ==
    ASSUME GuessInv, NotedOnce(notes', unknown_types_noted),
           unknown_types_noted' = unknown_types_noted,
           \A later \in DOMAIN tables' :
               \/ GuessesIn(tables'[later].columns, unknown_types_noted)
               \/ \E key \in DOMAIN tables : tables'[later].columns = tables[key].columns
    PROVE  GuessInv'
BY DEF GuessInv, NotedOnce, GuessesIn

\* A step that leaves one table with other columns.
LEMMA ColumnsNoted ==
    ASSUME GuessInv, NotedOnce(notes', unknown_types_noted'),
           unknown_types_noted \subseteq unknown_types_noted',
           NEW t, NEW table, GuessesIn(table.columns, unknown_types_noted'),
           \A later \in DOMAIN tables' :
               \/ later = t /\ tables'[later] = table
               \/ later \in DOMAIN tables /\ tables'[later] = tables[later]
    PROVE  GuessInv'
<1>1. \A later \in DOMAIN tables' : GuessesIn(tables'[later].columns, unknown_types_noted')
  BY MoreNoted DEF GuessInv
<1> QED BY <1>1 DEF GuessInv, NotedOnce, GuessesIn

LEMMA EstablishNoted ==
    ASSUME StateOK, GuessInv, NEW name \in Table, NEW create \in Creates,
           NEW ignore_marker, line' \in Nat, Establish(name, create, ignore_marker)
    PROVE  GuessInv'
<1> DEFINE inherited == Inherit(name, create)
           declared == DeclareColumns(name, create, inherited.columns)
           redefined == IF name \in DOMAIN tables THEN << Note("Redefined", name) >> ELSE << >>
           partial == IF create.incomplete_columns
                      THEN << Note("IncompleteColumns", name) >> ELSE << >>
           before == notes \o redefined
           own == before \o partial
           copied == own \o inherited.notes
<1>1. create \in CreateStatement
  BY WorkloadAssumption
<1>2. /\ inherited.columns \in Seq(FoldedColumn) /\ inherited.notes \in Seq(NoteRecord)
  BY <1>1, InheritTyped
<1>3. redefined \in Seq(NoteRecord) /\ partial \in Seq(NoteRecord)
  BY NoteTyped DEF NoteKind
<1>4. NoGuess(redefined) /\ NoGuess(partial) /\ NoGuess(inherited.notes)
  BY DEF NoGuess, Note, Inherit
<1>5. GuessesIn(inherited.columns, unknown_types_noted)
  <2>1. inherited.columns = << >> \/ \E key \in DOMAIN tables : inherited.columns = tables[key].columns
    BY DEF Inherit
  <2>2. GuessesIn(<< >>, unknown_types_noted)
    BY DEF GuessesIn
  <2> QED BY <2>1, <2>2 DEF GuessInv
<1>6. \E table : /\ tables' = Put(tables, name, table)
                 /\ table.columns = declared.columns
  BY DEF Establish
<1>7. notes' = copied \o declared.notes /\ unknown_types_noted' = declared.noted
  BY DEF Establish
<1> HIDE DEF inherited, redefined, partial
<1>8. before \in Seq(NoteRecord) /\ own \in Seq(NoteRecord) /\ copied \in Seq(NoteRecord)
  BY <1>2, <1>3 DEF StateOK
<1>9. NotedOnce(copied, unknown_types_noted)
  <2>1. NotedOnce(before, unknown_types_noted)
    BY <1>3, <1>4, PlainAdded DEF StateOK, GuessInv
  <2> HIDE DEF before
  <2>2. NotedOnce(own, unknown_types_noted)
    BY <1>3, <1>4, <1>8, <2>1, PlainAdded
  <2> HIDE DEF own
  <2> QED BY <1>2, <1>4, <1>8, <2>2, PlainAdded
<1> HIDE DEF copied, declared
<1>10. /\ unknown_types_noted \subseteq declared.noted
       /\ NotedOnce(copied \o declared.notes, declared.noted)
       /\ GuessesIn(declared.columns, declared.noted)
  BY <1>1, <1>2, <1>5, <1>8, <1>9, DeclareColumnsNoted DEF StateOK, declared
<1>11. PICK table : tables' = Put(tables, name, table) /\ table.columns = declared.columns
  BY <1>6
<1>12. \A later \in DOMAIN tables' :
           \/ later = name /\ tables'[later] = table
           \/ later \in DOMAIN tables /\ tables'[later] = tables[later]
  BY <1>11 DEF Put
<1>13. /\ NotedOnce(notes', unknown_types_noted')
       /\ unknown_types_noted \subseteq unknown_types_noted'
       /\ GuessesIn(table.columns, unknown_types_noted')
  BY <1>7, <1>10, <1>11
<1> QED BY <1>12, <1>13, ColumnsNoted

LEMMA CreateTableNoted ==
    ASSUME StateOK, PositionOK, GuessInv, NEW name \in Table, NEW create \in Creates,
           NEW ignore_marker, CreateTable(name, create, ignore_marker)
    PROVE  GuessInv'
<1>1. line' \in Nat
  BY NewStatementPosition DEF CreateTable
<1>2. CASE SkipTemporary(name, create) \/ SkipCtas(name, create)
  <2>1. NotedOnce(notes', unknown_types_noted)
    BY <1>1, <1>2, PlainNote DEF SkipTemporary, SkipCtas, NoteKind
  <2> QED BY <1>2, <2>1, SameColumnsNoted DEF SkipTemporary, SkipCtas
<1>3. CASE KeepExisting(name, create)
  BY <1>3, SameColumnsNoted DEF KeepExisting, GuessInv
<1>4. CASE Establish(name, create, ignore_marker)
  BY <1>1, <1>4, EstablishNoted
<1> QED BY <1>2, <1>3, <1>4 DEF CreateTable

LEMMA UnanalyzableNoted ==
    ASSUME StateOK, GuessInv, NEW t \in Table, line' \in Nat, Unanalyzable(t)
    PROVE  GuessInv'
<1>1. NotedOnce(notes', unknown_types_noted)
  BY PlainNote DEF Unanalyzable, NoteKind
<1> QED BY <1>1, SameColumnsNoted DEF Unanalyzable

LEMMA AddColumnNoted ==
    ASSUME StateOK, GuessInv, NEW t \in Table, line' \in Nat, NEW raw \in Raws,
           NEW if_not_exists, AddColumn(t, raw, if_not_exists)
    PROVE  GuessInv'
<1>1. t \in DOMAIN tables /\ tables[t] \in FoldedTable
  BY DEF AddColumn, StateOK, TablesOK
<1>2. CASE HasColumn(tables[t], raw.key)
  <2>1. NotedOnce(notes', unknown_types_noted)
    <3>1. notes' = notes \/ notes' = Append(notes, Note("DuplicateColumn", t))
      BY <1>2 DEF AddColumn
    <3> QED BY <3>1, PlainNote DEF NoteKind, GuessInv
  <2>2. tables' = tables /\ unknown_types_noted' = unknown_types_noted
    BY <1>2 DEF AddColumn
  <2> QED BY <2>1, <2>2, SameColumnsNoted
<1>3. CASE ~HasColumn(tables[t], raw.key)
  <2> DEFINE column == ResolveColumn(raw)
             columns == Append(tables[t].columns, column)
             table == MarkAltered([tables[t] EXCEPT !.columns = columns])
  <2>1. /\ tables' = [tables EXCEPT ![t] = table]
        /\ notes' = notes \o TypeNotes(raw.type, unknown_types_noted)
        /\ unknown_types_noted' = TypesNoted(raw.type, unknown_types_noted)
    BY <1>3 DEF AddColumn
  <2>2. raw \in RawColumn /\ raw.type \in TypeRef
    BY WorkloadAssumption DEF RawColumn
  <2>3. NotedOnce(notes', unknown_types_noted')
    BY <2>1, <2>2, GuessAdded DEF StateOK, GuessInv
  <2>4. /\ column \in FoldedColumn
        /\ ~column.known_type => column.type \in unknown_types_noted'
    <3>1. ~column.known_type => ~Resolve(session, raw.type).known
      BY DEF ResolveColumn
    <3>2. column.type = raw.type.key
      BY DEF ResolveColumn
    <3> HIDE DEF column
    <3> QED BY <2>1, <2>2, <3>1, <3>2, TypesStayNoted, ResolveColumnTyped DEF StateOK, column
  <2>5. unknown_types_noted \subseteq unknown_types_noted'
    BY <2>1, TypesStayNoted
  <2>6. GuessesIn(tables[t].columns, unknown_types_noted') /\ tables[t].columns \in Seq(FoldedColumn)
    BY <1>1, <2>5, MoreNoted DEF GuessInv, FoldedTable
  <2> HIDE DEF column
  <2>7. GuessesIn(columns, unknown_types_noted')
    BY <2>4, <2>6, GuessAppended
  <2> HIDE DEF columns
  <2>8. table.columns = columns
    BY <1>1 DEF MarkAltered, FoldedTable
  <2> HIDE DEF table
  <2> QED BY <1>1, <2>1, <2>3, <2>5, <2>7, <2>8, ColumnsNoted
<1> QED BY <1>2, <1>3

LEMMA DropColumnsNoted ==
    ASSUME StateOK, GuessInv, NEW t \in Table, line' \in Nat, NEW column, NEW if_exists,
           DropColumns(t, column, if_exists)
    PROVE  GuessInv'
<1>1. t \in DOMAIN tables /\ tables[t] \in FoldedTable
  BY DEF DropColumns, StateOK, TablesOK
<1>2. NotedOnce(notes', unknown_types_noted) /\ unknown_types_noted' = unknown_types_noted
  <2>1. \/ notes' = notes
        \/ notes' = Append(notes, Note("DroppedColumn", t))
        \/ notes' = Append(notes, Note("UnknownColumn", t))
    BY DEF DropColumns
  <2>2. unknown_types_noted' = unknown_types_noted
    BY DEF DropColumns
  <2> QED BY <2>1, <2>2, PlainNote DEF NoteKind, GuessInv
<1>3. CASE tables' = tables
  BY <1>2, <1>3, SameColumnsNoted
<1>4. CASE tables' # tables
  <2> DEFINE columns == WithoutColumn(tables[t], column)
             table == MarkAltered([tables[t] EXCEPT
                          !.columns = columns, !.dropped_count = tables[t].dropped_count + 1])
  <2>1. tables' = [tables EXCEPT ![t] = table]
    BY <1>4 DEF DropColumns
  <2>2. Elements(columns) \subseteq Elements(tables[t].columns)
    <3>1. tables[t].columns \in Seq(FoldedColumn)
      BY <1>1 DEF FoldedTable
    <3> QED BY <3>1, RetainFacts DEF WithoutColumn
  <2> HIDE DEF columns
  <2>3. GuessesIn(columns, unknown_types_noted)
    <3>1. \A c \in Elements(tables[t].columns) : ~c.known_type => c.type \in unknown_types_noted
      BY <1>1 DEF GuessInv, GuessesIn, Elements
    <3>2. \A i \in DOMAIN columns : columns[i] \in Elements(tables[t].columns)
      BY <2>2 DEF Elements
    <3> QED BY <3>1, <3>2 DEF GuessesIn
  <2>4. table.columns = columns
    BY <1>1 DEF MarkAltered, FoldedTable
  <2> HIDE DEF table
  <2> QED BY <1>1, <1>2, <2>1, <2>3, <2>4, ColumnsNoted
<1> QED BY <1>3, <1>4

\* An edit of one column that makes no guess of it.
LEMMA EditNoted ==
    ASSUME StateOK, GuessInv, NEW t \in DOMAIN tables,
           NotedOnce(notes', unknown_types_noted'),
           unknown_types_noted \subseteq unknown_types_noted',
           NEW n, NEW edit,
           n \in DOMAIN tables[t].columns /\ ~edit.known_type =>
               edit.type \in unknown_types_noted',
           \/ tables' = tables
           \/ tables' = [tables EXCEPT ![t] = MarkAltered([tables[t] EXCEPT !.columns =
                            [tables[t].columns EXCEPT ![n] = edit]])]
    PROVE  GuessInv'
<1>1. tables[t] \in FoldedTable
  BY DEF StateOK, TablesOK
<1>2. GuessesIn(tables[t].columns, unknown_types_noted')
  BY MoreNoted DEF GuessInv
<1>3. CASE tables' = tables
  BY <1>2, <1>3, ColumnsNoted
<1>4. CASE tables' # tables
  <2> DEFINE columns == [tables[t].columns EXCEPT ![n] = edit]
             table == MarkAltered([tables[t] EXCEPT !.columns = columns])
  <2>1. tables' = [tables EXCEPT ![t] = table]
    BY <1>4
  <2>2. GuessesIn(columns, unknown_types_noted')
    BY <1>2 DEF GuessesIn
  <2> HIDE DEF columns
  <2>3. table.columns = columns
    BY <1>1 DEF MarkAltered, FoldedTable
  <2> HIDE DEF table
  <2> QED BY <2>1, <2>2, <2>3, ColumnsNoted
<1> QED BY <1>3, <1>4

LEMMA ColumnNotesPlain ==
    ASSUME NEW t \in Table, NEW column, line' \in Nat
    PROVE  ColumnNotes(t, column) \in Seq(NoteRecord) /\ NoGuess(ColumnNotes(t, column))
BY ColumnNotesTyped DEF ColumnNotes, NoGuess, Note

LEMMA RenameColumnNoted ==
    ASSUME StateOK, GuessInv, NEW t \in Table, line' \in Nat, NEW old, NEW new,
           RenameColumn(t, old, new)
    PROVE  GuessInv'
<1> DEFINE n == FirstColumn(tables[t], old)
           column == tables[t].columns[n]
           edit == [column EXCEPT !.key = new]
<1>1. /\ t \in DOMAIN tables /\ tables[t] \in FoldedTable
      /\ notes' = notes \o ColumnNotes(t, old)
      /\ unknown_types_noted' = unknown_types_noted
  BY DEF RenameColumn, StateOK, TablesOK
<1>2. NotedOnce(notes', unknown_types_noted')
  BY <1>1, ColumnNotesPlain, PlainAdded DEF StateOK, GuessInv
<1>3. \/ tables' = tables
      \/ tables' = [tables EXCEPT ![t] = MarkAltered([tables[t] EXCEPT !.columns =
                       [tables[t].columns EXCEPT ![n] = edit]])]
  BY DEF RenameColumn, EditColumn
<1> HIDE DEF n
<1>4. n \in DOMAIN tables[t].columns /\ ~edit.known_type => edit.type \in unknown_types_noted'
  <2> SUFFICES ASSUME n \in DOMAIN tables[t].columns, ~edit.known_type
               PROVE  edit.type \in unknown_types_noted'
    OBVIOUS
  <2>1. tables[t].columns \in Seq(FoldedColumn)
    BY <1>1 DEF FoldedTable
  <2>2. column \in FoldedColumn /\ (~column.known_type => column.type \in unknown_types_noted)
    BY <1>1, <2>1 DEF GuessInv, GuessesIn
  <2> QED BY <1>1, <2>2 DEF FoldedColumn
<1> HIDE DEF edit
<1> QED BY <1>1, <1>2, <1>3, <1>4, EditNoted

LEMMA SetNotNullNoted ==
    ASSUME StateOK, GuessInv, NEW t \in Table, line' \in Nat, NEW name, NEW value,
           SetNotNull(t, name, value)
    PROVE  GuessInv'
<1> DEFINE n == FirstColumn(tables[t], name)
           column == tables[t].columns[n]
           edit == [column EXCEPT !.not_null = value]
<1>1. /\ t \in DOMAIN tables /\ tables[t] \in FoldedTable
      /\ notes' = notes \o ColumnNotes(t, name)
      /\ unknown_types_noted' = unknown_types_noted
  BY DEF SetNotNull, StateOK, TablesOK
<1>2. NotedOnce(notes', unknown_types_noted')
  BY <1>1, ColumnNotesPlain, PlainAdded DEF StateOK, GuessInv
<1>3. \/ tables' = tables
      \/ tables' = [tables EXCEPT ![t] = MarkAltered([tables[t] EXCEPT !.columns =
                       [tables[t].columns EXCEPT ![n] = edit]])]
  BY DEF SetNotNull, EditColumn
<1> HIDE DEF n
<1>4. n \in DOMAIN tables[t].columns /\ ~edit.known_type => edit.type \in unknown_types_noted'
  <2> SUFFICES ASSUME n \in DOMAIN tables[t].columns, ~edit.known_type
               PROVE  edit.type \in unknown_types_noted'
    OBVIOUS
  <2>1. tables[t].columns \in Seq(FoldedColumn)
    BY <1>1 DEF FoldedTable
  <2>2. column \in FoldedColumn /\ (~column.known_type => column.type \in unknown_types_noted)
    BY <1>1, <2>1 DEF GuessInv, GuessesIn
  <2> QED BY <1>1, <2>2 DEF FoldedColumn
<1> HIDE DEF edit
<1> QED BY <1>1, <1>2, <1>3, <1>4, EditNoted

LEMMA SetColumnTypeNoted ==
    ASSUME StateOK, GuessInv, NEW t \in Table, line' \in Nat, NEW name, NEW ref \in NewTypes,
           SetColumnType(t, name, ref)
    PROVE  GuessInv'
<1> DEFINE n == FirstColumn(tables[t], name)
           column == tables[t].columns[n]
           resolved == Resolve(session, ref)
           edit == [column EXCEPT !.kind = resolved.kind, !.known_type = resolved.known,
                                  !.type = ref.key]
           guessed == notes \o TypeNotes(ref, unknown_types_noted)
<1>1. /\ t \in DOMAIN tables /\ tables[t] \in FoldedTable
      /\ notes' = guessed \o ColumnNotes(t, name)
      /\ unknown_types_noted' = TypesNoted(ref, unknown_types_noted)
  BY DEF SetColumnType, StateOK, TablesOK
<1>2. ref \in TypeRef
  BY WorkloadAssumption
<1>3. guessed \in Seq(NoteRecord) /\ NotedOnce(guessed, unknown_types_noted')
  BY <1>1, <1>2, TypeNotesTyped, GuessAdded DEF StateOK, GuessInv
<1>4. NotedOnce(notes', unknown_types_noted')
  <2> HIDE DEF guessed
  <2> QED BY <1>1, <1>3, ColumnNotesPlain, PlainAdded
<1>5. unknown_types_noted \subseteq unknown_types_noted'
  BY <1>1, TypesStayNoted
<1>6. \/ tables' = tables
      \/ tables' = [tables EXCEPT ![t] = MarkAltered([tables[t] EXCEPT !.columns =
                       [tables[t].columns EXCEPT ![n] = edit]])]
  BY DEF SetColumnType, EditColumn
<1> HIDE DEF n
<1>7. n \in DOMAIN tables[t].columns /\ ~edit.known_type => edit.type \in unknown_types_noted'
  <2> SUFFICES ASSUME n \in DOMAIN tables[t].columns, ~edit.known_type
               PROVE  edit.type \in unknown_types_noted'
    OBVIOUS
  <2>1. column \in FoldedColumn
    BY <1>1 DEF FoldedTable
  <2>2. edit.known_type = resolved.known /\ edit.type = ref.key
    BY <2>1 DEF FoldedColumn
  <2> HIDE DEF edit
  <2> QED BY <1>1, <2>2, TypesStayNoted
<1> HIDE DEF edit
<1> QED BY <1>1, <1>4, <1>5, <1>6, <1>7, EditNoted

LEMMA AlterOperationNoted ==
    ASSUME StateOK, PositionOK, GuessInv, NEW t \in Table, AlterOperation(t)
    PROVE  GuessInv'
<1>1. line' \in Nat
  BY AlterTablePosition DEF AlterOperation
<1>2. ASSUME NEW raw \in Raws, NEW if_not_exists \in BOOLEAN,
             AddColumn(t, raw, if_not_exists)
      PROVE  GuessInv'
  BY <1>1, <1>2, AddColumnNoted
<1>3. ASSUME NEW column \in Column, NEW if_exists \in BOOLEAN,
             DropColumns(t, column, if_exists)
      PROVE  GuessInv'
  BY <1>1, <1>3, DropColumnsNoted
<1>4. ASSUME NEW column \in Column, NEW ref \in NewTypes, SetColumnType(t, column, ref)
      PROVE  GuessInv'
  BY <1>1, <1>4, SetColumnTypeNoted
<1>5. ASSUME NEW column \in Column, NEW value \in BOOLEAN, SetNotNull(t, column, value)
      PROVE  GuessInv'
  BY <1>1, <1>5, SetNotNullNoted
<1> QED BY <1>1, <1>2, <1>3, <1>4, <1>5, UnanalyzableNoted DEF AlterOperation

LEMMA RenameNoted ==
    ASSUME StateOK, PositionOK, GuessInv, NEW t \in Table, Rename(t)
    PROVE  GuessInv'
<1>1. line' \in Nat
  BY NewStatementPosition DEF Rename
<1>2. ASSUME NEW old \in Column, NEW new \in Column, RenameColumn(t, old, new)
      PROVE  GuessInv'
  BY <1>1, <1>2, RenameColumnNoted
<1>3. ASSUME NEW new \in Table, RenameTable(t, new)
      PROVE  GuessInv'
  <2> DEFINE moved == MarkAltered(tables[t])
  <2>1. /\ t \in DOMAIN tables /\ tables' = Put(Remove(tables, t), new, moved)
        /\ notes' = notes \/ notes' = Append(notes, Note("Redefined", t))
        /\ unknown_types_noted' = unknown_types_noted
    BY <1>3 DEF RenameTable
  <2>2. moved.columns = tables[t].columns
    BY <2>1 DEF MarkAltered, FoldedTable, StateOK, TablesOK
  <2>3. NotedOnce(notes', unknown_types_noted)
    BY <1>1, <2>1, PlainNote DEF NoteKind, GuessInv
  <2> HIDE DEF moved
  <2>4. \A later \in DOMAIN tables' :
            \E key \in DOMAIN tables : tables'[later].columns = tables[key].columns
    BY <2>1, <2>2 DEF Put, Remove
  <2> QED BY <2>1, <2>3, <2>4, SameColumnsNoted
<1> QED BY <1>1, <1>2, <1>3, UnanalyzableNoted DEF Rename

LEMMA DropTablesNoted ==
    ASSUME StateOK, PositionOK, GuessInv, NEW names \in DropLists, NEW if_exists \in BOOLEAN,
           DropTables(names, if_exists)
    PROVE  GuessInv'
<1> DEFINE missing == IF if_exists THEN << >> ELSE Retain(names, DOMAIN tables \cup ghosts)
           more == [i \in DOMAIN missing |-> Note("AlterUnknownTable", missing[i])]
<1>1. line' \in Nat
  BY NewStatementPosition DEF DropTables
<1>2. missing \in Seq(Table)
  BY WorkloadAssumption, RetainFacts
<1>3. /\ tables' = [key \in DOMAIN tables \ Elements(names) |-> tables[key]]
      /\ unknown_types_noted' = unknown_types_noted
      /\ notes' = notes \o more
  BY DEF DropTables
<1>4. more \in Seq(NoteRecord) /\ NoGuess(more)
  <2> HIDE DEF missing
  <2>1. Len(missing) \in Nat /\ DOMAIN missing = 1..Len(missing)
    BY <1>2
  <2>2. \A i \in 1..Len(missing) : /\ Note("AlterUnknownTable", missing[i]) \in NoteRecord
                                   /\ Note("AlterUnknownTable", missing[i]).kind # "UnknownType"
    BY <1>1, <1>2, NoteTyped DEF NoteKind, Note
  <2> QED BY <2>1, <2>2 DEF NoGuess
<1> HIDE DEF more
<1>5. NotedOnce(notes', unknown_types_noted)
  BY <1>3, <1>4, PlainAdded DEF StateOK, GuessInv
<1> QED BY <1>3, <1>5, SameColumnsNoted

LEMMA OtherStepsNoted ==
    ASSUME StateOK, PositionOK, GuessInv,
           \/ TypeDdl
           \/ \E t \in Table, sniffs \in {"alter", "create", "nothing"} : Skipped(sniffs, t)
           \/ \E t \in Table : ConditionalTableDdl(t)
           \/ DoBlockNote
           \/ UnusedIgnoreMarker
    PROVE  GuessInv'
<1>1. line' \in Nat
  BY NewStatementPosition DEF TypeDdl, Skipped, ConditionalTableDdl, DoBlockNote,
                              UnusedIgnoreMarker
<1>2. NotedOnce(notes', unknown_types_noted) /\ unknown_types_noted' = unknown_types_noted
  <2>1. \/ notes' = notes
        \/ \E t \in Table \cup {NoName} : notes' = Append(notes, Note("SkippedStatement", t))
        \/ \E t \in Table \cup {NoName} : notes' = Append(notes, Note("DoBlockDdl", t))
        \/ notes' = Append(notes, Note("UnusedIgnoreMarker", NoName))
    BY DEF TypeDdl, Skipped, ConditionalTableDdl, DoBlockNote, UnusedIgnoreMarker
  <2>2. unknown_types_noted' = unknown_types_noted
    BY DEF TypeDdl, Skipped, ConditionalTableDdl, DoBlockNote, UnusedIgnoreMarker
  <2> QED BY <1>1, <2>1, <2>2, PlainNote DEF NoteKind, GuessInv
<1>3. tables' = tables \/ \E t \in DOMAIN tables : tables' = [tables EXCEPT ![t].incomplete = TRUE]
  BY DEF TypeDdl, Skipped, ConditionalTableDdl, DoBlockNote, UnusedIgnoreMarker
<1>4. \A later \in DOMAIN tables' :
          \E key \in DOMAIN tables : tables'[later].columns = tables[key].columns
  BY <1>3 DEF StateOK, TablesOK, FoldedTable
<1> QED BY <1>2, <1>4, SameColumnsNoted

LEMMA GuessStep ==
    ASSUME StateOK, PositionOK, GuessInv, [Next]_vars
    PROVE  GuessInv'
<1>1. ASSUME NEW t \in Table, NEW create \in Creates, NEW ignore_marker \in BOOLEAN,
             CreateTable(t, create, ignore_marker)
      PROVE  GuessInv'
  BY <1>1, CreateTableNoted
<1>2. CASE UNCHANGED vars
  BY <1>2, SameColumnsNoted DEF vars, GuessInv
<1> QED BY <1>1, <1>2, AlterOperationNoted, RenameNoted, DropTablesNoted, OtherStepsNoted DEF Next

\* No guess of a type's storage goes without a note about the type, and no type is noted
\* twice, however often and on whichever path the series brings it in (resolve_type).
THEOREM GuessesAlwaysNotedOnce == Spec => []GuessesNotedOnce
<1>1. Init => GuessInv
  BY DEF Init, GuessInv, NotedOnce, EmptyMap
<1>2. TypeOK /\ GuessInv /\ [Next]_vars => GuessInv'
  BY GuessStep, TypeOKForm
<1>3. GuessInv => GuessesNotedOnce
  BY GuessInvNotes
<1> QED BY <1>1, <1>2, <1>3, TypesAlwaysHold, PTL DEF Spec

-----------------------------------------------------------------------------
(* What becomes of a table over a series: every table after a step is a    *)
(* table of before it, or was created by it.  From that: tables and their  *)
(* alterations stay in replay order, no flag is cleared, and no attribute  *)
(* number is taken back.                                                   *)

-----------------------------------------------------------------------------
(* A table and what a step makes of it. *)

DistinctKeys(columns) ==
    \A i, j \in DOMAIN columns : columns[i].key = columns[j].key => i = j

KeepsNatts(table, later) ==
    /\ later.dropped_count >= table.dropped_count
    /\ DistinctKeys(table.columns) => Natts(later) >= Natts(table)

Follows(table, later) ==
    /\ later.origin = table.origin
    /\ \/ later.altered_in = table.altered_in
       \/ later.altered_in = MarkAltered(table).altered_in
    /\ table.incomplete => later.incomplete
    /\ KeepsNatts(table, later)

\* A step that creates, drops and renames no table.
Kept ==
    /\ SameKeys
    /\ \A key \in DOMAIN tables : Follows(tables[key], tables'[key])

Created(later) ==
    /\ tables'[later].origin = line'
    /\ tables'[later].altered_in = << >>

\* The tables after a step: created by it, or there before it.
Succession ==
    \A later \in DOMAIN tables' :
        \/ NewStatement /\ Created(later)
        \/ \E key \in DOMAIN tables : Follows(tables[key], tables'[later])

\* A new statement, or the second sub-command of an ALTER TABLE.
Moves ==
    \/ line' = line + 1
    \/ open # NoName /\ line' = line /\ open' = NoName

LEMMA FollowsItself ==
    ASSUME NEW table \in FoldedTable
    PROVE  Follows(table, table)
<1>1. Len(table.columns) \in Nat /\ table.dropped_count \in Nat
  BY DEF FoldedTable
<1> QED BY <1>1 DEF Follows, KeepsNatts, Natts

LEMMA MarkedFollows ==
    ASSUME NEW table \in FoldedTable
    PROVE  Follows(table, MarkAltered(table))
<1>1. Len(table.columns) \in Nat /\ table.dropped_count \in Nat
  BY DEF FoldedTable
<1>2. /\ MarkAltered(table).origin = table.origin
      /\ MarkAltered(table).incomplete = table.incomplete
      /\ MarkAltered(table).columns = table.columns
      /\ MarkAltered(table).dropped_count = table.dropped_count
  BY DEF MarkAltered, FoldedTable
<1> QED BY <1>1, <1>2 DEF Follows, KeepsNatts, Natts

LEMMA EditFollows ==
    ASSUME NEW table \in FoldedTable, NEW columns,
           Len(columns) \in Nat, Len(columns) >= Len(table.columns)
    PROVE  Follows(table, MarkAltered([table EXCEPT !.columns = columns]))
<1> DEFINE later == MarkAltered([table EXCEPT !.columns = columns])
<1>1. Len(table.columns) \in Nat /\ table.dropped_count \in Nat
  BY DEF FoldedTable
<1>2. /\ later.origin = table.origin
      /\ later.incomplete = table.incomplete
      /\ later.columns = columns
      /\ later.dropped_count = table.dropped_count
      /\ later.altered_in = MarkAltered(table).altered_in
  BY DEF MarkAltered, FoldedTable
<1> HIDE DEF later
<1>3. Follows(table, later)
  BY <1>1, <1>2 DEF Follows, KeepsNatts, Natts
<1> QED BY <1>3 DEF later

\* A dropped column leaves its slot.
LEMMA CutFollows ==
    ASSUME NEW table \in FoldedTable, NEW columns, Len(columns) \in Nat,
           DistinctKeys(table.columns) => Len(columns) >= Len(table.columns) - 1
    PROVE  Follows(table, MarkAltered([table EXCEPT
               !.columns = columns, !.dropped_count = table.dropped_count + 1]))
<1> DEFINE later == MarkAltered([table EXCEPT
                        !.columns = columns, !.dropped_count = table.dropped_count + 1])
<1>1. Len(table.columns) \in Nat /\ table.dropped_count \in Nat
  BY DEF FoldedTable
<1>2. /\ later.origin = table.origin
      /\ later.incomplete = table.incomplete
      /\ later.columns = columns
      /\ later.dropped_count = table.dropped_count + 1
      /\ later.altered_in = MarkAltered(table).altered_in
  BY DEF MarkAltered, FoldedTable
<1> HIDE DEF later
<1>3. Follows(table, later)
  BY <1>1, <1>2 DEF Follows, KeepsNatts, Natts
<1> QED BY <1>3 DEF later

LEMMA SameTablesKept ==
    ASSUME StateOK, UNCHANGED <<order, tables>>
    PROVE  Kept
BY FollowsItself DEF StateOK, TablesOK, Kept, SameKeys

LEMMA EditKept ==
    ASSUME StateOK, NEW t \in DOMAIN tables, NEW later, Follows(tables[t], later),
           tables' = [tables EXCEPT ![t] = later], order' = order
    PROVE  Kept
BY FollowsItself DEF StateOK, TablesOK, Kept, SameKeys

-----------------------------------------------------------------------------
(* Steps that keep the tables. *)

LEMMA DropColumnsKept ==
    ASSUME StateOK, NEW t \in Table, NEW column, NEW if_exists,
           DropColumns(t, column, if_exists)
    PROVE  Kept
<1>1. t \in DOMAIN tables /\ tables[t] \in FoldedTable /\ order' = order
  BY DEF DropColumns, StateOK, TablesOK
<1>2. CASE tables' = tables
  BY <1>1, <1>2, SameTablesKept
<1>3. CASE tables' # tables
  <2> DEFINE out == {c \in Elements(tables[t].columns) : c.key = column}
             columns == WithoutColumn(tables[t], column)
  <2>1. tables' = [tables EXCEPT ![t] = MarkAltered([tables[t] EXCEPT
                      !.columns = columns, !.dropped_count = tables[t].dropped_count + 1])]
    BY <1>3 DEF DropColumns
  <2>2. tables[t].columns \in Seq(FoldedColumn) /\ columns = Retain(tables[t].columns, out)
    BY <1>1 DEF FoldedTable, WithoutColumn
  <2>3. columns \in Seq(FoldedColumn) /\ Len(columns) \in Nat
    <3>1. Retain(tables[t].columns, out) \in Seq(FoldedColumn)
      BY <2>2, RetainFacts
    <3> QED BY <2>2, <3>1
  <2>4. ASSUME DistinctKeys(tables[t].columns)
        PROVE  Len(columns) >= Len(tables[t].columns) - 1
    <3>1. \A i, j \in DOMAIN tables[t].columns :
              tables[t].columns[i] \in out /\ tables[t].columns[j] \in out => i = j
      BY <2>4 DEF DistinctKeys
    <3> QED BY <2>2, <3>1, RetainAllButOne
  <2> HIDE DEF columns
  <2>5. Follows(tables[t], MarkAltered([tables[t] EXCEPT
                    !.columns = columns, !.dropped_count = tables[t].dropped_count + 1]))
    BY <1>1, <2>3, <2>4, CutFollows
  <2> QED BY <1>1, <2>1, <2>5, EditKept
<1> QED BY <1>2, <1>3

LEMMA AddColumnKept ==
    ASSUME StateOK, NEW t \in Table, NEW raw \in Raws, NEW if_not_exists,
           AddColumn(t, raw, if_not_exists)
    PROVE  Kept
<1>1. t \in DOMAIN tables /\ tables[t] \in FoldedTable /\ order' = order
  BY DEF AddColumn, StateOK, TablesOK
<1>2. CASE tables' = tables
  BY <1>1, <1>2, SameTablesKept
<1>3. CASE tables' # tables
  <2> DEFINE columns == Append(tables[t].columns, ResolveColumn(raw))
  <2>1. tables' = [tables EXCEPT ![t] =
                      MarkAltered([tables[t] EXCEPT !.columns = columns])]
    BY <1>3 DEF AddColumn
  <2>2. /\ tables[t].columns \in Seq(FoldedColumn)
        /\ ResolveColumn(raw) \in FoldedColumn
    BY <1>1, WorkloadAssumption, ResolveColumnTyped DEF FoldedTable, StateOK
  <2>3. Len(columns) = Len(tables[t].columns) + 1 /\ Len(tables[t].columns) \in Nat
    BY <2>2
  <2> HIDE DEF columns
  <2>4. Follows(tables[t], MarkAltered([tables[t] EXCEPT !.columns = columns]))
    BY <1>1, <2>3, EditFollows
  <2> QED BY <1>1, <2>1, <2>4, EditKept
<1> QED BY <1>2, <1>3

\* EditColumn, whatever the edit: it changes at most one column.
EditsOne(t, column) ==
    \/ tables' = tables
    \/ \E edit : tables' = [tables EXCEPT ![t] =
           MarkAltered([tables[t] EXCEPT !.columns =
               [tables[t].columns EXCEPT ![FirstColumn(tables[t], column)] = edit]])]

LEMMA EditsOneKept ==
    ASSUME StateOK, NEW t \in DOMAIN tables, NEW column, EditsOne(t, column), order' = order
    PROVE  Kept
<1>1. tables[t] \in FoldedTable
  BY DEF StateOK, TablesOK
<1>2. CASE tables' = tables
  BY <1>2, SameTablesKept
<1>3. CASE tables' # tables
  <2>1. PICK edit : tables' = [tables EXCEPT ![t] =
            MarkAltered([tables[t] EXCEPT !.columns =
                [tables[t].columns EXCEPT ![FirstColumn(tables[t], column)] = edit]])]
    BY <1>3 DEF EditsOne
  <2> DEFINE columns == [tables[t].columns EXCEPT ![FirstColumn(tables[t], column)] = edit]
  <2>2. tables[t].columns \in Seq(FoldedColumn)
    BY <1>1 DEF FoldedTable
  <2>3. Len(columns) = Len(tables[t].columns) /\ Len(tables[t].columns) \in Nat
    BY <2>2
  <2>4. tables' = [tables EXCEPT ![t] =
                      MarkAltered([tables[t] EXCEPT !.columns = columns])]
    BY <2>1
  <2> HIDE DEF columns
  <2>5. Follows(tables[t], MarkAltered([tables[t] EXCEPT !.columns = columns]))
    BY <1>1, <2>3, EditFollows
  <2> QED BY <2>4, <2>5, EditKept
<1> QED BY <1>2, <1>3

LEMMA RenameColumnKept ==
    ASSUME StateOK, NEW t \in Table, NEW old, NEW new, RenameColumn(t, old, new)
    PROVE  Kept
<1>1. t \in DOMAIN tables /\ order' = order /\ EditsOne(t, old)
  BY DEF RenameColumn, EditColumn, EditsOne
<1> QED BY <1>1, EditsOneKept

LEMMA SetColumnTypeKept ==
    ASSUME StateOK, NEW t \in Table, NEW column, NEW ref, SetColumnType(t, column, ref)
    PROVE  Kept
<1>1. t \in DOMAIN tables /\ order' = order /\ EditsOne(t, column)
  BY DEF SetColumnType, EditColumn, EditsOne
<1> QED BY <1>1, EditsOneKept

LEMMA SetNotNullKept ==
    ASSUME StateOK, NEW t \in Table, NEW column, NEW value, SetNotNull(t, column, value)
    PROVE  Kept
<1>1. t \in DOMAIN tables /\ order' = order /\ EditsOne(t, column)
  BY DEF SetNotNull, EditColumn, EditsOne
<1> QED BY <1>1, EditsOneKept

LEMMA AlterOperationKept ==
    ASSUME StateOK, NEW t \in Table, AlterOperation(t)
    PROVE  Kept
<1>1. CASE Unanalyzable(t)
  BY <1>1, SameTablesKept DEF Unanalyzable
<1>2. ASSUME NEW raw \in Raws, NEW if_not_exists \in BOOLEAN,
             AddColumn(t, raw, if_not_exists)
      PROVE  Kept
  BY <1>2, AddColumnKept
<1>3. ASSUME NEW column \in Column, NEW if_exists \in BOOLEAN,
             DropColumns(t, column, if_exists)
      PROVE  Kept
  BY <1>3, DropColumnsKept
<1>4. ASSUME NEW column \in Column, NEW ref \in NewTypes, SetColumnType(t, column, ref)
      PROVE  Kept
  BY <1>4, SetColumnTypeKept
<1>5. ASSUME NEW column \in Column, NEW value \in BOOLEAN, SetNotNull(t, column, value)
      PROVE  Kept
  BY <1>5, SetNotNullKept
<1> QED BY <1>1, <1>2, <1>3, <1>4, <1>5 DEF AlterOperation

\* An incomplete flag is set.
LEMMA FlagSetKept ==
    ASSUME StateOK, NEW t, order' = order,
           tables' = tables \/ (/\ t \in DOMAIN tables
                                /\ tables' = [tables EXCEPT ![t].incomplete = TRUE])
    PROVE  Kept
<1>1. CASE tables' = tables
  BY <1>1, SameTablesKept
<1>2. CASE t \in DOMAIN tables /\ tables' = [tables EXCEPT ![t].incomplete = TRUE]
  <2> DEFINE later == [tables[t] EXCEPT !.incomplete = TRUE]
  <2>1. tables[t] \in FoldedTable /\ tables' = [tables EXCEPT ![t] = later]
    BY <1>2 DEF StateOK, TablesOK
  <2>2. Follows(tables[t], later)
    <3>1. Len(tables[t].columns) \in Nat /\ tables[t].dropped_count \in Nat
      BY <2>1 DEF FoldedTable
    <3>2. /\ later.origin = tables[t].origin /\ later.altered_in = tables[t].altered_in
          /\ later.columns = tables[t].columns
          /\ later.dropped_count = tables[t].dropped_count
          /\ later.incomplete
      BY <2>1 DEF FoldedTable
    <3> HIDE DEF later
    <3> QED BY <3>1, <3>2 DEF Follows, KeepsNatts, Natts
  <2> HIDE DEF later
  <2> QED BY <1>2, <2>1, <2>2, EditKept
<1> QED BY <1>1, <1>2

LEMMA OtherStepsKept ==
    ASSUME StateOK,
           \/ TypeDdl
           \/ \E t \in Table, sniffs \in {"alter", "create", "nothing"} : Skipped(sniffs, t)
           \/ \E t \in Table : ConditionalTableDdl(t)
           \/ DoBlockNote
           \/ UnusedIgnoreMarker
    PROVE  Kept
<1>1. CASE TypeDdl \/ DoBlockNote \/ UnusedIgnoreMarker
  BY <1>1, SameTablesKept DEF TypeDdl, DoBlockNote, UnusedIgnoreMarker
<1>2. ASSUME NEW t \in Table, NEW sniffs \in {"alter", "create", "nothing"},
             Skipped(sniffs, t)
      PROVE  Kept
  BY <1>2, FlagSetKept DEF Skipped
<1>3. ASSUME NEW t \in Table, ConditionalTableDdl(t)
      PROVE  Kept
  BY <1>3, FlagSetKept DEF ConditionalTableDdl
<1> QED BY <1>1, <1>2, <1>3
-----------------------------------------------------------------------------
(* Steps that create, rename or drop a table. *)

LEMMA KeptSuccession == Kept => Succession
BY DEF Kept, SameKeys, Succession

\* A new table, last in the order, under a name that may have been another's.
Establishes(name) ==
    /\ NewStatement
    /\ DOMAIN tables' = DOMAIN tables \cup {name}
    /\ Created(name)
    /\ \A key \in DOMAIN tables \ {name} : tables'[key] = tables[key]
    /\ order' = Append(IF name \in DOMAIN tables THEN Retain(order, {name}) ELSE order, name)

LEMMA EstablishMakes ==
    ASSUME NEW name \in Table, NEW create, NEW ignore_marker, NewStatement,
           Establish(name, create, ignore_marker)
    PROVE  Establishes(name)
<1>1. PICK table : /\ tables' = Put(tables, name, table)
                   /\ table.origin = line' /\ table.altered_in = << >>
  BY DEF Establish
<1>2. /\ DOMAIN tables' = DOMAIN tables \cup {name}
      /\ tables'[name] = table
      /\ \A key \in DOMAIN tables \ {name} : tables'[key] = tables[key]
  BY <1>1 DEF Put
<1>3. order' = Append(IF name \in DOMAIN tables THEN Retain(order, {name}) ELSE order, name)
  BY DEF Establish
<1> QED BY <1>1, <1>2, <1>3 DEF Establishes, Created

LEMMA CreateTableMakes ==
    ASSUME StateOK, NEW name \in Table, NEW create, NEW ignore_marker,
           CreateTable(name, create, ignore_marker)
    PROVE  Kept \/ Establishes(name)
<1>1. CASE SkipTemporary(name, create) \/ SkipCtas(name, create)
  BY <1>1, SameTablesKept DEF SkipTemporary, SkipCtas
<1>2. CASE KeepExisting(name, create)
  BY <1>2, SameTablesKept DEF KeepExisting
<1>3. CASE Establish(name, create, ignore_marker)
  BY <1>3, EstablishMakes DEF CreateTable
<1> QED BY <1>1, <1>2, <1>3 DEF CreateTable

LEMMA EstablishSuccession ==
    ASSUME StateOK, NEW name \in Table, Establishes(name)
    PROVE  Succession
BY FollowsItself DEF StateOK, TablesOK, Establishes, Succession

\* The table of one name goes to another, and the table of that name is gone.
Renames(t, new) ==
    /\ t \in DOMAIN tables
    /\ DOMAIN tables' = (DOMAIN tables \ {t}) \cup {new}
    /\ tables'[new] = MarkAltered(tables[t])
    /\ \A key \in DOMAIN tables' \ {new} : tables'[key] = tables[key]
    /\ LET remaining == Retain(order, IF new # t /\ new \in DOMAIN tables THEN {new} ELSE {})
       IN  order' = [i \in DOMAIN remaining |->
                        IF remaining[i] = t THEN new ELSE remaining[i]]

LEMMA RenameTableMakes ==
    ASSUME NEW t \in Table, NEW new \in Table, RenameTable(t, new)
    PROVE  Renames(t, new)
<1>1. t \in DOMAIN tables /\ tables' = Put(Remove(tables, t), new, MarkAltered(tables[t]))
  BY DEF RenameTable
<1>2. /\ DOMAIN tables' = (DOMAIN tables \ {t}) \cup {new}
      /\ tables'[new] = MarkAltered(tables[t])
      /\ \A key \in DOMAIN tables' \ {new} : tables'[key] = tables[key]
  BY <1>1 DEF Put, Remove
<1> QED BY <1>1, <1>2 DEF RenameTable, Renames

LEMMA RenameMakes ==
    ASSUME StateOK, NEW t \in Table, Rename(t)
    PROVE  Kept \/ \E new \in Table : Renames(t, new)
<1>1. CASE Unanalyzable(t)
  BY <1>1, SameTablesKept DEF Unanalyzable
<1>2. ASSUME NEW old \in Column, NEW new \in Column, RenameColumn(t, old, new)
      PROVE  Kept
  BY <1>2, RenameColumnKept
<1>3. ASSUME NEW new \in Table, RenameTable(t, new)
      PROVE  Renames(t, new)
  BY <1>3, RenameTableMakes
<1> QED BY <1>1, <1>2, <1>3 DEF Rename

LEMMA RenameSuccession ==
    ASSUME StateOK, NEW t \in Table, NEW new \in Table, Renames(t, new)
    PROVE  Succession
<1>1. \A key \in DOMAIN tables : tables[key] \in FoldedTable
  BY DEF StateOK, TablesOK
<1>2. Follows(tables[t], tables'[new])
  BY <1>1, MarkedFollows DEF Renames
<1>3. ASSUME NEW later \in DOMAIN tables', later # new
      PROVE  later \in DOMAIN tables /\ Follows(tables[later], tables'[later])
  BY <1>1, <1>3, FollowsItself DEF Renames
<1> QED BY <1>2, <1>3 DEF Renames, Succession

Drops(names) ==
    /\ tables' = [key \in DOMAIN tables \ names |-> tables[key]]
    /\ order' = Retain(order, names)

LEMMA DropSuccession ==
    ASSUME StateOK, NEW names, Drops(names)
    PROVE  Succession
BY FollowsItself DEF StateOK, TablesOK, Drops, Succession

-----------------------------------------------------------------------------
(* Every step. *)

\* The four ways a step treats the tables.
LEMMA StepMakes ==
    ASSUME StateOK, Next
    PROVE  /\ Moves
           /\ \/ Kept
              \/ \E name \in Table : Establishes(name)
              \/ NewStatement /\ \E t, new \in Table : Renames(t, new)
              \/ NewStatement /\ \E names : Drops(names)
<1>1. CASE \E t \in Table, create \in Creates, ignore_marker \in BOOLEAN :
               CreateTable(t, create, ignore_marker)
  BY <1>1, CreateTableMakes DEF CreateTable, NewStatement, Moves
<1>2. ASSUME NEW t \in Table, AlterOperation(t) PROVE Moves /\ Kept
  <2>1. Moves
    BY <1>2, WorkloadAssumption DEF AlterOperation, AlterTable, Moves
  <2> QED BY <1>2, <2>1, AlterOperationKept
<1>3. CASE \E t \in Table : Rename(t)
  BY <1>3, RenameMakes DEF Rename, NewStatement, Moves
<1>4. CASE \E names \in DropLists, if_exists \in BOOLEAN : DropTables(names, if_exists)
  BY <1>4 DEF DropTables, Drops, NewStatement, Moves
<1>5. CASE \/ TypeDdl
           \/ \E t \in Table, sniffs \in {"alter", "create", "nothing"} : Skipped(sniffs, t)
           \/ \E t \in Table : ConditionalTableDdl(t)
           \/ DoBlockNote
           \/ UnusedIgnoreMarker
  <2>1. NewStatement
    BY <1>5 DEF TypeDdl, Skipped, ConditionalTableDdl, DoBlockNote, UnusedIgnoreMarker
  <2> QED BY <1>5, <2>1, OtherStepsKept DEF NewStatement, Moves
<1> QED BY <1>1, <1>2, <1>3, <1>4, <1>5 DEF Next

LEMMA StepSuccession ==
    ASSUME StateOK, [Next]_vars
    PROVE  Succession
<1>1. CASE Next
  BY <1>1, StepMakes, KeptSuccession, EstablishSuccession, RenameSuccession, DropSuccession
<1>2. CASE UNCHANGED vars
  BY <1>2, SameTablesKept, KeptSuccession DEF vars
<1> QED BY <1>1, <1>2

-----------------------------------------------------------------------------
(* The order of a series.  HistoryInOrder becomes inductive with the place  *)
(* of every recorded line relative to the current one; no table is of the   *)
(* statement whose second sub-command is still to come.                     *)

Origins == [key \in DOMAIN tables |-> tables[key].origin]

AlteredInOrder(table, now) ==
    /\ \A i \in DOMAIN table.altered_in :
           table.origin < table.altered_in[i] /\ table.altered_in[i] <= now
    /\ \A i, j \in DOMAIN table.altered_in :
           i < j => table.altered_in[i] < table.altered_in[j]

HistoryInv ==
    /\ \A key \in DOMAIN tables :
           /\ tables[key].origin # 0
           /\ tables[key].origin <= line
           /\ open # NoName => tables[key].origin < line
           /\ AlteredInOrder(tables[key], line)
    /\ Increasing(order, Origins)

LEMMA HistoryInvOrders ==
    ASSUME OrderInv, HistoryInv
    PROVE  HistoryInOrder
<1>1. order \in Seq(Table) /\ Elements(order) = DOMAIN tables
  BY OrderInvForm
<1>2. \A i \in DOMAIN order : Origins[order[i]] = tables[order[i]].origin
  BY <1>1 DEF Elements, Origins
<1> QED BY <1>2 DEF HistoryInOrder, HistoryInv, Increasing, AlteredInOrder

LEMMA DistinctOrigins ==
    ASSUME StateOK, OrderInv, HistoryInv, NEW k \in DOMAIN tables, NEW m \in DOMAIN tables,
           tables[k].origin = tables[m].origin
    PROVE  k = m
<1>1. order \in Seq(Table) /\ Elements(order) = DOMAIN tables
  BY OrderInvForm
<1>2. PICK i \in DOMAIN order, j \in DOMAIN order : order[i] = k /\ order[j] = m
  BY <1>1 DEF Elements
<1>3. /\ i < j => tables[k].origin < tables[m].origin
      /\ j < i => tables[m].origin < tables[k].origin
  BY <1>1, <1>2 DEF HistoryInv, Increasing, Origins
<1>4. tables[k].origin \in Nat /\ i \in Nat /\ j \in Nat
  BY <1>1 DEF StateOK, TablesOK, FoldedTable
<1> QED BY <1>2, <1>3, <1>4

\* The lines of a table that follows another one.
LEMMA FollowsInOrder ==
    ASSUME NEW table \in FoldedTable, NEW later, Follows(table, later),
           line \in Nat, line' \in Nat, Moves,
           table.origin <= line, open # NoName => table.origin < line,
           AlteredInOrder(table, line)
    PROVE  /\ later.origin <= line'
           /\ open' # NoName => later.origin < line'
           /\ AlteredInOrder(later, line')
<1>1. /\ table.origin \in Nat /\ table.altered_in \in Seq(Nat)
      /\ Len(table.altered_in) \in Nat
      /\ DOMAIN table.altered_in = 1..Len(table.altered_in)
  BY DEF FoldedTable
<1>2. table.origin < line' /\ line <= line' /\ later.origin = table.origin
  BY <1>1 DEF Moves, Follows
<1>3. AlteredInOrder(table, line')
  <2>1. \A i \in DOMAIN table.altered_in : table.altered_in[i] \in Nat
    BY <1>1
  <2> QED BY <1>1, <1>2, <2>1 DEF AlteredInOrder
<1>0. later.origin <= line' /\ later.origin < line'
  BY <1>1, <1>2
<1>4. CASE later.altered_in = table.altered_in
  <2>1. AlteredInOrder(later, line')
    BY <1>2, <1>3, <1>4 DEF AlteredInOrder
  <2> QED BY <1>0, <2>1
<1>5. CASE later.altered_in # table.altered_in
  <2> DEFINE altered == table.altered_in
             n == Len(altered)
  <2>1. /\ later.altered_in = Append(altered, line')
        /\ n # 0 => altered[n] # line'
    <3>1. later.altered_in = MarkAltered(table).altered_in
      BY <1>5 DEF Follows
    <3>2. MarkAltered(table).altered_in =
              IF altered # << >> /\ altered[n] = line' THEN altered ELSE Append(altered, line')
      BY DEF MarkAltered, FoldedTable
    <3>3. n # 0 => altered # << >>
      OBVIOUS
    <3> QED BY <1>5, <3>1, <3>2, <3>3
  <2>2. /\ DOMAIN later.altered_in = 1..(n + 1)
        /\ later.altered_in[n + 1] = line'
        /\ \A i \in 1..n : later.altered_in[i] = altered[i] /\ altered[i] \in Nat
    BY <1>1, <2>1
  <2>5. \A i, j \in 1..n : i < j => altered[i] < altered[j]
    BY <1>1 DEF AlteredInOrder
  <2>3. \A i \in 1..n : altered[i] < line'
    <3> SUFFICES ASSUME NEW i \in 1..n PROVE altered[i] < line'
      OBVIOUS
    <3>1. n \in 1..n /\ n # 0
      BY <1>1
    <3>2. altered[n] <= line' /\ altered[n] # line'
      BY <1>1, <1>3, <2>1, <3>1 DEF AlteredInOrder
    <3>3. i # n => i < n
      BY <1>1
    <3> QED BY <1>2, <2>2, <2>5, <3>1, <3>2, <3>3
  <2>4. \A i \in 1..n : table.origin < altered[i]
    BY <1>1 DEF AlteredInOrder
  <2> HIDE DEF altered, n
  <2>6. \A i \in 1..(n + 1) : table.origin < later.altered_in[i] /\ later.altered_in[i] <= line'
    <3> SUFFICES ASSUME NEW i \in 1..(n + 1)
                 PROVE  table.origin < later.altered_in[i] /\ later.altered_in[i] <= line'
      OBVIOUS
    <3>1. n \in Nat
      BY <1>1 DEF n, altered
    <3>2. CASE i \in 1..n
      BY <1>2, <2>2, <2>3, <2>4, <3>2
    <3>3. CASE i = n + 1
      BY <1>2, <2>2, <3>3
    <3> QED BY <3>1, <3>2, <3>3
  <2>7. \A i, j \in 1..(n + 1) : i < j => later.altered_in[i] < later.altered_in[j]
    <3> SUFFICES ASSUME NEW i \in 1..(n + 1), NEW j \in 1..(n + 1), i < j
                 PROVE  later.altered_in[i] < later.altered_in[j]
      OBVIOUS
    <3>1. n \in Nat /\ i \in 1..n
      BY <1>1 DEF n, altered
    <3> QED BY <2>2, <2>3, <2>5, <3>1
  <2>8. AlteredInOrder(later, line')
    BY <1>2, <2>2, <2>6, <2>7 DEF AlteredInOrder
  <2> QED BY <1>0, <2>8
<1> QED BY <1>4, <1>5

LEMMA SuccessionInOrder ==
    ASSUME StateOK, PositionOK, HistoryInv, Moves, Succession, NEW later \in DOMAIN tables'
    PROVE  /\ tables'[later].origin <= line'
           /\ open' # NoName => tables'[later].origin < line'
           /\ AlteredInOrder(tables'[later], line')
<1>1. line \in Nat /\ line' \in Nat
  BY WorkloadAssumption DEF PositionOK, Moves
<1>2. CASE NewStatement /\ Created(later)
  BY <1>1, <1>2 DEF NewStatement, Created, AlteredInOrder
<1>3. ASSUME NEW key \in DOMAIN tables, Follows(tables[key], tables'[later])
      PROVE  /\ tables'[later].origin <= line'
             /\ open' # NoName => tables'[later].origin < line'
             /\ AlteredInOrder(tables'[later], line')
  BY <1>1, <1>3, FollowsInOrder DEF StateOK, TablesOK, HistoryInv
<1> QED BY <1>2, <1>3 DEF Succession

\* The order follows the origins after a step, in each of the four ways.
LEMMA RanksAgree ==
    ASSUME NEW S, NEW seq \in Seq(S), NEW rank, NEW later, Increasing(seq, rank),
           \A x \in Elements(seq) : later[x] = rank[x]
    PROVE  Increasing(seq, later)
BY DEF Increasing, Elements

LEMMA KeptIncreasing ==
    ASSUME OrderInv, HistoryInv, Kept
    PROVE  Increasing(order', Origins')
<1>1. order \in Seq(Table) /\ Elements(order) = DOMAIN tables
  BY OrderInvForm
<1>2. \A key \in DOMAIN tables : Origins'[key] = Origins[key]
  BY DEF Kept, SameKeys, Follows, Origins
<1>3. Increasing(order, Origins) /\ order' = order
  BY DEF HistoryInv, Kept, SameKeys
<1> HIDE DEF Origins
<1> QED BY <1>1, <1>2, <1>3, RanksAgree

LEMMA EstablishIncreasing ==
    ASSUME StateOK, PositionOK, OrderInv, HistoryInv, NEW name \in Table, Establishes(name)
    PROVE  Increasing(order', Origins')
<1>1. order \in Seq(Table) /\ Elements(order) = DOMAIN tables /\ Increasing(order, Origins)
  BY OrderInvForm DEF HistoryInv
<1> DEFINE remaining == IF name \in DOMAIN tables THEN Retain(order, {name}) ELSE order
<1>2. /\ remaining \in Seq(Table)
      /\ Elements(remaining) = DOMAIN tables \ {name}
      /\ Increasing(remaining, Origins)
  BY <1>1, RetainFacts, RetainIncreasing
<1>3. order' = Append(remaining, name)
  BY DEF Establishes
<1> HIDE DEF remaining
<1>4. \A key \in DOMAIN tables \ {name} : Origins'[key] = Origins[key]
  BY DEF Establishes, Origins
<1>5. Origins'[name] = line'
  BY DEF Establishes, Created, Origins
<1>6. \A key \in DOMAIN tables : Origins[key] < line'
  <2>1. line \in Nat /\ line' = line + 1
    BY WorkloadAssumption DEF PositionOK, Establishes, NewStatement
  <2>2. \A key \in DOMAIN tables : tables[key].origin \in Nat /\ tables[key].origin <= line
    BY DEF StateOK, TablesOK, FoldedTable, HistoryInv
  <2> QED BY <2>1, <2>2 DEF Origins
<1> HIDE DEF Origins
<1>7. Increasing(remaining, Origins')
  BY <1>2, <1>4, RanksAgree
<1> QED BY <1>2, <1>3, <1>4, <1>5, <1>6, <1>7, AppendIncreasing

LEMMA RenameIncreasing ==
    ASSUME StateOK, OrderInv, HistoryInv, NEW t \in Table, NEW new \in Table, Renames(t, new)
    PROVE  Increasing(order', Origins')
<1>1. order \in Seq(Table) /\ Elements(order) = DOMAIN tables /\ Increasing(order, Origins)
  BY OrderInvForm DEF HistoryInv
<1> DEFINE out == IF new # t /\ new \in DOMAIN tables THEN {new} ELSE {}
           remaining == Retain(order, out)
<1>2. /\ remaining \in Seq(Table)
      /\ Elements(remaining) = DOMAIN tables \ out
      /\ Increasing(remaining, Origins)
  BY <1>1, RetainFacts, RetainIncreasing
<1>3. order' = [i \in DOMAIN remaining |-> IF remaining[i] = t THEN new ELSE remaining[i]]
  BY DEF Renames
<1>4. \A key \in DOMAIN tables \ {t, new} : Origins'[key] = Origins[key]
  BY DEF Renames, Origins
<1>5. Origins'[new] = Origins[t]
  BY DEF Renames, Origins, MarkAltered, StateOK, TablesOK, FoldedTable
<1>6. \A key \in DOMAIN tables \ out : key # t => key # new
  BY DEF Renames
<1> HIDE DEF out, remaining, Origins
<1>7. \A i \in DOMAIN remaining : remaining[i] \in DOMAIN tables \ out
  BY <1>2 DEF Elements
<1>8. \A i \in DOMAIN remaining : Origins'[order'[i]] = Origins[remaining[i]]
  <2> SUFFICES ASSUME NEW i \in DOMAIN remaining
               PROVE  Origins'[order'[i]] = Origins[remaining[i]]
    OBVIOUS
  <2>1. CASE remaining[i] = t
    BY <1>3, <1>5, <2>1
  <2>2. CASE remaining[i] # t
    BY <1>3, <1>4, <1>6, <1>7, <2>2
  <2> QED BY <2>1, <2>2
<1> QED BY <1>2, <1>3, <1>8 DEF Increasing

LEMMA DropIncreasing ==
    ASSUME OrderInv, HistoryInv, NEW names, Drops(names)
    PROVE  Increasing(order', Origins')
<1>1. order \in Seq(Table) /\ Elements(order) = DOMAIN tables /\ Increasing(order, Origins)
  BY OrderInvForm DEF HistoryInv
<1>2. /\ order' = Retain(order, names)
      /\ order' \in Seq(Table)
      /\ Elements(order') = DOMAIN tables \ names
      /\ Increasing(order', Origins)
  BY <1>1, RetainFacts, RetainIncreasing DEF Drops
<1>3. \A key \in DOMAIN tables \ names : Origins'[key] = Origins[key]
  BY DEF Drops, Origins
<1> HIDE DEF Origins
<1> QED BY <1>2, <1>3, RanksAgree

LEMMA HistoryStep ==
    ASSUME StateOK, PositionOK, OrderInv, HistoryInv, [Next]_vars
    PROVE  HistoryInv'
<1>1. CASE Next
  <2>1. Moves /\ Succession
    BY <1>1, StepMakes, StepSuccession
  <2>2. Increasing(order', Origins')
    BY <1>1, StepMakes, KeptIncreasing, EstablishIncreasing, RenameIncreasing, DropIncreasing
  <2>3. \A later \in DOMAIN tables' :
            /\ tables'[later].origin <= line'
            /\ open' # NoName => tables'[later].origin < line'
            /\ AlteredInOrder(tables'[later], line')
    BY <2>1, SuccessionInOrder
  <2>4. \A later \in DOMAIN tables' : tables'[later].origin # 0
    <3>1. line \in Nat
      BY WorkloadAssumption DEF PositionOK
    <3> QED BY <2>1, <3>1 DEF Succession, Created, NewStatement, Follows, HistoryInv
  <2> HIDE DEF Origins
  <2> QED BY <2>2, <2>3, <2>4 DEF HistoryInv
<1>2. CASE UNCHANGED vars
  BY <1>2 DEF vars, HistoryInv, AlteredInOrder, Increasing, Origins
<1> QED BY <1>1, <1>2

LEMMA HistoryInvAlways == Spec => []HistoryInv
<1>1. Init => HistoryInv
  BY DEF Init, HistoryInv, Increasing, EmptyMap
<1>2. HistoryInv /\ TypeOK /\ OrderInv /\ [Next]_vars => HistoryInv'
  BY HistoryStep, TypeOKForm
<1>3. Spec => []TypeOK
  BY TypesAlwaysHold
<1>4. Spec => []OrderInv
  BY OrderInvAlways
<1> QED BY <1>1, <1>2, <1>3, <1>4, PTL DEF Spec

\* HistoryInOrder holds in every state of every series: the report's order and the
\* statements listed for a table never contradict the replay order (rename_table,
\* create_table, mark_altered).
THEOREM HistoryAlwaysInOrder == Spec => []HistoryInOrder
<1>1. OrderInv /\ HistoryInv => HistoryInOrder
  BY HistoryInvOrders
<1> QED BY <1>1, OrderInvAlways, HistoryInvAlways, PTL

-----------------------------------------------------------------------------
(* A table is identified by its creating statement.                        *)

\* A table of before and one of after with one origin: the later one follows the earlier.
LEMMA SameTableFollows ==
    ASSUME StateOK, PositionOK, OrderInv, HistoryInv, [Next]_vars,
           NEW key \in DOMAIN tables, NEW later \in DOMAIN tables',
           SameTable(tables[key], tables'[later])
    PROVE  Follows(tables[key], tables'[later])
<1>1. CASE NewStatement /\ Created(later)
  <2>1. tables[key].origin \in Nat /\ tables[key].origin <= line /\ line \in Nat
    BY WorkloadAssumption DEF StateOK, TablesOK, FoldedTable, HistoryInv, PositionOK
  <2> QED BY <1>1, <2>1 DEF NewStatement, Created, SameTable
<1>2. ASSUME NEW earlier \in DOMAIN tables, Follows(tables[earlier], tables'[later])
      PROVE  Follows(tables[key], tables'[later])
  <2>1. tables[earlier].origin = tables[key].origin
    BY <1>2 DEF Follows, SameTable
  <2>2. earlier = key
    BY <2>1, DistinctOrigins
  <2> QED BY <1>2, <2>2
<1> QED BY <1>1, <1>2, StepSuccession DEF Succession

\* IncompleteSticks: no step of any series clears the incomplete flag of a table.
THEOREM IncompleteAlwaysSticks == Spec => IncompleteSticks
<1>1. TypeOK /\ OrderInv /\ HistoryInv /\ [Next]_vars =>
          [\A key \in DOMAIN tables, later \in DOMAIN tables' :
               /\ tables[key].incomplete
               /\ SameTable(tables[key], tables'[later])
               => tables'[later].incomplete]_vars
  BY SameTableFollows, TypeOKForm DEF Follows
<1>2. Spec => []TypeOK
  BY TypesAlwaysHold
<1> QED BY <1>1, <1>2, OrderInvAlways, HistoryInvAlways, PTL DEF Spec, IncompleteSticks

-----------------------------------------------------------------------------
(* Column names.  A drop takes every column of the name and leaves one slot, *)
(* so an attribute number is lost once two columns share a name; that needs  *)
(* a rename Postgres rejects.                                                *)

DistinctInv == \A key \in DOMAIN tables : DistinctKeys(tables[key].columns)

LEMMA AppendDistinct ==
    ASSUME NEW columns \in Seq(FoldedColumn), DistinctKeys(columns), NEW column \in FoldedColumn,
           \A c \in Elements(columns) : c.key # column.key
    PROVE  DistinctKeys(Append(columns, column))
<1> DEFINE longer == Append(columns, column)
<1>1. /\ DOMAIN longer = 1..(Len(columns) + 1) /\ Len(columns) \in Nat
      /\ longer[Len(columns) + 1] = column
      /\ \A i \in 1..Len(columns) : longer[i] = columns[i]
  OBVIOUS
<1>2. \A i \in 1..Len(columns) : columns[i].key # column.key
  BY DEF Elements
<1> HIDE DEF longer
<1>3. ASSUME NEW i \in DOMAIN longer, NEW j \in DOMAIN longer, longer[i].key = longer[j].key
      PROVE  i = j
  <2>1. CASE i \in 1..Len(columns) /\ j \in 1..Len(columns)
    BY <1>1, <1>3, <2>1 DEF DistinctKeys
  <2>2. CASE i \notin 1..Len(columns) \/ j \notin 1..Len(columns)
    BY <1>1, <1>2, <1>3, <2>2
  <2> QED BY <2>1, <2>2
<1> QED BY <1>3 DEF DistinctKeys, longer

LEMMA RetainDistinct ==
    ASSUME NEW columns \in Seq(FoldedColumn), DistinctKeys(columns), NEW out
    PROVE  DistinctKeys(Retain(columns, out))
<1> DEFINE kept == Retain(columns, out)
<1>1. Injective(columns)
  BY DEF DistinctKeys, Injective
<1>2. Elements(kept) \subseteq Elements(columns) /\ Injective(kept)
  BY <1>1, RetainFacts
<1>3. \A c, d \in Elements(columns) : c.key = d.key => c = d
  BY DEF DistinctKeys, Elements
<1> HIDE DEF kept
<1>4. \A i \in DOMAIN kept : kept[i] \in Elements(columns)
  BY <1>2 DEF Elements
<1>5. \A i, j \in DOMAIN kept : kept[i].key = kept[j].key => i = j
  BY <1>2, <1>3, <1>4 DEF Injective
<1> QED BY <1>5 DEF DistinctKeys, kept

LEMMA ReplaceDistinct ==
    ASSUME NEW columns \in Seq(FoldedColumn), DistinctKeys(columns), NEW n \in DOMAIN columns,
           NEW edit \in FoldedColumn,
           edit.key = columns[n].key \/ \A c \in Elements(columns) : c.key # edit.key
    PROVE  DistinctKeys([columns EXCEPT ![n] = edit])
<1>1. \A i \in DOMAIN columns \ {n} : columns[i].key # edit.key
  BY DEF DistinctKeys, Elements
<1> QED BY <1>1 DEF DistinctKeys

\* A declared column whose name is there already is not pushed.
LEMMA DeclareColumnsDistinct ==
    ASSUME NEW name \in Table, NEW create \in CreateStatement,
           NEW inherited \in Seq(FoldedColumn), DistinctKeys(inherited),
           unknown_types_noted \subseteq TypeName, SessionOK(session), line' \in Nat
    PROVE  DistinctKeys(DeclareColumns(name, create, inherited).columns)
<1> DEFINE n == Len(create.columns)
           init == [ columns |-> inherited, noted |-> unknown_types_noted,
                     notes |-> << >>, duplicate |-> FALSE ]
           G == {p \in (0..n) \X Declaration : DistinctKeys(p[2].columns)}
<1>1. n \in Nat /\ \A i \in 1..n : create.columns[i] \in RawColumn
  BY DEF CreateStatement
<1>2. \A m \in 0..n, d \in Declaration : << m, d >> \in G <=> DistinctKeys(d.columns)
  OBVIOUS
<1>3. init \in Declaration /\ DistinctKeys(init.columns)
  BY DEF Declaration
<1>4. << 0, init >> \in G
  <2> HIDE DEF init, G
  <2>1. 0 \in 0..n
    BY <1>1
  <2> QED BY <1>2, <1>3, <2>1
<1>5. \A i \in 1..n, before \in Declaration :
          << i - 1, before >> \in G =>
              << i, DeclareColumn(name, create, before, create.columns[i]) >> \in G
  <2> SUFFICES ASSUME NEW i \in 1..n, NEW before \in Declaration, << i - 1, before >> \in G
               PROVE  << i, DeclareColumn(name, create, before, create.columns[i]) >> \in G
    OBVIOUS
  <2> DEFINE raw == create.columns[i]
             after == DeclareColumn(name, create, before, raw)
             column == [ResolveColumn(raw) EXCEPT !.not_null = @ \/ raw.key \in create.pk_columns]
  <2>1. i - 1 \in 0..n /\ i \in 0..n /\ raw \in RawColumn
    BY <1>1
  <2>2. DistinctKeys(before.columns) /\ before.columns \in Seq(FoldedColumn)
    BY <1>2, <2>1 DEF Declaration
  <2>3. after \in Declaration
    BY <2>1, DeclareColumnTyped
  <2>4. column \in FoldedColumn /\ column.key = raw.key
    <3>1. ResolveColumn(raw) \in FoldedColumn /\ ResolveColumn(raw).key = raw.key
      BY <2>1, ResolveColumnTyped DEF ResolveColumn
    <3> QED BY <3>1 DEF FoldedColumn
  <2>5. after.columns = IF HasColumn(before, raw.key) THEN before.columns
                        ELSE Append(before.columns, column)
    BY DEF DeclareColumn
  <2> HIDE DEF column, after, raw
  <2>6. ~HasColumn(before, raw.key) => DistinctKeys(Append(before.columns, column))
    BY <2>2, <2>4, AppendDistinct DEF HasColumn
  <2>7. DistinctKeys(after.columns)
    BY <2>2, <2>5, <2>6
  <2> QED BY <1>2, <2>1, <2>3, <2>7 DEF after, raw
<1> HIDE DEF G
<1>6. /\ DeclareColumns(name, create, inherited) \in Declaration
      /\ << n, DeclareColumns(name, create, inherited) >> \in G
  BY <1>4, <1>5, DeclareInvariant
<1> QED BY <1>1, <1>2, <1>6

LEMMA SameColumnsDistinct ==
    ASSUME DistinctInv,
           \A later \in DOMAIN tables' :
               \E key \in DOMAIN tables : tables'[later].columns = tables[key].columns
    PROVE  DistinctInv'
BY DEF DistinctInv, DistinctKeys

LEMMA EditedDistinct ==
    ASSUME DistinctInv, NEW t \in DOMAIN tables, NEW later, DistinctKeys(later.columns),
           tables' = [tables EXCEPT ![t] = later] \/ tables' = tables
    PROVE  DistinctInv'
BY DEF DistinctInv, DistinctKeys

LEMMA AddColumnDistinct ==
    ASSUME StateOK, DistinctInv, NEW t \in Table, NEW raw \in Raws, NEW if_not_exists,
           AddColumn(t, raw, if_not_exists)
    PROVE  DistinctInv'
<1>1. t \in DOMAIN tables /\ tables[t] \in FoldedTable
  BY DEF AddColumn, StateOK, TablesOK
<1>2. CASE tables' = tables
  BY <1>1, <1>2, EditedDistinct DEF DistinctInv
<1>3. CASE tables' # tables
  <2> DEFINE columns == Append(tables[t].columns, ResolveColumn(raw))
             later == MarkAltered([tables[t] EXCEPT !.columns = columns])
  <2>1. tables' = [tables EXCEPT ![t] = later] /\ ~HasColumn(tables[t], raw.key)
    BY <1>3 DEF AddColumn
  <2>2. /\ tables[t].columns \in Seq(FoldedColumn)
        /\ ResolveColumn(raw) \in FoldedColumn
        /\ ResolveColumn(raw).key = raw.key
    BY <1>1, WorkloadAssumption, ResolveColumnTyped DEF FoldedTable, StateOK, ResolveColumn
  <2>3. DistinctKeys(columns)
    BY <1>1, <2>1, <2>2, AppendDistinct DEF DistinctInv, HasColumn
  <2> HIDE DEF columns
  <2>4. later.columns = columns
    BY <1>1 DEF MarkAltered, FoldedTable
  <2> HIDE DEF later
  <2> QED BY <1>1, <2>1, <2>3, <2>4, EditedDistinct
<1> QED BY <1>2, <1>3

LEMMA DropColumnsDistinct ==
    ASSUME StateOK, DistinctInv, NEW t \in Table, NEW column, NEW if_exists,
           DropColumns(t, column, if_exists)
    PROVE  DistinctInv'
<1>1. t \in DOMAIN tables /\ tables[t] \in FoldedTable
  BY DEF DropColumns, StateOK, TablesOK
<1>2. CASE tables' = tables
  BY <1>1, <1>2, EditedDistinct DEF DistinctInv
<1>3. CASE tables' # tables
  <2> DEFINE columns == WithoutColumn(tables[t], column)
             later == MarkAltered([tables[t] EXCEPT
                          !.columns = columns, !.dropped_count = tables[t].dropped_count + 1])
  <2>1. tables' = [tables EXCEPT ![t] = later]
    BY <1>3 DEF DropColumns
  <2>2. DistinctKeys(columns)
    <3>1. tables[t].columns \in Seq(FoldedColumn) /\ DistinctKeys(tables[t].columns)
      BY <1>1 DEF FoldedTable, DistinctInv
    <3> QED BY <3>1, RetainDistinct DEF WithoutColumn
  <2> HIDE DEF columns
  <2>3. later.columns = columns
    BY <1>1 DEF MarkAltered, FoldedTable
  <2> HIDE DEF later
  <2> QED BY <1>1, <2>1, <2>2, <2>3, EditedDistinct
<1> QED BY <1>2, <1>3

\* An edit of the first column of a name that keeps the name, or gives it a free one.
LEMMA EditColumnDistinct ==
    ASSUME StateOK, DistinctInv, NEW t \in DOMAIN tables, NEW column, NEW edit,
           HasColumn(tables[t], column) =>
               /\ edit \in FoldedColumn
               /\ edit.key = column \/ ~HasColumn(tables[t], edit.key),
           IF HasColumn(tables[t], column)
           THEN tables' = [tables EXCEPT ![t] =
                    MarkAltered([tables[t] EXCEPT !.columns =
                        [tables[t].columns EXCEPT ![FirstColumn(tables[t], column)] = edit]])]
           ELSE UNCHANGED tables
    PROVE  DistinctInv'
<1>1. tables[t] \in FoldedTable
  BY DEF StateOK, TablesOK
<1>2. CASE ~HasColumn(tables[t], column)
  BY <1>2, EditedDistinct DEF DistinctInv
<1>3. CASE HasColumn(tables[t], column)
  <2> DEFINE n == FirstColumn(tables[t], column)
             columns == [tables[t].columns EXCEPT ![n] = edit]
             later == MarkAltered([tables[t] EXCEPT !.columns = columns])
  <2>1. n \in DOMAIN tables[t].columns /\ tables[t].columns[n].key = column
    BY <1>1, <1>3, FirstColumnFound
  <2>2. tables[t].columns \in Seq(FoldedColumn) /\ DistinctKeys(tables[t].columns)
    BY <1>1 DEF FoldedTable, DistinctInv
  <2>3. tables' = [tables EXCEPT ![t] = later]
    BY <1>3
  <2> HIDE DEF n
  <2>4. DistinctKeys(columns)
    BY <1>3, <2>1, <2>2, ReplaceDistinct DEF HasColumn
  <2> HIDE DEF columns
  <2>5. later.columns = columns
    BY <1>1 DEF MarkAltered, FoldedTable
  <2> HIDE DEF later
  <2> QED BY <2>3, <2>4, <2>5, EditedDistinct
<1> QED BY <1>2, <1>3

LEMMA RenameColumnDistinct ==
    ASSUME StateOK, DistinctInv, NEW t \in Table, NEW old, NEW new \in Column,
           t \in DOMAIN tables => ~HasColumn(tables[t], new), RenameColumn(t, old, new)
    PROVE  DistinctInv'
<1> DEFINE edit == [tables[t].columns[FirstColumn(tables[t], old)] EXCEPT !.key = new]
<1>1. t \in DOMAIN tables
  BY DEF RenameColumn
<1>2. HasColumn(tables[t], old) => edit \in FoldedColumn /\ edit.key = new
  <2> SUFFICES ASSUME HasColumn(tables[t], old) PROVE edit \in FoldedColumn /\ edit.key = new
    OBVIOUS
  <2>1. tables[t].columns[FirstColumn(tables[t], old)] \in FoldedColumn
    BY <1>1, FirstColumnTyped
  <2> QED BY <2>1 DEF FoldedColumn
<1>3. IF HasColumn(tables[t], old)
      THEN tables' = [tables EXCEPT ![t] =
               MarkAltered([tables[t] EXCEPT !.columns =
                   [tables[t].columns EXCEPT ![FirstColumn(tables[t], old)] = edit]])]
      ELSE UNCHANGED tables
  BY DEF RenameColumn, EditColumn
<1> HIDE DEF edit
<1> QED BY <1>1, <1>2, <1>3, EditColumnDistinct

LEMMA SetColumnTypeDistinct ==
    ASSUME StateOK, DistinctInv, NEW t \in Table, NEW column, NEW ref \in NewTypes,
           SetColumnType(t, column, ref)
    PROVE  DistinctInv'
<1> DEFINE resolved == Resolve(session, ref)
           edit == [tables[t].columns[FirstColumn(tables[t], column)] EXCEPT
                       !.kind = resolved.kind, !.known_type = resolved.known, !.type = ref.key]
<1>1. t \in DOMAIN tables /\ tables[t] \in FoldedTable
  BY DEF SetColumnType, StateOK, TablesOK
<1>2. HasColumn(tables[t], column) => edit \in FoldedColumn /\ edit.key = column
  <2> SUFFICES ASSUME HasColumn(tables[t], column)
               PROVE  edit \in FoldedColumn /\ edit.key = column
    OBVIOUS
  <2>1. /\ tables[t].columns[FirstColumn(tables[t], column)] \in FoldedColumn
        /\ tables[t].columns[FirstColumn(tables[t], column)].key = column
    BY <1>1, FirstColumnTyped, FirstColumnFound
  <2>2. resolved \in ResolvedType /\ ref \in TypeRef
    BY WorkloadAssumption, ResolveTyped DEF StateOK
  <2> HIDE DEF resolved
  <2> QED BY <2>1, <2>2 DEF FoldedColumn, ResolvedType, TypeRef
<1>3. IF HasColumn(tables[t], column)
      THEN tables' = [tables EXCEPT ![t] =
               MarkAltered([tables[t] EXCEPT !.columns =
                   [tables[t].columns EXCEPT ![FirstColumn(tables[t], column)] = edit]])]
      ELSE UNCHANGED tables
  BY DEF SetColumnType, EditColumn
<1> HIDE DEF edit
<1> QED BY <1>1, <1>2, <1>3, EditColumnDistinct

LEMMA SetNotNullDistinct ==
    ASSUME StateOK, DistinctInv, NEW t \in Table, NEW column, NEW value \in BOOLEAN,
           SetNotNull(t, column, value)
    PROVE  DistinctInv'
<1> DEFINE edit == [tables[t].columns[FirstColumn(tables[t], column)] EXCEPT !.not_null = value]
<1>1. t \in DOMAIN tables /\ tables[t] \in FoldedTable
  BY DEF SetNotNull, StateOK, TablesOK
<1>2. HasColumn(tables[t], column) => edit \in FoldedColumn /\ edit.key = column
  <2> SUFFICES ASSUME HasColumn(tables[t], column)
               PROVE  edit \in FoldedColumn /\ edit.key = column
    OBVIOUS
  <2>1. /\ tables[t].columns[FirstColumn(tables[t], column)] \in FoldedColumn
        /\ tables[t].columns[FirstColumn(tables[t], column)].key = column
    BY <1>1, FirstColumnTyped, FirstColumnFound
  <2> QED BY <2>1 DEF FoldedColumn
<1>3. IF HasColumn(tables[t], column)
      THEN tables' = [tables EXCEPT ![t] =
               MarkAltered([tables[t] EXCEPT !.columns =
                   [tables[t].columns EXCEPT ![FirstColumn(tables[t], column)] = edit]])]
      ELSE UNCHANGED tables
  BY DEF SetNotNull, EditColumn
<1> HIDE DEF edit
<1> QED BY <1>1, <1>2, <1>3, EditColumnDistinct

LEMMA AlterOperationDistinct ==
    ASSUME StateOK, DistinctInv, NEW t \in Table, AlterOperation(t)
    PROVE  DistinctInv'
<1>1. CASE Unanalyzable(t)
  BY <1>1, SameColumnsDistinct DEF Unanalyzable
<1>2. ASSUME NEW raw \in Raws, NEW if_not_exists \in BOOLEAN,
             AddColumn(t, raw, if_not_exists)
      PROVE  DistinctInv'
  BY <1>2, AddColumnDistinct
<1>3. ASSUME NEW column \in Column, NEW if_exists \in BOOLEAN,
             DropColumns(t, column, if_exists)
      PROVE  DistinctInv'
  BY <1>3, DropColumnsDistinct
<1>4. ASSUME NEW column \in Column, NEW ref \in NewTypes, SetColumnType(t, column, ref)
      PROVE  DistinctInv'
  BY <1>4, SetColumnTypeDistinct
<1>5. ASSUME NEW column \in Column, NEW value \in BOOLEAN, SetNotNull(t, column, value)
      PROVE  DistinctInv'
  BY <1>5, SetNotNullDistinct
<1> QED BY <1>1, <1>2, <1>3, <1>4, <1>5 DEF AlterOperation

LEMMA CreateTableDistinct ==
    ASSUME StateOK, PositionOK, DistinctInv, NEW name \in Table, NEW create \in Creates,
           NEW ignore_marker, CreateTable(name, create, ignore_marker)
    PROVE  DistinctInv'
<1>1. CASE SkipTemporary(name, create) \/ SkipCtas(name, create) \/ KeepExisting(name, create)
  BY <1>1, SameColumnsDistinct DEF SkipTemporary, SkipCtas, KeepExisting
<1>2. CASE Establish(name, create, ignore_marker)
  <2> DEFINE inherited == Inherit(name, create).columns
             declared == DeclareColumns(name, create, inherited)
  <2>1. create \in CreateStatement /\ line' \in Nat
    BY WorkloadAssumption, NewStatementPosition DEF CreateTable
  <2>2. inherited \in Seq(FoldedColumn)
    BY <2>1, InheritTyped
  <2>3. DistinctKeys(inherited)
    <3>1. inherited = << >> \/ \E key \in DOMAIN tables : inherited = tables[key].columns
      BY DEF Inherit
    <3>2. DistinctKeys(<< >>)
      BY DEF DistinctKeys
    <3> QED BY <3>1, <3>2 DEF DistinctInv
  <2>4. \E table : tables' = Put(tables, name, table) /\ table.columns = declared.columns
    BY <1>2 DEF Establish
  <2> HIDE DEF inherited
  <2>5. DistinctKeys(declared.columns)
    BY <2>1, <2>2, <2>3, DeclareColumnsDistinct DEF StateOK
  <2> HIDE DEF declared
  <2> QED BY <2>4, <2>5 DEF Put, DistinctInv, DistinctKeys
<1> QED BY <1>1, <1>2 DEF CreateTable

LEMMA RenameDistinct ==
    ASSUME StateOK, DistinctInv, ~RenameClash, NEW t \in Table, Rename(t)
    PROVE  DistinctInv'
<1>1. CASE Unanalyzable(t)
  BY <1>1, SameColumnsDistinct DEF Unanalyzable
<1>2. ASSUME NEW old \in Column, NEW new \in Column, RenameColumn(t, old, new),
             t \in DOMAIN tables => RenameClash \/ ~HasColumn(tables[t], new)
      PROVE  DistinctInv'
  BY <1>2, RenameColumnDistinct
<1>3. ASSUME NEW new \in Table, RenameTable(t, new)
      PROVE  DistinctInv'
  <2>1. Renames(t, new) /\ tables[t] \in FoldedTable
    <3>1. Renames(t, new)
      BY <1>3, RenameTableMakes
    <3>2. t \in DOMAIN tables
      BY <3>1 DEF Renames
    <3> QED BY <3>1, <3>2 DEF StateOK, TablesOK
  <2>2. MarkAltered(tables[t]).columns = tables[t].columns
    BY <2>1 DEF MarkAltered, FoldedTable
  <2> QED BY <2>1, <2>2, SameColumnsDistinct DEF Renames
<1> QED BY <1>1, <1>2, <1>3 DEF Rename

LEMMA OtherStepsDistinct ==
    ASSUME StateOK, DistinctInv,
           \/ TypeDdl
           \/ \E t \in Table, sniffs \in {"alter", "create", "nothing"} : Skipped(sniffs, t)
           \/ \E t \in Table : ConditionalTableDdl(t)
           \/ DoBlockNote
           \/ UnusedIgnoreMarker
           \/ \E names, if_exists : DropTables(names, if_exists)
    PROVE  DistinctInv'
<1>1. CASE TypeDdl \/ DoBlockNote \/ UnusedIgnoreMarker
  BY <1>1, SameColumnsDistinct DEF TypeDdl, DoBlockNote, UnusedIgnoreMarker
<1>2. ASSUME NEW t, tables' = IF t \in DOMAIN tables
                              THEN [tables EXCEPT ![t].incomplete = TRUE] ELSE tables
      PROVE  DistinctInv'
  <2>1. CASE t \in DOMAIN tables
    <3>1. \A key \in DOMAIN tables' :
              key \in DOMAIN tables /\ tables'[key].columns = tables[key].columns
      BY <1>2, <2>1 DEF StateOK, TablesOK, FoldedTable
    <3> QED BY <3>1, SameColumnsDistinct
  <2>2. CASE t \notin DOMAIN tables
    BY <1>2, <2>2, SameColumnsDistinct
  <2> QED BY <2>1, <2>2
<1>3. ASSUME NEW t \in Table, NEW sniffs, Skipped(sniffs, t) PROVE DistinctInv'
  <2>1. CASE sniffs = "alter"
    BY <1>2, <1>3, <2>1 DEF Skipped
  <2>2. CASE sniffs # "alter"
    BY <1>3, <2>2, SameColumnsDistinct DEF Skipped
  <2> QED BY <2>1, <2>2
<1>4. ASSUME NEW t \in Table, ConditionalTableDdl(t) PROVE DistinctInv'
  BY <1>2, <1>4 DEF ConditionalTableDdl
<1>5. ASSUME NEW names, NEW if_exists, DropTables(names, if_exists) PROVE DistinctInv'
  BY <1>5, SameColumnsDistinct DEF DropTables
<1> QED BY <1>1, <1>3, <1>4, <1>5

LEMMA DistinctStep ==
    ASSUME StateOK, PositionOK, DistinctInv, ~RenameClash, [Next]_vars
    PROVE  DistinctInv'
<1>1. CASE Next
  <2>1. ASSUME NEW t \in Table, NEW create \in Creates, NEW ignore_marker \in BOOLEAN,
               CreateTable(t, create, ignore_marker)
        PROVE  DistinctInv'
    BY <2>1, CreateTableDistinct
  <2> QED BY <1>1, <2>1, AlterOperationDistinct, RenameDistinct, OtherStepsDistinct DEF Next
<1>2. CASE UNCHANGED vars
  BY <1>2, SameColumnsDistinct DEF vars
<1> QED BY <1>1, <1>2

\* A step takes no attribute number of a table back: every drop leaves a slot, and a
\* copied or renamed table keeps its slots (drop_columns, rename_table).  The renames are
\* those Postgres accepts.
THEOREM AttributesNeverTakenBack ==
    ASSUME ~RenameClash
    PROVE  Spec => AttributesNeverReclaimed
<1>1. TypeOK /\ OrderInv /\ HistoryInv /\ DistinctInv /\ [Next]_vars =>
          [\A key \in DOMAIN tables, later \in DOMAIN tables' :
               SameTable(tables[key], tables'[later]) =>
                   /\ Natts(tables'[later]) >= Natts(tables[key])
                   /\ tables'[later].dropped_count >= tables[key].dropped_count]_vars
  BY SameTableFollows, TypeOKForm DEF Follows, KeepsNatts, DistinctInv
<1>2. Init => DistinctInv
  BY DEF Init, DistinctInv, EmptyMap
<1>3. TypeOK /\ DistinctInv /\ [Next]_vars => DistinctInv'
  BY DistinctStep, TypeOKForm
<1>4. Spec => []TypeOK
  BY TypesAlwaysHold
<1> QED BY <1>1, <1>2, <1>3, <1>4, OrderInvAlways, HistoryInvAlways, PTL
       DEF Spec, AttributesNeverReclaimed
=============================================================================
