----------------------------- MODULE FrontProofs -----------------------------
(***************************************************************************)
(* How SQL text is read, for every text and every statement: the two front *)
(* ends that translate statements, the sniff, and the statement splitter.  *)
(***************************************************************************)
EXTENDS Backends, PgLexer, CollectionsProofs, FiniteSetTheorems

-----------------------------------------------------------------------------
(* Front ends: the types and statements both can parse.                      *)

LEMMA TypesAgree ==
    ASSUME NEW type, PlainType(type)
    PROVE  MapType("sqlparser", type) = MapType("pg-exact", type)
<1> DEFINE sq == SqlparserType(type)
           pg == PgqType(type)
<1>1. CASE type.keyword = "char"
  <2>1. Arrives(type) = << << "pg_catalog" >>, << "bpchar" >> >>
    BY <1>1 DEF Arrives
  <2>2. LastOf(Arrives(type)) = << "bpchar" >> /\ Len(Arrives(type)) = 2
    BY <2>1 DEF LastOf
  <2>3. ScalarKey(type) =
            [ key |-> << "bpchar" >>,
              char_len |-> IF type.length = NoLength THEN 1 ELSE type.length ]
    BY <1>1 DEF ScalarKey
  <2>4. << "bpchar" >> # CharText
    BY DEF CharText
  <2> QED BY <2>2, <2>3, <2>4 DEF SqlparserType, PgqType, MapType
<1>2. CASE type.keyword = "varchar"
  <2>1. Arrives(type) = << << "pg_catalog" >>, << "varchar" >> >>
    BY <1>2 DEF Arrives
  <2>2. LastOf(Arrives(type)) = << "varchar" >>
    BY <2>1 DEF LastOf
  <2>3. ScalarKey(type) = [key |-> << "varchar" >>, char_len |-> type.length]
    BY <1>2 DEF ScalarKey
  <2>4. << "varchar" >> # CharText /\ << "varchar" >> # << "bpchar" >>
    BY DEF CharText
  <2> QED BY <2>2, <2>3, <2>4 DEF SqlparserType, PgqType, MapType
<1>3. CASE type.keyword = "int"
  <2>1. Arrives(type) = << << "pg_catalog" >>, << "int4" >> >>
    BY <1>3 DEF Arrives
  <2>2. LastOf(Arrives(type)) = << "int4" >>
    BY <2>1 DEF LastOf
  <2>3. ScalarKey(type) = [key |-> << "int4" >>, char_len |-> NoLength]
    BY <1>3 DEF ScalarKey
  <2>4. << "int4" >> # CharText /\ << "int4" >> \notin {<< "varchar" >>, << "bpchar" >>}
    BY DEF CharText
  <2> QED BY <2>2, <2>3, <2>4 DEF SqlparserType, PgqType, MapType
<1>4. CASE type.keyword \notin {"char", "varchar", "int"}
  <2> DEFINE last == LastOf(type.name)
             key == IdentKey(last)
             names == Arrives(type)
  <2>1. NamedPlainly(type)
    BY <1>4 DEF PlainType
  <2>2. names = Keys(type.name)
    BY <1>4 DEF Arrives
  <2>3. Len(type.name) \in Nat \ {0} /\ DOMAIN type.name = 1..Len(type.name)
    BY <2>1 DEF NamedPlainly
  <2>4. names = [i \in 1..Len(type.name) |-> IdentKey(type.name[i])]
    BY <2>2, <2>3 DEF Keys
  <2>5. Len(names) = Len(type.name)
    BY <2>3, <2>4
  <2>6. LastOf(names) = key
    BY <2>3, <2>4, <2>5 DEF LastOf
  <2>7. ScalarKey(type) =
            [ key |-> IF last.quoted /\ last.text = CharText THEN << "pgchar" >>
                      ELSE key,
              char_len |-> NoLength ]
    BY <1>4 DEF ScalarKey, TypeKey
  <2>8. (last.quoted /\ last.text = CharText) <=> key = CharText
    BY <2>1 DEF NamedPlainly, IdentKey
  <2>9. pg.char_len = NoLength
    <3>1. /\ key \in {<< "varchar" >>, << "bpchar" >>} => type.length = NoLength
          /\ key = << "bpchar" >> => Len(type.name) = 1
      BY <2>1 DEF NamedPlainly
    <3>2. ~(key = << "bpchar" >> /\ Len(names) > 1 /\ type.length = NoLength)
      <4> HIDE DEF key, names
      <4> SUFFICES ASSUME key = << "bpchar" >>, Len(names) > 1 PROVE FALSE
        OBVIOUS
      <4>1. Len(names) = 1
        BY <2>5, <3>1, Zenon
      <4>2. ~(1 > 1)
        OBVIOUS
      <4> QED BY <4>1, <4>2, Zenon
    <3>3. pg.char_len = IF type.dims > 0 \/ key \notin {<< "varchar" >>, << "bpchar" >>}
                        THEN NoLength ELSE type.length
      <4> HIDE DEF key, names
      <4> QED BY <2>6, <3>2 DEF PgqType, names
    <3> HIDE DEF key, pg
    <3> QED BY <3>1, <3>3
  <2>10. pg = [ key |-> IF key = CharText THEN << "pgchar" >> ELSE key,
                dims |-> type.dims, char_len |-> pg.char_len ]
    <3> HIDE DEF key
    <3> QED BY <2>6 DEF PgqType
  <2> HIDE DEF last, key, names
  <2>11. sq = [ key |-> IF key = CharText THEN << "pgchar" >> ELSE key,
                dims |-> type.dims, char_len |-> NoLength ]
    BY <2>7, <2>8 DEF SqlparserType
  <2> QED BY <2>9, <2>10, <2>11 DEF MapType
<1> QED BY <1>1, <1>2, <1>3, <1>4

LEMMA ColumnsAgree ==
    ASSUME NEW column, PlainType(column.type)
    PROVE  MapColumn("sqlparser", column) = MapColumn("pg-exact", column)
BY TypesAgree DEF MapColumn

LEMMA CreatesAgree ==
    ASSUME NEW s, \A i \in DOMAIN s.columns : PlainType(s.columns[i].type)
    PROVE  MapCreateTable("sqlparser", s) = MapCreateTable("pg-exact", s)
<1>1. MapColumns("sqlparser", s.columns) = MapColumns("pg-exact", s.columns)
  BY ColumnsAgree DEF MapColumns
<1>2. Incomplete("sqlparser", s) = Incomplete("pg-exact", s)
  BY DEF Incomplete
<1> QED BY <1>1, <1>2 DEF MapCreateTable

LEMMA CommandsAgree ==
    ASSUME NEW table, NEW cmd, PlainCommand(cmd)
    PROVE  MapAlterOp("sqlparser", table, cmd) = MapAlterOp("pg-exact", table, cmd)
<1>1. CASE cmd.do = "add column"
  <2>1. MapColumn("sqlparser", cmd.column) = MapColumn("pg-exact", cmd.column)
    BY <1>1, ColumnsAgree DEF PlainCommand
  <2> QED BY <1>1, <2>1 DEF MapAlterOp
<1>2. CASE cmd.do = "set type"
  <2>1. MapType("sqlparser", cmd.type) = MapType("pg-exact", cmd.type)
    BY <1>2, TypesAgree DEF PlainCommand
  <2> QED BY <1>2, <2>1 DEF MapAlterOp
<1>3. CASE cmd.do \notin {"add column", "set type"}
  BY <1>3 DEF MapAlterOp
<1> QED BY <1>1, <1>2, <1>3

\* The function MapAlterTable is defined by, a sub-command at a time.
AlterStep(backend, s, F, i) ==
    IF i = 0 THEN << >>
    ELSE F[i - 1] \o MapAlterOp(backend, TableKey(s.name), s.commands[i])

IsAlter(backend, s, n, F) == F = [i \in 0..n |-> AlterStep(backend, s, F, i)]

LEMMA AlterExists ==
    ASSUME NEW backend, NEW s, NEW n \in Nat
    PROVE  \E F : IsAlter(backend, s, n, F)
<1> DEFINE T == {m \in Nat : \E F : IsAlter(backend, s, m, F)}
<1>1. 0 \in T
  <2>1. IsAlter(backend, s, 0, [i \in 0..0 |-> << >>])
    BY DEF IsAlter, AlterStep
  <2> QED BY <2>1
<1>2. ASSUME NEW m \in T PROVE m + 1 \in T
  <2>1. PICK F : IsAlter(backend, s, m, F)
    OBVIOUS
  <2> DEFINE G == [i \in 0..(m + 1) |->
                      IF i = m + 1 THEN AlterStep(backend, s, F, m + 1) ELSE F[i]]
  <2>2. ASSUME NEW i \in 0..(m + 1) PROVE G[i] = AlterStep(backend, s, G, i)
    <3>1. CASE i = m + 1
      <4>1. G[i - 1] = F[i - 1]
        BY <3>1
      <4> QED BY <3>1, <4>1 DEF AlterStep
    <3>2. CASE i # m + 1 /\ i # 0
      <4>1. i \in 0..m /\ i - 1 \in 0..m /\ i - 1 # m + 1
        BY <3>2
      <4>2. G[i - 1] = F[i - 1] /\ G[i] = F[i]
        BY <3>2, <4>1
      <4>3. F[i] = AlterStep(backend, s, F, i)
        BY <2>1, <4>1 DEF IsAlter
      <4> QED BY <4>2, <4>3, <3>2 DEF AlterStep
    <3>3. CASE i = 0
      <4>1. F[0] = AlterStep(backend, s, F, 0)
        BY <2>1 DEF IsAlter
      <4>2. G[0] = F[0]
        OBVIOUS
      <4> QED BY <3>3, <4>1, <4>2 DEF AlterStep
    <3> QED BY <3>1, <3>2, <3>3
  <2>3. IsAlter(backend, s, m + 1, G)
    <3> HIDE DEF G
    <3>1. G = [i \in 0..(m + 1) |-> G[i]]
      BY DEF G
    <3> QED BY <2>2, <3>1 DEF IsAlter
  <2> QED BY <2>3
<1>3. T = Nat
  <2> HIDE DEF T
  <2>1. T \in SUBSET Nat
    BY DEF T
  <2> QED BY <1>1, <1>2, <2>1, NatSetInduction
<1> QED BY <1>3

LEMMA AlterFound ==
    ASSUME NEW backend, NEW s, Len(s.commands) \in Nat
    PROVE  \E F : /\ IsAlter(backend, s, Len(s.commands), F)
                  /\ MapAlterTable(backend, s) = F[Len(s.commands)]
<1> DEFINE found == CHOOSE F : IsAlter(backend, s, Len(s.commands), F)
<1>1. IsAlter(backend, s, Len(s.commands), found)
  BY AlterExists
<1>2. MapAlterTable(backend, s) = found[Len(s.commands)]
  BY DEF MapAlterTable, IsAlter, AlterStep
<1> QED BY <1>1, <1>2

LEMMA AltersAgree ==
    ASSUME NEW s, Len(s.commands) \in Nat,
           \A i \in 1..Len(s.commands) : PlainCommand(s.commands[i])
    PROVE  MapAlterTable("sqlparser", s) = MapAlterTable("pg-exact", s)
<1> DEFINE n == Len(s.commands)
<1>1. PICK F : /\ IsAlter("sqlparser", s, n, F)
               /\ MapAlterTable("sqlparser", s) = F[n]
  BY AlterFound
<1>2. PICK G : /\ IsAlter("pg-exact", s, n, G)
               /\ MapAlterTable("pg-exact", s) = G[n]
  BY AlterFound
<1> DEFINE T == {m \in Nat : m \in 0..n => F[m] = G[m]}
<1> HIDE DEF n
<1>3. /\ F[0] = << >> /\ G[0] = << >>
      /\ \A i \in 1..n : F[i] = AlterStep("sqlparser", s, F,
                i) /\ G[i] = AlterStep("pg-exact", s, G, i)
  <2>1. n \in Nat
    BY DEF n
  <2>2. \A i \in 0..n : F[i] = AlterStep("sqlparser", s, F,
            i) /\ G[i] = AlterStep("pg-exact", s, G, i)
    BY <1>1, <1>2 DEF IsAlter
  <2>3. F[0] = << >> /\ G[0] = << >>
    BY <2>1, <2>2 DEF AlterStep
  <2> QED BY <2>1, <2>2, <2>3
<1>4. 0 \in T
  BY <1>3
<1>5. \A m \in 0..(n - 1) : m \in T => m + 1 \in T
  <2> SUFFICES ASSUME NEW m \in 0..(n - 1), m \in T PROVE m + 1 \in T
    OBVIOUS
  <2>1. n \in Nat
    BY DEF n
  <2>2. m + 1 \in 1..n /\ (m + 1) - 1 = m /\ m \in 0..n /\ m + 1 # 0
    BY <2>1
  <2>3. F[m] = G[m]
    BY <2>2
  <2>4. MapAlterOp("sqlparser", TableKey(s.name), s.commands[m + 1])
          = MapAlterOp("pg-exact", TableKey(s.name), s.commands[m + 1])
    BY <2>2, CommandsAgree DEF n
  <2>5. F[m + 1] = G[m + 1]
    BY <1>3, <2>2, <2>3, <2>4 DEF AlterStep
  <2> QED BY <2>2, <2>5
<1>6. n \in T /\ n \in Nat
  <2> HIDE DEF T
  <2>1. n \in Nat
    BY DEF n
  <2> QED BY <1>4, <1>5, <2>1, CountUp
<1> QED BY <1>1, <1>2, <1>6 DEF n

LEMMA StatementsAgree ==
    ASSUME NEW s, Plain(s)
    PROVE  MapStatement("sqlparser", s) = MapStatement("pg-exact", s)
<1>1. CASE s.kind = "create table"
  <2>1. \A i \in DOMAIN s.columns : PlainType(s.columns[i].type)
    BY <1>1 DEF Plain, Elements
  <2> QED BY <1>1, <2>1, CreatesAgree DEF MapStatement
<1>2. CASE s.kind = "alter table"
  <2>1. s.commands \in Seq(Elements(s.commands))
    BY <1>2 DEF Plain
  <2>2. Len(s.commands) \in Nat /\ DOMAIN s.commands = 1..Len(s.commands)
    BY <2>1
  <2>3. \A i \in 1..Len(s.commands) : PlainCommand(s.commands[i])
    BY <1>2, <2>2 DEF Plain, Elements
  <2> QED BY <1>2, <2>2, <2>3, AltersAgree DEF MapStatement
<1>3. CASE s.kind = "rename type"
  <2>1. Len(s.name) = 1
    BY <1>3 DEF Plain
  <2>2. TypeKey(s.name) = TableKey(s.name)
    BY <2>1 DEF TypeKey, TableKey, LastOf
  <2> QED BY <1>3, <2>2 DEF MapStatement, MapRenameType
<1>4. CASE s.kind = "create type"
  <2>1. CASE s.as = "range"
    <3>1. \A i \in DOMAIN s.subtype : PlainType(s.subtype[i])
      BY <1>4, <2>1 DEF Plain, Elements
    <3>2. [i \in DOMAIN s.subtype |-> MapType("sqlparser", s.subtype[i])]
            = [i \in DOMAIN s.subtype |-> MapType("pg-exact", s.subtype[i])]
      BY <3>1, TypesAgree
    <3> QED BY <1>4, <2>1, <3>2 DEF MapStatement, MapCreateType
  <2>2. CASE s.as = "domain"
    <3>1. MapType("sqlparser", s.base) = MapType("pg-exact", s.base)
      BY <1>4, <2>2, TypesAgree DEF Plain
    <3> QED BY <1>4, <2>2, <3>1 DEF MapStatement, MapCreateType
  <2>3. CASE s.as \notin {"range", "domain"}
    BY <1>4, <2>3 DEF MapStatement, MapCreateType
  <2> QED BY <2>1, <2>2, <2>3
<1>5. CASE s.kind = "drop"
  <2>1. s.object # "domain"
    BY <1>5 DEF Plain
  <2>2. MapDrop("sqlparser", s) = MapDrop("pg-exact", s)
    BY <2>1 DEF MapDrop
  <2> QED BY <1>5, <2>2 DEF MapStatement
<1>6. CASE s.kind \notin {"create table", "alter table", "rename type", "create type", "drop"}
  BY <1>6 DEF MapStatement
<1> QED BY <1>1, <1>2, <1>3, <1>4, <1>5, <1>6

\* "Both parsers must produce the same DdlOps (modulo display text)" (tests.rs:229): for every
\* statement, with any names, types and columns, but for the three differences Plain leaves
\* out: DROP DOMAIN, ALTER TYPE RENAME of a type in a schema, and a text type that is named
\* rather than spelled with its keyword, whose length only libpg_query keeps.
THEOREM BackendsAlwaysAgree == Spec => [](Plain(statement) => BackendsAgree)
<1>1. Plain(statement) => BackendsAgree
  BY StatementsAgree DEF BackendsAgree
<1> QED BY <1>1, PTL

-----------------------------------------------------------------------------
(* Front ends: the keys a series' tables are followed by.                    *)

TableOps == {"CreateTable", "RenameTable", "DropTables"}

NotAboutTables(ops) ==
    /\ ops \in Seq(Elements(ops))
    /\ Len(ops) > 0
    /\ ops[1].op \notin TableOps

LEMMA CommandOps ==
    ASSUME NEW backend, NEW table, NEW cmd, PlainCommand(cmd)
    PROVE  NotAboutTables(MapAlterOp(backend, table, cmd))
<1> DEFINE ops == MapAlterOp(backend, table, cmd)
<1> SUFFICES NotAboutTables(ops)
  OBVIOUS
<1>1. CASE cmd.do = "add primary key"
  <2>1. cmd.columns \in Seq(Elements(cmd.columns)) \ {<< >>}
    BY <1>1 DEF PlainCommand
  <2>2. Len(cmd.columns) \in Nat \ {0} /\ DOMAIN cmd.columns = 1..Len(cmd.columns)
    BY <2>1
  <2>3. ops = [i \in 1..Len(cmd.columns) |->
                  SetNotNull(table, IdentKey(cmd.columns[i]), TRUE)]
    BY <1>1, <2>2 DEF MapAlterOp
  <2>4. ops \in [1..Len(cmd.columns) -> Elements(ops)]
    BY <2>3 DEF Elements
  <2>5. ops \in Seq(Elements(ops)) /\ Len(ops) = Len(cmd.columns)
    <3> HIDE DEF ops
    <3> QED BY <2>2, <2>4
  <2>6. ops[1].op = "SetNotNull"
    BY <2>2, <2>3 DEF SetNotNull
  <2> HIDE DEF ops
  <2> QED BY <2>2, <2>5, <2>6 DEF TableOps, NotAboutTables
<1>2. ASSUME NEW op, ops = << op >>, op.op \notin TableOps
      PROVE  NotAboutTables(ops)
  <2> HIDE DEF ops
  <2>1. op \in Elements(ops)
    BY <1>2 DEF Elements
  <2>2. ops \in Seq(Elements(ops)) /\ Len(ops) = 1 /\ ops[1] = op
    BY <1>2, <2>1
  <2> QED BY <1>2, <2>2 DEF NotAboutTables
<1>3. CASE cmd.do # "add primary key"
  <2>1. CASE cmd.do = "add column"
    <3>1. ops = << [ op |-> "AddColumn", table |-> table,
                     column |-> MapColumn(backend, cmd.column),
                     if_not_exists |-> cmd.if_not_exists ] >>
      BY <2>1 DEF MapAlterOp
    <3> QED BY <1>2, <3>1 DEF TableOps
  <2>2. CASE cmd.do = "drop column"
    <3>1. ops = << [ op |-> "DropColumns", table |-> table,
                     columns |-> << IdentKey(cmd.column) >>,
                               if_exists |-> cmd.if_exists ] >>
      BY <2>2 DEF MapAlterOp
    <3> QED BY <1>2, <3>1 DEF TableOps
  <2>3. CASE cmd.do = "set type"
    <3>1. ops = << [ op |-> "SetColumnType", table |-> table,
                     column |-> IdentKey(cmd.column),
                     type_ref |-> MapType(backend, cmd.type) ] >>
      BY <2>3 DEF MapAlterOp
    <3> QED BY <1>2, <3>1 DEF TableOps
  <2>4. CASE cmd.do \in {"set not null", "drop not null"}
    <3>1. \/ ops = << SetNotNull(table, IdentKey(cmd.column), TRUE) >>
          \/ ops = << SetNotNull(table, IdentKey(cmd.column), FALSE) >>
      BY <2>4 DEF MapAlterOp
    <3>2. \A value : SetNotNull(table, IdentKey(cmd.column), value).op \notin TableOps
      BY DEF SetNotNull, TableOps
    <3> HIDE DEF ops
    <3> QED BY <1>2, <3>1, <3>2
  <2>5. CASE cmd.do \notin {"add column", "drop column", "set type", "set not null",
            "drop not null"}
    <3>1. ops = << Irrelevant >>
      BY <1>3, <2>5 DEF MapAlterOp
    <3>2. Irrelevant.op \notin TableOps
      BY DEF Irrelevant, TableOps
    <3> HIDE DEF ops
    <3> QED BY <1>2, <3>1, <3>2
  <2> QED BY <2>1, <2>2, <2>3, <2>4, <2>5
<1> QED BY <1>1, <1>3

LEMMA HeadOfBoth ==
    ASSUME NEW V, NEW seq \in Seq(V), NEW more \in Seq(V), Len(seq) > 0
    PROVE  seq \o more \in Seq(V) /\ Len(seq \o more) > 0 /\ (seq \o more)[1] = seq[1]
<1>1. Len(seq) \in Nat /\ Len(more) \in Nat /\ Len(seq \o more) = Len(seq) + Len(more)
  OBVIOUS
<1>2. 1 \in 1..Len(seq)
  BY <1>1
<1> QED BY <1>1, <1>2

\* The first operation of an ALTER TABLE is that of its first sub-command.
LEMMA AlterFirst ==
    ASSUME NEW backend, NEW s, Len(s.commands) \in Nat \ {0},
           \A i \in 1..Len(s.commands) : PlainCommand(s.commands[i])
    PROVE  MapAlterTable(backend, s)[1].op \notin TableOps
<1> DEFINE n == Len(s.commands)
           Ops(i) == MapAlterOp(backend, TableKey(s.name), s.commands[i])
           V == UNION {Elements(Ops(i)) : i \in 1..n}
<1>2. n \in Nat \ {0}
  OBVIOUS
<1>3. ASSUME NEW i \in 1..n
      PROVE  Ops(i) \in Seq(V) /\ Len(Ops(i)) \in Nat \ {0} /\ Ops(i)[1].op \notin TableOps
  <2>1. NotAboutTables(Ops(i))
    BY CommandOps
  <2>2. Elements(Ops(i)) \in SUBSET V
    OBVIOUS
  <2> HIDE DEF V, Ops
  <2> QED BY <2>1, <2>2 DEF NotAboutTables
<1>4. PICK F : /\ IsAlter(backend, s, n, F)
               /\ MapAlterTable(backend, s) = F[n]
  BY <1>2, AlterFound
<1> DEFINE T == {m \in Nat : m + 1 \in 1..n =>
                     F[m + 1] \in Seq(V) /\ Len(F[m + 1]) > 0 /\ F[m + 1][1].op \notin TableOps}
<1> HIDE DEF n, V
<1>5. F[0] = << >> /\ \A i \in 1..n : F[i] = F[i - 1] \o Ops(i)
  <2>1. \A i \in 0..n : F[i] = AlterStep(backend, s, F, i)
    BY <1>4 DEF IsAlter
  <2>2. F[0] = << >>
    BY <1>2, <2>1 DEF AlterStep
  <2>3. ASSUME NEW i \in 1..n PROVE F[i] = F[i - 1] \o Ops(i)
    <3>1. i \in 0..n /\ i # 0
      BY <1>2
    <3> QED BY <2>1, <3>1 DEF AlterStep
  <2> QED BY <2>2, <2>3
<1> HIDE DEF Ops
<1>6. 0 \in T
  <2>1. 1 \in 1..n /\ 1 - 1 = 0 /\ 0 + 1 = 1
    BY <1>2
  <2>2. F[1] = << >> \o Ops(1)
    BY <1>5, <2>1
  <2>3. F[1] = Ops(1)
    BY <1>3, <2>1, <2>2
  <2> QED BY <1>3, <2>1, <2>3
<1>7. \A m \in 0..(n - 2) : m \in T => m + 1 \in T
  <2> SUFFICES ASSUME NEW m \in 0..(n - 2), m \in T PROVE m + 1 \in T
    OBVIOUS
  <2>1. m + 1 \in 1..n /\ (m + 1) + 1 \in 1..n /\ ((m + 1) + 1) - 1 = m + 1 /\ m + 1 \in Nat
    BY <1>2
  <2>2. F[m + 1] \in Seq(V) /\ Len(F[m + 1]) > 0 /\ F[m + 1][1].op \notin TableOps
    BY <2>1
  <2>3. F[(m + 1) + 1] = F[m + 1] \o Ops((m + 1) + 1)
    BY <1>5, <2>1
  <2>4. Ops((m + 1) + 1) \in Seq(V)
    BY <1>3, <2>1
  <2>5. /\ F[(m + 1) + 1] \in Seq(V)
        /\ Len(F[(m + 1) + 1]) > 0
        /\ F[(m + 1) + 1][1] = F[m + 1][1]
    <3> DEFINE seq == F[m + 1]
               more == Ops((m + 1) + 1)
    <3>1. seq \in Seq(V) /\ more \in Seq(V) /\ Len(seq) > 0
      BY <2>2, <2>4
    <3>2. seq \o more \in Seq(V) /\ Len(seq \o more) > 0 /\ (seq \o more)[1] = seq[1]
      <4> HIDE DEF seq, more
      <4> QED BY <3>1, HeadOfBoth
    <3> QED BY <2>3, <3>2, Zenon
  <2> QED BY <2>1, <2>2, <2>5
<1>8. n - 1 \in T /\ n - 1 \in Nat /\ (n - 1) + 1 = n
  <2> HIDE DEF T
  <2>1. n - 1 \in Nat /\ (n - 1) - 1 = n - 2 /\ (n - 1) + 1 = n
    BY <1>2
  <2> QED BY <1>6, <1>7, <2>1, CountUp
<1>9. F[n][1].op \notin TableOps
  BY <1>2, <1>8
<1> QED BY <1>4, <1>9

\* A name's key stands for the table the name means, in one front end.
Tracks(keys, name) ==
    Existing(Identity(name)) =
        IF TableKey(name) \in DOMAIN keys THEN {keys[TableKey(name)]} ELSE {}

SeriesInv ==
    /\ created \in Nat
    /\ DOMAIN relations \in SUBSET (1..created)
    /\ \A backend \in Backend, name \in SeriesNames : Tracks(tracked[backend], name)

\* Two names of the series have one key exactly if they mean one table.
LEMMA OneKey ==
    ASSUME QualifiedConsistently,
           NEW n \in SeriesNames, NEW m \in SeriesNames
    PROVE  TableKey(n) = TableKey(m) <=> Identity(n) = Identity(m)
BY DEF QualifiedConsistently

Creating == OfKind("create table")

Renaming == OfKind("rename table")

Dropping == {d \in OfKind("drop") : d.object = "table"}

\* CREATE TABLE: a new table has its key, or there is one under the key already.
LEMMA CreateTracks ==
    ASSUME QualifiedConsistently, SeriesInv,
           NEW s \in Creating, Execute(s)
    PROVE  SeriesInv'
<1> DEFINE identity == Identity(s.name)
           key == TableKey(s.name)
<1>1. /\ created \in Nat /\ DOMAIN relations \in SUBSET (1..created)
      /\ \A backend \in Backend, name \in SeriesNames : Tracks(tracked[backend], name)
  BY DEF SeriesInv
<1>2. RunsCreate(s) /\ s.kind = "create table"
  BY DEF Execute, Runs, OfKind, Creating
<1>3. s.name \in SeriesNames
  BY DEF SeriesNames, Creating
<1>4. ASSUME NEW backend \in Backend
      PROVE  tracked'[backend] =
                 IF s.if_not_exists /\ key \in DOMAIN tracked[backend] THEN tracked[backend]
                 ELSE Put(tracked[backend], key, created')
  <2> DEFINE op == MapStatement(backend, s)[1]
  <2>1. op = MapCreateTable(backend, s)
    BY <1>2 DEF MapStatement
  <2>2. op.op = "CreateTable" /\ op.name = key /\ op.if_not_exists = s.if_not_exists
    <3> HIDE DEF op
    <3> QED BY <2>1 DEF MapCreateTable
  <2>3. tracked'[backend] = Follow(tracked[backend], op, created')
    BY DEF Execute
  <2> HIDE DEF op, key
  <2> QED BY <2>2, <2>3 DEF Follow
<1>5. CASE Existing(identity) = {}
  <2>1. created' = created + 1 /\ relations' = Put(relations, created', identity)
    BY <1>2, <1>5 DEF RunsCreate
  <2>2. created' \in Nat /\ created' \notin DOMAIN relations
        /\ DOMAIN relations' \in SUBSET (1..created')
    <3>1. created' \in Nat /\ created' \notin 1..created /\ created' \in 1..created'
          /\ 1..created \in SUBSET (1..created')
      BY <1>1, <2>1
    <3>2. DOMAIN relations' = DOMAIN relations \cup {created'}
      BY <2>1 DEF Put
    <3> QED BY <1>1, <3>1, <3>2
  <2>3. ASSUME NEW backend \in Backend, NEW name \in SeriesNames
        PROVE  Tracks(tracked[backend], name)'
    <3> DEFINE keys == tracked[backend]
    <3>1. key \notin DOMAIN keys
      BY <1>1, <1>3, <1>5 DEF Tracks
    <3>2. tracked'[backend] = Put(keys, key, created')
      BY <1>4, <3>1
    <3>3. Tracks(keys, name)
      BY <1>1
    <3>4. CASE Identity(name) = identity
      <4>1. TableKey(name) = key
        BY <1>3, <3>4, OneKey
      <4>2. Existing(Identity(name))' = {created'}
        BY <1>5, <2>1, <2>2, <3>4 DEF Existing, Put
      <4>3. key \in DOMAIN tracked'[backend] /\ tracked'[backend][key] = created'
        BY <3>2 DEF Put
      <4> QED BY <4>1, <4>2, <4>3 DEF Tracks
    <3>5. CASE Identity(name) # identity
      <4>1. TableKey(name) # key
        BY <1>3, <3>5, OneKey
      <4>2. Existing(Identity(name))' = Existing(Identity(name))
        BY <2>1, <2>2, <3>5 DEF Existing, Put
      <4>3. /\ TableKey(name) \in DOMAIN tracked'[backend]
               <=> TableKey(name) \in DOMAIN keys
            /\ TableKey(name) \in DOMAIN keys =>
                   tracked'[backend][TableKey(name)] = keys[TableKey(name)]
        BY <3>2, <4>1 DEF Put
      <4> QED BY <3>3, <4>2, <4>3 DEF Tracks
    <3> QED BY <3>4, <3>5
  <2> QED BY <2>2, <2>3 DEF SeriesInv
<1>6. CASE Existing(identity) # {}
  <2>1. s.if_not_exists /\ UNCHANGED <<relations, created>>
    BY <1>2, <1>6 DEF RunsCreate
  <2>2. ASSUME NEW backend \in Backend PROVE tracked'[backend] = tracked[backend]
    <3>1. key \in DOMAIN tracked[backend]
      BY <1>1, <1>3, <1>6 DEF Tracks
    <3> QED BY <1>4, <2>1, <3>1
  <2> QED BY <1>1, <2>1, <2>2 DEF SeriesInv, Tracks, Existing
<1> QED BY <1>5, <1>6

\* RENAME TO: the key goes with the table, to a name nobody has.
LEMMA RenameTracks ==
    ASSUME ~RenameQualified, QualifiedConsistently, SeriesInv,
           NEW s \in Renaming, Execute(s)
    PROVE  SeriesInv'
<1> DEFINE old == Identity(s.name)
           new == Identity(<< s.new >>)
           oldkey == TableKey(s.name)
           newkey == TableKey(<< s.new >>)
<1>1. /\ created \in Nat /\ DOMAIN relations \in SUBSET (1..created)
      /\ \A backend \in Backend, name \in SeriesNames : Tracks(tracked[backend], name)
  BY DEF SeriesInv
<1>2. RunsRename(s) /\ s.kind = "rename table"
  BY DEF Execute, Runs, OfKind, Renaming
<1>3. s.name \in SeriesNames /\ << s.new >> \in SeriesNames
  BY DEF SeriesNames, Renaming
<1>4. Len(s.name) = 1
  BY <1>2 DEF RunsRename
<1>5. new = << Identity(s.name)[1], IdentKey(s.new) >> /\ newkey = IdentKey(s.new)
  <2>1. Len(<< s.new >>) = 1 /\ << s.new >>[1] = s.new
    OBVIOUS
  <2>2. Identity(s.name)[1] = Public
    BY <1>4 DEF Identity
  <2>3. new = << Public, IdentKey(s.new) >>
    BY <2>1 DEF Identity
  <2>4. newkey = IdentKey(s.new)
    BY <2>1 DEF TableKey
  <2> HIDE DEF new, newkey
  <2> QED BY <2>2, <2>3, <2>4
<1>6. Existing(old) # {} /\ Existing(new) = {} /\ UNCHANGED created
  <2> HIDE DEF new
  <2> QED BY <1>2, <1>5 DEF RunsRename
<1>7. PICK id \in Existing(old) : relations' = [relations EXCEPT ![id] = new]
  <2> HIDE DEF new
  <2> QED BY <1>2, <1>5 DEF RunsRename
<1>8. id \in DOMAIN relations /\ relations[id] = old /\ old # new
  BY <1>6, <1>7 DEF Existing
<1>9. DOMAIN relations' = DOMAIN relations
  BY <1>7
<1> HIDE DEF old, new, oldkey, newkey
<1>10. ASSUME NEW backend \in Backend
       PROVE  /\ oldkey \in DOMAIN tracked[backend] /\ tracked[backend][oldkey] = id
              /\ tracked'[backend] =
                     Put(Remove(tracked[backend], oldkey), newkey, id)
              /\ Existing(old) = {id}
  <2> DEFINE op == MapStatement(backend, s)[1]
  <2>1. op = [op |-> "RenameTable", table |-> oldkey, new |-> newkey]
    BY <1>2, <1>5 DEF MapStatement, MapRenameTable, oldkey
  <2>2. tracked'[backend] = Follow(tracked[backend], op, created')
    BY DEF Execute
  <2>3. /\ oldkey \in DOMAIN tracked[backend] /\ tracked[backend][oldkey] = id
        /\ Existing(old) = {id}
    BY <1>1, <1>3, <1>6, <1>7 DEF Tracks, old, oldkey
  <2> HIDE DEF op
  <2> QED BY <2>1, <2>2, <2>3 DEF Follow
<1>11. ASSUME NEW backend \in Backend, NEW name \in SeriesNames
       PROVE  Tracks(tracked[backend], name)'
  <2> DEFINE keys == tracked[backend]
             key == TableKey(name)
             meant == Identity(name)
  <2>1. tracked'[backend] = Put(Remove(keys, oldkey), newkey, id)
    BY <1>10
  <2>2. Tracks(keys, name)
    BY <1>1
  <2>3. (key = oldkey <=> meant = old) /\ (key = newkey <=> meant = new)
    BY <1>3, OneKey DEF old, new, oldkey, newkey
  <2>4. CASE meant = new
    <3>1. Existing(meant)' = {id}
      BY <1>6, <1>7, <1>8, <1>9, <2>4 DEF Existing
    <3>2. key \in DOMAIN tracked'[backend] /\ tracked'[backend][key] = id
      BY <2>1, <2>3, <2>4 DEF Put
    <3> QED BY <3>1, <3>2 DEF Tracks
  <2>5. CASE meant = old
    <3>1. Existing(meant)' = {}
      BY <1>7, <1>8, <1>9, <1>10, <2>5 DEF Existing
    <3>2. key \notin DOMAIN tracked'[backend]
      BY <1>8, <2>1, <2>3, <2>5 DEF Put, Remove
    <3> QED BY <3>1, <3>2 DEF Tracks
  <2>6. CASE meant # old /\ meant # new
    <3>1. Existing(meant)' = Existing(meant)
      BY <1>7, <1>8, <1>9, <2>6 DEF Existing
    <3>2. /\ key \in DOMAIN tracked'[backend] <=> key \in DOMAIN keys
          /\ key \in DOMAIN keys => tracked'[backend][key] = keys[key]
      BY <2>1, <2>3, <2>6 DEF Put, Remove
    <3> QED BY <2>2, <3>1, <3>2 DEF Tracks
  <2> QED BY <2>4, <2>5, <2>6
<1> QED BY <1>1, <1>6, <1>9, <1>11 DEF SeriesInv

\* DROP TABLE: what is meant is gone, and what has the keys of it.
LEMMA DropTracks ==
    ASSUME QualifiedConsistently, SeriesInv, NEW s \in Dropping, Execute(s)
    PROVE  SeriesInv'
<1> DEFINE gone == {Identity(name) : name \in Elements(s.names)}
           removed == {TableKey(name) : name \in Elements(s.names)}
<1>1. /\ created \in Nat /\ DOMAIN relations \in SUBSET (1..created)
      /\ \A backend \in Backend, name \in SeriesNames : Tracks(tracked[backend], name)
  BY DEF SeriesInv
<1>2. RunsDrop(s) /\ s.kind = "drop" /\ s.object = "table"
  BY DEF Execute, Runs, OfKind, Dropping
<1>3. Elements(s.names) \in SUBSET SeriesNames
  BY DEF SeriesNames, Dropping
<1>4. /\ relations' = [id \in {i \in DOMAIN relations : relations[i] \notin gone} |-> relations[id]]
      /\ UNCHANGED created
  BY <1>2 DEF RunsDrop
<1>5. Elements(TableKeys(s.names)) = removed
  BY DEF Elements, TableKeys
<1> HIDE DEF gone, removed
<1>6. ASSUME NEW backend \in Backend
      PROVE  tracked'[backend] = [key \in DOMAIN tracked[backend] \ removed |-> tracked[backend][key]]
  <2> DEFINE op == MapStatement(backend, s)[1]
  <2>1. op = [op |-> "DropTables", names |-> TableKeys(s.names), if_exists |-> s.if_exists]
    BY <1>2 DEF MapStatement, MapDrop, DropTables
  <2>2. tracked'[backend] = Follow(tracked[backend], op, created')
    BY DEF Execute
  <2> HIDE DEF op
  <2> QED BY <1>5, <2>1, <2>2 DEF Follow
<1>7. DOMAIN relations' \in SUBSET (1..created')
  BY <1>1, <1>4
<1>8. ASSUME NEW backend \in Backend, NEW name \in SeriesNames
      PROVE  Tracks(tracked[backend], name)'
  <2> DEFINE keys == tracked[backend]
             key == TableKey(name)
             meant == Identity(name)
  <2>1. tracked'[backend] = [k \in DOMAIN keys \ removed |-> keys[k]]
    BY <1>6
  <2>2. Tracks(keys, name)
    BY <1>1
  <2>3. key \in removed <=> meant \in gone
    <3>1. ASSUME NEW n \in Elements(s.names)
          PROVE  key = TableKey(n) <=> meant = Identity(n)
      BY <1>3, OneKey
    <3> HIDE DEF key, meant
    <3> QED BY <3>1 DEF gone, removed
  <2>4. CASE meant \in gone
    <3>1. Existing(meant)' = {}
      BY <1>4, <2>4 DEF Existing
    <3>2. key \notin DOMAIN tracked'[backend]
      BY <2>1, <2>3, <2>4
    <3> QED BY <3>1, <3>2 DEF Tracks
  <2>5. CASE meant \notin gone
    <3>1. Existing(meant)' = Existing(meant)
      BY <1>4, <2>5 DEF Existing
    <3>2. /\ key \in DOMAIN tracked'[backend] <=> key \in DOMAIN keys
          /\ key \in DOMAIN keys => tracked'[backend][key] = keys[key]
      BY <2>1, <2>3, <2>5
    <3> QED BY <2>2, <3>1, <3>2 DEF Tracks
  <2> QED BY <2>4, <2>5
<1> QED BY <1>1, <1>4, <1>7, <1>8 DEF SeriesInv

OtherStatement(s) == s \notin Creating /\ s \notin Renaming /\ s \notin Dropping

LEMMA OtherOps ==
    ASSUME NEW backend, NEW s \in Statements, OtherStatement(s), Plain(s)
    PROVE  MapStatement(backend, s)[1].op \notin TableOps
<1>1. s.kind # "create table" /\ s.kind # "rename table" /\ ~(s.kind = "drop" /\ s.object = "table")
  BY DEF OtherStatement, Creating, Renaming, Dropping, OfKind
<1>2. CASE s.kind = "alter table"
  <2>1. /\ s.commands \in Seq(Elements(s.commands)) /\ s.commands # << >>
        /\ \A cmd \in Elements(s.commands) : PlainCommand(cmd)
    BY <1>2, Zenon DEF Plain
  <2>2. Len(s.commands) \in Nat \ {0} /\ DOMAIN s.commands = 1..Len(s.commands)
    BY <2>1
  <2>3. \A i \in 1..Len(s.commands) : PlainCommand(s.commands[i])
    BY <2>1, <2>2 DEF Elements
  <2>4. MapAlterTable(backend, s)[1].op \notin TableOps
    BY <2>2, <2>3, AlterFirst
  <2> QED BY <1>2, <2>4 DEF MapStatement
<1>3. CASE s.kind = "rename column"
  <2>1. MapStatement(backend, s) =
            << [ op |-> "RenameColumn", table |-> TableKey(s.name),
                 old |-> IdentKey(s.old), new |-> IdentKey(s.new) ] >>
    BY <1>3 DEF MapStatement, MapRenameColumn
  <2> QED BY <2>1 DEF TableOps
<1>4. CASE s.kind = "rename type"
  <2>1. MapStatement(backend, s) =
            << [ op |-> "RenameType", new |-> IdentKey(s.new),
                 name |-> IF backend = "sqlparser" THEN TypeKey(s.name)
                          ELSE TableKey(s.name) ] >>
    BY <1>4 DEF MapStatement, MapRenameType
  <2> QED BY <2>1 DEF TableOps
<1>5. CASE s.kind = "create type"
  <2> DEFINE op == MapCreateType(backend, s)[1]
             name == TypeKey(s.name)
  <2>1. \/ op = [op |-> "CreateEnum", name |-> name]
        \/ op = [op |-> "CreateComposite", name |-> name]
        \/ op = [ op |-> "CreateRange", name |-> name,
                  subtype |-> [i \in DOMAIN s.subtype |-> MapType(backend, s.subtype[i])] ]
        \/ op = [op |-> "CreateDomain", name |-> name, base |-> MapType(backend, s.base)]
        \/ op = [op |-> "CreateBase", name |-> name]
    BY DEF MapCreateType
  <2>2. MapStatement(backend, s)[1] = op
    BY <1>5 DEF MapStatement
  <2>3. op.op \in {"CreateEnum", "CreateComposite", "CreateRange", "CreateDomain",
            "CreateBase"}
    <3> HIDE DEF op, name
    <3> QED BY <2>1
  <2> HIDE DEF op
  <2> QED BY <2>2, <2>3 DEF TableOps
<1>6. CASE s.kind = "drop"
  <2>1. MapStatement(backend, s) = MapDrop(backend, s)
    BY <1>6 DEF MapStatement
  <2>2. MapDrop(backend, s) \in {<< DropTypes(s) >>, << Irrelevant >>}
    BY <1>1, <1>6 DEF MapDrop
  <2>3. DropTypes(s).op = "DropTypes" /\ Irrelevant.op = "Irrelevant"
    BY DEF DropTypes, Irrelevant
  <2> QED BY <2>1, <2>2, <2>3 DEF TableOps
<1>7. CASE s.kind \notin {"alter table", "rename column", "rename type", "create type",
          "drop"}
  <2>1. MapStatement(backend, s) = << Irrelevant >>
    BY <1>1, <1>7 DEF MapStatement
  <2> QED BY <2>1 DEF TableOps, Irrelevant
<1> QED BY <1>2, <1>3, <1>4, <1>5, <1>6, <1>7

\* What is no table's CREATE, RENAME TO or DROP moves no key.
LEMMA OtherTracks ==
    ASSUME SeriesInv, NEW s \in Statements, OtherStatement(s), Plain(s), Execute(s)
    PROVE  SeriesInv'
<1>1. UNCHANGED <<relations, created>>
  BY DEF OtherStatement, Creating, Renaming, Dropping, OfKind, Execute, Runs
<1>2. ASSUME NEW backend \in Backend PROVE tracked'[backend] = tracked[backend]
  <2> DEFINE op == MapStatement(backend, s)[1]
  <2>1. op.op \notin TableOps
    BY OtherOps
  <2>2. tracked'[backend] = Follow(tracked[backend], op, created')
    BY DEF Execute
  <2> HIDE DEF op
  <2> QED BY <2>1, <2>2 DEF Follow, TableOps
<1> QED BY <1>1, <1>2 DEF SeriesInv, Tracks, Existing

\* "Tables keep their qualification" as their identity (extract.rs:16): after any series of
\* statements Postgres accepts, however the names in it are spelled and whatever is created,
\* renamed and dropped, a key stands for the table Postgres finds by the name, and for none
\* when there is none, if names are "qualified consistently" (extract.rs:424) and no table
\* in a schema is renamed.
THEOREM NamesAlwaysTrack ==
    ASSUME ~RenameQualified, QualifiedConsistently, \A s \in Statements : Plain(s)
    PROVE  Spec => []NamesTrack
<1>1. Init => SeriesInv
  BY DEF Init, SeriesInv, Tracks, Existing, EmptyMap
<1>2. SeriesInv /\ [Next]_vars => SeriesInv'
  <2> SUFFICES ASSUME SeriesInv, [Next]_vars PROVE SeriesInv'
    OBVIOUS
  <2>1. CASE \E s \in Statements : Execute(s)
    <3>1. PICK s \in Statements : Execute(s)
      BY <2>1
    <3> QED BY <3>1, CreateTracks, RenameTracks, DropTracks, OtherTracks DEF OtherStatement
  <2>2. CASE UNCHANGED <<relations, tracked, created>>
    BY <2>2 DEF SeriesInv, Tracks, Existing
  <2> QED BY <2>1, <2>2 DEF Next, Unreadable, vars
<1>3. SeriesInv => NamesTrack
  BY DEF SeriesInv, Tracks, NamesTrack, Names, SeriesNames
<1> QED BY <1>1, <1>2, <1>3, PTL DEF Spec

-----------------------------------------------------------------------------
(* The sniff: whose name follows the words of a heading. *)

Ends(tokens, n, name) ==
    /\ n \in Nat
    /\ Len(tokens) = n + Len(NameTokens(name))
    /\ \A i \in 1..Len(NameTokens(name)) : tokens[n + i] = NameTokens(name)[i]

LEMMA LoweredJoined ==
    ASSUME NEW S, NEW left \in Seq(S), NEW right \in Seq(S)
    PROVE  Lowered(left \o right) = Lowered(left) \o Lowered(right)
<1> DEFINE both == left \o right
           V == {Lower(left[i]) : i \in 1..Len(left)} \cup {Lower(right[i]) : i \in 1..Len(right)}
<1>1. /\ both \in Seq(S) /\ Len(both) = Len(left) + Len(right)
      /\ \A p \in 1..(Len(left) + Len(right)) :
             both[p] = IF p <= Len(left) THEN left[p] ELSE right[p - Len(left)]
  BY ConcatFacts
<1>2. Len(left) \in Nat /\ Len(right) \in Nat /\ DOMAIN left = 1..Len(left)
      /\ DOMAIN right = 1..Len(right)
  OBVIOUS
<1>3. Lowered(left) \in Seq(V) /\ Len(Lowered(left)) = Len(left)
      /\ \A p \in 1..Len(left) : Lowered(left)[p] = Lower(left[p])
  BY <1>2 DEF Lowered
<1>4. Lowered(right) \in Seq(V) /\ Len(Lowered(right)) = Len(right)
      /\ \A p \in 1..Len(right) : Lowered(right)[p] = Lower(right[p])
  BY <1>2 DEF Lowered
<1> DEFINE low == Lowered(left)
           up == Lowered(right)
           joined == low \o up
<1> HIDE DEF low, up, V
<1>5. /\ joined \in Seq(V) /\ Len(joined) = Len(left) + Len(right)
      /\ \A p \in 1..(Len(left) + Len(right)) :
             joined[p] = IF p <= Len(left) THEN low[p] ELSE up[p - Len(left)]
  <2>1. low \in Seq(V) /\ up \in Seq(V) /\ Len(low) = Len(left) /\ Len(up) = Len(right)
    BY <1>3, <1>4 DEF low, up
  <2>2. /\ low \o up \in Seq(V) /\ Len(low \o up) = Len(low) + Len(up)
        /\ \A p \in 1..(Len(low) + Len(up)) :
               (low \o up)[p] = IF p <= Len(low) THEN low[p] ELSE up[p - Len(low)]
    BY <2>1, ConcatFacts
  <2> QED BY <2>1, <2>2
<1>6. Lowered(both) = [p \in 1..(Len(left) + Len(right)) |-> Lower(both[p])]
  <2> HIDE DEF both
  <2> QED BY <1>1 DEF Lowered
<1> HIDE DEF both, joined, V
<1>7. ASSUME NEW p \in 1..(Len(left) + Len(right)) PROVE joined[p] = Lower(both[p])
  <2>1. CASE p <= Len(left)
    BY <1>1, <1>2, <1>3, <1>5, <2>1 DEF low
  <2>2. CASE ~(p <= Len(left))
    <3>1. p - Len(left) \in 1..Len(right)
      BY <1>2, <2>2
    <3> QED BY <1>1, <1>4, <1>5, <2>2, <3>1 DEF up
  <2> QED BY <2>1, <2>2
<1>8. joined = [p \in 1..(Len(left) + Len(right)) |-> joined[p]]
  BY <1>5
<1>9. Lowered(both) = joined
  BY <1>6, <1>7, <1>8
<1> QED BY <1>9 DEF both, joined, low, up

LEMMA WordReplaced ==
    ASSUME NEW token, NEW word, NEW other, token = [word |-> other, quoted |-> FALSE]
    PROVE  [token EXCEPT !.word = word] = [word |-> word, quoted |-> FALSE]
OBVIOUS

LEMMA NameKey ==
    ASSUME NEW kind, NEW tokens, NEW n, NEW name, Sniffable(name), Ends(tokens, n, name)
    PROVE  KeyAt(kind, tokens, n + 1) = [kind |-> kind, key |-> TableKey(name)]
<1>1. /\ name[1].text \in Seq(Elements(name[1].text)) \ {<< >>}
      /\ Dot \notin Elements(name[1].text) /\ name[1].quoted \in BOOLEAN
  BY DEF Sniffable
<1> DEFINE first == name[1]
           t1 == name[1].text
           T1 == Elements(name[1].text)
<1>2. Len(t1) \in Nat \ {0} /\ DOMAIN t1 = 1..Len(t1) /\ LastOf(t1) # Dot
  <2>1. Len(t1) \in Nat \ {0} /\ DOMAIN t1 = 1..Len(t1)
    BY <1>1
  <2>2. t1[Len(t1)] \in T1
    BY <2>1 DEF Elements
  <2> QED BY <1>1, <2>1, <2>2 DEF LastOf
<1>3. CASE Len(name) = 1
  <2>1. NameTokens(name) = << [word |-> t1, quoted |-> first.quoted] >>
    BY <1>3 DEF NameTokens, Token
  <2>2. Len(tokens) = n + 1 /\ tokens[n + 1] = [word |-> t1, quoted |-> first.quoted] /\ n \in Nat
    BY <2>1 DEF Ends
  <2> HIDE DEF t1, first
  <2>3. KeyAt(kind, tokens, n + 1) = [kind |-> kind, key |-> SniffKey(tokens[n + 1])]
    BY <1>2, <2>2 DEF KeyAt
  <2>4. SniffKey(tokens[n + 1]) = TableKey(name)
    BY <1>3, <2>2 DEF SniffKey, TableKey, IdentKey, t1, first
  <2> QED BY <2>3, <2>4
<1>4. CASE Len(name) = 2
  <2> DEFINE t2 == name[2].text
             T2 == Elements(name[2].text)
  <2>1. t2 \in Seq(T2) \ {<< >>} /\ Dot \notin T2 /\ name[2].quoted \in BOOLEAN /\ ~name[1].quoted
    BY <1>4 DEF Sniffable
  <2>2. Len(t2) \in Nat \ {0} /\ DOMAIN t2 = 1..Len(t2) /\ LastOf(t2) # Dot
    <3>1. Len(t2) \in Nat \ {0} /\ DOMAIN t2 = 1..Len(t2)
      BY <2>1
    <3>2. t2[Len(t2)] \in T2
      BY <3>1 DEF Elements
    <3> QED BY <2>1, <3>1, <3>2 DEF LastOf
  <2>3. t1 \in Seq(T1 \cup T2) /\ t2 \in Seq(T1 \cup T2)
    BY <1>1, <2>1
  <2>4. TableKey(name) = Lowered(t1) \o IdentKey(name[2])
    <3>1. TableKey(name) = IdentKey(name[1]) \o IdentKey(name[2])
      <4>1. Len(name) # 1
        BY <1>4
      <4> QED BY <4>1, Zenon DEF TableKey
    <3>2. IdentKey(name[1]) = Lowered(t1)
      BY <2>1, Zenon DEF IdentKey
    <3> QED BY <3>1, <3>2, Zenon
  <2>5. CASE ~name[2].quoted
    <3> DEFINE both == t1 \o t2
    <3>1. NameTokens(name) = << [word |-> both, quoted |-> FALSE] >>
      <4>1. ~name[1].quoted /\ ~name[2].quoted /\ Len(name) # 1
        BY <1>4, <2>1, <2>5
      <4> QED BY <4>1, Zenon DEF NameTokens
    <3> HIDE DEF both
    <3>2. Len(tokens) = n + 1 /\ tokens[n + 1] = [word |-> both, quoted |-> FALSE] /\ n \in Nat
      <4> DEFINE one == [word |-> both, quoted |-> FALSE]
      <4> HIDE DEF one
      <4>1. NameTokens(name) = << one >>
        BY <3>1 DEF one
      <4>2. Len(NameTokens(name)) = 1 /\ NameTokens(name)[1] = one
        BY <4>1
      <4>3. n \in Nat /\ Len(tokens) = n + 1 /\ tokens[n + 1] = NameTokens(name)[1]
        BY <4>2 DEF Ends
      <4> QED BY <4>2, <4>3, Zenon DEF one
    <3> USE DEF both
    <3>3. LastOf(both) # Dot
      <4>1. /\ Len(both) = Len(t1) + Len(t2)
            /\ \A p \in 1..(Len(t1) + Len(t2)) :
                   both[p] = IF p <= Len(t1) THEN t1[p] ELSE t2[p - Len(t1)]
        BY <2>3, ConcatFacts
      <4> HIDE DEF both, t1, t2
      <4>2. LastOf(both) = t2[Len(t2)]
        BY <1>2, <2>2, <4>1 DEF LastOf
      <4> QED BY <2>2, <4>2 DEF LastOf
    <3>4. Lowered(both) = TableKey(name)
      BY <2>3, <2>4, <2>5, LoweredJoined DEF IdentKey
    <3> HIDE DEF both
    <3>5. KeyAt(kind, tokens, n + 1) = [kind |-> kind, key |-> Lowered(both)]
      BY <3>2, <3>3 DEF KeyAt, SniffKey
    <3> QED BY <3>4, <3>5
  <2>6. CASE name[2].quoted
    <3> DEFINE dotted == Append(t1, Dot)
    <3>1. NameTokens(name) = << [word |-> dotted, quoted |-> FALSE], Token(name[2]) >>
      BY <1>4, <2>1, <2>6 DEF NameTokens
    <3>2. /\ Len(tokens) = n + 2 /\ n \in Nat
          /\ tokens[n + 1] = [word |-> dotted, quoted |-> FALSE]
          /\ tokens[n + 2] = Token(name[2])
      <4> DEFINE one == [word |-> dotted, quoted |-> FALSE]
      <4> HIDE DEF one, dotted
      <4>1. NameTokens(name) = << one, Token(name[2]) >>
        BY <3>1 DEF one
      <4>2. /\ Len(NameTokens(name)) = 2 /\ NameTokens(name)[1] = one
            /\ NameTokens(name)[2] = Token(name[2])
        BY <4>1
      <4>3. /\ n \in Nat /\ Len(tokens) = n + 2 /\ tokens[n + 1] = NameTokens(name)[1]
            /\ tokens[n + 2] = NameTokens(name)[2]
        BY <4>2 DEF Ends
      <4> QED BY <4>2, <4>3, Zenon DEF one
    <3>3. LastOf(dotted) = Dot /\ SubSeq(dotted, 1, Len(dotted) - 1) = t1
      <4>1. /\ dotted \in Seq(T1 \cup {Dot}) /\ Len(dotted) = Len(t1) + 1
            /\ dotted[Len(t1) + 1] = Dot /\ \A p \in 1..Len(t1) : dotted[p] = t1[p]
        BY <1>1
      <4> DEFINE cut == SubSeq(dotted, 1, Len(t1))
      <4>2. cut \in Seq(T1 \cup {Dot}) /\ Len(cut) = Len(t1)
            /\ \A p \in 1..Len(t1) : cut[p] = dotted[p]
        <5>1. 1 \in Int /\ Len(t1) \in Int /\ 1 \in 1..(Len(dotted) + 1)
              /\ Len(t1) \in (1 - 1)..Len(dotted)
          BY <1>2, <4>1
        <5> HIDE DEF dotted, t1
        <5>2. /\ SubSeq(dotted, 1, Len(t1)) \in Seq(T1 \cup {Dot})
              /\ Len(SubSeq(dotted, 1, Len(t1))) = Len(t1) - 1 + 1
              /\ \A p \in 1..(Len(t1) - 1 + 1) :
                     SubSeq(dotted, 1, Len(t1))[p] = dotted[1 + p - 1]
          BY <4>1, <5>1, SliceFacts
        <5> QED BY <5>1, <5>2
      <4>3. cut = t1
        <5>1. cut = [p \in 1..Len(t1) |-> cut[p]] /\ t1 = [p \in 1..Len(t1) |-> t1[p]]
          BY <1>1, <4>2
        <5> HIDE DEF cut
        <5> QED BY <4>1, <4>2, <5>1
      <4>4. Len(dotted) - 1 = Len(t1)
        BY <1>2, <4>1
      <4> QED BY <1>2, <4>1, <4>3, <4>4 DEF LastOf
    <3> HIDE DEF dotted, t1, t2
    <3> DEFINE token == tokens[n + 1]
               stem == [token EXCEPT !.word = SubSeq(@, 1, Len(@) - 1)]
    <3>4. stem = [word |-> t1, quoted |-> FALSE]
      <4>1. token = [word |-> dotted, quoted |-> FALSE]
        BY <3>2
      <4> HIDE DEF token
      <4>2. token.word = dotted /\ token.quoted = FALSE
        BY <4>1
      <4>3. SubSeq(token.word, 1, Len(token.word) - 1) = t1
        BY <3>3, <4>2
      <4> DEFINE cut == SubSeq(token.word, 1, Len(token.word) - 1)
      <4>4. stem = [token EXCEPT !.word = cut]
        OBVIOUS
      <4> HIDE DEF cut
      <4>5. [token EXCEPT !.word = cut] = [word |-> cut, quoted |-> FALSE]
        BY <4>1, WordReplaced
      <4> QED BY <4>3, <4>4, <4>5 DEF cut
    <3>5. KeyAt(kind, tokens, n + 1)
              = [kind |-> kind, key |-> SniffKey(stem) \o tokens[n + 2].word]
      <4>1. /\ ~(n + 1 > Len(tokens)) /\ ~(n + 1 = Len(tokens))
            /\ ~tokens[n + 1].quoted /\ LastOf(tokens[n + 1].word) = Dot /\ n + 1 + 1 = n + 2
        BY <3>2, <3>3
      <4> QED BY <4>1, Zenon DEF KeyAt
    <3>6. SniffKey(stem) = Lowered(t1) /\ tokens[n + 2].word = t2
      <4>1. stem.word = t1 /\ ~stem.quoted
        BY <3>4
      <4>2. SniffKey(stem) = Lowered(t1)
        <5> HIDE DEF stem
        <5> QED BY <4>1 DEF SniffKey
      <4>3. tokens[n + 2] = [word |-> t2, quoted |-> name[2].quoted]
        BY <3>2, Zenon DEF Token, t2
      <4> QED BY <4>2, <4>3
    <3> QED BY <2>4, <2>6, <3>5, <3>6 DEF IdentKey, t2
  <2> QED BY <2>5, <2>6, <2>1
<1> QED BY <1>3, <1>4 DEF Sniffable

IsSeq(seq) == seq \in Seq(Elements(seq))

LEMMA Joined ==
    ASSUME NEW left, NEW right, IsSeq(left), IsSeq(right)
    PROVE  /\ IsSeq(left \o right)
           /\ Len(left) \in Nat /\ Len(right) \in Nat
           /\ Len(left \o right) = Len(left) + Len(right)
           /\ \A p \in 1..(Len(left) + Len(right)) :
                  (left \o right)[p] =
                      IF p <= Len(left) THEN left[p] ELSE right[p - Len(left)]
<1> DEFINE S == Elements(left) \cup Elements(right)
           both == left \o right
<1>1. left \in Seq(S) /\ right \in Seq(S)
  BY DEF IsSeq
<1>2. /\ both \in Seq(S)
      /\ Len(both) = Len(left) + Len(right)
      /\ \A p \in 1..(Len(left) + Len(right)) :
             both[p] = IF p <= Len(left) THEN left[p] ELSE right[p - Len(left)]
  BY <1>1, ConcatFacts
<1>3. Len(left) \in Nat /\ Len(right) \in Nat
  BY <1>1
<1> HIDE DEF S, both
<1>4. both \in Seq(Elements(both))
  <2>1. DOMAIN both = 1..Len(both) /\ Len(both) \in Nat
    BY <1>2
  <2>2. \A p \in 1..Len(both) : both[p] \in Elements(both)
    BY <2>1 DEF Elements
  <2>3. both = [p \in 1..Len(both) |-> both[p]]
    BY <1>2
  <2> QED BY <2>1, <2>2, <2>3
<1> QED BY <1>2, <1>3, <1>4 DEF IsSeq, both

LEMMA JoinedAt ==
    ASSUME NEW left, NEW right, IsSeq(left), IsSeq(right)
    PROVE  /\ Len(left) \in Nat /\ Len(right) \in Nat
           /\ IsSeq(left \o right) /\ Len(left \o right) = Len(left) + Len(right)
           /\ \A p \in 1..Len(left) : (left \o right)[p] = left[p]
           /\ \A q \in 1..Len(right) : (left \o right)[Len(left) + q] = right[q]
<1> DEFINE both == left \o right
           m == Len(left)
           n == Len(right)
<1>1. /\ IsSeq(both) /\ m \in Nat /\ n \in Nat
      /\ Len(both) = m + n
      /\ \A p \in 1..(m + n) :
             both[p] = IF p <= m THEN left[p] ELSE right[p - m]
  BY Joined
<1> HIDE DEF both, m, n
<1>3. \A p \in 1..m : both[p] = left[p]
  BY <1>1
<1>4. \A q \in 1..n : both[m + q] = right[q]
  <2> TAKE q \in 1..n
  <2>1. m + q \in 1..(m + n) /\ ~(m + q <= m) /\ (m + q) - m = q
    BY <1>1
  <2> QED BY <1>1, <2>1
<1> QED BY <1>1, <1>3, <1>4 DEF both, m, n

LEMMA WordsOf ==
    ASSUME NEW seq, IsSeq(seq)
    PROVE  /\ IsSeq(Words(seq)) /\ Len(Words(seq)) = Len(seq) /\ Len(seq) \in Nat
           /\ \A i \in 1..Len(seq) : Words(seq)[i].word = << seq[i] >>
<1>1. Len(seq) \in Nat /\ DOMAIN seq = 1..Len(seq)
  BY DEF IsSeq
<1>2. Words(seq) = [i \in 1..Len(seq) |-> Word(seq[i])]
  BY <1>1 DEF Words
<1>3. \A i \in 1..Len(seq) : Word(seq[i]).word = << seq[i] >>
  BY DEF Word
<1>4. \A i \in 1..Len(seq) : Word(seq[i]) \in Elements(Words(seq))
  BY <1>2 DEF Elements
<1>5. Words(seq) \in Seq(Elements(Words(seq))) /\ Len(Words(seq)) = Len(seq)
  BY <1>1, <1>2, <1>4
<1> QED BY <1>1, <1>2, <1>3, <1>5 DEF IsSeq

LEMMA Tuples ==
    /\ IsSeq(<< >>)
    /\ \A a : IsSeq(<< a >>)
    /\ \A a, b : IsSeq(<< a, b >>)
    /\ \A a, b, c : IsSeq(<< a, b, c >>)
BY DEF IsSeq, Elements

Told(s) ==
    /\ ~s.comment /\ ~(s.if /\ s.only) /\ ~(Len(AllTokens(s)) > MaxTokens)
    /\ Sniffable(s.name)

LEMMA ModifierFacts ==
    ASSUME NEW m \in Modifiers
    PROVE  /\ IsSeq(m) /\ Len(m) \in 0..2
           /\ \A i \in 1..Len(m) : << m[i] >> \in ModifierWords
<1>1. CASE m = << >>
  BY <1>1, Tuples
<1>2. CASE m \in {<< "unlogged" >>, << "temporary" >>, << "temp" >>}
  BY <1>2, Tuples DEF ModifierWords
<1>3. CASE m \in {<< "global", "temporary" >>, << "local", "temp" >>}
  BY <1>3, Tuples DEF ModifierWords
<1> QED BY <1>1, <1>2, <1>3 DEF Modifiers

\* The name's tokens are a sequence.
LEMMA NameTokensSeq ==
    ASSUME NEW name
    PROVE  IsSeq(NameTokens(name))
<1>1. CASE Len(name) = 1
  BY <1>1, Tuples DEF NameTokens
<1>2. CASE ~(Len(name) = 1)
  BY <1>2, Tuples DEF NameTokens
<1> QED BY <1>1, <1>2

\* What a heading begins with: its verb, its modifiers and TABLE; then IF and
\* ONLY, when it has them; then the name.
LEMMA HeadingTokens ==
    ASSUME NEW s, IsSeq(s.modifiers), ~s.comment
    PROVE  LET k == Len(s.modifiers)
               tokens == AllTokens(s)
               ifs == IF ~s.if THEN 0 ELSE IF s.verb = "alter" THEN 2 ELSE 3
               onlys == IF s.only THEN 1 ELSE 0
           IN  /\ k \in Nat /\ IsSeq(tokens) /\ Len(tokens) \in Nat
               /\ tokens[1].word = << s.verb >>
               /\ \A j \in 1..k : tokens[j + 1].word = << s.modifiers[j] >>
               /\ tokens[k + 2].word = << "table" >>
               /\ s.if => tokens[k + 3].word = << "if" >>
               /\ s.only => tokens[k + ifs + 3].word = << "only" >>
               /\ Ends(tokens, ((k + 2) + ifs) + onlys, s.name)
<1> DEFINE m == s.modifiers
           k == Len(m)
           front == << s.verb >> \o m
           head == front \o << "table" >>
           ifWords == IF s.verb = "alter" THEN << "if", "exists" >> ELSE << "if", "not", "exists" >>
           ifs == IF ~s.if THEN 0 ELSE IF s.verb = "alter" THEN 2 ELSE 3
           onlys == IF s.only THEN 1 ELSE 0
           A == Words(head)
           B == Optional(s.if, ifWords)
           C == Optional(s.only, << "only" >>)
           D == Optional(s.comment, << "remark" >>)
           E == NameTokens(s.name)
<1>1. /\ IsSeq(front) /\ Len(front) = k + 1 /\ k \in Nat
      /\ front[1] = s.verb /\ \A j \in 1..k : front[j + 1] = m[j]
  <2>1. IsSeq(<< s.verb >>) /\ IsSeq(m) /\ Len(<< s.verb >>) = 1 /\ << s.verb >>[1] = s.verb
    BY Tuples
  <2> DEFINE one == << s.verb >>
  <2> HIDE DEF one, m
  <2>2. /\ IsSeq(one \o m)
        /\ Len(one) \in Nat /\ Len(m) \in Nat
        /\ Len(one \o m) = Len(one) + Len(m)
        /\ \A p \in 1..(Len(one) + Len(m)) :
               (one \o m)[p] = IF p <= Len(one) THEN one[p] ELSE m[p - Len(one)]
    BY <2>1, Joined DEF one
  <2>3. Len(one) = 1 /\ one[1] = s.verb
    BY <2>1 DEF one
  <2>4. \A j \in 1..k : (one \o m)[j + 1] = m[j]
    BY <2>2, <2>3
  <2> QED BY <2>2, <2>3, <2>4 DEF one
<1>2. /\ IsSeq(head) /\ Len(head) = k + 2
      /\ head[1] = s.verb /\ \A j \in 1..k : head[j + 1] = m[j]
      /\ head[k + 2] = "table"
  <2>1. IsSeq(<< "table" >>) /\ Len(<< "table" >>) = 1 /\ << "table" >>[1] = "table"
    BY Tuples
  <2> DEFINE one == << "table" >>
  <2> HIDE DEF one, m, front, k
  <2>2. /\ IsSeq(front \o one)
        /\ Len(front \o one) = Len(front) + Len(one)
        /\ \A p \in 1..(Len(front) + Len(one)) :
               (front \o one)[p] = IF p <= Len(front) THEN front[p] ELSE one[p - Len(front)]
    BY <1>1, <2>1, Joined DEF one
  <2>3. Len(one) = 1 /\ one[1] = "table"
    BY <2>1 DEF one
  <2> QED BY <1>1, <2>2, <2>3 DEF one
<1> HIDE DEF head, front
<1>3. /\ IsSeq(A) /\ Len(A) = k + 2
      /\ A[1].word = << s.verb >> /\ \A j \in 1..k : A[j + 1].word = << m[j] >>
      /\ A[k + 2].word = << "table" >>
  BY <1>1, <1>2, WordsOf
<1>4. IsSeq(B) /\ Len(B) = ifs /\ (s.if => B[1].word = << "if" >>)
  <2>1. IsSeq(ifWords) /\ (s.if => Len(ifWords) = ifs /\ ifWords[1] = "if")
    BY Tuples
  <2> HIDE DEF ifWords
  <2>2. CASE s.if
    BY <2>1, <2>2, WordsOf DEF Optional
  <2>3. CASE ~s.if
    BY <2>3, Tuples DEF Optional
  <2> QED BY <2>2, <2>3
<1>5. IsSeq(C) /\ Len(C) = onlys /\ (s.only => C[1].word = << "only" >>)
  <2>1. IsSeq(<< "only" >>) /\ Len(<< "only" >>) = 1 /\ << "only" >>[1] = "only"
    BY Tuples
  <2>2. CASE s.only
    BY <2>1, <2>2, WordsOf DEF Optional
  <2>3. CASE ~s.only
    BY <2>3, Tuples DEF Optional
  <2> QED BY <2>2, <2>3
<1>6. D = << >>
  BY DEF Optional
<1>7. IsSeq(E)
  BY NameTokensSeq
<1>8. AllTokens(s) = A \o B \o C \o D \o E
  BY Zenon DEF AllTokens, head, front
<1> DEFINE AB == A \o B
           ABC == AB \o C
           all == ABC \o E
<1>9. AllTokens(s) = all
  <2>1. IsSeq(AB) /\ IsSeq(ABC)
    <3> HIDE DEF A, B, C
    <3> QED BY <1>3, <1>4, <1>5, Joined
  <2>2. ABC \o D = ABC
    <3> HIDE DEF ABC
    <3> QED BY <1>6, <2>1 DEF IsSeq
  <2> QED BY <1>8, <2>2
<1>10. ifs \in Nat /\ onlys \in Nat
  OBVIOUS
<1> HIDE DEF A, B, C, D, E, ifs, onlys, k
<1>11. /\ IsSeq(AB) /\ Len(AB) = (k + 2) + ifs
       /\ \A p \in 1..((k + 2)) : AB[p] = A[p]
       /\ \A q \in 1..ifs : AB[(k + 2) + q] = B[q]
  <2>1. IsSeq(A) /\ IsSeq(B) /\ Len(A) = (k + 2) /\ Len(B) = ifs
    BY <1>3, <1>4
  <2>2. /\ IsSeq(A \o B) /\ Len(A \o B) = Len(A) + Len(B)
        /\ \A p \in 1..Len(A) : (A \o B)[p] = A[p]
        /\ \A q \in 1..Len(B) : (A \o B)[Len(A) + q] = B[q]
    BY <2>1, JoinedAt
  <2> QED BY <2>1, <2>2, Zenon DEF AB
<1> HIDE DEF AB
<1>12. /\ IsSeq(ABC) /\ Len(ABC) = ((k + 2) + ifs) + onlys
       /\ \A p \in 1..(((k + 2) + ifs)) : ABC[p] = AB[p]
       /\ \A q \in 1..onlys : ABC[((k + 2) + ifs) + q] = C[q]
  <2>1. IsSeq(AB) /\ IsSeq(C) /\ Len(AB) = ((k + 2) + ifs) /\ Len(C) = onlys
    BY <1>5, <1>11
  <2>2. /\ IsSeq(AB \o C) /\ Len(AB \o C) = Len(AB) + Len(C)
        /\ \A p \in 1..Len(AB) : (AB \o C)[p] = AB[p]
        /\ \A q \in 1..Len(C) : (AB \o C)[Len(AB) + q] = C[q]
    BY <2>1, JoinedAt
  <2> QED BY <2>1, <2>2, Zenon DEF ABC
<1> HIDE DEF ABC
<1> DEFINE n == ((k + 2) + ifs) + onlys
<1>13. /\ IsSeq(all) /\ Len(all) = n + Len(E)
       /\ \A p \in 1..(n) : all[p] = ABC[p]
       /\ \A q \in 1..Len(E) : all[n + q] = E[q]
  <2>1. IsSeq(ABC) /\ IsSeq(E) /\ Len(ABC) = n /\ Len(E) = Len(E)
    BY <1>7, <1>12
  <2>2. /\ IsSeq(ABC \o E) /\ Len(ABC \o E) = Len(ABC) + Len(E)
        /\ \A p \in 1..Len(ABC) : (ABC \o E)[p] = ABC[p]
        /\ \A q \in 1..Len(E) : (ABC \o E)[Len(ABC) + q] = E[q]
    BY <2>1, JoinedAt
  <2> QED BY <2>1, <2>2, Zenon DEF all
<1> HIDE DEF all
<1>14. \A p \in 1..(k + 2) : all[p] = A[p]
  <2> TAKE p \in 1..(k + 2)
  <2>1. p \in 1..((k + 2) + ifs) /\ p \in 1..n
    BY <1>1, <1>10
  <2>2. all[p] = ABC[p] /\ ABC[p] = AB[p] /\ AB[p] = A[p]
    BY <1>11, <1>12, <1>13, <2>1, Zenon
  <2> QED BY <2>2
<1>15. s.if => all[k + 3].word = << "if" >>
  <2> SUFFICES ASSUME s.if PROVE all[k + 3].word = << "if" >>
    OBVIOUS
  <2>1. ifs >= 2
    BY DEF ifs
  <2>2. AB[(k + 2) + 1] = B[1]
    BY <1>10, <1>11, <2>1
  <2>3. (k + 2) + 1 = k + 3 /\ k + 3 \in 1..((k + 2) + ifs) /\ k + 3 \in 1..n
    BY <1>1, <1>10, <2>1
  <2>4. all[k + 3] = B[1]
    BY <1>12, <1>13, <2>2, <2>3
  <2> QED BY <1>4, <2>4
<1>16. s.only => all[k + ifs + 3].word = << "only" >>
  <2> SUFFICES ASSUME s.only PROVE all[k + ifs + 3].word = << "only" >>
    OBVIOUS
  <2>1. onlys = 1
    BY DEF onlys
  <2>2. ((k + 2) + ifs) + 1 = k + ifs + 3 /\ k + ifs + 3 \in 1..n
    BY <1>1, <1>10, <2>1
  <2>3. ABC[((k + 2) + ifs) + 1] = C[1]
    BY <1>12, <2>1
  <2>4. all[k + ifs + 3] = C[1]
    BY <1>13, <2>2, <2>3
  <2> QED BY <1>5, <2>4
<1>17. Ends(all, n, s.name)
  <2>1. n \in Nat
    BY <1>1, <1>10
  <2>2. \A i \in 1..Len(E) : all[n + i] = E[i]
    BY <1>13
  <2>3. Len(all) = n + Len(NameTokens(s.name))
        /\ \A i \in 1..Len(NameTokens(s.name)) : all[n + i] = NameTokens(s.name)[i]
    BY <1>13, <2>2 DEF E
  <2> HIDE DEF n
  <2> QED BY <2>1, <2>3 DEF Ends
<1>18. /\ all[1].word = << s.verb >>
       /\ \A j \in 1..k : all[j + 1].word = << m[j] >>
       /\ all[k + 2].word = << "table" >>
  <2>1. 1 \in 1..(k + 2) /\ k + 2 \in 1..(k + 2) /\ \A j \in 1..k : j + 1 \in 1..(k + 2)
    BY <1>1
  <2> QED BY <1>3, <1>14, <2>1
<1>19. Len(all) \in Nat
  BY <1>13 DEF IsSeq
<1> QED BY <1>1, <1>9, <1>13, <1>15, <1>16, <1>17, <1>18, <1>19 DEF n, k, ifs, onlys

LEMMA OneWord ==
    \A word : ~(Len(<< word >>) >= 2)
OBVIOUS

\* The first token of a name is none of the words looked for before it.
LEMMA NameBegins ==
    ASSUME NEW name, Sniffable(name)
    PROVE  /\ Len(NameTokens(name)) \in {1, 2}
           /\ NameTokens(name)[1].word \notin {<< "only" >>, << "if" >>}
<1>1. CASE Len(name) = 1
  <2>1. NameTokens(name) = << Token(name[1]) >>
    BY <1>1 DEF NameTokens
  <2>2. name[1].text \notin {<< "only" >>, << "if" >>}
    BY <1>1 DEF Sniffable
  <2> QED BY <2>1, <2>2 DEF Token
<1>2. CASE Len(name) = 2
  <2> DEFINE t1 == name[1].text
             t2 == name[2].text
             S == Elements(t1) \cup Elements(t2) \cup {Dot}
  <2>1. t1 \in Seq(S) \ {<< >>} /\ t2 \in Seq(S) \ {<< >>} /\ ~name[1].quoted
        /\ name[2].quoted \in BOOLEAN
    <3>1. /\ t1 \in Seq(Elements(t1)) \ {<< >>} /\ t2 \in Seq(Elements(t2)) \ {<< >>}
          /\ ~name[1].quoted /\ name[2].quoted \in BOOLEAN
      BY <1>2 DEF Sniffable
    <3> QED BY <3>1
  <2>2. Len(t1) \in Nat \ {0} /\ Len(t2) \in Nat \ {0}
    BY <2>1
  <2>3. CASE ~name[2].quoted
    <3> DEFINE both == t1 \o t2
    <3>1. NameTokens(name) = << [word |-> both, quoted |-> FALSE] >>
      <4>1. Len(name) # 1
        BY <1>2
      <4> QED BY <4>1, <2>1, <2>3, Zenon DEF NameTokens
    <3>2. Len(t1 \o t2) = Len(t1) + Len(t2)
      <4> HIDE DEF t1, t2, S
      <4> QED BY <2>1, ConcatFacts
    <3>3. Len(both) >= 2
      <4> HIDE DEF t1, t2
      <4> QED BY <2>2, <3>2
    <3> HIDE DEF both
    <3>4. both # << "only" >> /\ both # << "if" >>
      BY <3>3, OneWord, Zenon
    <3> QED BY <3>1, <3>4
  <2>4. CASE name[2].quoted
    <3> DEFINE dotted == Append(t1, Dot)
    <3>1. NameTokens(name) = << [word |-> dotted, quoted |-> FALSE], Token(name[2]) >>
      BY <1>2, <2>1, <2>4 DEF NameTokens
    <3>2. Len(dotted) = Len(t1) + 1
      BY <2>1
    <3>3. Len(dotted) >= 2
      BY <2>2, <3>2
    <3> HIDE DEF dotted
    <3>4. dotted # << "only" >> /\ dotted # << "if" >>
      BY <3>3, OneWord, Zenon
    <3> QED BY <3>1, <3>4
  <2> QED BY <2>1, <2>3, <2>4
<1> QED BY <1>1, <1>2 DEF Sniffable

LEMMA AllLookedAt ==
    ASSUME NEW s, IsSeq(AllTokens(s)), ~(Len(AllTokens(s)) > MaxTokens)
    PROVE  SniffTokens(s) = AllTokens(s)
<1> DEFINE tokens == AllTokens(s)
           S == Elements(tokens)
<1>1. tokens \in Seq(S) /\ Len(tokens) \in Nat
  BY DEF IsSeq
<1>2. SniffTokens(s) = SubSeq(tokens, 1, Len(tokens))
  <2>1. ~(Len(tokens) < MaxTokens) => Len(tokens) = MaxTokens
    <3>1. ~(Len(tokens) > MaxTokens)
      OBVIOUS
    <3>2. \A l \in Nat : ~(l > MaxTokens) /\ ~(l < MaxTokens) => l = MaxTokens
      BY DEF MaxTokens
    <3>3. Len(tokens) \in Nat
      BY <1>1
    <3> QED BY <3>1, <3>2, <3>3, Zenon
  <2> QED BY <2>1 DEF SniffTokens
<1> HIDE DEF tokens, S
<1>3. /\ SubSeq(tokens, 1, Len(tokens)) \in Seq(S)
      /\ Len(SubSeq(tokens, 1, Len(tokens))) = Len(tokens)
      /\ \A p \in 1..Len(tokens) : SubSeq(tokens, 1, Len(tokens))[p] = tokens[p]
  <2>1. /\ SubSeq(tokens, 1, Len(tokens)) \in Seq(S)
        /\ Len(SubSeq(tokens, 1, Len(tokens))) = Len(tokens) - 1 + 1
        /\ \A p \in 1..(Len(tokens) - 1 + 1) :
               SubSeq(tokens, 1, Len(tokens))[p] = tokens[1 + p - 1]
    BY <1>1, SliceFacts
  <2> QED BY <1>1, <2>1
<1> DEFINE cut == SubSeq(tokens, 1, Len(tokens))
<1>4. cut = [p \in 1..Len(tokens) |-> cut[p]] /\ tokens = [p \in 1..Len(tokens) |-> tokens[p]]
  <2> HIDE DEF cut
  <2>1. cut \in Seq(S) /\ Len(cut) = Len(tokens)
    BY <1>3 DEF cut
  <2> QED BY <1>1, <2>1
<1>5. \A p \in 1..Len(tokens) : cut[p] = tokens[p]
  BY <1>3
<1> HIDE DEF cut
<1>6. cut = tokens
  BY <1>4, <1>5
<1> QED BY <1>2, <1>6 DEF cut, tokens

\* The first word after CREATE that is no modifier is TABLE.
LEMMA TableFound ==
    ASSUME NEW tokens, NEW k \in Nat, Len(tokens) \in Nat, Len(tokens) >= k + 2,
           \A j \in 1..k : tokens[j + 1].word \in ModifierWords,
           tokens[k + 2].word \notin ModifierWords
    PROVE  TableAt(tokens) = k + 2
<1> DEFINE Found(i) == /\ i > Len(tokens) \/ tokens[i].word \notin ModifierWords
                       /\ \A j \in 2..(i - 1) : tokens[j].word \in ModifierWords
<1>1. k + 2 \in 2..(Len(tokens) + 1)
  OBVIOUS
<1>2. \A j \in 2..(k + 1) : tokens[j].word \in ModifierWords
  <2> TAKE j \in 2..(k + 1)
  <2>1. j - 1 \in 1..k /\ (j - 1) + 1 = j
    OBVIOUS
  <2> QED BY <2>1
<1>3. Found(k + 2)
  <2>1. (k + 2) - 1 = k + 1
    OBVIOUS
  <2> QED BY <1>2, <2>1
<1>4. ASSUME NEW i \in 2..(Len(tokens) + 1), Found(i) PROVE i = k + 2
  <2>1. CASE i < k + 2
    <3>1. i \in 2..(k + 1) /\ ~(i > Len(tokens))
      BY <2>1
    <3> QED BY <1>2, <1>4, <3>1
  <2>2. CASE i > k + 2
    <3>1. k + 2 \in 2..(i - 1)
      BY <2>2
    <3> QED BY <1>4, <3>1
  <2> QED BY <2>1, <2>2
<1>5. TableAt(tokens) = CHOOSE i \in 2..(Len(tokens) + 1) : Found(i)
  BY DEF TableAt
<1> HIDE DEF Found
<1>6. TableAt(tokens) \in 2..(Len(tokens) + 1) /\ Found(TableAt(tokens))
  BY <1>1, <1>3, <1>5
<1> QED BY <1>4, <1>6

LEMMA AlterSniffed ==
    ASSUME NEW s \in Alter, ~s.comment, Sniffable(s.name), ~(s.if /\ s.only)
    PROVE  SniffOf(AllTokens(s)) = [kind |-> "alter", key |-> TableKey(s.name)]
<1> DEFINE tokens == AllTokens(s)
           ifs == IF ~s.if THEN 0 ELSE 2
           onlys == IF s.only THEN 1 ELSE 0
           n == ((0 + 2) + ifs) + onlys
<1>1. /\ s.verb = "alter" /\ s.modifiers = << >> /\ s.if \in BOOLEAN /\ s.only \in BOOLEAN
      /\ IsSeq(s.modifiers) /\ Len(s.modifiers) = 0
  BY Tuples DEF Alter
<1>2. /\ Len(tokens) \in Nat
      /\ tokens[1].word = << "alter" >>
      /\ tokens[0 + 2].word = << "table" >>
      /\ s.if => tokens[0 + 3].word = << "if" >>
      /\ s.only => tokens[0 + ifs + 3].word = << "only" >>
      /\ Ends(tokens, n, s.name)
  <2> DEFINE k == Len(s.modifiers)
             ifsOf == IF ~s.if THEN 0 ELSE IF s.verb = "alter" THEN 2 ELSE 3
  <2>1. /\ Len(tokens) \in Nat
        /\ tokens[1].word = << s.verb >>
        /\ tokens[k + 2].word = << "table" >>
        /\ s.if => tokens[k + 3].word = << "if" >>
        /\ s.only => tokens[k + ifsOf + 3].word = << "only" >>
        /\ Ends(tokens, ((k + 2) + ifsOf) + onlys, s.name)
    BY <1>1, HeadingTokens, Zenon
  <2>2. ifsOf = ifs /\ k = 0
    BY <1>1
  <2> HIDE DEF ifsOf, ifs, onlys, k, tokens
  <2> QED BY <1>1, <2>1, <2>2
<1>3. /\ Len(NameTokens(s.name)) \in {1, 2}
      /\ NameTokens(s.name)[1].word \notin {<< "only" >>, << "if" >>}
  BY NameBegins
<1> HIDE DEF tokens
<1>4. /\ n \in Nat /\ Len(tokens) >= n + 1
      /\ tokens[n + 1].word \notin {<< "only" >>, << "if" >>}
  <2>1. /\ n \in Nat /\ Len(tokens) = n + Len(NameTokens(s.name))
        /\ \A i \in 1..Len(NameTokens(s.name)) : tokens[n + i] = NameTokens(s.name)[i]
    BY <1>2, Zenon DEF Ends
  <2> HIDE DEF n
  <2> QED BY <1>3, <2>1
<1>5. AlterNameAt(tokens) = n + 1
  <2>1. CASE ~s.if /\ ~s.only
    <3>1. n = 2 /\ n + 1 = 3 /\ tokens[3].word \notin {<< "only" >>, << "if" >>}
      BY <1>4, <2>1
    <3> HIDE DEF n
    <3>2. ~Is(tokens, 3, "only") /\ ~Is(tokens, 3, "if")
      BY <3>1, Zenon DEF Is
    <3> QED BY <3>1, <3>2 DEF AlterNameAt
  <2>2. CASE s.if /\ ~s.only
    <3>1. n = 4 /\ tokens[3].word = << "if" >>
      BY <1>2, <2>2
    <3> HIDE DEF n
    <3>2. ~Is(tokens, 3, "only") /\ Is(tokens, 3, "if")
      BY <1>4, <3>1 DEF Is
    <3> QED BY <3>1, <3>2 DEF AlterNameAt
  <2>3. CASE ~s.if /\ s.only
    <3>1. /\ n = 3 /\ n + 1 = 4 /\ 3 <= Len(tokens)
          /\ tokens[3].word = << "only" >>
          /\ tokens[4].word \notin {<< "only" >>, << "if" >>}
      BY <1>2, <1>4, <2>3
    <3> HIDE DEF n
    <3>2. Is(tokens, 3, "only") /\ ~Is(tokens, 4, "if")
      BY <3>1, Zenon DEF Is
    <3> QED BY <3>1, <3>2 DEF AlterNameAt
  <2> QED BY <1>1, <2>1, <2>2, <2>3
<1>6. KeyAt("alter", tokens, n + 1) = [kind |-> "alter", key |-> TableKey(s.name)]
  BY <1>2, NameKey
<1>7. Is(tokens, 1, "alter") /\ Is(tokens, 2, "table")
  <2>1. Len(tokens) >= 2
    BY <1>1, <1>2, <1>4
  <2> QED BY <1>2, <2>1 DEF Is
<1> QED BY <1>5, <1>6, <1>7 DEF SniffOf, tokens

LEMMA CreateSniffed ==
    ASSUME NEW s \in Create, ~s.comment, Sniffable(s.name)
    PROVE  SniffOf(AllTokens(s)) = [kind |-> "create", key |-> TableKey(s.name)]
<1> DEFINE tokens == AllTokens(s)
           k == Len(s.modifiers)
           ifs == IF ~s.if THEN 0 ELSE 3
           n == ((k + 2) + ifs) + 0
<1>1. /\ s.verb = "create" /\ s.modifiers \in Modifiers /\ s.if \in BOOLEAN /\ ~s.only
      /\ IsSeq(s.modifiers) /\ k \in Nat
      /\ \A j \in 1..k : << s.modifiers[j] >> \in ModifierWords
  <2>1. /\ s.verb = "create" /\ s.modifiers \in Modifiers /\ s.if \in BOOLEAN /\ ~s.only
    BY DEF Create
  <2>2. /\ IsSeq(s.modifiers) /\ k \in 0..2
        /\ \A j \in 1..k : << s.modifiers[j] >> \in ModifierWords
    BY <2>1, ModifierFacts, Zenon
  <2>3. k \in Nat
    <3> HIDE DEF k
    <3> QED BY <2>2
  <2> QED BY <2>1, <2>2, <2>3, Zenon
<1>2. /\ Len(tokens) \in Nat
      /\ tokens[1].word = << "create" >>
      /\ \A j \in 1..k : tokens[j + 1].word = << s.modifiers[j] >>
      /\ tokens[k + 2].word = << "table" >>
      /\ s.if => tokens[k + 3].word = << "if" >>
      /\ Ends(tokens, n, s.name)
  <2> DEFINE ifsOf == IF ~s.if THEN 0 ELSE IF s.verb = "alter" THEN 2 ELSE 3
             onlys == IF s.only THEN 1 ELSE 0
  <2>1. /\ Len(tokens) \in Nat
        /\ tokens[1].word = << s.verb >>
        /\ \A j \in 1..k : tokens[j + 1].word = << s.modifiers[j] >>
        /\ tokens[k + 2].word = << "table" >>
        /\ s.if => tokens[k + 3].word = << "if" >>
        /\ Ends(tokens, ((k + 2) + ifsOf) + onlys, s.name)
    BY <1>1, HeadingTokens, Zenon
  <2>2. ifsOf = ifs /\ onlys = 0
    BY <1>1
  <2> HIDE DEF ifsOf, ifs, onlys, k, tokens
  <2> QED BY <1>1, <2>1, <2>2
<1>3. /\ Len(NameTokens(s.name)) \in {1, 2}
      /\ NameTokens(s.name)[1].word \notin {<< "only" >>, << "if" >>}
  BY NameBegins
<1> HIDE DEF tokens, k
<1>4. /\ n \in Nat /\ Len(tokens) >= n + 1
      /\ tokens[n + 1].word \notin {<< "only" >>, << "if" >>}
  <2>1. /\ n \in Nat /\ Len(tokens) = n + Len(NameTokens(s.name))
        /\ \A i \in 1..Len(NameTokens(s.name)) : tokens[n + i] = NameTokens(s.name)[i]
    BY <1>2, Zenon DEF Ends
  <2> HIDE DEF n
  <2> QED BY <1>3, <2>1
<1>5. Len(tokens) >= k + 3 /\ n = (k + 2) + ifs
  BY <1>1, <1>4
<1>6. TableAt(tokens) = k + 2
  <2>1. << "table" >> \notin ModifierWords
    BY DEF ModifierWords
  <2>2. Len(tokens) >= k + 2 /\ Len(tokens) \in Nat /\ k \in Nat
    BY <1>1, <1>2, <1>5
  <2>3. \A j \in 1..k : tokens[j + 1].word \in ModifierWords
    BY <1>1, <1>2, Zenon
  <2>4. tokens[k + 2].word \notin ModifierWords
    BY <1>2, <2>1, Zenon
  <2> QED BY <2>2, <2>3, <2>4, TableFound
<1>7. ~Is(tokens, 1, "alter") /\ Is(tokens, k + 2, "table")
  <2>1. << "create" >> # << "alter" >>
    OBVIOUS
  <2>2. k + 2 <= Len(tokens)
    BY <1>1, <1>2, <1>5
  <2> QED BY <1>2, <2>1, <2>2, Zenon DEF Is
<1>8. (IF Is(tokens, (k + 2) + 1, "if") THEN (k + 2) + 4 ELSE (k + 2) + 1) = n + 1
  <2>1. (k + 2) + 1 = k + 3 /\ k + 3 <= Len(tokens)
    BY <1>1, <1>2, <1>5
  <2>2. CASE s.if
    <3>1. Is(tokens, (k + 2) + 1, "if")
      BY <1>2, <2>1, <2>2 DEF Is
    <3>2. (k + 2) + 4 = n + 1
      BY <1>1, <2>2
    <3> QED BY <3>1, <3>2
  <2>3. CASE ~s.if
    <3>1. (k + 2) + 1 = n + 1
      BY <1>1, <2>3
    <3>2. ~Is(tokens, (k + 2) + 1, "if")
      BY <1>4, <3>1, Zenon DEF Is
    <3> QED BY <3>1, <3>2
  <2> QED BY <2>2, <2>3
<1>9. KeyAt("create", tokens, n + 1) = [kind |-> "create", key |-> TableKey(s.name)]
  BY <1>2, NameKey
<1>10. SniffOf(tokens) =
          KeyAt("create", tokens, IF Is(tokens, (k + 2) + 1, "if") THEN (k + 2) + 4
                                  ELSE (k + 2) + 1)
  <2> HIDE DEF n
  <2> QED BY <1>6, <1>7, Zenon DEF SniffOf
<1>11. SniffOf(tokens) = [kind |-> "create", key |-> TableKey(s.name)]
  <2> DEFINE at == IF Is(tokens, (k + 2) + 1, "if") THEN (k + 2) + 4 ELSE (k + 2) + 1
  <2>1. at = n + 1 /\ SniffOf(tokens) = KeyAt("create", tokens, at)
    BY <1>8, <1>10, Zenon
  <2> HIDE DEF at, n
  <2> QED BY <1>9, <2>1
<1> QED BY <1>11 DEF tokens

LEMMA HeadingSniffed ==
    ASSUME NEW s \in Headings, Told(s)
    PROVE  SniffOf(SniffTokens(s)) = [kind |-> s.verb, key |-> TableKey(s.name)]
<1>1. /\ ~s.comment /\ ~(s.if /\ s.only) /\ ~(Len(AllTokens(s)) > MaxTokens)
      /\ s \in Alter \cup Create
  BY DEF Headings, Told
<1>2. Sniffable(s.name) /\ IsSeq(s.modifiers)
  BY <1>1, ModifierFacts, Tuples DEF Alter, Create, Told
<1>3. IsSeq(AllTokens(s))
  BY <1>1, <1>2, HeadingTokens
<1>4. SniffTokens(s) = AllTokens(s)
  BY <1>1, <1>3, AllLookedAt
<1>5. CASE s \in Alter
  BY <1>1, <1>2, <1>4, <1>5, AlterSniffed DEF Alter
<1>6. CASE s \in Create
  BY <1>1, <1>2, <1>4, <1>6, CreateSniffed DEF Create
<1> QED BY <1>1, <1>5, <1>6

\* "The fold key of the table an unparseable statement targets" (extract.rs:600): of a
\* heading as Told says, the sniff names the table by the key both front ends keep it
\* under, whatever modifiers stand in it, with IF EXISTS or with ONLY but not with ONLY
\* after it.  Nothing is said of headings with comments or with more than eight tokens, of
\* quoted schemas, of dots, doubled quotes or letters beyond ASCII in a name, and of tables
\* named only or if.
THEOREM SniffAlwaysNames ==
    Spec => [](statement.kind = "unreadable" /\ Told(statement.heading) => SniffsTheTarget)
<1> DEFINE Known == statement.kind = "unreadable" => statement.heading \in Headings
<1>1. Init => Known
  BY DEF Init
<1>2. Known /\ [Next]_vars => Known'
  <2> SUFFICES ASSUME Known, [Next]_vars PROVE Known'
    OBVIOUS
  <2>1. CASE \E s \in Statements : Execute(s)
    BY <2>1, BackendsAssumption DEF Execute
  <2>2. CASE \E heading \in Headings : Unreadable(heading)
    BY <2>2 DEF Unreadable
  <2>3. CASE UNCHANGED vars
    BY <2>3 DEF vars
  <2> QED BY <2>1, <2>2, <2>3 DEF Next
<1>3. Known => (statement.kind = "unreadable" /\ Told(statement.heading) => SniffsTheTarget)
  BY HeadingSniffed, Zenon DEF SniffsTheTarget
<1> QED BY <1>1, <1>2, <1>3, PTL DEF Spec

-----------------------------------------------------------------------------
(* The splitter: where constructs end, and that what comes later moves no end. *)

LEMMA LeastFacts ==
    ASSUME NEW S \in SUBSET Nat, S # {}
    PROVE  Least(S) \in S /\ \A j \in S : Least(S) <= j
BY LeastNumber DEF Least

LEMMA LeastIs ==
    ASSUME NEW S \in SUBSET Nat, NEW i \in S, \A j \in S : i <= j
    PROVE  Least(S) = i
<1>1. Least(S) \in S /\ \A j \in S : Least(S) <= j
  BY LeastFacts
<1>2. Least(S) <= i /\ i <= Least(S) /\ i \in Nat /\ Least(S) \in Nat
  BY <1>1
<1> QED BY <1>2

\* A text, and one with a character more.
LEMMA LongerFacts ==
    ASSUME NEW S, NEW t \in Seq(S), NEW ch \in S
    PROVE  LET u == Append(t, ch)
           IN  /\ Len(t) \in Nat /\ DOMAIN t = 1..Len(t)
               /\ Past(t) = Len(t) + 1
               /\ u \in Seq(S) /\ Len(u) = Len(t) + 1 /\ Past(u) = Len(t) + 2
               /\ DOMAIN u = 1..(Len(t) + 1)
               /\ \A i \in 1..Len(t) : u[i] = t[i]
BY DEF Past

LEMMA StartsPair ==
    ASSUME NEW S, NEW t \in Seq(S), NEW i \in Nat \ {0}, NEW x, NEW y
    PROVE  Starts(t, i, << x, y >>) <=> i + 1 <= Len(t) /\ t[i] = x /\ t[i + 1] = y
<1> DEFINE word == << x, y >>
           n == Len(t)
           part == SubSeq(t, i, i + 1)
<1>1. n \in Nat /\ Len(word) = 2 /\ word[1] = x /\ word[2] = y
  OBVIOUS
<1>2. Starts(t, i, word) <=> i + 2 <= n + 1 /\ SubSeq(t, i, i + 2 - 1) = word
  BY <1>1 DEF Starts, Past
<1>3. i + 2 - 1 = i + 1 /\ (i + 2 <= n + 1 <=> i + 1 <= n)
  BY <1>1
<1>4. ASSUME i + 1 <= n PROVE part = word <=> t[i] = x /\ t[i + 1] = y
  <2>1. part = [k \in 1..2 |-> t[i + k - 1]]
    <3>1. part = [k \in 1..(i + 1 - i + 1) |-> t[i + k - 1]]
      OBVIOUS
    <3>2. i + 1 - i + 1 = 2
      OBVIOUS
    <3> QED BY <3>1, <3>2
  <2>2. part[1] = t[i] /\ part[2] = t[i + 1]
    BY <2>1
  <2>3. word = [k \in 1..2 |-> word[k]]
    OBVIOUS
  <2> HIDE DEF word, part
  <2>4. \A k \in 1..2 : k = 1 \/ k = 2
    OBVIOUS
  <2>5. part = word <=> part[1] = word[1] /\ part[2] = word[2]
    <3>1. part = [k \in 1..2 |-> part[k]]
      BY <2>1
    <3> QED BY <2>3, <2>4, <3>1
  <2> QED BY <1>1, <2>2, <2>5
<1> QED BY <1>2, <1>3, <1>4

\* Line comments.
LEMMA LineCommentFacts ==
    ASSUME NEW t \in Seq(Char), NEW i \in 1..Len(t), t[i] # Newline
    PROVE  /\ LineCommentEnd(t, i) \in (i + 1)..Past(t)
           /\ \A ch \in Char :
                 LineCommentEnd(t, i) <= Len(t) =>
                    LineCommentEnd(Append(t, ch), i) = LineCommentEnd(t, i)
<1> DEFINE n == Len(t)
           E(v) == {Past(v)} \cup {j \in i..Len(v) : v[j] = Newline}
           e == LineCommentEnd(t, i)
<1>1. n \in Nat /\ Past(t) = n + 1
  BY DEF Past
<1>2. E(t) \in SUBSET Nat /\ E(t) # {} /\ \A j \in E(t) : j \in (i + 1)..(n + 1)
  BY <1>1
<1>3. e \in E(t) /\ \A j \in E(t) : e <= j
  <2> HIDE DEF E
  <2> QED BY <1>2, LeastFacts DEF LineCommentEnd, E
<1>4. ASSUME NEW ch \in Char, e <= n PROVE LineCommentEnd(Append(t, ch), i) = e
  <2> DEFINE u == Append(t, ch)
  <2>1. Len(u) = n + 1 /\ Past(u) = n + 2 /\ \A j \in 1..n : u[j] = t[j]
    BY LongerFacts
  <2> HIDE DEF u, e
  <2>2. e \in i..n /\ t[e] = Newline
    BY <1>1, <1>3, <1>4
  <2>3. e \in E(u)
    BY <1>1, <2>1, <2>2
  <2>4. ASSUME NEW j \in E(u) PROVE e <= j /\ j \in Nat
    <3>1. CASE j \in i..n
      <4>1. t[j] = Newline
        BY <1>1, <2>1, <2>4, <3>1
      <4>2. j \in E(t)
        BY <3>1, <4>1
      <4> QED BY <1>2, <1>3, <4>2
    <3>2. CASE j \notin i..n
      BY <1>1, <2>1, <2>2, <2>4, <3>2
    <3> QED BY <3>1, <3>2
  <2>5. Least(E(u)) = e
    <3>1. E(u) \in SUBSET Nat
      BY <2>4
    <3> HIDE DEF E
    <3> QED BY <2>3, <2>4, <3>1, LeastIs
  <2> QED BY <2>5 DEF LineCommentEnd, u
<1> QED BY <1>1, <1>2, <1>3, <1>4

-----------------------------------------------------------------------------

\* Block comments: the end from j on, at a depth.
BlockStep(t, F, j) ==
    [depth \in Nat |->
        IF j > Len(t) \/ depth = 0 THEN j
        ELSE IF Starts(t, j, << "/", "*" >>) THEN F[j + 2][depth + 1]
        ELSE IF Starts(t, j, << "*", "/" >>) THEN F[j + 2][depth - 1]
        ELSE F[j + 1][depth]]

BlockEnds(t) == CHOOSE F : F = [j \in 1..Past(t) |-> BlockStep(t, F, j)]

LEMMA BlockEndsExist ==
    ASSUME NEW t \in Seq(Char)
    PROVE  /\ BlockEnds(t) \in [1..Past(t) -> [Nat -> 1..Past(t)]]
           /\ \A j \in 1..Past(t) : BlockEnds(t)[j] = BlockStep(t, BlockEnds(t), j)
<1> DEFINE n == Len(t)
           m == Past(t)
           V == [Nat -> 1..m]
           S == [1..m -> V]
           step == [x \in (1..m) \X S |-> BlockStep(t, x[2], x[1])]
<1>1. n \in Nat /\ m = n + 1 /\ m \in Nat
  BY DEF Past
<1> HIDE DEF m, n
<1>2. \A j \in 1..m : (j <= n => j + 1 \in (j + 1)..m) /\ (j > n \/ j <= n)
  BY <1>1
<1>3. \A j \in 1..m : /\ Starts(t, j, << "/", "*" >>) => j + 2 \in (j + 1)..m
                      /\ Starts(t, j, << "*", "/" >>) => j + 2 \in (j + 1)..m
  <2> TAKE j \in 1..m
  <2>1. j \in Nat \ {0}
    BY <1>1
  <2>2. Starts(t, j, << "/", "*" >>) \/ Starts(t, j, << "*", "/" >>) => j + 1 <= n
    BY <2>1, StartsPair DEF n
  <2> QED BY <1>1, <2>2
<1>4. \A F \in S, j \in 1..m : BlockStep(t, F, j) \in V
  <2> TAKE F \in S, j \in 1..m
  <2> DEFINE at(d) ==
                IF j > Len(t) \/ d = 0 THEN j
                ELSE IF Starts(t, j, << "/", "*" >>) THEN F[j + 2][d + 1]
                ELSE IF Starts(t, j, << "*", "/" >>) THEN F[j + 2][d - 1]
                ELSE F[j + 1][d]
  <2>1. \A k \in (j + 1)..m : \A d \in Nat : k \in 1..m /\ F[k][d] \in 1..m
    <3>1. \A k \in (j + 1)..m : k \in 1..m
      OBVIOUS
    <3>2. \A k \in 1..m : \A d \in Nat : F[k][d] \in 1..m
      OBVIOUS
    <3> QED BY <3>1, <3>2
  <2>2. ASSUME NEW d \in Nat PROVE at(d) \in 1..m
    <3>1. CASE j > n \/ d = 0
      BY <3>1 DEF n
    <3>2. CASE ~(j > n \/ d = 0) /\ Starts(t, j, << "/", "*" >>)
      BY <1>3, <2>1, <3>2 DEF n
    <3>3. CASE ~(j > n \/ d = 0) /\ ~Starts(t, j, << "/", "*" >>) /\ Starts(t, j, << "*", "/" >>)
      <4>1. d - 1 \in Nat /\ j + 2 \in (j + 1)..m
        BY <1>3, <3>3
      <4> QED BY <2>1, <3>3, <4>1 DEF n
    <3>4. CASE ~(j > n \/ d = 0) /\ ~Starts(t, j, << "/", "*" >>) /\ ~Starts(t, j, << "*", "/" >>)
      BY <1>2, <2>1, <3>4 DEF n
    <3> QED BY <3>1, <3>2, <3>3, <3>4
  <2> HIDE DEF at
  <2>3. [d \in Nat |-> at(d)] \in V
    BY <2>2
  <2> QED BY <2>3 DEF BlockStep, at
<1>5. step \in [(1..m) \X S -> V]
  <2>1. \A x \in (1..m) \X S : x[1] \in 1..m /\ x[2] \in S
    OBVIOUS
  <2> HIDE DEF S, V
  <2> QED BY <1>4, <2>1
<1>6. \A j \in 1..m, F \in S : step[<< j, F >>] = BlockStep(t, F, j)
  <2> HIDE DEF S
  <2> QED OBVIOUS
<1> HIDE DEF step
<1>7. ASSUME NEW j \in 1..m, NEW F \in S, NEW G \in S, \A k \in (j + 1)..m : F[k] = G[k]
      PROVE  step[<< j, F >>] = step[<< j, G >>]
  <2>1. j <= n => F[j + 1] = G[j + 1]
    BY <1>2, <1>7, Zenon
  <2>2. Starts(t, j, << "/", "*" >>) \/ Starts(t, j, << "*", "/" >>) => F[j + 2] = G[j + 2]
    BY <1>3, <1>7, Zenon
  <2>3. j > n \/ j <= n
    BY <1>1
  <2>4. BlockStep(t, F, j) = BlockStep(t, G, j)
    BY <2>1, <2>2, <2>3 DEF BlockStep, n
  <2> QED BY <1>6, <2>4
<1>8. [d \in Nat |-> 1] \in V
  BY <1>1
<1>9. PICK F \in S : \A j \in 1..m : F[j] = step[<< j, F >>]
  <2>1. LaterOnly(step, m, V)
    BY <1>7 DEF LaterOnly
  <2>2. step \in [(1..m) \X [1..m -> V] -> V]
    BY <1>5
  <2>3. \E F : IsBackward(F, m, V, step)
    <3> HIDE DEF V, S
    <3> QED BY <1>1, <1>8, <2>1, <2>2, BackwardExists
  <2> QED BY <2>3 DEF IsBackward
<1>10. F = [j \in 1..m |-> BlockStep(t, F, j)]
  <2>1. \A j \in 1..m : F[j] = BlockStep(t, F, j)
    BY <1>6, <1>9
  <2>2. F = [j \in 1..m |-> F[j]]
    OBVIOUS
  <2> QED BY <2>1, <2>2
<1> DEFINE G == BlockEnds(t)
<1>11. G = [j \in 1..m |-> BlockStep(t, G, j)]
  BY <1>10 DEF BlockEnds, m
<1> HIDE DEF G
<1>12. \A j \in 1..m : G[j] = BlockStep(t, G, j)
  BY <1>11
<1>13. \A j \in 1..m : G[j] \in V
  <2> DEFINE P == {j \in 1..m : G[j] = F[j]}
  <2>1. ASSUME NEW j \in 1..m, \A k \in (j + 1)..m : k \in P PROVE j \in P
    <3>1. \A k \in (j + 1)..m : F[k] = G[k]
      BY <2>1
    <3>2. j <= n => F[j + 1] = G[j + 1]
      BY <1>2, <3>1, Zenon
    <3>3. Starts(t, j, << "/", "*" >>) \/ Starts(t, j, << "*", "/" >>) => F[j + 2] = G[j + 2]
      BY <1>3, <3>1, Zenon
    <3>4. j > n \/ j <= n
      BY <1>1
    <3>5. BlockStep(t, F, j) = BlockStep(t, G, j)
      BY <3>2, <3>3, <3>4 DEF BlockStep, n
    <3> QED BY <1>6, <1>9, <1>12, <3>5
  <2>2. P = 1..m
    <3> HIDE DEF P
    <3>1. P \in SUBSET (1..m)
      BY DEF P
    <3> QED BY <1>1, <2>1, <3>1, BackwardInduction
  <2> QED BY <2>2
<1>14. G \in S
  BY <1>11, <1>13
<1> QED BY <1>12, <1>14 DEF G, m

LEMMA BlockCommentBy ==
    \A t, i : BlockCommentEnd(t, i) = BlockEnds(t)[i + 2][1]
BY DEF BlockCommentEnd, BlockEnds, BlockStep

LEMMA StartsLonger ==
    ASSUME NEW t \in Seq(Char), NEW ch \in Char, NEW i \in 1..(Len(t) - 1), NEW x, NEW y
    PROVE  Starts(Append(t, ch), i, << x, y >>) <=> Starts(t, i, << x, y >>)
<1> DEFINE u == Append(t, ch)
<1>1. /\ Len(t) \in Nat /\ u \in Seq(Char) /\ Len(u) = Len(t) + 1
      /\ \A k \in 1..Len(t) : u[k] = t[k]
  BY LongerFacts
<1> HIDE DEF u
<1>2. i \in Nat \ {0} /\ i \in 1..Len(t) /\ i + 1 \in 1..Len(t) /\ i + 1 <= Len(t) /\ i + 1 <= Len(u)
  BY <1>1
<1>3. u[i] = t[i] /\ u[i + 1] = t[i + 1]
  BY <1>1, <1>2
<1>4. Starts(u, i, << x, y >>) <=> i + 1 <= Len(u) /\ u[i] = x /\ u[i + 1] = y
  BY <1>1, <1>2, StartsPair
<1>5. Starts(t, i, << x, y >>) <=> i + 1 <= Len(t) /\ t[i] = x /\ t[i + 1] = y
  BY <1>2, StartsPair
<1> QED BY <1>2, <1>3, <1>4, <1>5 DEF u

\* One step of the way to the end of a block comment.
LEMMA BlockStepped ==
    ASSUME NEW t \in Seq(Char), NEW j \in 1..Past(t), NEW d \in Nat
    PROVE  LET E == BlockEnds(t)
           IN  /\ j = Past(t) \/ d = 0 => E[j][d] = j
               /\ j < Past(t) /\ d # 0 =>
                     IF Starts(t, j, << "/", "*" >>)
                     THEN j + 2 \in (j + 1)..Past(t) /\ E[j][d] = E[j + 2][d + 1]
                     ELSE IF Starts(t, j, << "*", "/" >>)
                     THEN j + 2 \in (j + 1)..Past(t) /\ E[j][d] = E[j + 2][d - 1]
                     ELSE E[j][d] = E[j + 1][d]
<1> DEFINE E == BlockEnds(t)
<1>1. Len(t) \in Nat /\ Past(t) = Len(t) + 1 /\ j \in Nat \ {0}
  BY DEF Past
<1>2. E[j] = BlockStep(t, E, j)
  BY BlockEndsExist
<1> HIDE DEF E
<1>3. E[j][d] = IF j > Len(t) \/ d = 0 THEN j
                ELSE IF Starts(t, j, << "/", "*" >>) THEN E[j + 2][d + 1]
                ELSE IF Starts(t, j, << "*", "/" >>) THEN E[j + 2][d - 1]
                ELSE E[j + 1][d]
  BY <1>2 DEF BlockStep
<1>4. Starts(t, j, << "/", "*" >>) \/ Starts(t, j, << "*", "/" >>) => j + 2 \in (j + 1)..Past(t)
  <2>1. Starts(t, j, << "/", "*" >>) \/ Starts(t, j, << "*", "/" >>) => j + 1 <= Len(t)
    BY <1>1, StartsPair
  <2> QED BY <1>1, <2>1
<1>5. (j > Len(t) <=> j = Past(t)) /\ (j < Past(t) <=> ~(j > Len(t)))
  BY <1>1
<1> QED BY <1>3, <1>4, <1>5 DEF E

LEMMA BlockBounds ==
    ASSUME NEW t \in Seq(Char)
    PROVE  \A j \in 1..Past(t) : \A d \in Nat : BlockEnds(t)[j][d] \in j..Past(t)
<1> DEFINE E == BlockEnds(t)
           m == Past(t)
           P == {j \in 1..m : \A d \in Nat : E[j][d] \in j..m}
<1>1. m \in Nat
  BY DEF Past
<1>2. ASSUME NEW j \in 1..m, \A k \in (j + 1)..m : k \in P PROVE j \in P
  <2> SUFFICES ASSUME NEW d \in Nat PROVE E[j][d] \in j..m
    OBVIOUS
  <2>1. \A k \in (j + 1)..m : \A e \in Nat : E[k][e] \in j..m
    <3>1. \A k \in (j + 1)..m : \A e \in Nat : E[k][e] \in k..m
      BY <1>2
    <3> HIDE DEF E, m, P
    <3> QED BY <1>1, <3>1
  <2> HIDE DEF P
  <2>2. /\ j = m \/ d = 0 => E[j][d] = j
        /\ j < m /\ d # 0 =>
              IF Starts(t, j, << "/", "*" >>)
              THEN j + 2 \in (j + 1)..m /\ E[j][d] = E[j + 2][d + 1]
              ELSE IF Starts(t, j, << "*", "/" >>)
              THEN j + 2 \in (j + 1)..m /\ E[j][d] = E[j + 2][d - 1]
              ELSE E[j][d] = E[j + 1][d]
    BY BlockStepped
  <2> HIDE DEF E, m
  <2>3. CASE j = m \/ d = 0
    BY <1>1, <2>2, <2>3
  <2>4. CASE j < m /\ d # 0
    <3>1. d + 1 \in Nat /\ d - 1 \in Nat /\ j + 1 \in (j + 1)..m
      BY <1>1, <2>4
    <3>2. \A k \in (j + 1)..m : E[k][d + 1] \in j..m /\ E[k][d - 1] \in j..m /\ E[k][d] \in j..m
      BY <2>1, <3>1
    <3>3. CASE Starts(t, j, << "/", "*" >>)
      BY <2>2, <2>4, <3>2, <3>3, Zenon
    <3>4. CASE ~Starts(t, j, << "/", "*" >>) /\ Starts(t, j, << "*", "/" >>)
      BY <2>2, <2>4, <3>2, <3>4, Zenon
    <3>5. CASE ~Starts(t, j, << "/", "*" >>) /\ ~Starts(t, j, << "*", "/" >>)
      BY <2>2, <2>4, <3>1, <3>2, <3>5, Zenon
    <3> QED BY <3>3, <3>4, <3>5
  <2> QED BY <1>1, <2>3, <2>4
<1>3. P = 1..m
  <2>1. P \in SUBSET (1..m)
    OBVIOUS
  <2> HIDE DEF P
  <2> QED BY <1>1, <1>2, <2>1, BackwardInduction
<1> QED BY <1>3

\* A comment that ends before the text does, ends there in a longer one.
LEMMA BlockStable ==
    ASSUME NEW t \in Seq(Char), NEW ch \in Char
    PROVE  \A j \in 1..Past(t) : \A d \in Nat :
              BlockEnds(t)[j][d] <= Len(t) => BlockEnds(Append(t, ch))[j][d] = BlockEnds(t)[j][d]
<1> DEFINE u == Append(t, ch)
           E == BlockEnds(t)
           G == BlockEnds(u)
           n == Len(t)
           m == Past(t)
           P == {j \in 1..m : \A d \in Nat : E[j][d] <= n => G[j][d] = E[j][d]}
<1>1. n \in Nat /\ m = n + 1 /\ m \in Nat /\ u \in Seq(Char) /\ Past(u) = n + 2
  BY LongerFacts
<1>2. ASSUME NEW j \in 1..m, \A k \in (j + 1)..m : k \in P PROVE j \in P
  <2> SUFFICES ASSUME NEW d \in Nat, E[j][d] <= n PROVE G[j][d] = E[j][d]
    OBVIOUS
  <2>1. \A k \in (j + 1)..m : \A e \in Nat : E[k][e] <= n => G[k][e] = E[k][e]
    BY <1>2
  <2> HIDE DEF P
  <2>2. /\ j = m \/ d = 0 => E[j][d] = j
        /\ j < m /\ d # 0 =>
              IF Starts(t, j, << "/", "*" >>)
              THEN j + 2 \in (j + 1)..m /\ E[j][d] = E[j + 2][d + 1]
              ELSE IF Starts(t, j, << "*", "/" >>)
              THEN j + 2 \in (j + 1)..m /\ E[j][d] = E[j + 2][d - 1]
              ELSE E[j][d] = E[j + 1][d]
    BY BlockStepped
  <2>3. /\ j = Past(u) \/ d = 0 => G[j][d] = j
        /\ j < Past(u) /\ d # 0 =>
              IF Starts(u, j, << "/", "*" >>)
              THEN j + 2 \in (j + 1)..Past(u) /\ G[j][d] = G[j + 2][d + 1]
              ELSE IF Starts(u, j, << "*", "/" >>)
              THEN j + 2 \in (j + 1)..Past(u) /\ G[j][d] = G[j + 2][d - 1]
              ELSE G[j][d] = G[j + 1][d]
    <3>1. j \in 1..Past(u)
      BY <1>1
    <3> HIDE DEF u
    <3> QED BY <1>1, <3>1, BlockStepped
  <2>4. \A k \in 1..m : \A e \in Nat : E[k][e] \in k..m
    BY BlockBounds
  <2>5. j < n => /\ Starts(u, j, << "/", "*" >>) <=> Starts(t, j, << "/", "*" >>)
                 /\ Starts(u, j, << "*", "/" >>) <=> Starts(t, j, << "*", "/" >>)
    <3>1. j < n => j \in 1..(Len(t) - 1)
      BY <1>1
    <3> QED BY <3>1, StartsLonger
  <2> HIDE DEF u, E, G, n, m
  <2>6. CASE d = 0
    BY <2>2, <2>3, <2>6
  <2>7. CASE d # 0
    <3>1. j < m
      <4>1. j = m => E[j][d] = m
        BY <2>2
      <4> QED BY <1>1, <4>1
    <3>2. d + 1 \in Nat /\ d - 1 \in Nat /\ j + 1 \in (j + 1)..m /\ j < Past(u)
      BY <1>1, <2>7, <3>1
    <3>3. j < n
      <4> SUFFICES ASSUME j = n PROVE FALSE
        BY <1>1, <3>1
      <4>1. ~(j + 2 \in (j + 1)..m) /\ j + 1 = m
        BY <1>1
      <4>2. E[j][d] = E[m][d]
        BY <2>2, <2>7, <3>1, <4>1, Zenon
      <4>3. E[m][d] \in m..m
        BY <1>1, <2>4
      <4> QED BY <1>1, <4>2, <4>3
    <3>4. CASE Starts(t, j, << "/", "*" >>)
      <4>1. j + 2 \in (j + 1)..m /\ E[j][d] = E[j + 2][d + 1] /\ G[j][d] = G[j + 2][d + 1]
        BY <2>2, <2>3, <2>5, <2>7, <3>1, <3>2, <3>3, <3>4, Zenon
      <4>2. E[j + 2][d + 1] <= n
        BY <4>1
      <4>3. G[j + 2][d + 1] = E[j + 2][d + 1]
        BY <2>1, <3>2, <4>1, <4>2, Zenon
      <4> QED BY <4>1, <4>3
    <3>5. CASE ~Starts(t, j, << "/", "*" >>) /\ Starts(t, j, << "*", "/" >>)
      <4>1. j + 2 \in (j + 1)..m /\ E[j][d] = E[j + 2][d - 1] /\ G[j][d] = G[j + 2][d - 1]
        BY <2>2, <2>3, <2>5, <2>7, <3>1, <3>2, <3>3, <3>5, Zenon
      <4>2. E[j + 2][d - 1] <= n
        BY <4>1
      <4>3. G[j + 2][d - 1] = E[j + 2][d - 1]
        BY <2>1, <3>2, <4>1, <4>2, Zenon
      <4> QED BY <4>1, <4>3
    <3>6. CASE ~Starts(t, j, << "/", "*" >>) /\ ~Starts(t, j, << "*", "/" >>)
      <4>1. E[j][d] = E[j + 1][d] /\ G[j][d] = G[j + 1][d]
        BY <2>2, <2>3, <2>5, <2>7, <3>1, <3>2, <3>3, <3>6, Zenon
      <4>2. E[j + 1][d] <= n
        BY <4>1
      <4>3. G[j + 1][d] = E[j + 1][d]
        BY <2>1, <3>2, <4>2, Zenon
      <4> QED BY <4>1, <4>3
    <3> QED BY <3>4, <3>5, <3>6
  <2> QED BY <2>6, <2>7
<1>3. P = 1..m
  <2>1. P \in SUBSET (1..m)
    OBVIOUS
  <2> HIDE DEF P
  <2> QED BY <1>1, <1>2, <2>1, BackwardInduction
<1> QED BY <1>3

LEMMA BlockCommentFacts ==
    ASSUME NEW t \in Seq(Char), NEW i \in 1..Len(t), Starts(t, i, << "/", "*" >>)
    PROVE  /\ BlockCommentEnd(t, i) \in (i + 1)..Past(t)
           /\ \A ch \in Char :
                 BlockCommentEnd(t, i) <= Len(t) =>
                    BlockCommentEnd(Append(t, ch), i) = BlockCommentEnd(t, i)
<1> DEFINE k == i + 2
<1>1. k \in 1..Past(t) /\ \A x \in k..Past(t) : x \in (i + 1)..Past(t)
  <2>1. Len(t) \in Nat /\ i \in Nat \ {0} /\ Past(t) = Len(t) + 1
    BY DEF Past
  <2>2. i + 1 <= Len(t)
    BY <2>1, StartsPair
  <2> QED BY <2>1, <2>2
<1> HIDE DEF k
<1>2. BlockEnds(t)[k][1] \in k..Past(t)
  BY <1>1, BlockBounds
<1>3. \A ch \in Char : BlockEnds(t)[k][1] <= Len(t) => BlockEnds(Append(t, ch))[k][1] = BlockEnds(t)[k][1]
  BY <1>1, BlockStable
<1> QED BY <1>1, <1>2, <1>3, BlockCommentBy DEF k

\* Quoted strings: the end from j on.
QuotedStep(t, quote, escapes, F, j) ==
    IF j > Len(t) THEN Past(t)
    ELSE IF t[j] = Backslash /\ escapes THEN F[j + 2]
    ELSE IF t[j] # quote THEN F[j + 1]
    ELSE IF At(t, j + 1, quote) THEN F[j + 2]
    ELSE j + 1

QuotedEnds(t, quote, escapes) ==
    CHOOSE F : F = [j \in 1..(Past(t) + 1) |-> QuotedStep(t, quote, escapes, F, j)]

LEMMA QuotedEndsExist ==
    ASSUME NEW t \in Seq(Char), NEW quote, NEW escapes
    PROVE  \A j \in 1..(Past(t) + 1) :
              QuotedEnds(t, quote, escapes)[j] = QuotedStep(t, quote, escapes, QuotedEnds(t, quote, escapes), j)
<1> DEFINE n == Len(t)
           m == Past(t) + 1
           V == 1..Past(t)
           S == [1..m -> V]
           step == [x \in (1..m) \X S |-> QuotedStep(t, quote, escapes, x[2], x[1])]
<1>1. n \in Nat /\ m = n + 2 /\ m \in Nat /\ Past(t) = n + 1
  BY DEF Past
<1> HIDE DEF m, n
<1>2. \A j \in 1..m : j <= n => j + 1 \in (j + 1)..m /\ j + 2 \in (j + 1)..m /\ j + 1 \in 1..Past(t)
  BY <1>1
<1>3. \A F \in S, j \in 1..m : QuotedStep(t, quote, escapes, F, j) \in V
  <2> TAKE F \in S, j \in 1..m
  <2>1. \A k \in (j + 1)..m : F[k] \in V
    <3>1. \A k \in (j + 1)..m : k \in 1..m
      OBVIOUS
    <3> QED BY <3>1
  <2>2. CASE j > n
    BY <1>1, <2>2 DEF QuotedStep, n
  <2>3. CASE ~(j > n)
    <3>1. F[j + 1] \in V /\ F[j + 2] \in V /\ j + 1 \in V
      <4>1. j <= n
        BY <1>1, <2>3
      <4> QED BY <1>2, <2>1, <4>1
    <3> QED BY <2>3, <3>1 DEF QuotedStep, n
  <2> QED BY <2>2, <2>3
<1>4. step \in [(1..m) \X S -> V]
  <2>1. \A x \in (1..m) \X S : x[1] \in 1..m /\ x[2] \in S
    OBVIOUS
  <2> HIDE DEF S, V
  <2> QED BY <1>3, <2>1
<1>5. \A j \in 1..m, F \in S : step[<< j, F >>] = QuotedStep(t, quote, escapes, F, j)
  <2> HIDE DEF S
  <2> QED OBVIOUS
<1> HIDE DEF step
<1>6. ASSUME NEW j \in 1..m, NEW F \in S, NEW G \in S, \A k \in (j + 1)..m : F[k] = G[k]
      PROVE  step[<< j, F >>] = step[<< j, G >>]
  <2>1. ~(j > n) => F[j + 1] = G[j + 1] /\ F[j + 2] = G[j + 2]
    <3>1. ~(j > n) => j <= n
      BY <1>1
    <3> QED BY <1>2, <1>6, <3>1, Zenon
  <2>2. QuotedStep(t, quote, escapes, F, j) = QuotedStep(t, quote, escapes, G, j)
    BY <2>1 DEF QuotedStep, n
  <2> QED BY <1>5, <2>2
<1>7. 1 \in V
  BY <1>1
<1>8. PICK F \in S : \A j \in 1..m : F[j] = step[<< j, F >>]
  <2>1. LaterOnly(step, m, V)
    BY <1>6 DEF LaterOnly
  <2>2. step \in [(1..m) \X [1..m -> V] -> V]
    BY <1>4
  <2>3. \E F : IsBackward(F, m, V, step)
    <3> HIDE DEF V, S
    <3> QED BY <1>1, <1>7, <2>1, <2>2, BackwardExists
  <2> QED BY <2>3 DEF IsBackward
<1>9. F = [j \in 1..m |-> QuotedStep(t, quote, escapes, F, j)]
  <2>1. \A j \in 1..m : F[j] = QuotedStep(t, quote, escapes, F, j)
    BY <1>5, <1>8
  <2>2. F = [j \in 1..m |-> F[j]]
    OBVIOUS
  <2> QED BY <2>1, <2>2
<1> DEFINE G == QuotedEnds(t, quote, escapes)
<1>10. G = [j \in 1..m |-> QuotedStep(t, quote, escapes, G, j)]
  BY <1>9 DEF QuotedEnds, m
<1> HIDE DEF G
<1>11. \A j \in 1..m : G[j] = QuotedStep(t, quote, escapes, G, j)
  BY <1>10
<1> QED BY <1>11 DEF G, m

LEMMA QuotedBy ==
    \A t, i, escapes : QuotedEnd(t, i, escapes) = QuotedEnds(t, t[i], escapes)[i + 1]
BY DEF QuotedEnd, QuotedEnds, QuotedStep

\* One step of the way to the end of a quoted string.
LEMMA QuotedStepped ==
    ASSUME NEW t \in Seq(Char), NEW quote, NEW escapes, NEW j \in 1..(Past(t) + 1)
    PROVE  LET E == QuotedEnds(t, quote, escapes)
           IN  /\ j > Len(t) => E[j] = Past(t)
               /\ j <= Len(t) =>
                     IF t[j] = Backslash /\ escapes THEN E[j] = E[j + 2]
                     ELSE IF t[j] # quote THEN E[j] = E[j + 1]
                     ELSE IF At(t, j + 1, quote) THEN E[j] = E[j + 2]
                     ELSE E[j] = j + 1
<1>1. Len(t) \in Nat
  OBVIOUS
<1>2. j <= Len(t) => ~(j > Len(t))
  BY <1>1
<1> QED BY <1>2, QuotedEndsExist DEF QuotedStep

LEMMA QuotedBounds ==
    ASSUME NEW t \in Seq(Char), NEW quote, NEW escapes
    PROVE  /\ \A j \in 1..Past(t) : QuotedEnds(t, quote, escapes)[j] \in j..Past(t)
           /\ \A j \in 1..Len(t) : QuotedEnds(t, quote, escapes)[j] \in (j + 1)..Past(t)
<1> DEFINE E == QuotedEnds(t, quote, escapes)
           n == Len(t)
           m == Past(t) + 1
           P == {j \in 1..m : E[j] <= n + 1 /\ E[j] \in Nat /\ (j <= n + 1 => E[j] >= j) /\ (j <= n => E[j] > j)}
<1>1. n \in Nat /\ m = n + 2 /\ m \in Nat /\ Past(t) = n + 1
  BY DEF Past
<1>2. ASSUME NEW j \in 1..m, \A k \in (j + 1)..m : k \in P PROVE j \in P
  <2>1. \A k \in (j + 1)..m : E[k] <= n + 1 /\ E[k] \in Nat /\ (k <= n + 1 => E[k] >= k)
    BY <1>2
  <2>2. /\ j > n => E[j] = n + 1
        /\ j <= n =>
              IF t[j] = Backslash /\ escapes THEN E[j] = E[j + 2]
              ELSE IF t[j] # quote THEN E[j] = E[j + 1]
              ELSE IF At(t, j + 1, quote) THEN E[j] = E[j + 2]
              ELSE E[j] = j + 1
    BY <1>1, QuotedStepped
  <2>3. E[n + 2] = n + 1
    BY <1>1, QuotedStepped
  <2> HIDE DEF E, P, m, n
  <2>4. CASE j > n
    BY <1>1, <2>2, <2>4 DEF P
  <2>5. CASE j <= n
    <3>1. j + 1 \in (j + 1)..m /\ j + 2 \in (j + 1)..m /\ j + 1 <= n + 1
      BY <1>1, <2>5
    <3>2. E[j + 1] \in Nat /\ E[j + 1] <= n + 1 /\ E[j + 1] >= j + 1
      BY <2>1, <3>1, Zenon
    <3>3. E[j + 2] \in Nat /\ E[j + 2] <= n + 1 /\ (j + 2 <= n + 1 => E[j + 2] >= j + 2)
      BY <2>1, <3>1, Zenon
    <3>4. E[j + 2] > j
      <4>1. CASE j + 2 <= n + 1
        BY <1>1, <3>3, <4>1
      <4>2. CASE ~(j + 2 <= n + 1)
        <5>1. j = n
          BY <1>1, <2>5, <4>2
        <5> QED BY <1>1, <2>3, <5>1
      <4> QED BY <4>1, <4>2
    <3>5. E[j] = E[j + 1] \/ E[j] = E[j + 2] \/ E[j] = j + 1
      BY <2>2, <2>5, Zenon
    <3>6. E[j] \in Nat /\ E[j] <= n + 1 /\ E[j] > j
      BY <1>1, <2>5, <3>2, <3>3, <3>4, <3>5
    <3> QED BY <1>1, <3>6 DEF P
  <2> QED BY <1>1, <2>4, <2>5
<1>3. P = 1..m
  <2>1. P \in SUBSET (1..m)
    OBVIOUS
  <2> HIDE DEF P
  <2> QED BY <1>1, <1>2, <2>1, BackwardInduction
<1>4. \A j \in 1..m : E[j] <= n + 1 /\ E[j] \in Nat /\ (j <= n + 1 => E[j] >= j) /\ (j <= n => E[j] > j)
  BY <1>3
<1> HIDE DEF E, P
<1> QED BY <1>1, <1>4 DEF E, n

\* A string that ends before the text does, ends there in a longer one.
LEMMA QuotedStable ==
    ASSUME NEW t \in Seq(Char), NEW ch \in Char, NEW quote, NEW escapes
    PROVE  \A j \in 1..Past(t) :
              QuotedEnds(t, quote, escapes)[j] <= Len(t) =>
                 QuotedEnds(Append(t, ch), quote, escapes)[j] = QuotedEnds(t, quote, escapes)[j]
<1> DEFINE u == Append(t, ch)
           E == QuotedEnds(t, quote, escapes)
           G == QuotedEnds(u, quote, escapes)
           n == Len(t)
           m == n + 2
           P == {j \in 1..m : E[j] <= n => G[j] = E[j]}
<1>1. /\ n \in Nat /\ m \in Nat /\ Past(t) = n + 1 /\ u \in Seq(Char) /\ Past(u) = n + 2 /\ Len(u) = n + 1
      /\ \A k \in 1..n : u[k] = t[k]
  BY LongerFacts
<1>2. ASSUME NEW j \in 1..m, \A k \in (j + 1)..m : k \in P PROVE j \in P
  <2>1. \A k \in (j + 1)..m : E[k] <= n => G[k] = E[k]
    BY <1>2
  <2> HIDE DEF P, u
  <2>2. /\ j > n => E[j] = n + 1
        /\ j <= n =>
              IF t[j] = Backslash /\ escapes THEN E[j] = E[j + 2]
              ELSE IF t[j] # quote THEN E[j] = E[j + 1]
              ELSE IF At(t, j + 1, quote) THEN E[j] = E[j + 2]
              ELSE E[j] = j + 1
    BY <1>1, QuotedStepped
  <2>3. /\ j <= n + 1 =>
              IF u[j] = Backslash /\ escapes THEN G[j] = G[j + 2]
              ELSE IF u[j] # quote THEN G[j] = G[j + 1]
              ELSE IF At(u, j + 1, quote) THEN G[j] = G[j + 2]
              ELSE G[j] = j + 1
    BY <1>1, QuotedStepped
  <2> HIDE DEF E, G, n
  <2> SUFFICES ASSUME E[j] <= n PROVE G[j] = E[j]
    BY DEF P
  <2>4. j <= n
    BY <1>1, <2>2
  <2>5. u[j] = t[j] /\ j <= n + 1 /\ j + 1 \in (j + 1)..m /\ j + 2 \in (j + 1)..m
    BY <1>1, <2>4
  <2>6. CASE E[j] = E[j + 2] /\ G[j] = G[j + 2]
    BY <2>1, <2>5, <2>6, Zenon
  <2>7. CASE E[j] = E[j + 1] /\ G[j] = G[j + 1]
    BY <2>1, <2>5, <2>7, Zenon
  <2>8. CASE ~(t[j] = Backslash /\ escapes) /\ t[j] = quote
    <3>1. IF At(t, j + 1, quote) THEN E[j] = E[j + 2] ELSE E[j] = j + 1
      BY <2>2, <2>4, <2>8, Zenon
    <3>2. IF At(u, j + 1, quote) THEN G[j] = G[j + 2] ELSE G[j] = j + 1
      BY <2>3, <2>5, <2>8, Zenon
    <3>3. At(t, j + 1, quote) => At(u, j + 1, quote)
      BY <1>1, <2>4 DEF At, n
    <3>4. CASE At(t, j + 1, quote)
      BY <2>6, <3>1, <3>2, <3>3, <3>4
    <3>5. CASE ~At(t, j + 1, quote)
      <4>1. E[j] = j + 1
        BY <3>1, <3>5
      <4>2. j + 1 \in 1..n
        BY <1>1, <2>4, <4>1
      <4>3. u[j + 1] = t[j + 1]
        BY <1>1, <4>2
      <4>4. ~At(u, j + 1, quote)
        BY <1>1, <3>5, <4>2, <4>3 DEF At, n
      <4> QED BY <3>2, <4>1, <4>4
    <3> QED BY <3>4, <3>5
  <2> QED BY <2>2, <2>3, <2>4, <2>5, <2>6, <2>7, <2>8, Zenon
<1>3. P = 1..m
  <2>1. P \in SUBSET (1..m)
    OBVIOUS
  <2> HIDE DEF P
  <2> QED BY <1>1, <1>2, <2>1, BackwardInduction
<1>4. \A j \in 1..m : E[j] <= n => G[j] = E[j]
  BY <1>3
<1>5. \A j \in 1..Past(t) : j \in 1..m
  BY <1>1
<1> HIDE DEF E, G, P, m
<1> QED BY <1>4, <1>5 DEF E, G

LEMMA QuotedFacts ==
    ASSUME NEW t \in Seq(Char), NEW i \in 1..Len(t), NEW escapes
    PROVE  /\ QuotedEnd(t, i, escapes) \in (i + 1)..Past(t)
           /\ \A ch \in Char :
                 QuotedEnd(t, i, escapes) <= Len(t) =>
                    QuotedEnd(Append(t, ch), i, escapes) = QuotedEnd(t, i, escapes)
<1> DEFINE k == i + 1
           E == QuotedEnds(t, t[i], escapes)
<1>1. k \in 1..Past(t) /\ Append(t, t[i])[i] = t[i] /\ \A ch \in Char : Append(t, ch)[i] = t[i]
  <2>1. Len(t) \in Nat /\ Past(t) = Len(t) + 1
    BY DEF Past
  <2> QED BY <2>1
<1> HIDE DEF k
<1>2. E[k] \in k..Past(t)
  BY <1>1, QuotedBounds
<1>3. \A ch \in Char : E[k] <= Len(t) => QuotedEnds(Append(t, ch), t[i], escapes)[k] = E[k]
  BY <1>1, QuotedStable
<1>4. QuotedEnd(t, i, escapes) = E[k]
  BY QuotedBy DEF k
<1>5. ASSUME NEW ch \in Char
      PROVE  QuotedEnd(Append(t, ch), i, escapes) = QuotedEnds(Append(t, ch), t[i], escapes)[k]
  <2>1. Append(t, ch)[i] = t[i]
    BY <1>1
  <2> QED BY <2>1, QuotedBy DEF k
<1> HIDE DEF E
<1> QED BY <1>2, <1>3, <1>4, <1>5 DEF k

\* Dollar quotes.
LEMMA PartLonger ==
    ASSUME NEW t \in Seq(Char), NEW ch \in Char, NEW a \in Nat \ {0}, NEW b \in Nat, b <= Len(t)
    PROVE  SubSeq(Append(t, ch), a, b) = SubSeq(t, a, b)
<1> DEFINE u == Append(t, ch)
<1>1. Len(t) \in Nat /\ u \in Seq(Char) /\ \A k \in 1..Len(t) : u[k] = t[k]
  BY LongerFacts
<1> HIDE DEF u
<1>2. \A k \in 1..(b - a + 1) : a + k - 1 \in 1..Len(t)
  BY <1>1
<1>3. SubSeq(u, a, b) = [k \in 1..(b - a + 1) |-> u[a + k - 1]]
  BY <1>1
<1>4. SubSeq(t, a, b) = [k \in 1..(b - a + 1) |-> t[a + k - 1]]
  OBVIOUS
<1>5. \A k \in 1..(b - a + 1) : u[a + k - 1] = t[a + k - 1]
  BY <1>1, <1>2
<1> QED BY <1>3, <1>4, <1>5 DEF u

\* Where the letters of a tag end.
TagStop(t, i) == Least({Past(t)} \cup {k \in (i + 1)..Len(t) : ~IdentByte(t[k])})

LEMMA TagStopFacts ==
    ASSUME NEW t \in Seq(Char), NEW i \in 1..Len(t)
    PROVE  /\ TagStop(t, i) \in (i + 1)..Past(t)
           /\ TagStop(t, i) <= Len(t) => ~IdentByte(t[TagStop(t, i)])
           /\ \A k \in (i + 1)..Len(t) : ~IdentByte(t[k]) => TagStop(t, i) <= k
           /\ \A j \in (i + 1)..Len(t) :
                 (~IdentByte(t[j]) /\ \A k \in (i + 1)..(j - 1) : IdentByte(t[k])) => TagStop(t, i) = j
<1> DEFINE n == Len(t)
           S == {Past(t)} \cup {k \in (i + 1)..Len(t) : ~IdentByte(t[k])}
<1>1. n \in Nat /\ Past(t) = n + 1
  BY DEF Past
<1>2. S \in SUBSET Nat /\ Past(t) \in S /\ \A k \in S : k \in (i + 1)..Past(t)
  BY <1>1
<1>3. TagStop(t, i) \in S /\ \A k \in S : TagStop(t, i) <= k
  <2>1. S # {}
    BY <1>2
  <2> HIDE DEF S
  <2> QED BY <1>2, <2>1, LeastFacts DEF TagStop, S
<1>4. ASSUME NEW j \in (i + 1)..n, ~IdentByte(t[j]), \A k \in (i + 1)..(j - 1) : IdentByte(t[k])
      PROVE  TagStop(t, i) = j
  <2>1. j \in S
    BY <1>4
  <2>2. \A k \in S : j <= k
    BY <1>1, <1>4
  <2>3. Least(S) = j
    <3> HIDE DEF S
    <3> QED BY <1>2, <2>1, <2>2, LeastIs
  <2> QED BY <2>3 DEF TagStop
<1>5. TagStop(t, i) <= n => ~IdentByte(t[TagStop(t, i)])
  <2> DEFINE x == TagStop(t, i)
  <2>1. x \in S
    BY <1>3
  <2> HIDE DEF x
  <2>2. x <= n => ~IdentByte(t[x])
    BY <1>1, <2>1
  <2> QED BY <2>2 DEF x
<1> QED BY <1>2, <1>3, <1>4, <1>5

LEMMA TagEndBy ==
    \A t, i : DollarTagEnd(t, i) =
                 IF At(t, i + 1, "1") \/ ~At(t, TagStop(t, i), "$") THEN 0 ELSE TagStop(t, i) + 1
BY DEF DollarTagEnd, TagStop

LEMMA TagEndFacts ==
    ASSUME NEW t \in Seq(Char), NEW i \in 1..Len(t), DollarTagEnd(t, i) # 0
    PROVE  DollarTagEnd(t, i) \in (i + 2)..Past(t)
<1> DEFINE j == TagStop(t, i)
<1>1. Len(t) \in Nat /\ Past(t) = Len(t) + 1
  BY DEF Past
<1>2. j \in (i + 1)..Past(t)
  BY TagStopFacts
<1>3. DollarTagEnd(t, i) = j + 1 /\ At(t, j, "$")
  BY TagEndBy
<1> HIDE DEF j
<1>4. j <= Len(t)
  BY <1>3 DEF At
<1> QED BY <1>1, <1>2, <1>3, <1>4

\* What no tag goes over.
Stops(c) == ~IdentByte(c) /\ c # "$"

\* A tag is one before a semicolon in a longer text as well.
LEMMA TagEndStable ==
    ASSUME NEW t \in Seq(Char), NEW ch \in Char, NEW i \in 1..Len(t),
           NEW s \in (i + 1)..Len(t), Stops(t[s])
    PROVE  /\ DollarTagEnd(Append(t, ch), i) = DollarTagEnd(t, i)
           /\ DollarTagEnd(t, i) <= s
<1> DEFINE u == Append(t, ch)
           n == Len(t)
           j == TagStop(t, i)
<1>1. /\ n \in Nat /\ u \in Seq(Char) /\ Len(u) = n + 1 /\ \A k \in 1..n : u[k] = t[k]
      /\ Past(t) = n + 1
  BY LongerFacts
<1> HIDE DEF u
<1>2. ~IdentByte(t[s])
  BY DEF Stops
<1>3. j \in (i + 1)..s /\ ~IdentByte(t[j]) /\ \A k \in (i + 1)..(j - 1) : IdentByte(t[k])
  <2>1. j \in (i + 1)..Past(t) /\ j <= s
    BY <1>2, TagStopFacts
  <2>2. j <= n => ~IdentByte(t[j])
    BY TagStopFacts
  <2>3. \A k \in (i + 1)..n : ~IdentByte(t[k]) => j <= k
    BY TagStopFacts
  <2> HIDE DEF j
  <2>4. j \in (i + 1)..s /\ j <= n
    BY <1>1, <2>1
  <2>5. ASSUME NEW k \in (i + 1)..(j - 1) PROVE IdentByte(t[k])
    <3>1. k \in (i + 1)..n /\ ~(j <= k)
      BY <1>1, <2>4
    <3> QED BY <2>3, <3>1
  <2> QED BY <2>2, <2>4, <2>5
<1> HIDE DEF j
<1>4. j \in 1..n /\ i + 1 \in 1..n /\ i \in 1..Len(u) /\ j \in (i + 1)..Len(u)
  BY <1>1, <1>3
<1>5. ~IdentByte(u[j]) /\ \A k \in (i + 1)..(j - 1) : IdentByte(u[k])
  <2>1. \A k \in (i + 1)..(j - 1) : k \in 1..n
    BY <1>1, <1>4
  <2> QED BY <1>1, <1>3, <1>4, <2>1
<1>6. TagStop(u, i) = j
  BY <1>1, <1>4, <1>5, TagStopFacts
<1>7. \A k \in 1..n : \A c : At(u, k, c) <=> At(t, k, c)
  BY <1>1 DEF At
<1>8. DollarTagEnd(u, i) = DollarTagEnd(t, i)
  BY <1>4, <1>6, <1>7, TagEndBy DEF j
<1>9. DollarTagEnd(t, i) <= s
  <2>1. CASE DollarTagEnd(t, i) = 0
    BY <2>1
  <2>2. CASE DollarTagEnd(t, i) # 0
    <3>1. DollarTagEnd(t, i) = j + 1 /\ At(t, j, "$")
      BY <2>2, TagEndBy DEF j
    <3>2. j # s
      BY <3>1 DEF At, Stops
    <3> QED BY <1>3, <3>1, <3>2
  <2> QED BY <2>1, <2>2
<1> QED BY <1>8, <1>9 DEF u

LEMMA ClosingsFacts ==
    ASSUME NEW t \in Seq(Char), NEW i \in 1..Len(t), NEW tag_end \in (i + 1)..Past(t)
    PROVE  /\ Closings(t, i, tag_end) \in SUBSET Nat
           /\ \A j : j \in Closings(t, i, tag_end) <=>
                 /\ j \in tag_end..Len(t)
                 /\ j + (tag_end - i) <= Past(t)
                 /\ SubSeq(t, j, j + (tag_end - i) - 1) = SubSeq(t, i, tag_end - 1)
<1> DEFINE word == SubSeq(t, i, tag_end - 1)
<1>1. Len(t) \in Nat /\ i \in Nat \ {0} /\ tag_end \in Nat /\ Past(t) = Len(t) + 1
  BY DEF Past
<1>2. Len(word) = tag_end - i
  <2>1. word = [k \in 1..(tag_end - 1 - i + 1) |-> t[i + k - 1]]
    BY <1>1
  <2>2. tag_end - 1 - i + 1 = tag_end - i /\ tag_end - i \in Nat
    BY <1>1
  <2> QED BY <2>1, <2>2
<1>3. Closings(t, i, tag_end) = {j \in tag_end..Len(t) : Starts(t, j, word)}
  BY DEF Closings
<1> HIDE DEF word
<1>4. ASSUME NEW j \in tag_end..Len(t)
      PROVE  Starts(t, j, word) <=>
                j + (tag_end - i) <= Past(t) /\ SubSeq(t, j, j + (tag_end - i) - 1) = word
  <2>1. Starts(t, j, word) <=>
           j + Len(word) <= Past(t) /\ SubSeq(t, j, j + Len(word) - 1) = word
    BY DEF Starts
  <2> QED BY <1>2, <2>1
<1>5. Closings(t, i, tag_end) \in SUBSET Nat
  BY <1>1, <1>3
<1>6. \A j : j \in Closings(t, i, tag_end) <=> j \in tag_end..Len(t) /\ Starts(t, j, word)
  BY <1>3
<1>7. \A j : j \in Closings(t, i, tag_end) <=>
                 /\ j \in tag_end..Len(t)
                 /\ j + (tag_end - i) <= Past(t)
                 /\ SubSeq(t, j, j + (tag_end - i) - 1) = word
  BY <1>4, <1>6, Zenon
<1> QED BY <1>5, <1>7 DEF word

\* A body that ends at a semicolon or before ends there in a longer text.
LEMMA DollarFacts ==
    ASSUME NEW t \in Seq(Char), NEW i \in 1..Len(t)
    PROVE  /\ DollarEnd(t, i) \in (i + 1)..Past(t)
           /\ \A ch \in Char : \A s \in (i + 1)..Len(t) :
                 Stops(t[s]) /\ DollarEnd(t, i) <= s => DollarEnd(Append(t, ch), i) = DollarEnd(t, i)
<1> DEFINE n == Len(t)
           e == DollarTagEnd(t, i)
           C == Closings(t, i, e)
<1>1. n \in Nat /\ Past(t) = n + 1 /\ i \in Nat \ {0}
  BY DEF Past
<1>2. DollarEnd(t, i) = IF e = 0 THEN i + 1 ELSE IF C = {} THEN n + 1 ELSE Least(C) + (e - i)
  BY <1>1 DEF DollarEnd
<1>3. e # 0 => e \in (i + 2)..(n + 1)
  BY <1>1, TagEndFacts
<1>4. e # 0 => /\ C \in SUBSET Nat
               /\ \A j : j \in C <=> /\ j \in e..n
                                     /\ j + (e - i) <= n + 1
                                     /\ SubSeq(t, j, j + (e - i) - 1) = SubSeq(t, i, e - 1)
  <2>1. e # 0 => e \in (i + 1)..Past(t)
    BY <1>1, <1>3
  <2> HIDE DEF e
  <2> QED BY <1>1, <2>1, ClosingsFacts
<1>5. e # 0 /\ C # {} => Least(C) \in C /\ \A j \in C : Least(C) <= j
  <2> HIDE DEF C
  <2> QED BY <1>4, LeastFacts
<1>6. ASSUME NEW ch \in Char, NEW s \in (i + 1)..n, Stops(t[s]), DollarEnd(t, i) <= s
      PROVE  DollarEnd(Append(t, ch), i) = DollarEnd(t, i)
  <2> DEFINE u == Append(t, ch)
             D == Closings(u, i, e)
             c == Least(C)
             w == e - i
  <2>1. u \in Seq(Char) /\ Len(u) = n + 1 /\ Past(u) = n + 2
    BY LongerFacts
  <2>2. DollarTagEnd(u, i) = e
    BY <1>6, TagEndStable
  <2>3. \A a \in Nat \ {0}, b \in Nat : b <= n => SubSeq(u, a, b) = SubSeq(t, a, b)
    BY PartLonger
  <2> HIDE DEF u, e
  <2>4. DollarEnd(u, i) = IF e = 0 THEN i + 1 ELSE IF D = {} THEN n + 2 ELSE Least(D) + (e - i)
    BY <2>1, <2>2 DEF DollarEnd
  <2>5. CASE e = 0
    BY <1>2, <2>4, <2>5 DEF u
  <2>6. CASE e # 0
    <3>1. e \in Nat /\ w \in Nat \ {0} /\ e \in (i + 1)..Past(u) /\ i \in 1..Len(u) /\ e - 1 \in Nat /\ e - 1 <= n
      BY <1>1, <1>3, <2>1, <2>6
    <3>2. D \in SUBSET Nat
          /\ \A j : j \in D <=> /\ j \in e..(n + 1)
                                /\ j + w <= n + 2
                                /\ SubSeq(u, j, j + w - 1) = SubSeq(u, i, e - 1)
      BY <2>1, <3>1, ClosingsFacts
    <3>3. /\ C \in SUBSET Nat
          /\ \A j : j \in C <=> /\ j \in e..n
                                /\ j + w <= n + 1
                                /\ SubSeq(t, j, j + w - 1) = SubSeq(t, i, e - 1)
      BY <1>4, <2>6
    <3>4. C # {}
      BY <1>1, <1>2, <1>6, <2>6
    <3>5. c \in C /\ (\A j \in C : c <= j) /\ c + w <= s
      BY <1>2, <1>5, <1>6, <2>6, <3>4
    <3> HIDE DEF C, D, c, w
    <3>6. SubSeq(u, i, e - 1) = SubSeq(t, i, e - 1)
      BY <1>1, <2>3, <3>1
    <3>7. ASSUME NEW j \in e..n, j + w <= n + 1 PROVE j \in D <=> j \in C
      <4>1. j \in Nat \ {0} /\ j + w - 1 \in Nat /\ j + w - 1 <= n /\ j \in e..(n + 1) /\ j + w <= n + 2
        BY <1>1, <3>1, <3>7
      <4>2. SubSeq(u, j, j + w - 1) = SubSeq(t, j, j + w - 1)
        BY <2>3, <4>1
      <4> QED BY <3>2, <3>3, <3>6, <3>7, <4>1, <4>2
    <3>8. c \in e..n /\ c + w <= n + 1
      BY <3>3, <3>5
    <3>9. c \in D
      BY <3>5, <3>7, <3>8
    <3>10. ASSUME NEW j \in D PROVE c <= j
      <4> SUFFICES ASSUME j < c PROVE FALSE
        BY <3>2, <3>3, <3>5
      <4>1. j \in e..(n + 1) /\ c \in Nat /\ j \in Nat
        BY <3>2, <3>8
      <4>2. j \in e..n /\ j + w <= n + 1
        BY <1>1, <3>1, <3>8, <4>1
      <4> QED BY <3>5, <3>7, <4>1, <4>2
    <3>11. Least(D) = c
      BY <3>2, <3>9, <3>10, LeastIs
    <3> QED BY <1>2, <2>4, <2>6, <3>4, <3>9, <3>11 DEF c, w, u
  <2> QED BY <2>5, <2>6 DEF u
<1>7. DollarEnd(t, i) \in (i + 1)..(n + 1)
  <2> HIDE DEF e
  <2>1. CASE e = 0
    BY <1>1, <1>2, <2>1
  <2>2. CASE e # 0 /\ C = {}
    BY <1>1, <1>2, <2>2
  <2>3. CASE e # 0 /\ C # {}
    <3>1. Least(C) \in e..n /\ Least(C) + (e - i) <= n + 1
      BY <1>4, <1>5, <2>3
    <3>2. DollarEnd(t, i) = Least(C) + (e - i)
      BY <1>2, <2>3
    <3> HIDE DEF C
    <3>3. e \in (i + 2)..(n + 1)
      BY <1>3, <2>3
    <3> QED BY <1>1, <3>1, <3>2, <3>3
  <2> QED BY <2>1, <2>2, <2>3
<1> QED BY <1>1, <1>6, <1>7

Semicolon(c) == c = ";"

Piece(kind, from, to) == [kind |-> kind, from |-> from, to |-> to]

\* Constructs, case by case.
LEMMA ConstructCases ==
    ASSUME NEW t \in Seq(Char), NEW i \in 1..Len(t)
    PROVE  /\ Starts(t, i, << "-", "-" >>) => Construct(t, i) = Piece("comment", i, LineCommentEnd(t, i))
           /\ Starts(t, i, << "/", "*" >>) => Construct(t, i) = Piece("comment", i, BlockCommentEnd(t, i))
           /\ Semicolon(t[i]) => Construct(t, i) = Piece("semicolon", i, i + 1)
           /\ AsciiWhitespace(t[i]) => Construct(t, i) = Piece("space", i, i + 1)
           /\ t[i] = "'" => Construct(t, i) = Piece("content", i, QuotedEnd(t, i, EString(t, i)))
           /\ t[i] = DoubleQuote => Construct(t, i) = Piece("content", i, QuotedEnd(t, i, FALSE))
           /\ t[i] = "$" => Construct(t, i) = Piece("content", i, DollarEnd(t, i))
           /\ \/ Starts(t, i, << "-", "-" >>)
              \/ Starts(t, i, << "/", "*" >>)
              \/ Semicolon(t[i])
              \/ AsciiWhitespace(t[i])
              \/ t[i] = "'"
              \/ t[i] = DoubleQuote
              \/ t[i] = "$"
              \/ Construct(t, i) = Piece("content", i, i + 1)
<1> DEFINE A == Starts(t, i, << "-", "-" >>)
           B == Starts(t, i, << "/", "*" >>)
           is(kind, end) == [kind |-> kind, from |-> i, to |-> end]
<1>1. i \in Nat \ {0}
  OBVIOUS
<1>2. A => t[i] = "-"
  BY <1>1, StartsPair
<1>3. B => t[i] = "/"
  BY <1>1, StartsPair
<1>4. Construct(t, i) =
         CASE A -> is("comment", LineCommentEnd(t, i))
           [] B -> is("comment", BlockCommentEnd(t, i))
           [] t[i] = ";" -> is("semicolon", i + 1)
           [] AsciiWhitespace(t[i]) -> is("space", i + 1)
           [] t[i] = "'" -> is("content", QuotedEnd(t, i, EString(t, i)))
           [] t[i] = DoubleQuote -> is("content", QuotedEnd(t, i, FALSE))
           [] t[i] = "$" -> is("content", DollarEnd(t, i))
           [] OTHER -> is("content", i + 1)
  BY Zenon DEF Construct
<1> HIDE DEF A, B
<1>5. AsciiWhitespace(t[i]) => t[i] = " " \/ t[i] = Newline
  BY DEF AsciiWhitespace
<1>6. A => Construct(t, i) = is("comment", LineCommentEnd(t, i))
  BY <1>2, <1>3, <1>4, <1>5, Zenon DEF Newline, DoubleQuote
<1>7. B => Construct(t, i) = is("comment", BlockCommentEnd(t, i))
  BY <1>2, <1>3, <1>4, <1>5, Zenon DEF Newline, DoubleQuote
<1>8. t[i] = ";" => Construct(t, i) = is("semicolon", i + 1)
  BY <1>2, <1>3, <1>4, <1>5, Zenon DEF Newline, DoubleQuote
<1>9. AsciiWhitespace(t[i]) => Construct(t, i) = is("space", i + 1)
  BY <1>2, <1>3, <1>4, <1>5, Zenon DEF Newline, DoubleQuote
<1>10. t[i] = "'" => Construct(t, i) = is("content", QuotedEnd(t, i, EString(t, i)))
  BY <1>2, <1>3, <1>4, <1>5, Zenon DEF Newline, DoubleQuote
<1>11. t[i] = DoubleQuote => Construct(t, i) = is("content", QuotedEnd(t, i, FALSE))
  BY <1>2, <1>3, <1>4, <1>5, Zenon DEF Newline, DoubleQuote
<1>12. t[i] = "$" => Construct(t, i) = is("content", DollarEnd(t, i))
  BY <1>2, <1>3, <1>4, <1>5, Zenon DEF Newline, DoubleQuote
<1>13. \/ A \/ B \/ t[i] = ";" \/ AsciiWhitespace(t[i]) \/ t[i] = "'" \/ t[i] = DoubleQuote \/ t[i] = "$"
       \/ Construct(t, i) = is("content", i + 1)
  BY <1>4, Zenon
<1> QED BY <1>6, <1>7, <1>8, <1>9, <1>10, <1>11, <1>12, <1>13, Zenon DEF A, B, Semicolon, Piece

LEMMA CharactersApart ==
    ASSUME NEW c
    PROVE  /\ Semicolon(c) => Stops(c) /\ c # Newline
           /\ c = "-" => c # Newline /\ ~Semicolon(c)
           /\ c = "/" => ~Semicolon(c)
           /\ AsciiWhitespace(c) => ~Semicolon(c)
           /\ c \in {"'", "$", DoubleQuote} => ~Semicolon(c)
BY Zenon DEF Semicolon, Stops, IdentByte, Newline, DoubleQuote, AsciiWhitespace

LEMMA PieceFields ==
    \A kind, from, to :
        /\ Piece(kind, from, to).kind = kind
        /\ Piece(kind, from, to).from = from
        /\ Piece(kind, from, to).to = to
BY DEF Piece

Pieces(n) == [kind : {"comment", "semicolon", "space", "content"}, from : 1..n, to : 1..(n + 1)]

LEMMA ConstructFacts ==
    ASSUME NEW t \in Seq(Char), NEW i \in 1..Len(t)
    PROVE  /\ Construct(t, i).from = i
           /\ Construct(t, i).to \in (i + 1)..Past(t)
           /\ Construct(t, i) \in Pieces(Len(t))
           /\ Construct(t, i).kind = "semicolon" => Semicolon(t[i])
<1> DEFINE A == Starts(t, i, << "-", "-" >>)
           B == Starts(t, i, << "/", "*" >>)
           n == Len(t)
           c == Construct(t, i)
           Good(x) == /\ x.from = i
                      /\ x.to \in (i + 1)..Past(t)
                      /\ x \in Pieces(n)
                      /\ x.kind = "semicolon" => Semicolon(t[i])
<1>1. n \in Nat /\ i \in Nat \ {0} /\ Past(t) = n + 1
  BY DEF Past
<1>2. ASSUME NEW end \in (i + 1)..(n + 1), NEW kind \in {"comment", "space", "content"}
      PROVE  Good(Piece(kind, i, end))
  <2>1. kind # "semicolon"
    OBVIOUS
  <2>2. Piece(kind, i, end) \in Pieces(n)
    BY <1>1 DEF Piece, Pieces
  <2> QED BY <1>1, <2>1, <2>2, PieceFields
<1>3. i + 1 \in (i + 1)..(n + 1)
  BY <1>1
<1>4. Semicolon(t[i]) => Good(Piece("semicolon", i, i + 1))
  <2>1. Piece("semicolon", i, i + 1) \in Pieces(n)
    BY <1>1 DEF Piece, Pieces
  <2> QED BY <1>1, <2>1, PieceFields
<1>5. A => LineCommentEnd(t, i) \in (i + 1)..(n + 1)
  <2> SUFFICES ASSUME A PROVE LineCommentEnd(t, i) \in (i + 1)..(n + 1)
    OBVIOUS
  <2>1. t[i] = "-"
    BY <1>1, StartsPair
  <2>2. t[i] # Newline
    BY <2>1, CharactersApart
  <2> QED BY <1>1, <2>2, LineCommentFacts
<1>6. B => BlockCommentEnd(t, i) \in (i + 1)..(n + 1)
  BY <1>1, BlockCommentFacts
<1>7. \A escapes : QuotedEnd(t, i, escapes) \in (i + 1)..(n + 1)
  BY <1>1, QuotedFacts
<1>8. DollarEnd(t, i) \in (i + 1)..(n + 1)
  BY <1>1, DollarFacts
<1> HIDE DEF Good, n
<1>9. Good(c)
  <2>1. CASE A
    BY <1>2, <1>5, <2>1, ConstructCases
  <2>2. CASE B
    BY <1>2, <1>6, <2>2, ConstructCases
  <2>3. CASE Semicolon(t[i])
    BY <1>4, <2>3, ConstructCases
  <2>4. CASE AsciiWhitespace(t[i])
    BY <1>2, <1>3, <2>4, ConstructCases
  <2>5. CASE t[i] = "'"
    <3>1. c = Piece("content", i, QuotedEnd(t, i, EString(t, i)))
      BY <2>5, ConstructCases
    <3>2. QuotedEnd(t, i, EString(t, i)) \in (i + 1)..(n + 1)
      BY <1>7
    <3> QED BY <1>2, <3>1, <3>2
  <2>6. CASE t[i] = DoubleQuote
    <3>1. c = Piece("content", i, QuotedEnd(t, i, FALSE))
      BY <2>6, ConstructCases
    <3>2. QuotedEnd(t, i, FALSE) \in (i + 1)..(n + 1)
      BY <1>7
    <3> QED BY <1>2, <3>1, <3>2
  <2>7. CASE t[i] = "$"
    BY <1>2, <1>8, <2>7, ConstructCases
  <2>8. CASE c = Piece("content", i, i + 1)
    BY <1>2, <1>3, <2>8
  <2> QED BY <2>1, <2>2, <2>3, <2>4, <2>5, <2>6, <2>7, <2>8, ConstructCases
<1> QED BY <1>9 DEF Good, n

\* A construct that ends before a semicolon's place, or is one, is in a longer text.
LEMMA ConstructStable ==
    ASSUME NEW t \in Seq(Char), NEW ch \in Char, NEW i \in 1..Len(t),
           NEW s \in i..Len(t), Semicolon(t[s]),
           Construct(t, i).kind = "semicolon" \/ Construct(t, i).to <= s
    PROVE  Construct(Append(t, ch), i) = Construct(t, i)
<1> DEFINE A(v) == Starts(v, i, << "-", "-" >>)
           B(v) == Starts(v, i, << "/", "*" >>)
           u == Append(t, ch)
           n == Len(t)
           c == Construct(t, i)
<1>1. /\ n \in Nat /\ i \in Nat \ {0} /\ Past(t) = n + 1 /\ u \in Seq(Char) /\ Len(u) = n + 1
      /\ \A k \in 1..n : u[k] = t[k]
  BY LongerFacts
<1>2. u[i] = t[i] /\ i \in 1..Len(u)
  BY <1>1
<1> HIDE DEF u
<1>3. CASE c.kind = "semicolon"
  <2>1. Semicolon(t[i]) /\ Semicolon(u[i])
    BY <1>2, <1>3, ConstructFacts
  <2>2. Construct(t, i) = Piece("semicolon", i, i + 1)
    BY <2>1, ConstructCases
  <2>3. Construct(u, i) = Piece("semicolon", i, i + 1)
    BY <1>1, <1>2, <2>1, ConstructCases
  <2> QED BY <2>2, <2>3 DEF u
<1>4. CASE c.to <= s
  <2>1. c.to \in (i + 1)..(n + 1)
    BY <1>1, ConstructFacts
  <2> HIDE DEF c
  <2>2. s \in (i + 1)..n /\ i \in 1..(n - 1) /\ s <= n
    BY <1>1, <1>4, <2>1
  <2>3. A(u) <=> A(t)
    BY <2>2, StartsLonger DEF u
  <2>4. B(u) <=> B(t)
    BY <2>2, StartsLonger DEF u
  <2>5. EString(u, i) <=> EString(t, i)
    <3>1. i > 1 => i - 1 \in 1..n
      BY <1>1
    <3>2. i > 2 => i - 2 \in 1..n
      BY <1>1
    <3>3. i > 1 => u[i - 1] = t[i - 1]
      BY <1>1, <3>1
    <3>4. i > 2 => u[i - 2] = t[i - 2]
      BY <1>1, <3>2
    <3>5. EString(u, i) <=> i > 1 /\ u[i - 1] = "e" /\ (i > 2 => ~EndsIdent(u[i - 2]))
      BY DEF EString
    <3>6. EString(t, i) <=> i > 1 /\ t[i - 1] = "e" /\ (i > 2 => ~EndsIdent(t[i - 2]))
      BY DEF EString
    <3> QED BY <3>3, <3>4, <3>5, <3>6, Zenon
  <2>6. EString(u, i) = EString(t, i)
    <3>1. EString(u, i) \in BOOLEAN /\ EString(t, i) \in BOOLEAN
      BY DEF EString
    <3> QED BY <2>5, <3>1
  <2>7. CASE A(t)
    <3>1. c = Piece("comment", i, LineCommentEnd(t, i))
      BY <2>7, ConstructCases DEF c
    <3>2. Construct(u, i) = Piece("comment", i, LineCommentEnd(u, i))
      BY <1>1, <1>2, <2>3, <2>7, ConstructCases
    <3>3. t[i] = "-"
      BY <1>1, <2>7, StartsPair
    <3>4. t[i] # Newline
      BY <3>3, CharactersApart
    <3>5. LineCommentEnd(t, i) <= s /\ LineCommentEnd(t, i) \in (i + 1)..(n + 1)
      BY <1>1, <1>4, <3>1, <3>4, PieceFields, LineCommentFacts
    <3>6. LineCommentEnd(t, i) <= Len(t)
      BY <1>1, <2>2, <3>5
    <3>7. LineCommentEnd(u, i) = LineCommentEnd(t, i)
      BY <3>4, <3>6, LineCommentFacts DEF u
    <3> QED BY <3>1, <3>2, <3>7 DEF u, c
  <2>8. CASE B(t)
    <3>1. c = Piece("comment", i, BlockCommentEnd(t, i))
      BY <2>8, ConstructCases DEF c
    <3>2. Construct(u, i) = Piece("comment", i, BlockCommentEnd(u, i))
      BY <1>1, <1>2, <2>4, <2>8, ConstructCases
    <3>3. BlockCommentEnd(t, i) <= s /\ BlockCommentEnd(t, i) \in (i + 1)..(n + 1)
      BY <1>1, <1>4, <2>8, <3>1, PieceFields, BlockCommentFacts
    <3>4. BlockCommentEnd(t, i) <= Len(t)
      BY <1>1, <2>2, <3>3
    <3>5. BlockCommentEnd(u, i) = BlockCommentEnd(t, i)
      BY <2>8, <3>4, BlockCommentFacts DEF u
    <3> QED BY <3>1, <3>2, <3>5 DEF u, c
  <2>9. CASE Semicolon(t[i])
    <3>1. c = Piece("semicolon", i, i + 1)
      BY <2>9, ConstructCases DEF c
    <3>2. Construct(u, i) = Piece("semicolon", i, i + 1)
      BY <1>1, <1>2, <2>9, ConstructCases
    <3> QED BY <3>1, <3>2 DEF u, c
  <2>10. CASE AsciiWhitespace(t[i])
    <3>1. c = Piece("space", i, i + 1)
      BY <2>10, ConstructCases DEF c
    <3>2. Construct(u, i) = Piece("space", i, i + 1)
      BY <1>1, <1>2, <2>10, ConstructCases
    <3> QED BY <3>1, <3>2 DEF u, c
  <2>11. ASSUME NEW escapes, c = Piece("content", i, QuotedEnd(t, i, escapes))
         PROVE  QuotedEnd(u, i, escapes) = QuotedEnd(t, i, escapes)
    <3>1. QuotedEnd(t, i, escapes) <= s /\ QuotedEnd(t, i, escapes) \in (i + 1)..(n + 1)
      BY <1>1, <1>4, <2>11, PieceFields, QuotedFacts
    <3>2. QuotedEnd(t, i, escapes) <= Len(t)
      BY <1>1, <2>2, <3>1
    <3> QED BY <3>2, QuotedFacts DEF u
  <2>12. CASE t[i] = "'"
    <3>1. c = Piece("content", i, QuotedEnd(t, i, EString(t, i)))
      BY <2>12, ConstructCases DEF c
    <3>2. Construct(u, i) = Piece("content", i, QuotedEnd(u, i, EString(u, i)))
      BY <1>1, <1>2, <2>12, ConstructCases
    <3>3. QuotedEnd(u, i, EString(t, i)) = QuotedEnd(t, i, EString(t, i))
      BY <2>11, <3>1
    <3> QED BY <2>6, <3>1, <3>2, <3>3 DEF u, c
  <2>13. CASE t[i] = DoubleQuote
    <3>1. c = Piece("content", i, QuotedEnd(t, i, FALSE))
      BY <2>13, ConstructCases DEF c
    <3>2. Construct(u, i) = Piece("content", i, QuotedEnd(u, i, FALSE))
      BY <1>1, <1>2, <2>13, ConstructCases
    <3>3. QuotedEnd(u, i, FALSE) = QuotedEnd(t, i, FALSE)
      BY <2>11, <3>1
    <3> QED BY <3>1, <3>2, <3>3 DEF u, c
  <2>14. CASE t[i] = "$"
    <3>1. c = Piece("content", i, DollarEnd(t, i))
      BY <2>14, ConstructCases DEF c
    <3>2. Construct(u, i) = Piece("content", i, DollarEnd(u, i))
      BY <1>1, <1>2, <2>14, ConstructCases
    <3>3. DollarEnd(t, i) <= s
      BY <1>4, <3>1, PieceFields
    <3>4. Stops(t[s])
      BY CharactersApart
    <3>5. DollarEnd(u, i) = DollarEnd(t, i)
      BY <2>2, <3>3, <3>4, DollarFacts DEF u
    <3> QED BY <3>1, <3>2, <3>5 DEF u, c
  <2>15. CASE ~(\/ A(t) \/ B(t) \/ Semicolon(t[i]) \/ AsciiWhitespace(t[i])
                \/ t[i] = "'" \/ t[i] = DoubleQuote \/ t[i] = "$")
    <3>1. c = Piece("content", i, i + 1)
      BY <2>15, ConstructCases DEF c
    <3>2. Construct(u, i) = Piece("content", i, i + 1)
      BY <1>1, <1>2, <2>3, <2>4, <2>15, ConstructCases
    <3> QED BY <3>1, <3>2 DEF u, c
  <2> QED BY <2>7, <2>8, <2>9, <2>10, <2>12, <2>13, <2>14, <2>15
<1> QED BY <1>3, <1>4

\* The constructs from i on.
LexStep(t, R, i) ==
    IF i > Len(t) THEN << >> ELSE << Construct(t, i) >> \o R[Construct(t, i).to]

Rest(t) == CHOOSE R : R = [i \in 1..Past(t) |-> LexStep(t, R, i)]

LEMMA ConsFacts ==
    ASSUME NEW S, NEW c \in S, NEW seq \in Seq(S)
    PROVE  /\ << c >> \o seq \in Seq(S)
           /\ Len(<< c >> \o seq) = Len(seq) + 1
           /\ (<< c >> \o seq)[1] = c
           /\ \A k \in 2..(Len(seq) + 1) : (<< c >> \o seq)[k] = seq[k - 1] /\ k - 1 \in 1..Len(seq)
           /\ \A k \in 1..Len(seq) : (<< c >> \o seq)[k + 1] = seq[k]
<1> DEFINE all == << c >> \o seq
<1>1. << c >> \in Seq(S) /\ Len(<< c >>) = 1 /\ << c >>[1] = c /\ Len(seq) \in Nat
  OBVIOUS
<1>2. /\ all \in Seq(S) /\ Len(all) = 1 + Len(seq)
      /\ \A p \in 1..(1 + Len(seq)) : all[p] = IF p <= 1 THEN << c >>[p] ELSE seq[p - 1]
  BY <1>1, ConcatFacts
<1> HIDE DEF all
<1>3. all[1] = c
  BY <1>1, <1>2
<1>4. \A k \in 2..(Len(seq) + 1) : all[k] = seq[k - 1] /\ k - 1 \in 1..Len(seq)
  BY <1>1, <1>2
<1>5. \A k \in 1..Len(seq) : all[k + 1] = seq[k]
  <2> TAKE k \in 1..Len(seq)
  <2>1. k + 1 \in 2..(Len(seq) + 1) /\ k + 1 - 1 = k
    BY <1>1
  <2> QED BY <1>4, <2>1
<1>6. Len(all) = Len(seq) + 1
  BY <1>1, <1>2
<1> QED BY <1>2, <1>3, <1>4, <1>5, <1>6 DEF all

LEMMA RestExists ==
    ASSUME NEW t \in Seq(Char)
    PROVE  /\ Rest(t) \in [1..Past(t) -> Seq(Pieces(Len(t)))]
           /\ \A i \in 1..Past(t) : Rest(t)[i] = LexStep(t, Rest(t), i)
<1> DEFINE n == Len(t)
           m == Past(t)
           V == Seq(Pieces(n))
           S == [1..m -> V]
           step == [x \in (1..m) \X S |-> LexStep(t, x[2], x[1])]
<1>1. n \in Nat /\ m = n + 1 /\ m \in Nat
  BY DEF Past
<1>2. \A i \in 1..n : Construct(t, i).to \in (i + 1)..m /\ Construct(t, i) \in Pieces(n)
  BY ConstructFacts
<1> HIDE DEF m, n
<1>3. \A i \in 1..m : i > n \/ (i \in 1..n /\ ~(i > n))
  BY <1>1
<1>4. \A F \in S, i \in 1..m : LexStep(t, F, i) \in V
  <2> TAKE F \in S, i \in 1..m
  <2>1. CASE i > n
    <3>1. LexStep(t, F, i) = << >>
      BY <2>1 DEF LexStep, n
    <3> QED BY <3>1
  <2>2. CASE i \in 1..n /\ ~(i > n)
    <3> DEFINE to == Construct(t, i).to
    <3>1. to \in 1..m
      <4>1. to \in (i + 1)..m
        BY <1>2, <2>2
      <4> HIDE DEF to
      <4> QED BY <1>1, <4>1
    <3>2. F[to] \in V
      BY <3>1
    <3>3. << Construct(t, i) >> \o F[to] \in V
      BY <1>2, <2>2, <3>2, ConsFacts
    <3> QED BY <2>2, <3>3 DEF LexStep, n
  <2> QED BY <1>3, <2>1, <2>2
<1>5. step \in [(1..m) \X S -> V]
  <2>1. \A x \in (1..m) \X S : x[1] \in 1..m /\ x[2] \in S
    OBVIOUS
  <2> HIDE DEF S, V
  <2> QED BY <1>4, <2>1
<1>6. \A i \in 1..m, F \in S : step[<< i, F >>] = LexStep(t, F, i)
  <2> HIDE DEF S
  <2> QED OBVIOUS
<1> HIDE DEF step
<1>7. ASSUME NEW i \in 1..m, NEW F, NEW G, \A k \in (i + 1)..m : F[k] = G[k]
      PROVE  LexStep(t, F, i) = LexStep(t, G, i)
  <2>1. i \in 1..n => F[Construct(t, i).to] = G[Construct(t, i).to]
    BY <1>2, <1>7
  <2> QED BY <1>3, <2>1 DEF LexStep, n
<1>8. << >> \in V
  OBVIOUS
<1>9. PICK F \in S : \A i \in 1..m : F[i] = step[<< i, F >>]
  <2>1. ASSUME NEW i \in 1..m, NEW f \in S, NEW g \in S, \A k \in (i + 1)..m : f[k] = g[k]
        PROVE  step[<< i, f >>] = step[<< i, g >>]
    <3>1. LexStep(t, f, i) = LexStep(t, g, i)
      BY <1>7, <2>1
    <3> HIDE DEF S
    <3> QED BY <1>6, <3>1
  <2>4. LaterOnly(step, m, V)
    BY <2>1 DEF LaterOnly
  <2>2. step \in [(1..m) \X [1..m -> V] -> V]
    BY <1>5
  <2>3. \E F : IsBackward(F, m, V, step)
    <3> HIDE DEF V, S
    <3> QED BY <1>1, <1>8, <2>2, <2>4, BackwardExists
  <2> QED BY <2>3 DEF IsBackward
<1>10. F = [i \in 1..m |-> LexStep(t, F, i)]
  <2>1. \A i \in 1..m : F[i] = LexStep(t, F, i)
    BY <1>6, <1>9
  <2>2. F = [i \in 1..m |-> F[i]]
    OBVIOUS
  <2> QED BY <2>1, <2>2
<1> DEFINE G == Rest(t)
<1>11. G = [i \in 1..m |-> LexStep(t, G, i)]
  BY <1>10 DEF Rest, m
<1> HIDE DEF G
<1>12. \A i \in 1..m : G[i] = LexStep(t, G, i)
  BY <1>11
<1>13. \A i \in 1..m : G[i] \in V
  <2> DEFINE P == {i \in 1..m : G[i] = F[i]}
  <2>1. ASSUME NEW i \in 1..m, \A k \in (i + 1)..m : k \in P PROVE i \in P
    <3>1. \A k \in (i + 1)..m : F[k] = G[k]
      BY <2>1
    <3>2. LexStep(t, F, i) = LexStep(t, G, i)
      BY <1>7, <3>1
    <3> QED BY <1>6, <1>9, <1>12, <3>2
  <2>2. P = 1..m
    <3> HIDE DEF P
    <3>1. P \in SUBSET (1..m)
      BY DEF P
    <3> QED BY <1>1, <2>1, <3>1, BackwardInduction
  <2> QED BY <2>2
<1>14. G \in S
  BY <1>11, <1>13
<1> QED BY <1>12, <1>14 DEF G, m, n

LEMMA LexBy ==
    \A t : Lex(t) = Rest(t)[1]
BY DEF Lex, Rest, LexStep

LEMMA RestStepped ==
    ASSUME NEW t \in Seq(Char), NEW i \in 1..Past(t)
    PROVE  /\ Rest(t)[i] \in Seq(Pieces(Len(t)))
           /\ i > Len(t) => Rest(t)[i] = << >>
           /\ i <= Len(t) => /\ Construct(t, i).to \in (i + 1)..Past(t)
                             /\ Construct(t, i).to \in 1..Past(t)
                             /\ Rest(t)[i] = << Construct(t, i) >> \o Rest(t)[Construct(t, i).to]
<1>1. Len(t) \in Nat /\ Past(t) = Len(t) + 1 /\ i \in Nat
  BY DEF Past
<1>2. i <= Len(t) => i \in 1..Len(t) /\ ~(i > Len(t))
  BY <1>1
<1>3. i <= Len(t) => Construct(t, i).to \in (i + 1)..Past(t)
  BY <1>2, ConstructFacts
<1>4. \A to \in (i + 1)..Past(t) : to \in 1..Past(t)
  BY <1>1
<1> QED BY <1>2, <1>3, <1>4, RestExists DEF LexStep

\* Each construct is at its place, in order, and a semicolon where it says.
Placed(t, i, seq) ==
    \A k \in 1..Len(seq) :
        /\ seq[k].from \in i..Len(t)
        /\ seq[k].kind = "semicolon" => Semicolon(t[seq[k].from])

LEMMA RestPlaced ==
    ASSUME NEW t \in Seq(Char)
    PROVE  \A i \in 1..Past(t) : Placed(t, i, Rest(t)[i])
<1> DEFINE n == Len(t)
           m == Past(t)
           R == Rest(t)
           P == {i \in 1..m : Placed(t, i, R[i])}
<1>1. n \in Nat /\ m = n + 1 /\ m \in Nat
  BY DEF Past
<1>2. ASSUME NEW i \in 1..m, \A k \in (i + 1)..m : k \in P PROVE i \in P
  <2> DEFINE c == Construct(t, i)
             r == R[c.to]
  <2>1. \A k \in (i + 1)..m : Placed(t, k, R[k])
    BY <1>2
  <2> HIDE DEF P
  <2>2. CASE i > n
    <3>1. R[i] = << >>
      BY <2>2, RestStepped
    <3>2. Len(R[i]) = 0 /\ \A k \in 1..0 : FALSE
      BY <3>1
    <3>3. Placed(t, i, R[i])
      BY <3>2 DEF Placed
    <3> QED BY <3>3 DEF P
  <2>3. CASE i <= n
    <3>1. i \in 1..n
      BY <1>1, <2>3
    <3>2. /\ c.from = i /\ c.to \in (i + 1)..m /\ c.to \in 1..m /\ c \in Pieces(n)
          /\ c.kind = "semicolon" => Semicolon(t[i])
      BY <2>3, <3>1, ConstructFacts, RestStepped
    <3>3. R[i] = << c >> \o r
      BY <2>3, RestStepped
    <3>4. r \in Seq(Pieces(n)) /\ Placed(t, c.to, r)
      BY <2>1, <3>2, RestStepped
    <3> HIDE DEF r, c, R
    <3>5. /\ Len(R[i]) = Len(r) + 1 /\ Len(r) \in Nat /\ R[i][1] = c
          /\ \A k \in 2..(Len(r) + 1) : R[i][k] = r[k - 1] /\ k - 1 \in 1..Len(r)
      BY <3>2, <3>3, <3>4, ConsFacts
    <3>6. ASSUME NEW k \in 1..Len(R[i])
          PROVE  R[i][k].from \in i..n /\ (R[i][k].kind = "semicolon" => Semicolon(t[R[i][k].from]))
      <4>1. CASE k = 1
        BY <1>1, <3>1, <3>2, <3>5, <4>1
      <4>2. CASE k # 1
        <5>1. k \in 2..(Len(r) + 1)
          BY <3>5, <4>2
        <5> DEFINE l == k - 1
        <5>2. R[i][k] = r[l] /\ l \in 1..Len(r)
          BY <3>5, <5>1
        <5> HIDE DEF l
        <5>3. r[l].from \in c.to..n /\ (r[l].kind = "semicolon" => Semicolon(t[r[l].from]))
          BY <3>4, <5>2 DEF Placed, n
        <5> QED BY <1>1, <3>2, <5>2, <5>3
      <4> QED BY <4>1, <4>2
    <3>7. Placed(t, i, R[i])
      BY <3>6 DEF Placed, n
    <3> QED BY <3>7 DEF P, R
  <2> QED BY <1>1, <2>2, <2>3
<1>3. P = 1..m
  <2>1. P \in SUBSET (1..m)
    OBVIOUS
  <2> HIDE DEF P
  <2> QED BY <1>1, <1>2, <2>1, BackwardInduction
<1> QED BY <1>3

\* Two runs of constructs are the same as far as the first's last semicolon.
AlikeUpto(a, b, m) ==
    /\ m \in 0..Len(a) /\ m <= Len(b)
    /\ \A k \in 1..m : a[k] = b[k]
    /\ \A k \in (m + 1)..Len(a) : a[k].kind # "semicolon"

Alike(a, b) == \E m \in Nat : AlikeUpto(a, b, m)

LEMMA AlikeCons ==
    ASSUME NEW S, NEW c \in S, NEW a \in Seq(S), NEW b \in Seq(S), Alike(a, b)
    PROVE  Alike(<< c >> \o a, << c >> \o b)
<1>1. PICK m \in Nat : AlikeUpto(a, b, m)
  BY DEF Alike
<1> DEFINE aa == << c >> \o a
           bb == << c >> \o b
<1>2. /\ Len(aa) = Len(a) + 1 /\ aa[1] = c /\ Len(a) \in Nat
      /\ \A k \in 2..(Len(a) + 1) : aa[k] = a[k - 1] /\ k - 1 \in 1..Len(a)
  BY ConsFacts
<1>3. /\ Len(bb) = Len(b) + 1 /\ bb[1] = c /\ Len(b) \in Nat
      /\ \A k \in 2..(Len(b) + 1) : bb[k] = b[k - 1] /\ k - 1 \in 1..Len(b)
  BY ConsFacts
<1> HIDE DEF aa, bb
<1>4. m <= Len(a) /\ m <= Len(b) /\ m + 1 \in 0..Len(aa) /\ m + 1 <= Len(bb) /\ m + 1 \in Nat
  BY <1>1, <1>2, <1>3 DEF AlikeUpto
<1>5. ASSUME NEW k \in 1..(m + 1) PROVE aa[k] = bb[k]
  <2>1. CASE k = 1
    BY <1>2, <1>3, <2>1
  <2>2. CASE k # 1
    <3> DEFINE l == k - 1
    <3>1. l \in 1..m /\ k \in 2..(Len(a) + 1) /\ k \in 2..(Len(b) + 1)
      BY <1>2, <1>3, <1>4, <2>2
    <3>2. aa[k] = a[l] /\ bb[k] = b[l]
      BY <1>2, <1>3, <3>1
    <3> HIDE DEF l
    <3> QED BY <1>1, <3>1, <3>2 DEF AlikeUpto
  <2> QED BY <2>1, <2>2
<1>6. ASSUME NEW k \in (m + 1 + 1)..Len(aa) PROVE aa[k].kind # "semicolon"
  <2> DEFINE l == k - 1
  <2>1. l \in (m + 1)..Len(a) /\ k \in 2..(Len(a) + 1)
    BY <1>2, <1>4
  <2>2. aa[k] = a[l]
    BY <1>2, <2>1
  <2> HIDE DEF l
  <2> QED BY <1>1, <2>1, <2>2 DEF AlikeUpto
<1>7. AlikeUpto(aa, bb, m + 1)
  BY <1>4, <1>5, <1>6 DEF AlikeUpto
<1> QED BY <1>4, <1>7 DEF Alike, aa, bb

LEMMA AlikeNone ==
    ASSUME NEW S, NEW a \in Seq(S), NEW T, NEW b \in Seq(T), \A k \in 1..Len(a) : a[k].kind # "semicolon"
    PROVE  Alike(a, b)
<1>1. Len(a) \in Nat /\ Len(b) \in Nat /\ 0 + 1 = 1 /\ \A k \in 1..0 : FALSE
  OBVIOUS
<1>2. AlikeUpto(a, b, 0)
  BY <1>1 DEF AlikeUpto
<1> QED BY <1>2 DEF Alike

\* A longer text has the same constructs, as far as the last semicolon.
LEMMA RestAlike ==
    ASSUME NEW t \in Seq(Char), NEW ch \in Char
    PROVE  \A i \in 1..Past(t) : Alike(Rest(t)[i], Rest(Append(t, ch))[i])
<1> DEFINE u == Append(t, ch)
           n == Len(t)
           m == Past(t)
           R == Rest(t)
           Q == Rest(u)
           V == Pieces(n + 1)
           P == {i \in 1..m : Alike(R[i], Q[i])}
<1>1. n \in Nat /\ m = n + 1 /\ m \in Nat /\ u \in Seq(Char) /\ Len(u) = n + 1 /\ Past(u) = n + 2
  BY LongerFacts
<1>2. Pieces(n) \subseteq V
  BY <1>1 DEF Pieces
<1>3. \A i \in 1..m : R[i] \in Seq(V) /\ Q[i] \in Seq(V)
  <2> TAKE i \in 1..m
  <2>1. R[i] \in Seq(Pieces(n))
    BY RestStepped
  <2>2. i \in 1..Past(u)
    BY <1>1
  <2> HIDE DEF u
  <2>3. Q[i] \in Seq(V)
    BY <1>1, <2>2, RestStepped
  <2> HIDE DEF V, R, Q
  <2>4. R[i] \in Seq(V)
    BY <1>2, <2>1
  <2> QED BY <2>3, <2>4
<1>4. ASSUME NEW i \in 1..m, \A k \in (i + 1)..m : k \in P PROVE i \in P
  <2> DEFINE c == Construct(t, i)
  <2>1. \A k \in (i + 1)..m : Alike(R[k], Q[k])
    BY <1>4
  <2> HIDE DEF P
  <2>2. CASE \A k \in 1..Len(R[i]) : R[i][k].kind # "semicolon"
    <3> HIDE DEF R, Q, V
    <3>1. Alike(R[i], Q[i])
      BY <1>3, <2>2, AlikeNone
    <3> QED BY <3>1 DEF P
  <2>3. ASSUME NEW k \in 1..Len(R[i]), R[i][k].kind = "semicolon" PROVE i \in P
    <3> DEFINE s == R[i][k].from
    <3>1. s \in i..n /\ Semicolon(t[s])
      BY <2>3, RestPlaced DEF Placed
    <3>2. i \in 1..n /\ i <= n
      <4> HIDE DEF s
      <4> QED BY <1>1, <3>1
    <3>3. c.to \in (i + 1)..m /\ c.to \in 1..m /\ R[i] = << c >> \o R[c.to]
      BY <3>2, RestStepped
    <3>4. c.from = i /\ c \in V
      BY <1>2, <3>2, ConstructFacts
    <3>5. c.kind = "semicolon" \/ c.to <= s
      <4>1. R[c.to] \in Seq(V)
        BY <1>3, <3>3
      <4>2. Placed(t, c.to, R[c.to])
        BY <3>3, RestPlaced
      <4> HIDE DEF c, R, V
      <4>3. /\ Len(R[i]) = Len(R[c.to]) + 1 /\ R[i][1] = c /\ Len(R[c.to]) \in Nat
            /\ \A p \in 2..(Len(R[c.to]) + 1) : R[i][p] = R[c.to][p - 1] /\ p - 1 \in 1..Len(R[c.to])
        BY <3>3, <3>4, <4>1, ConsFacts
      <4>4. CASE k = 1
        BY <2>3, <4>3, <4>4
      <4>5. CASE k # 1
        <5> DEFINE l == k - 1
        <5>1. k \in 2..(Len(R[c.to]) + 1)
          BY <2>3, <4>3, <4>5
        <5>2. R[i][k] = R[c.to][l] /\ l \in 1..Len(R[c.to])
          BY <4>3, <5>1
        <5> HIDE DEF l
        <5>3. R[c.to][l].from \in c.to..n
          BY <4>2, <5>2 DEF Placed
        <5>4. s \in c.to..n
          BY <5>2, <5>3
        <5> HIDE DEF s
        <5> QED BY <1>1, <3>3, <5>4
      <4> QED BY <4>4, <4>5
    <3>6. Construct(u, i) = c
      <4> HIDE DEF s
      <4> QED BY <3>1, <3>2, <3>5, ConstructStable
    <3>7. Q[i] = << c >> \o Q[c.to]
      <4>1. i \in 1..Past(u) /\ i <= Len(u)
        BY <1>1, <3>2
      <4> HIDE DEF u, c
      <4> QED BY <1>1, <3>6, <4>1, RestStepped
    <3>8. Alike(R[c.to], Q[c.to])
      BY <2>1, <3>3
    <3>9. R[c.to] \in Seq(V) /\ Q[c.to] \in Seq(V)
      BY <1>3, <3>3
    <3> HIDE DEF R, Q, V, c
    <3>10. Alike(R[i], Q[i])
      BY <3>3, <3>4, <3>7, <3>8, <3>9, AlikeCons
    <3> QED BY <3>10 DEF P
  <2> QED BY <2>2, <2>3
<1>5. P = 1..m
  <2>1. P \in SUBSET (1..m)
    OBVIOUS
  <2> HIDE DEF P
  <2> QED BY <1>1, <1>4, <2>1, BackwardInduction
<1> QED BY <1>5

LEMMA LexFacts ==
    ASSUME NEW t \in Seq(Char)
    PROVE  Lex(t) \in Seq(Pieces(Len(t)))
<1>1. 1 \in 1..Past(t)
  BY DEF Past
<1> QED BY <1>1, LexBy, RestStepped

LEMMA LexAlike ==
    ASSUME NEW t \in Seq(Char), NEW ch \in Char
    PROVE  Alike(Lex(t), Lex(Append(t, ch)))
<1>1. 1 \in 1..Past(t)
  BY DEF Past
<1> QED BY <1>1, LexBy, RestAlike

LEMMA ExtendsFacts ==
    /\ \A a : Extends(a, a)
    /\ \A a, b, c : Extends(a, b) /\ Extends(b, c) => Extends(a, c)
    /\ \A S : \A a \in Seq(S), x \in S : Extends(Append(a, x), a)
<1>1. \A a : Extends(a, a)
  BY DEF Extends
<1>2. ASSUME NEW a, NEW b, NEW c, Extends(a, b), Extends(b, c) PROVE Extends(a, c)
  BY <1>2 DEF Extends
<1>3. ASSUME NEW S, NEW a \in Seq(S), NEW x \in S PROVE Extends(Append(a, x), a)
  BY DEF Extends
<1> QED BY <1>1, <1>2, <1>3

\* What the statements of a text can be.
RawStatements(t) ==
    {[text |-> Trim(SubSeq(t, start, end - 1)), line |-> LineOf(t, start)] :
        start \in 1..Len(t), end \in 1..Past(t)}

CutStates(t) == [out : Seq(RawStatements(t)), start : 0..Len(t)]

CutStep(t, before, c) ==
    CASE c.kind = "semicolon" ->
             [out |-> Push(before.out, t, before.start, c.from), start |-> 0]
      [] c.kind = "content" /\ before.start = 0 -> [before EXCEPT !.start = c.from]
      [] OTHER -> before

LEMMA PushFacts ==
    ASSUME NEW t \in Seq(Char), NEW out \in Seq(RawStatements(t)),
           NEW start \in 0..Len(t), NEW end \in 1..Past(t)
    PROVE  /\ Push(out, t, start, end) \in Seq(RawStatements(t))
           /\ Extends(Push(out, t, start, end), out)
<1> DEFINE x == [text |-> Trim(SubSeq(t, start, end - 1)), line |-> LineOf(t, start)]
<1>1. Push(out, t, start, end) = out \/ (start # 0 /\ Push(out, t, start, end) = Append(out, x))
  BY DEF Push, PushTrimmed
<1>2. start # 0 => x \in RawStatements(t)
  <2>1. start # 0 => start \in 1..Len(t)
    OBVIOUS
  <2> QED BY <2>1 DEF RawStatements
<1> HIDE DEF x
<1>3. CASE Push(out, t, start, end) = out
  BY <1>3, ExtendsFacts
<1>4. CASE start # 0 /\ Push(out, t, start, end) = Append(out, x)
  BY <1>2, <1>4, ExtendsFacts
<1> QED BY <1>1, <1>3, <1>4

LEMMA CutStepFacts ==
    ASSUME NEW t \in Seq(Char), NEW before \in CutStates(t), NEW c \in Pieces(Len(t))
    PROVE  /\ CutStep(t, before, c) \in CutStates(t)
           /\ Extends(CutStep(t, before, c).out, before.out)
           /\ c.kind # "semicolon" => CutStep(t, before, c).out = before.out
<1>1. /\ Len(t) \in Nat /\ Past(t) = Len(t) + 1
      /\ c.from \in 0..Len(t) /\ c.from \in 1..Past(t)
      /\ before.out \in Seq(RawStatements(t)) /\ before.start \in 0..Len(t)
  BY DEF Past, Pieces, CutStates
<1> DEFINE pushed == Push(before.out, t, before.start, c.from)
           started == [before EXCEPT !.start = c.from]
           closed == [out |-> pushed, start |-> 0]
<1>2. pushed \in Seq(RawStatements(t)) /\ Extends(pushed, before.out)
  BY <1>1, PushFacts
<1>3. c.kind = "semicolon" => CutStep(t, before, c) = closed
  BY DEF CutStep
<1>4. c.kind = "semicolon" \/ CutStep(t, before, c) = started \/ CutStep(t, before, c) = before
  BY DEF CutStep
<1>5. started \in CutStates(t) /\ started.out = before.out
  BY <1>1 DEF CutStates
<1> HIDE DEF pushed
<1>6. closed \in CutStates(t) /\ closed.out = pushed
  BY <1>1, <1>2 DEF CutStates
<1> HIDE DEF started, closed
<1>7. CASE c.kind = "semicolon"
  BY <1>2, <1>3, <1>6, <1>7
<1>8. CASE CutStep(t, before, c) = started
  BY <1>2, <1>3, <1>5, <1>6, <1>8, ExtendsFacts
<1>9. CASE CutStep(t, before, c) = before
  BY <1>9, ExtendsFacts
<1> QED BY <1>4, <1>7, <1>8, <1>9

LEMMA CutStepSame ==
    ASSUME NEW t \in Seq(Char), NEW ch \in Char, NEW before \in CutStates(t), NEW c \in Pieces(Len(t))
    PROVE  CutStep(Append(t, ch), before, c) = CutStep(t, before, c)
<1> DEFINE u == Append(t, ch)
           start == before.start
           end == c.from
<1>1. /\ Len(t) \in Nat /\ end \in 1..Len(t) /\ start \in 0..Len(t)
      /\ \A k \in 1..Len(t) : u[k] = t[k]
  BY LongerFacts DEF Pieces, CutStates
<1> HIDE DEF u, start, end
<1>2. ASSUME start # 0 PROVE SubSeq(u, start, end - 1) = SubSeq(t, start, end - 1)
  <2>1. start \in Nat \ {0} /\ end - 1 \in Nat /\ end - 1 <= Len(t)
    BY <1>1, <1>2
  <2> QED BY <2>1, PartLonger DEF u
<1>3. LineOf(u, start) = LineOf(t, start)
  <2>1. \A k \in 1..(start - 1) : k \in 1..Len(t)
    BY <1>1
  <2>2. {k \in 1..(start - 1) : u[k] = Newline} = {k \in 1..(start - 1) : t[k] = Newline}
    BY <1>1, <2>1
  <2> QED BY <2>2 DEF LineOf
<1>4. Push(before.out, u, start, end) = Push(before.out, t, start, end)
  BY <1>2, <1>3 DEF Push
<1> QED BY <1>4, Zenon DEF CutStep, start, end, u

-----------------------------------------------------------------------------

CutAt(t, cs, F, n) ==
    IF n = 0 THEN [out |-> << >>, start |-> 0] ELSE CutStep(t, F[n - 1], cs[n])

CutLoop(t, cs) == CHOOSE F : F = [n \in 0..Len(cs) |-> CutAt(t, cs, F, n)]

LEMMA CutLoopFacts ==
    ASSUME NEW t \in Seq(Char), NEW cs \in Seq(Pieces(Len(t)))
    PROVE  /\ CutLoop(t, cs) \in [0..Len(cs) -> CutStates(t)]
           /\ CutLoop(t, cs)[0] = [out |-> << >>, start |-> 0]
           /\ \A k \in 1..Len(cs) : CutLoop(t, cs)[k] = CutStep(t, CutLoop(t, cs)[k - 1], cs[k])
<1> DEFINE n == Len(cs)
           V == CutStates(t)
           init == [out |-> << >>, start |-> 0]
           step == [x \in (1..n) \X V |-> CutStep(t, x[2], cs[x[1]])]
<1>1. n \in Nat /\ \A k \in 1..n : cs[k] \in Pieces(Len(t))
  OBVIOUS
<1>2. init \in V
  BY DEF CutStates
<1>3. step \in [(1..n) \X V -> V]
  <2>1. \A x \in (1..n) \X V : x[1] \in 1..n /\ x[2] \in V
    OBVIOUS
  <2>2. \A k \in 1..n, before \in V : CutStep(t, before, cs[k]) \in V
    BY <1>1, CutStepFacts
  <2> HIDE DEF V, n
  <2> QED BY <2>1, <2>2
<1>4. \A k \in 1..n, before \in V : step[<< k, before >>] = CutStep(t, before, cs[k])
  <2> HIDE DEF V, n
  <2> QED OBVIOUS
<1> HIDE DEF step
<1>5. PICK F : IsLoop(F, n, V, init, step)
  <2> HIDE DEF V, init, n
  <2> QED BY <1>1, <1>2, <1>3, LoopExists
<1>6. /\ F \in [0..n -> V] /\ F[0] = init
      /\ \A k \in 1..n : F[k] = CutStep(t, F[k - 1], cs[k])
  <2>1. F \in [0..n -> V] /\ F[0] = init /\ \A k \in 1..n : F[k] = step[<< k, F[k - 1] >>]
    BY <1>5 DEF IsLoop
  <2>2. \A k \in 1..n : F[k - 1] \in V
    <3>1. \A k \in 1..n : k - 1 \in 0..n
      BY <1>1
    <3> HIDE DEF V, n, init
    <3> QED BY <2>1, <3>1
  <2> HIDE DEF V, n, init
  <2> QED BY <1>4, <2>1, <2>2
<1> HIDE DEF V
<1>7. F = [k \in 0..n |-> CutAt(t, cs, F, k)]
  <2>1. ASSUME NEW k \in 0..n PROVE F[k] = CutAt(t, cs, F, k)
    <3>1. CASE k = 0
      BY <1>6, <3>1 DEF CutAt
    <3>2. CASE k # 0
      <4>1. k \in 1..n
        BY <1>1, <3>2
      <4> QED BY <1>6, <3>2, <4>1 DEF CutAt
    <3> QED BY <3>1, <3>2
  <2>2. F = [k \in 0..n |-> F[k]]
    BY <1>6
  <2> QED BY <2>1, <2>2
<1> DEFINE G == CutLoop(t, cs)
<1>8. G = [k \in 0..n |-> CutAt(t, cs, G, k)]
  BY <1>7 DEF CutLoop
<1> HIDE DEF G
<1>9. \A k \in 0..n : G[k] = CutAt(t, cs, G, k)
  BY <1>8
<1>10. G[0] = init /\ \A k \in 1..n : G[k] = CutStep(t, G[k - 1], cs[k])
  <2>1. 0 \in 0..n /\ \A k \in 1..n : k \in 0..n /\ k # 0
    BY <1>1
  <2> QED BY <1>9, <2>1 DEF CutAt
<1>11. \A k \in 0..n : G[k] \in V
  <2> DEFINE T == {k \in Nat : k <= n => G[k] = F[k]}
  <2>1. 0 \in T
    BY <1>6, <1>10
  <2>2. ASSUME NEW k \in T PROVE k + 1 \in T
    <3>1. CASE k + 1 <= n
      <4>1. k \in Nat /\ k <= n /\ k + 1 \in 1..n /\ k + 1 - 1 = k
        BY <1>1, <3>1
      <4>2. G[k] = F[k]
        BY <4>1
      <4> DEFINE l == k + 1
      <4>3. G[l] = CutStep(t, G[l - 1], cs[l]) /\ F[l] = CutStep(t, F[l - 1], cs[l]) /\ l - 1 = k
        BY <1>6, <1>10, <4>1
      <4>4. G[l] = F[l]
        <5> HIDE DEF l
        <5> QED BY <4>2, <4>3
      <4> QED BY <4>1, <4>4
    <3>2. CASE ~(k + 1 <= n)
      BY <3>2
    <3> QED BY <3>1, <3>2
  <2>3. T = Nat
    <3> HIDE DEF T
    <3>1. T \in SUBSET Nat
      BY DEF T
    <3> QED BY <2>1, <2>2, <3>1, NatSetInduction
  <2>4. \A k \in 0..n : k \in T
    <3> HIDE DEF T
    <3> QED BY <2>3
  <2>5. \A k \in 0..n : G[k] = F[k]
    BY <1>1, <2>4
  <2>6. \A k \in 0..n : F[k] \in V
    BY <1>6
  <2> QED BY <2>5, <2>6
<1>12. G \in [0..n -> V]
  BY <1>8, <1>11
<1> QED BY <1>10, <1>12 DEF G, V

LEMMA CutsBy ==
    \A t, cs : Cuts(t, cs) = CutLoop(t, cs)[Len(cs)]
BY DEF Cuts, CutLoop, CutAt, CutStep

\* From a place on the statements only grow, and at semicolons alone.
LEMMA CutsGrow ==
    ASSUME NEW t \in Seq(Char), NEW cs \in Seq(Pieces(Len(t))), NEW m \in 0..Len(cs)
    PROVE  /\ Extends(Cuts(t, cs).out, CutLoop(t, cs)[m].out)
           /\ (\A k \in (m + 1)..Len(cs) : cs[k].kind # "semicolon") =>
                 Cuts(t, cs).out = CutLoop(t, cs)[m].out
<1> DEFINE n == Len(cs)
           L == CutLoop(t, cs)
           Quiet == \A k \in (m + 1)..n : cs[k].kind # "semicolon"
           Good(k) == Extends(L[k].out, L[m].out) /\ (Quiet => L[k].out = L[m].out)
           T == {d \in Nat : m + d <= n => Good(m + d)}
<1>1. /\ n \in Nat /\ m \in Nat /\ m <= n
      /\ \A k \in 1..n : cs[k] \in Pieces(Len(t))
  OBVIOUS
<1>2. /\ L \in [0..n -> CutStates(t)]
      /\ \A k \in 1..n : L[k] = CutStep(t, L[k - 1], cs[k])
  BY CutLoopFacts
<1> HIDE DEF L
<1>3. 0 \in T
  <2>1. Good(m)
    BY ExtendsFacts
  <2>2. m + 0 = m
    BY <1>1
  <2> HIDE DEF Good
  <2> QED BY <2>1, <2>2
<1>4. ASSUME NEW d \in T PROVE d + 1 \in T
  <2>1. d \in Nat /\ (m + d <= n => Good(m + d))
    OBVIOUS
  <2> HIDE DEF Good
  <2> SUFFICES ASSUME m + (d + 1) <= n PROVE Good(m + (d + 1))
    BY <2>1
  <2> DEFINE k == m + (d + 1)
             j == m + d
  <2>2. k \in (m + 1)..n /\ k \in 1..n /\ k - 1 = j /\ j \in 0..n /\ j <= n
    BY <1>1, <2>1
  <2>3. Good(j)
    BY <2>1, <2>2
  <2> HIDE DEF k, j
  <2>4. L[k] = CutStep(t, L[j], cs[k]) /\ L[j] \in CutStates(t) /\ cs[k] \in Pieces(Len(t))
    BY <1>1, <1>2, <2>2
  <2>5. Extends(L[k].out, L[j].out) /\ (cs[k].kind # "semicolon" => L[k].out = L[j].out)
    BY <2>4, CutStepFacts
  <2>6. Extends(L[k].out, L[m].out)
    BY <2>3, <2>5, ExtendsFacts DEF Good
  <2>7. Quiet => L[k].out = L[m].out
    BY <2>2, <2>3, <2>5 DEF Good
  <2>8. Good(k)
    BY <2>6, <2>7 DEF Good
  <2> QED BY <2>8 DEF k
<1>5. T = Nat
  <2> HIDE DEF T
  <2>1. T \in SUBSET Nat
    BY DEF T
  <2> QED BY <1>3, <1>4, <2>1, NatSetInduction
<1>6. n - m \in T /\ m + (n - m) = n
  <2> HIDE DEF T
  <2> QED BY <1>1, <1>5
<1>7. Good(n)
  <2> HIDE DEF Good
  <2> QED BY <1>1, <1>6
<1> QED BY <1>7, CutsBy DEF L

LEMMA CutLoopSame ==
    ASSUME NEW t \in Seq(Char), NEW ch \in Char, NEW a \in Seq(Pieces(Len(t))),
           NEW b \in Seq(Pieces(Len(Append(t, ch)))), NEW m \in Nat, AlikeUpto(a, b, m)
    PROVE  CutLoop(t, a)[m] = CutLoop(Append(t, ch), b)[m]
<1> DEFINE u == Append(t, ch)
           F == CutLoop(t, a)
           G == CutLoop(u, b)
           T == {k \in Nat : k <= m => F[k] = G[k]}
<1>1. u \in Seq(Char)
  BY LongerFacts
<1>2. /\ m <= Len(a) /\ m <= Len(b) /\ Len(a) \in Nat /\ Len(b) \in Nat
      /\ \A k \in 1..m : a[k] = b[k]
  BY DEF AlikeUpto
<1>3. /\ F \in [0..Len(a) -> CutStates(t)]
      /\ F[0] = [out |-> << >>, start |-> 0]
      /\ \A k \in 1..Len(a) : F[k] = CutStep(t, F[k - 1], a[k])
  BY CutLoopFacts
<1>4. /\ G[0] = [out |-> << >>, start |-> 0]
      /\ \A k \in 1..Len(b) : G[k] = CutStep(u, G[k - 1], b[k])
  BY <1>1, CutLoopFacts
<1>5. \A before \in CutStates(t), c \in Pieces(Len(t)) : CutStep(u, before, c) = CutStep(t, before, c)
  BY CutStepSame
<1> HIDE DEF F, G, u
<1>6. 0 \in T
  BY <1>3, <1>4
<1>7. ASSUME NEW k \in T PROVE k + 1 \in T
  <2>1. k \in Nat /\ (k <= m => F[k] = G[k])
    OBVIOUS
  <2> SUFFICES ASSUME k + 1 <= m PROVE F[k + 1] = G[k + 1]
    BY <2>1
  <2> DEFINE l == k + 1
  <2>2. l \in 1..m /\ l \in 1..Len(a) /\ l \in 1..Len(b) /\ l - 1 = k /\ k <= m /\ k \in 0..Len(a)
    BY <1>2, <2>1
  <2> HIDE DEF l
  <2>3. F[l] = CutStep(t, F[k], a[l]) /\ G[l] = CutStep(u, G[k], b[l]) /\ a[l] = b[l]
    BY <1>2, <1>3, <1>4, <2>2
  <2>4. F[k] = G[k] /\ F[k] \in CutStates(t) /\ a[l] \in Pieces(Len(t))
    BY <1>3, <2>1, <2>2
  <2>5. F[l] = G[l]
    BY <1>5, <2>3, <2>4
  <2> QED BY <2>5 DEF l
<1>8. T = Nat
  <2> HIDE DEF T
  <2>1. T \in SUBSET Nat
    BY DEF T
  <2> QED BY <1>6, <1>7, <2>1, NatSetInduction
<1>9. m \in T
  <2> HIDE DEF T
  <2> QED BY <1>8
<1>10. F[m] = G[m]
  BY <1>9
<1> QED BY <1>10 DEF F, G, u

LEMMA TerminatedGrows ==
    ASSUME NEW t \in Seq(Char), NEW ch \in Char
    PROVE  Extends(Terminated(Append(t, ch)), Terminated(t))
<1> DEFINE u == Append(t, ch)
           a == Lex(t)
           b == Lex(u)
<1>1. u \in Seq(Char)
  BY LongerFacts
<1>2. a \in Seq(Pieces(Len(t))) /\ b \in Seq(Pieces(Len(u)))
  BY <1>1, LexFacts
<1>3. PICK m \in Nat : AlikeUpto(a, b, m)
  BY LexAlike DEF Alike
<1>4. m \in 0..Len(a) /\ m \in 0..Len(b) /\ \A k \in (m + 1)..Len(a) : a[k].kind # "semicolon"
  <2>1. Len(b) \in Nat
    BY <1>2
  <2> HIDE DEF a, b
  <2> QED BY <1>3, <2>1 DEF AlikeUpto
<1> HIDE DEF a, b
<1>5. CutLoop(t, a)[m] = CutLoop(u, b)[m]
  BY <1>2, <1>3, CutLoopSame
<1> HIDE DEF u
<1>6. Cuts(t, a).out = CutLoop(t, a)[m].out
  BY <1>2, <1>4, CutsGrow
<1>7. Extends(Cuts(u, b).out, CutLoop(u, b)[m].out)
  BY <1>1, <1>2, <1>4, CutsGrow
<1>8. Extends(Cuts(u, b).out, Cuts(t, a).out)
  BY <1>5, <1>6, <1>7
<1> QED BY <1>8 DEF Terminated, a, b, u

\* Text that comes after a terminated statement cannot change it (split.rs), whatever
\* the alphabets and the length of the text.
THEOREM TerminatedAlwaysFinal == TextSpec => TerminatedIsFinal
<1> DEFINE IsText == text \in Seq(Char)
<1>1. TextInit => IsText
  BY DEF TextInit
<1>2. ASSUME NEW alphabet \in Alphabets, Write(alphabet)
      PROVE  \E c \in Char : text' = Append(text, c)
  BY <1>2, SplitterAssumption DEF Write
<1>3. IsText /\ [TextNext]_text => IsText'
  <2>1. ASSUME IsText, TextNext PROVE IsText'
    BY <1>2, <2>1 DEF TextNext
  <2>2. ASSUME IsText, UNCHANGED text PROVE IsText'
    BY <2>2
  <2> QED BY <2>1, <2>2
<1>4. IsText /\ [TextNext]_text => [Extends(Terminated(text'), Terminated(text))]_text
  <2> SUFFICES ASSUME IsText, TextNext PROVE Extends(Terminated(text'), Terminated(text))
    OBVIOUS
  <2>1. PICK c \in Char : text' = Append(text, c)
    BY <1>2 DEF TextNext
  <2> QED BY <2>1, TerminatedGrows
<1> QED BY <1>1, <1>3, <1>4, PTL DEF TextSpec, TerminatedIsFinal

-----------------------------------------------------------------------------
(* A statement on its own: a window of its text shows the constructs it has  *)
(* there, what it cuts off clipped.                                          *)

\* w is what t holds after offset, up to end.
Window(t, offset, end, w) ==
    /\ offset \in Nat /\ end \in (offset + 1)..Len(t)
    /\ w \in Seq(Char) /\ Len(w) = end - offset
    /\ \A i \in 1..(end - offset) : w[i] = t[i + offset]

\* A place of t, in the window: what is further is where the window ends.
Clip(place, offset, end) ==
    IF place <= end + 1 THEN place - offset ELSE end + 1 - offset

LEMMA WindowLine ==
    ASSUME NEW t \in Seq(Char), NEW offset, NEW end, NEW w, Window(t, offset, end, w),
           NEW i \in 1..(end - offset)
    PROVE  LineCommentEnd(w, i) = Clip(LineCommentEnd(t, i + offset), offset, end)
<1> DEFINE n == Len(t)
           k == i + offset
           E(v, p) == {Past(v)} \cup {j \in p..Len(v) : v[j] = Newline}
           e == LineCommentEnd(t, k)
<1>1. /\ n \in Nat /\ offset \in Nat /\ end \in (offset + 1)..n /\ k \in (offset + 1)..end
      /\ Len(w) = end - offset /\ Past(w) = end - offset + 1 /\ Past(t) = n + 1
      /\ \A j \in 1..(end - offset) : w[j] = t[j + offset]
  BY DEF Window, Past
<1> HIDE DEF k
<1>2. E(t, k) \in SUBSET Nat /\ E(t, k) # {} /\ E(w, i) \in SUBSET Nat
  BY <1>1
<1>3. e \in E(t, k) /\ \A j \in E(t, k) : e <= j
  <2> HIDE DEF E
  <2> QED BY <1>2, LeastFacts DEF LineCommentEnd, E
<1> HIDE DEF e
<1>4. ASSUME NEW j \in i..(end - offset), w[j] = Newline PROVE e <= j + offset
  <2>1. j + offset \in k..n /\ t[j + offset] = Newline
    BY <1>1, <1>4 DEF k
  <2> QED BY <1>3, <2>1
<1>5. CASE e <= end
  <2> DEFINE x == e - offset
  <2>1. e \in k..end /\ t[e] = Newline
    BY <1>1, <1>3, <1>5
  <2>2. x \in i..(end - offset) /\ x + offset = e
    BY <1>1, <2>1 DEF k
  <2>3. w[x] = Newline
    BY <1>1, <2>1, <2>2
  <2> HIDE DEF x
  <2>4. x \in E(w, i)
    BY <1>1, <2>2, <2>3
  <2>5. \A j \in E(w, i) : x <= j
    BY <1>1, <1>4, <2>1, <2>2
  <2>6. Least(E(w, i)) = x
    <3> HIDE DEF E
    <3> QED BY <1>2, <2>4, <2>5, LeastIs
  <2>7. LineCommentEnd(w, i) = x
    BY <2>6 DEF LineCommentEnd
  <2>8. Clip(e, offset, end) = x
    BY <1>1, <2>1 DEF Clip, x
  <2> QED BY <2>7, <2>8 DEF e, k
<1>6. CASE ~(e <= end)
  <2>1. e \in (end + 1)..(n + 1)
    BY <1>1, <1>3, <1>6
  <2>2. \A j \in E(w, i) : end - offset + 1 <= j
    BY <1>1, <1>4, <2>1
  <2>3. end - offset + 1 \in E(w, i)
    BY <1>1
  <2>4. Least(E(w, i)) = end - offset + 1
    <3> HIDE DEF E
    <3> QED BY <1>2, <2>2, <2>3, LeastIs
  <2>5. Clip(e, offset, end) = end - offset + 1
    BY <1>1, <2>1 DEF Clip
  <2> QED BY <2>4, <2>5 DEF LineCommentEnd, e, k
<1> QED BY <1>5, <1>6

LEMMA WindowStarts ==
    ASSUME NEW t \in Seq(Char), NEW offset, NEW end, NEW w, Window(t, offset, end, w),
           NEW i \in 1..(end - offset), NEW x, NEW y
    PROVE  Starts(w, i, << x, y >>) <=> Starts(t, i + offset, << x, y >>) /\ i + offset < end
<1> DEFINE k == i + offset
<1>1. /\ Len(t) \in Nat /\ offset \in Nat /\ end \in (offset + 1)..Len(t) /\ k \in (offset + 1)..end
      /\ Len(w) = end - offset /\ w \in Seq(Char) /\ i \in Nat \ {0} /\ k \in Nat \ {0}
      /\ \A j \in 1..(end - offset) : w[j] = t[j + offset]
  BY DEF Window
<1> HIDE DEF k
<1>2. Starts(w, i, << x, y >>) <=> i + 1 <= Len(w) /\ w[i] = x /\ w[i + 1] = y
  <2>1. w \in Seq(Char) /\ i \in Nat \ {0}
    BY <1>1
  <2> QED BY <2>1, StartsPair
<1>3. Starts(t, k, << x, y >>) <=> k + 1 <= Len(t) /\ t[k] = x /\ t[k + 1] = y
  BY <1>1, StartsPair
<1>4. w[i] = t[k]
  BY <1>1 DEF k
<1>5. k < end => w[i + 1] = t[k + 1]
  <2> SUFFICES ASSUME k < end PROVE w[i + 1] = t[k + 1]
    OBVIOUS
  <2> DEFINE j == i + 1
  <2>1. j \in 1..(end - offset) /\ j + offset = k + 1
    BY <1>1 DEF k
  <2>2. w[j] = t[j + offset]
    <3> HIDE DEF j
    <3> QED BY <1>1, <2>1
  <2> QED BY <2>1, <2>2
<1>6. (k < end <=> i + 1 <= Len(w)) /\ (k < end => k + 1 <= Len(t))
  BY <1>1 DEF k
<1> QED BY <1>2, <1>3, <1>4, <1>5, <1>6 DEF k

LEMMA WindowBlock ==
    ASSUME NEW t \in Seq(Char), NEW offset, NEW end, NEW w, Window(t, offset, end, w)
    PROVE  \A j \in 1..(end - offset + 1) : \A d \in Nat :
              BlockEnds(w)[j][d] = Clip(BlockEnds(t)[j + offset][d], offset, end)
<1> DEFINE E == BlockEnds(t)
           G == BlockEnds(w)
           m == end - offset + 1
           n == Len(t)
           P == {j \in 1..m : \A d \in Nat : G[j][d] = Clip(E[j + offset][d], offset, end)}
<1>1. /\ n \in Nat /\ offset \in Nat /\ end \in (offset + 1)..n /\ w \in Seq(Char)
      /\ Past(w) = m /\ m \in Nat /\ Past(t) = n + 1
  BY DEF Window, Past
<1>2. ASSUME NEW j \in 1..m, \A k \in (j + 1)..m : k \in P PROVE j \in P
  <2> SUFFICES ASSUME NEW d \in Nat PROVE G[j][d] = Clip(E[j + offset][d], offset, end)
    OBVIOUS
  <2> DEFINE k == j + offset
  <2>1. \A l \in (j + 1)..m : \A e \in Nat : G[l][e] = Clip(E[l + offset][e], offset, end)
    BY <1>2
  <2> HIDE DEF P
  <2>2. /\ k \in 1..Past(t) /\ k \in Nat /\ k <= end + 1 /\ j \in 1..Past(w)
        /\ (k < Past(t) <=> k <= n) /\ (j < m <=> k <= end) /\ k >= offset + 1
    BY <1>1
  <2> HIDE DEF k
  <2>3. /\ k = Past(t) \/ d = 0 => E[k][d] = k
        /\ k < Past(t) /\ d # 0 =>
              IF Starts(t, k, << "/", "*" >>)
              THEN k + 2 \in (k + 1)..Past(t) /\ E[k][d] = E[k + 2][d + 1]
              ELSE IF Starts(t, k, << "*", "/" >>)
              THEN k + 2 \in (k + 1)..Past(t) /\ E[k][d] = E[k + 2][d - 1]
              ELSE E[k][d] = E[k + 1][d]
    BY <2>2, BlockStepped
  <2>4. /\ j = Past(w) \/ d = 0 => G[j][d] = j
        /\ j < Past(w) /\ d # 0 =>
              IF Starts(w, j, << "/", "*" >>)
              THEN j + 2 \in (j + 1)..Past(w) /\ G[j][d] = G[j + 2][d + 1]
              ELSE IF Starts(w, j, << "*", "/" >>)
              THEN j + 2 \in (j + 1)..Past(w) /\ G[j][d] = G[j + 2][d - 1]
              ELSE G[j][d] = G[j + 1][d]
    <3>1. w \in Seq(Char) /\ j \in 1..Past(w)
      BY <1>1, <2>2
    <3> QED BY <3>1, BlockStepped
  <2>5. \A l \in 1..Past(t) : \A e \in Nat : E[l][e] \in l..Past(t)
    BY BlockBounds
  <2>6. j < m => /\ Starts(w, j, << "/", "*" >>) <=> Starts(t, k, << "/", "*" >>) /\ k < end
                 /\ Starts(w, j, << "*", "/" >>) <=> Starts(t, k, << "*", "/" >>) /\ k < end
    <3>1. j < m => j \in 1..(end - offset)
      BY <1>1
    <3> QED BY <3>1, WindowStarts DEF k
  <2> HIDE DEF E, G, m, n
  <2>7. CASE d = 0
    <3>1. Clip(k, offset, end) = j
      BY <1>1, <2>2 DEF Clip, k
    <3> QED BY <2>3, <2>4, <2>7, <3>1 DEF k
  <2>8. CASE j = m
    <3> DEFINE v == E[k][d]
    <3>1. v \in k..Past(t)
      BY <2>2, <2>5
    <3>2. k = end + 1
      BY <1>1, <2>8 DEF k, m
    <3> HIDE DEF v
    <3>3. v \in Nat /\ v >= end + 1
      BY <1>1, <3>1, <3>2
    <3>4. Clip(v, offset, end) = m
      BY <1>1, <3>3 DEF Clip, m
    <3>5. j = Past(w)
      BY <1>1, <2>8
    <3> QED BY <2>4, <2>8, <3>4, <3>5 DEF k, v
  <2>9. CASE d # 0 /\ j < m
    <3>1. k <= end /\ k < Past(t) /\ j < Past(w) /\ d + 1 \in Nat /\ d - 1 \in Nat
      BY <1>1, <2>2, <2>9
    <3>2. ASSUME NEW l \in (j + 1)..m, NEW e \in Nat, G[j][d] = G[l][e], E[k][d] = E[l + offset][e]
          PROVE  G[j][d] = Clip(E[k][d], offset, end)
      BY <2>1, <3>2
    <3>3. j + 1 \in (j + 1)..m /\ j + 1 + offset = k + 1 /\ j + 2 + offset = k + 2
      BY <1>1, <2>9 DEF k
    <3>4. CASE k < end
      <4>1. k < end => j + 2 \in (j + 1)..m
        BY <1>1, <2>2 DEF k, m
      <4>2. CASE Starts(t, k, << "/", "*" >>)
        <5>1. G[j][d] = G[j + 2][d + 1] /\ E[k][d] = E[k + 2][d + 1]
          BY <2>3, <2>4, <2>6, <2>9, <3>1, <3>4, <4>2, Zenon
        <5> DEFINE l == j + 2
        <5>2. l \in (j + 1)..m /\ l + offset = k + 2
          BY <3>3, <3>4, <4>1
        <5>3. G[j][d] = G[l][d + 1] /\ E[k][d] = E[l + offset][d + 1]
          BY <5>1, <5>2
        <5> HIDE DEF l
        <5> QED BY <3>1, <3>2, <5>2, <5>3 DEF k
      <4>3. CASE ~Starts(t, k, << "/", "*" >>) /\ Starts(t, k, << "*", "/" >>)
        <5>1. G[j][d] = G[j + 2][d - 1] /\ E[k][d] = E[k + 2][d - 1]
          BY <2>3, <2>4, <2>6, <2>9, <3>1, <3>4, <4>3, Zenon
        <5> DEFINE l == j + 2
        <5>2. l \in (j + 1)..m /\ l + offset = k + 2
          BY <3>3, <3>4, <4>1
        <5>3. G[j][d] = G[l][d - 1] /\ E[k][d] = E[l + offset][d - 1]
          BY <5>1, <5>2
        <5> HIDE DEF l
        <5> QED BY <3>1, <3>2, <5>2, <5>3 DEF k
      <4>4. CASE ~Starts(t, k, << "/", "*" >>) /\ ~Starts(t, k, << "*", "/" >>)
        <5>1. G[j][d] = G[j + 1][d] /\ E[k][d] = E[k + 1][d]
          BY <2>3, <2>4, <2>6, <2>9, <3>1, <3>4, <4>4, Zenon
        <5> DEFINE l == j + 1
        <5>2. l \in (j + 1)..m /\ l + offset = k + 1
          BY <3>3
        <5>3. G[j][d] = G[l][d] /\ E[k][d] = E[l + offset][d]
          BY <5>1, <5>2
        <5> HIDE DEF l
        <5> QED BY <3>1, <3>2, <5>2, <5>3 DEF k
      <4> QED BY <4>2, <4>3, <4>4
    <3>5. CASE ~(k < end)
      <4>1. k = end /\ j + 1 = m
        BY <1>1, <2>2, <3>1, <3>5 DEF k, m
      <4>2. G[j][d] = G[j + 1][d]
        BY <2>4, <2>6, <2>9, <3>1, <3>5, Zenon
      <4>3. G[m][d] = m
        <5>1. \A e \in Nat : G[m][e] = m
          <6>1. m \in 1..Past(w)
            BY <1>1, <2>9
          <6> QED BY <1>1, <6>1, BlockStepped DEF G
        <5> QED BY <5>1
      <4>4. E[k][d] >= end + 1 /\ E[k][d] \in Nat
        <5>1. ASSUME NEW l \in (k + 1)..Past(t), NEW e \in Nat
              PROVE  E[l][e] >= end + 1 /\ E[l][e] \in Nat
          <6>1. l \in Nat /\ l >= end + 1 /\ l \in 1..Past(t) /\ Past(t) \in Nat
            BY <1>1, <2>2, <4>1
          <6> DEFINE v == E[l][e]
          <6>2. v \in l..Past(t)
            BY <2>5, <6>1
          <6> HIDE DEF v
          <6>3. v >= end + 1 /\ v \in Nat
            BY <1>1, <6>1, <6>2
          <6> QED BY <6>3 DEF v
        <5>2. k + 1 \in (k + 1)..Past(t)
          BY <1>1, <2>2, <3>1
        <5>3. \/ k + 2 \in (k + 1)..Past(t) /\ E[k][d] = E[k + 2][d + 1]
              \/ k + 2 \in (k + 1)..Past(t) /\ E[k][d] = E[k + 2][d - 1]
              \/ E[k][d] = E[k + 1][d]
          BY <2>3, <2>9, <3>1, Zenon
        <5>4. E[k + 1][d] >= end + 1 /\ E[k + 1][d] \in Nat
          BY <5>1, <5>2, Zenon
        <5>5. k + 2 \in (k + 1)..Past(t) => /\ E[k + 2][d + 1] >= end + 1 /\ E[k + 2][d + 1] \in Nat
                                            /\ E[k + 2][d - 1] >= end + 1 /\ E[k + 2][d - 1] \in Nat
          BY <3>1, <5>1, Zenon
        <5> QED BY <5>3, <5>4, <5>5
      <4>5. \A x \in Nat : x >= end + 1 => Clip(x, offset, end) = m
        BY <1>1 DEF Clip, m
      <4> QED BY <4>1, <4>2, <4>3, <4>4, <4>5 DEF k
    <3> QED BY <3>4, <3>5 DEF k
  <2> QED BY <1>1, <2>7, <2>8, <2>9 DEF m
<1>3. P = 1..m
  <2>1. P \in SUBSET (1..m)
    OBVIOUS
  <2> HIDE DEF P
  <2> QED BY <1>1, <1>2, <2>1, BackwardInduction
<1> QED BY <1>3

LEMMA WindowQuoted ==
    ASSUME NEW t \in Seq(Char), NEW offset, NEW end, NEW w, Window(t, offset, end, w),
           NEW quote, NEW escapes
    PROVE  \A j \in 1..(end - offset + 1) :
              QuotedEnds(w, quote, escapes)[j] =
                 Clip(QuotedEnds(t, quote, escapes)[j + offset], offset, end)
<1> DEFINE E == QuotedEnds(t, quote, escapes)
           G == QuotedEnds(w, quote, escapes)
           m == end - offset + 1
           n == Len(t)
           P == {j \in 1..(m + 1) : j <= m => G[j] = Clip(E[j + offset], offset, end)}
<1>1. /\ n \in Nat /\ offset \in Nat /\ end \in (offset + 1)..n /\ w \in Seq(Char)
      /\ Len(w) = m - 1 /\ Past(w) = m /\ m \in Nat /\ Past(t) = n + 1
      /\ \A i \in 1..(end - offset) : w[i] = t[i + offset]
  BY DEF Window, Past
<1>2. ASSUME NEW j \in 1..(m + 1), \A k \in (j + 1)..(m + 1) : k \in P PROVE j \in P
  <2> SUFFICES ASSUME j <= m PROVE G[j] = Clip(E[j + offset], offset, end)
    OBVIOUS
  <2> DEFINE k == j + offset
  <2>1. \A l \in (j + 1)..m : G[l] = Clip(E[l + offset], offset, end)
    <3>1. \A l \in (j + 1)..m : l \in (j + 1)..(m + 1) /\ l <= m
      BY <1>1
    <3> QED BY <1>2, <3>1
  <2> HIDE DEF P
  <2>2. /\ k \in 1..Past(t) /\ k \in Nat /\ k <= end + 1 /\ j \in 1..(Past(w) + 1) /\ k \in 1..(Past(t) + 1)
        /\ (j < m <=> k <= end) /\ k >= offset + 1
    BY <1>1
  <2> HIDE DEF k
  <2>3. /\ k > Len(t) => E[k] = Past(t)
        /\ k <= Len(t) =>
              IF t[k] = Backslash /\ escapes THEN E[k] = E[k + 2]
              ELSE IF t[k] # quote THEN E[k] = E[k + 1]
              ELSE IF At(t, k + 1, quote) THEN E[k] = E[k + 2]
              ELSE E[k] = k + 1
    BY <2>2, QuotedStepped
  <2>4. /\ j > Len(w) => G[j] = Past(w)
        /\ j <= Len(w) =>
              IF w[j] = Backslash /\ escapes THEN G[j] = G[j + 2]
              ELSE IF w[j] # quote THEN G[j] = G[j + 1]
              ELSE IF At(w, j + 1, quote) THEN G[j] = G[j + 2]
              ELSE G[j] = j + 1
    <3>1. w \in Seq(Char) /\ j \in 1..(Past(w) + 1)
      BY <1>1, <2>2
    <3> QED BY <3>1, QuotedStepped
  <2>5. \A l \in 1..Past(t) : E[l] \in l..Past(t)
    BY QuotedBounds
  <2>6. E[n + 2] = n + 1
    <3>1. n + 2 \in 1..(Past(t) + 1) /\ n + 2 > Len(t)
      BY <1>1
    <3> QED BY <1>1, <3>1, QuotedStepped
  <2>7. \A l \in (end + 1)..(n + 2) : E[l] \in Nat /\ E[l] >= end + 1
    <3> TAKE l \in (end + 1)..(n + 2)
    <3>1. CASE l = n + 2
      BY <1>1, <2>6, <3>1
    <3>2. CASE l # n + 2
      <4>1. l \in 1..Past(t)
        BY <1>1, <3>2
      <4>2. E[l] \in l..Past(t)
        BY <2>5, <4>1
      <4> HIDE DEF E
      <4> QED BY <1>1, <4>2
    <3> QED BY <3>1, <3>2
  <2>8. G[m] = m /\ G[m + 1] = m
    <3>1. m \in 1..(Past(w) + 1) /\ m + 1 \in 1..(Past(w) + 1) /\ m > Len(w) /\ m + 1 > Len(w) /\ w \in Seq(Char)
      BY <1>1
    <3>2. \A x \in 1..(Past(w) + 1) : x > Len(w) => G[x] = Past(w)
      BY <3>1, QuotedStepped
    <3> HIDE DEF m, G
    <3> QED BY <1>1, <3>1, <3>2
  <2> HIDE DEF E, G, n
  <2>9. \A x \in Nat : x >= end + 1 => Clip(x, offset, end) = m
    BY <1>1 DEF Clip
  <2>10. CASE j = m
    <3>1. E[k] \in Nat /\ E[k] >= end + 1
      <4>1. k \in (end + 1)..(n + 2)
        BY <1>1, <2>2, <2>10 DEF k
      <4> QED BY <2>7, <4>1
    <3> QED BY <2>8, <2>9, <2>10, <3>1 DEF k
  <2>11. CASE j < m
    <3> SUFFICES G[j] = Clip(E[k], offset, end)
      BY DEF k
    <3>1. k <= end /\ k <= Len(t) /\ j <= Len(w) /\ w[j] = t[k] /\ j \in 1..(end - offset)
      <4>1. j \in 1..(end - offset) /\ k <= end
        BY <1>1, <2>2, <2>11
      <4> QED BY <1>1, <4>1 DEF k, n
    <3>2. j + 1 \in (j + 1)..m /\ j + 1 + offset = k + 1 /\ j + 2 + offset = k + 2
      BY <1>1, <2>11 DEF k
    \* One further in both.
    <3>3. ASSUME G[j] = G[j + 1], E[k] = E[k + 1] PROVE G[j] = Clip(E[k], offset, end)
      <4> DEFINE l == j + 1
      <4>1. l \in (j + 1)..m /\ l + offset = k + 1
        BY <3>2
      <4>2. G[j] = G[l] /\ E[k] = E[l + offset]
        BY <3>3, <4>1
      <4> HIDE DEF l
      <4> QED BY <2>1, <4>1, <4>2
    \* Two further in both.
    <3>4. ASSUME G[j] = G[j + 2], E[k] = E[k + 2] PROVE G[j] = Clip(E[k], offset, end)
      <4>1. CASE j + 2 <= m
        <5> DEFINE l == j + 2
        <5>1. l \in (j + 1)..m /\ l + offset = k + 2
          BY <1>1, <3>2, <4>1
        <5>2. G[j] = G[l] /\ E[k] = E[l + offset]
          BY <3>4, <5>1
        <5> HIDE DEF l
        <5> QED BY <2>1, <5>1, <5>2
      <4>2. CASE ~(j + 2 <= m)
        <5>1. j + 2 = m + 1 /\ k = end
          BY <1>1, <2>11, <4>2 DEF k
        <5>2. G[j] = m
          BY <2>8, <3>4, <5>1
        <5>3. E[k + 2] \in Nat /\ E[k + 2] >= end + 1
          <6>1. k + 2 \in (end + 1)..(n + 2)
            BY <1>1, <5>1
          <6> QED BY <2>7, <6>1, Zenon
        <5> QED BY <2>9, <3>4, <5>2, <5>3
      <4> QED BY <4>1, <4>2
    <3>5. CASE t[k] = Backslash /\ escapes
      BY <2>3, <2>4, <3>1, <3>4, <3>5, Zenon
    <3>6. CASE ~(t[k] = Backslash /\ escapes) /\ t[k] # quote
      BY <2>3, <2>4, <3>1, <3>3, <3>6, Zenon
    <3>7. CASE ~(t[k] = Backslash /\ escapes) /\ t[k] = quote
      <4>1. IF At(t, k + 1, quote) THEN E[k] = E[k + 2] ELSE E[k] = k + 1
        BY <2>3, <3>1, <3>7, Zenon
      <4>2. IF At(w, j + 1, quote) THEN G[j] = G[j + 2] ELSE G[j] = j + 1
        BY <2>4, <3>1, <3>7, Zenon
      <4>3. At(w, j + 1, quote) <=> At(t, k + 1, quote) /\ k < end
        <5>1. j + 1 <= Len(w) <=> k < end
          BY <1>1 DEF k
        <5>2. k < end => w[j + 1] = t[k + 1] /\ k + 1 <= Len(t)
          <6> SUFFICES ASSUME k < end PROVE w[j + 1] = t[k + 1] /\ k + 1 <= Len(t)
            OBVIOUS
          <6> DEFINE l == j + 1
          <6>1. l \in 1..(end - offset) /\ l + offset = k + 1 /\ k + 1 <= Len(t)
            BY <1>1 DEF k, n
          <6>2. w[l] = t[l + offset]
            <7> HIDE DEF l
            <7> QED BY <1>1, <6>1
          <6> QED BY <6>1, <6>2
        <5> QED BY <5>1, <5>2 DEF At
      <4>4. CASE At(t, k + 1, quote) /\ k < end
        BY <3>4, <4>1, <4>2, <4>3, <4>4
      <4>5. CASE ~At(t, k + 1, quote)
        <5>1. E[k] = k + 1 /\ G[j] = j + 1
          BY <4>1, <4>2, <4>3, <4>5
        <5>2. Clip(k + 1, offset, end) = j + 1
          BY <1>1, <2>2, <3>1 DEF Clip, k
        <5> QED BY <5>1, <5>2
      <4>6. CASE At(t, k + 1, quote) /\ ~(k < end)
        <5>1. k = end /\ j + 1 = m
          BY <1>1, <2>2, <3>1, <4>6 DEF k
        <5>2. E[k] = E[k + 2] /\ G[j] = m
          BY <4>1, <4>2, <4>3, <4>6, <5>1
        <5>3. E[k + 2] \in Nat /\ E[k + 2] >= end + 1
          <6>1. k + 2 \in (end + 1)..(n + 2)
            BY <1>1, <5>1
          <6> QED BY <2>7, <6>1, Zenon
        <5> QED BY <2>9, <5>2, <5>3
      <4> QED BY <4>4, <4>5, <4>6
    <3> QED BY <3>5, <3>6, <3>7
  <2> QED BY <1>1, <2>10, <2>11
<1>3. P = 1..(m + 1)
  <2>1. P \in SUBSET (1..(m + 1))
    OBVIOUS
  <2>2. m + 1 \in Nat
    BY <1>1
  <2> HIDE DEF P
  <2> QED BY <1>2, <2>1, <2>2, BackwardInduction
<1>4. \A j \in 1..m : j \in P /\ j <= m
  <2>1. \A j \in 1..m : j \in 1..(m + 1) /\ j <= m
    BY <1>1
  <2> HIDE DEF P
  <2> QED BY <1>3, <2>1
<1> QED BY <1>4

\* What may come after a window, and before it.
Ender(c) == Semicolon(c) \/ AsciiWhitespace(c)

Frame(t, offset, end) ==
    /\ end = Len(t) \/ Ender(t[end + 1])
    /\ offset = 0 \/ ~EndsIdent(t[offset])

LEMMA EnderFacts ==
    ASSUME NEW c, Ender(c)
    PROVE  Stops(c) /\ c # "-" /\ c # "*"
BY Zenon DEF Ender, Semicolon, AsciiWhitespace, Newline, Stops, IdentByte

LEMMA WindowTag ==
    ASSUME NEW t \in Seq(Char), NEW offset, NEW end, NEW w, Window(t, offset, end, w),
           Frame(t, offset, end), NEW i \in 1..(end - offset)
    PROVE  /\ DollarTagEnd(t, i + offset) = 0 => DollarTagEnd(w, i) = 0
           /\ DollarTagEnd(t, i + offset) # 0 =>
                 /\ DollarTagEnd(t, i + offset) <= end + 1
                 /\ DollarTagEnd(w, i) = DollarTagEnd(t, i + offset) - offset
<1> DEFINE n == Len(t)
           k == i + offset
           J == TagStop(t, k)
           K == TagStop(w, i)
<1>1. /\ n \in Nat /\ offset \in Nat /\ end \in (offset + 1)..n /\ k \in (offset + 1)..end
      /\ w \in Seq(Char) /\ Len(w) = end - offset /\ Past(w) = end - offset + 1 /\ Past(t) = n + 1
      /\ \A j \in 1..(end - offset) : w[j] = t[j + offset]
  BY DEF Window, Past
<1>2. k \in 1..n /\ i \in 1..Len(w)
  BY <1>1
<1> HIDE DEF k
<1>3. /\ J \in (k + 1)..(n + 1)
      /\ J <= n => ~IdentByte(t[J])
      /\ \A j \in (k + 1)..n : ~IdentByte(t[j]) => J <= j
  BY <1>1, <1>2, TagStopFacts
<1>4. /\ K \in (i + 1)..(end - offset + 1)
      /\ K <= Len(w) => ~IdentByte(w[K])
      /\ \A j \in (i + 1)..Len(w) :
            (~IdentByte(w[j]) /\ \A l \in (i + 1)..(j - 1) : IdentByte(w[l])) => K = j
  <2>1. K \in (i + 1)..Past(w)
    BY <1>1, <1>2, TagStopFacts
  <2>2. K <= Len(w) => ~IdentByte(w[K])
    BY <1>1, <1>2, TagStopFacts
  <2>3. \A j \in (i + 1)..Len(w) :
            (~IdentByte(w[j]) /\ \A l \in (i + 1)..(j - 1) : IdentByte(w[l])) => K = j
    BY <1>1, <1>2, TagStopFacts
  <2> HIDE DEF K
  <2> QED BY <1>1, <2>1, <2>2, <2>3
<1> HIDE DEF J, K
<1>5. CASE J <= end
  <2> DEFINE j == J - offset
  <2>1. j \in (i + 1)..Len(w) /\ j + offset = J /\ j \in 1..(end - offset) /\ J \in 1..n
    BY <1>1, <1>3, <1>5 DEF k
  <2>2. w[j] = t[J] /\ ~IdentByte(w[j])
    BY <1>1, <1>3, <2>1
  <2>3. ASSUME NEW l \in (i + 1)..(j - 1) PROVE IdentByte(w[l])
    <3>1. l \in 1..(end - offset) /\ l + offset \in (k + 1)..n /\ ~(J <= l + offset)
      BY <1>1, <1>3, <2>1 DEF k
    <3>2. w[l] = t[l + offset]
      BY <1>1, <3>1
    <3> QED BY <1>3, <3>1, <3>2
  <2> HIDE DEF j
  <2>4. K = j
    BY <1>4, <2>1, <2>2, <2>3
  <2>5. At(w, j, "$") <=> At(t, J, "$")
    BY <1>1, <2>1, <2>2 DEF At
  <2>6. At(w, i + 1, "1") <=> At(t, k + 1, "1")
    <3> DEFINE l == i + 1
    <3>1. l \in 1..(end - offset) /\ l + offset = k + 1 /\ k + 1 <= n
      BY <1>1, <1>3, <1>5 DEF k
    <3> HIDE DEF l
    <3>2. w[l] = t[l + offset] /\ l <= Len(w)
      BY <1>1, <3>1
    <3>3. At(w, l, "1") <=> At(t, k + 1, "1")
      BY <3>1, <3>2 DEF At
    <3> QED BY <3>3 DEF l
  <2>7. DollarTagEnd(w, i) = IF At(w, i + 1, "1") \/ ~At(w, j, "$") THEN 0 ELSE j + 1
    BY <2>4, TagEndBy DEF K
  <2>8. DollarTagEnd(t, k) = IF At(t, k + 1, "1") \/ ~At(t, J, "$") THEN 0 ELSE J + 1
    BY TagEndBy DEF J
  <2>9. J + 1 # 0 /\ J + 1 <= end + 1 /\ j + 1 = J + 1 - offset
    BY <1>1, <1>3, <1>5, <2>1
  <2>10. DollarTagEnd(t, k) = 0 => DollarTagEnd(w, i) = 0
    BY <2>5, <2>6, <2>7, <2>8, <2>9
  <2>11. DollarTagEnd(t, k) # 0 =>
            DollarTagEnd(t, k) = J + 1 /\ DollarTagEnd(w, i) = j + 1
    BY <2>5, <2>6, <2>7, <2>8, <2>9
  <2>12. DollarTagEnd(t, k) # 0 =>
            DollarTagEnd(t, k) <= end + 1 /\ DollarTagEnd(w, i) = DollarTagEnd(t, k) - offset
    BY <1>1, <2>1, <2>9, <2>11
  <2> QED BY <2>10, <2>12 DEF k
<1>6. CASE ~(J <= end)
  <2>1. J = end + 1 /\ ~At(t, J, "$")
    <3>1. CASE end = n
      <4> HIDE DEF n
      <4>2. J = n + 1 /\ ~(J <= n)
        BY <1>1, <1>3, <1>6, <3>1
      <4>1. J = n + 1 /\ ~(J <= Len(t))
        BY <4>2 DEF n
      <4> QED BY <3>1, <4>1 DEF At
    <3>2. CASE end # n
      <4>1. end + 1 \in (k + 1)..n
        BY <1>1, <3>2
      <4>2. ~IdentByte(t[end + 1]) /\ t[end + 1] # "$"
        BY <3>2, EnderFacts DEF Frame, Stops
      <4>3. J = end + 1
        BY <1>1, <1>3, <1>6, <4>1, <4>2
      <4> QED BY <4>2, <4>3 DEF At
    <3> QED BY <3>1, <3>2
  <2>2. ~(K <= Len(w))
    <3> SUFFICES ASSUME K <= Len(w) PROVE FALSE
      OBVIOUS
    <3>1. K \in 1..(end - offset) /\ K + offset \in (k + 1)..n /\ K + offset < J
      BY <1>1, <1>4, <2>1 DEF k
    <3>2. w[K] = t[K + offset] /\ ~IdentByte(w[K])
      BY <1>1, <1>4, <3>1
    <3>3. J <= K + offset
      BY <1>3, <3>1, <3>2
    <3>4. J \in Nat /\ K + offset \in Nat
      BY <1>1, <1>3, <3>1
    <3> QED BY <3>1, <3>3, <3>4
  <2>3. ~At(w, K, "$")
    BY <2>2 DEF At
  <2>4. DollarTagEnd(t, k) = 0
    BY <2>1, TagEndBy DEF J
  <2>5. DollarTagEnd(w, i) = 0
    BY <2>3, TagEndBy DEF K
  <2> QED BY <2>4, <2>5 DEF k
<1> QED BY <1>5, <1>6

Part(s, a, b) == SubSeq(s, a, b)

LEMMA WindowPart ==
    ASSUME NEW t \in Seq(Char), NEW offset, NEW end, NEW w, Window(t, offset, end, w),
           NEW a \in Nat \ {0}, NEW b \in 0..Len(w)
    PROVE  Part(w, a, b) = Part(t, a + offset, b + offset)
<1>1. /\ Len(t) \in Nat /\ offset \in Nat /\ end \in (offset + 1)..Len(t)
      /\ w \in Seq(Char) /\ \A j \in 1..(end - offset) : w[j] = t[j + offset]
      /\ b \in Nat /\ b <= end - offset
  BY DEF Window
<1>2. SubSeq(w, a, b) = [p \in 1..(b - a + 1) |-> w[a + p - 1]]
  <2>1. w \in Seq(Char)
    BY <1>1
  <2> QED BY <2>1
<1>3. SubSeq(t, a + offset, b + offset) = [p \in 1..(b - a + 1) |-> t[a + offset + p - 1]]
  <2> DEFINE x == a + offset
             y == b + offset
  <2>1. x \in Nat /\ y \in Nat /\ y - x + 1 = b - a + 1
    BY <1>1
  <2> HIDE DEF x, y
  <2>2. SubSeq(t, x, y) = [p \in 1..(y - x + 1) |-> t[x + p - 1]]
    BY <2>1
  <2>3. SubSeq(t, x, y) = [p \in 1..(b - a + 1) |-> t[x + p - 1]]
    BY <2>1, <2>2
  <2> QED BY <2>3 DEF x, y
<1>4. ASSUME NEW p \in 1..(b - a + 1) PROVE w[a + p - 1] = t[a + offset + p - 1]
  <2> DEFINE j == a + p - 1
  <2>1. j \in 1..(end - offset) /\ j + offset = a + offset + p - 1
    BY <1>1
  <2>2. w[j] = t[j + offset]
    <3> HIDE DEF j
    <3> QED BY <1>1, <2>1
  <2> QED BY <2>1, <2>2
<1> QED BY <1>2, <1>3, <1>4 DEF Part

LEMMA WindowDollar ==
    ASSUME NEW t \in Seq(Char), NEW offset, NEW end, NEW w, Window(t, offset, end, w),
           Frame(t, offset, end), NEW i \in 1..(end - offset)
    PROVE  DollarEnd(w, i) = Clip(DollarEnd(t, i + offset), offset, end)
<1> DEFINE n == Len(t)
           k == i + offset
           e == DollarTagEnd(t, k)
           f == DollarTagEnd(w, i)
           C == Closings(t, k, e)
           D == Closings(w, i, f)
           width == e - k
           c == Least(C)
<1>1. /\ n \in Nat /\ offset \in Nat /\ end \in (offset + 1)..n /\ k \in (offset + 1)..end /\ i \in Nat
      /\ w \in Seq(Char) /\ Len(w) = end - offset /\ Past(w) = end - offset + 1 /\ Past(t) = n + 1
  BY DEF Window, Past
<1>2. k \in 1..n /\ i \in 1..Len(w)
  BY <1>1
<1>3. DollarEnd(t, k) = IF e = 0 THEN k + 1 ELSE IF C = {} THEN n + 1 ELSE Least(C) + (e - k)
  BY <1>1 DEF DollarEnd
<1>4. DollarEnd(w, i) = IF f = 0 THEN i + 1 ELSE IF D = {} THEN end - offset + 1 ELSE Least(D) + (f - i)
  BY <1>1 DEF DollarEnd
<1>5. (e = 0 => f = 0) /\ (e # 0 => e <= end + 1 /\ f = e - offset)
  BY WindowTag
<1>6. CASE e = 0
  <2>1. Clip(k + 1, offset, end) = i + 1
    BY <1>1 DEF Clip
  <2> HIDE DEF k
  <2> QED BY <1>3, <1>4, <1>5, <1>6, <2>1 DEF k
<1>7. CASE e # 0
  <2>1. e \in (k + 2)..(n + 1)
    BY <1>1, <1>2, <1>7, TagEndFacts
  <2> HIDE DEF e, f, k
  <2>2. /\ e \in (k + 2)..(end + 1) /\ f = e - offset /\ f \in (i + 1)..Past(w) /\ f # 0
        /\ width \in Nat \ {0} /\ f - i = width /\ f \in Nat
    BY <1>1, <1>5, <1>7, <2>1 DEF k
  <2>3. /\ C \in SUBSET Nat
        /\ \A j : j \in C <=> /\ j \in e..n
                              /\ j + width <= n + 1
                              /\ SubSeq(t, j, j + width - 1) = SubSeq(t, k, e - 1)
    <3>1. e \in (k + 1)..Past(t)
      BY <1>1, <2>1
    <3> QED BY <1>1, <1>2, <3>1, ClosingsFacts
  <2>4. /\ D \in SUBSET Nat
        /\ \A j : j \in D <=> /\ j \in f..(end - offset)
                              /\ j + width <= end - offset + 1
                              /\ SubSeq(w, j, j + width - 1) = SubSeq(w, i, f - 1)
    <3>1. /\ D \in SUBSET Nat
          /\ \A j : j \in D <=> /\ j \in f..Len(w)
                                /\ j + (f - i) <= Past(w)
                                /\ SubSeq(w, j, j + (f - i) - 1) = SubSeq(w, i, f - 1)
      BY <1>1, <1>2, <2>2, ClosingsFacts
    <3> HIDE DEF D, width
    <3> QED BY <1>1, <2>2, <3>1
  <2> HIDE DEF C, D, width, n
  <2>5. SubSeq(w, i, f - 1) = SubSeq(t, k, e - 1)
    <3>1. i \in Nat \ {0} /\ f - 1 \in Nat /\ f - 1 <= end - offset /\ f - 1 + offset = e - 1
      BY <1>1, <1>2, <2>2
    <3> DEFINE y == f - 1
    <3>2. i \in Nat \ {0} /\ y \in 0..Len(w)
      BY <1>1, <3>1
    <3> HIDE DEF y, k, e, f
    <3>3. SubSeq(w, i, y) = SubSeq(t, i + offset, y + offset)
      <4>1. Part(w, i, y) = Part(t, i + offset, y + offset)
        BY <3>2, WindowPart
      <4> QED BY <4>1 DEF Part
    <3> QED BY <3>1, <3>3 DEF k, y
  <2>6. ASSUME NEW j \in f..(end - offset), j + width <= end - offset + 1
        PROVE  j \in D <=> j + offset \in C
    <3>1. /\ j \in Nat \ {0} /\ j + width - 1 \in Nat /\ j + width - 1 <= end - offset
          /\ j + offset \in e..n /\ j + offset + width <= n + 1
          /\ j + width - 1 + offset = j + offset + width - 1
      BY <1>1, <2>2, <2>6
    <3>2. SubSeq(w, j, j + width - 1) = SubSeq(t, j + offset, j + width - 1 + offset)
      <4> DEFINE y == j + width - 1
      <4>1. j \in Nat \ {0} /\ y \in 0..Len(w)
        BY <1>1, <3>1
      <4> HIDE DEF y
      <4>2. SubSeq(w, j, y) = SubSeq(t, j + offset, y + offset)
        <5>1. Part(w, j, y) = Part(t, j + offset, y + offset)
          BY <4>1, WindowPart
        <5> QED BY <5>1 DEF Part
      <4> QED BY <4>2 DEF y
    <3> DEFINE l == j + offset
    <3>3. l \in C <=> SubSeq(t, l, l + width - 1) = SubSeq(t, k, e - 1)
      <4>1. l \in e..n /\ l + width <= n + 1
        BY <3>1
      <4> HIDE DEF l
      <4> QED BY <2>3, <4>1
    <3>4. SubSeq(w, j, j + width - 1) = SubSeq(t, l, l + width - 1)
      BY <3>1, <3>2
    <3> HIDE DEF l
    <3> QED BY <2>4, <2>5, <2>6, <3>3, <3>4 DEF l
  <2>7. C # {} => c \in C /\ \A j \in C : c <= j
    BY <2>3, LeastFacts
  <2> HIDE DEF c
  <2>8. CASE C = {}
    <3>1. D = {}
      <4> SUFFICES ASSUME NEW j \in D PROVE FALSE
        OBVIOUS
      <4>1. j \in f..(end - offset) /\ j + width <= end - offset + 1
        BY <2>4
      <4> QED BY <2>6, <2>8, <4>1
    <3>2. DollarEnd(t, k) = n + 1 /\ DollarEnd(w, i) = end - offset + 1
      BY <1>3, <1>4, <1>7, <2>2, <2>8, <3>1
    <3>3. Clip(n + 1, offset, end) = end - offset + 1
      BY <1>1 DEF Clip
    <3> QED BY <3>2, <3>3 DEF k
  <2>9. CASE C # {} /\ c + width <= end + 1
    <3> DEFINE x == c - offset
    <3>7. c \in e..n /\ c \in Nat
      BY <2>3, <2>7, <2>9
    <3>1. c \in e..n /\ x \in f..(end - offset) /\ x + width <= end - offset + 1 /\ x + offset = c
      BY <1>1, <2>2, <2>9, <3>7
    <3> HIDE DEF x
    <3>2. x \in D
      BY <2>6, <2>7, <2>9, <3>1
    <3>3. ASSUME NEW j \in D PROVE x <= j
      <4>1. j \in f..(end - offset) /\ j + width <= end - offset + 1
        BY <2>4
      <4>2. c <= j + offset
        BY <2>6, <2>7, <2>9, <4>1
      <4> QED BY <1>1, <2>2, <3>1, <4>1, <4>2
    <3>4. Least(D) = x
      BY <2>4, <3>2, <3>3, LeastIs
    <3>5. DollarEnd(t, k) = c + width /\ DollarEnd(w, i) = x + width
      BY <1>3, <1>4, <1>7, <2>2, <2>9, <3>2, <3>4 DEF c, width
    <3>6. Clip(c + width, offset, end) = x + width
      BY <1>1, <2>2, <2>9, <3>1 DEF Clip
    <3> QED BY <3>5, <3>6 DEF k
  <2>10. CASE C # {} /\ ~(c + width <= end + 1)
    <3>1. D = {}
      <4> SUFFICES ASSUME NEW j \in D PROVE FALSE
        OBVIOUS
      <4>1. j \in f..(end - offset) /\ j + width <= end - offset + 1
        BY <2>4
      <4>2. c <= j + offset /\ c \in Nat
        BY <2>3, <2>6, <2>7, <2>10, <4>1
      <4> QED BY <1>1, <2>2, <2>10, <4>1, <4>2
    <3>2. DollarEnd(t, k) = c + width /\ DollarEnd(w, i) = end - offset + 1
      BY <1>3, <1>4, <1>7, <2>2, <2>10, <3>1 DEF c, width
    <3>3. Clip(c + width, offset, end) = end - offset + 1
      BY <1>1, <2>10 DEF Clip
    <3> QED BY <3>2, <3>3 DEF k
  <2> QED BY <2>8, <2>9, <2>10
<1> QED BY <1>6, <1>7

LEMMA WindowAt ==
    ASSUME NEW t \in Seq(Char), NEW offset, NEW end, NEW w, Window(t, offset, end, w)
    PROVE  /\ Len(t) \in Nat /\ offset \in Nat /\ end \in Nat /\ end <= Len(t) /\ offset < end
           /\ w \in Seq(Char) /\ Len(w) = end - offset /\ Past(w) = end - offset + 1
           /\ Past(t) = Len(t) + 1 /\ Past(w) \in Nat
           /\ \A i \in 1..Len(w) : /\ w[i] = t[i + offset] /\ i + offset \in 1..Len(t)
                                   /\ i \in 1..(end - offset)
BY DEF Window, Past

LEMMA WindowPairs ==
    ASSUME NEW t \in Seq(Char), NEW offset, NEW end, NEW w, Window(t, offset, end, w),
           Frame(t, offset, end), NEW i \in 1..(end - offset)
    PROVE  /\ Starts(w, i, << "-", "-" >>) <=> Starts(t, i + offset, << "-", "-" >>)
           /\ Starts(w, i, << "/", "*" >>) <=> Starts(t, i + offset, << "/", "*" >>)
<1> DEFINE k == i + offset
<1>1. /\ Len(t) \in Nat /\ k \in Nat \ {0} /\ k <= end /\ end \in Nat /\ end <= Len(t)
  BY DEF Window
<1>2. ASSUME NEW x, NEW y, y = "-" \/ y = "*", Starts(t, k, << x, y >>) PROVE k < end
  <2> HIDE DEF k
  <2>1. k + 1 <= Len(t) /\ t[k + 1] = y
    BY <1>1, <1>2, StartsPair
  <2>2. CASE k = end
    <3>1. end # Len(t)
      BY <1>1, <2>1, <2>2
    <3>2. Ender(t[end + 1])
      BY <3>1 DEF Frame
    <3>3. t[end + 1] = y
      BY <2>1, <2>2
    <3>4. y # "-" /\ y # "*"
      BY <3>2, <3>3, EnderFacts
    <3> QED BY <1>2, <3>4
  <2> QED BY <1>1, <2>2
<1>3. Starts(w, i, << "-", "-" >>) <=> Starts(t, k, << "-", "-" >>) /\ k < end
  BY WindowStarts
<1>4. Starts(w, i, << "/", "*" >>) <=> Starts(t, k, << "/", "*" >>) /\ k < end
  BY WindowStarts
<1> HIDE DEF k
<1>5. Starts(t, k, << "-", "-" >>) => k < end
  BY <1>2
<1>6. Starts(t, k, << "/", "*" >>) => k < end
  BY <1>2
<1> QED BY <1>3, <1>4, <1>5, <1>6 DEF k

LEMMA WindowEString ==
    ASSUME NEW t \in Seq(Char), NEW offset, NEW end, NEW w, Window(t, offset, end, w),
           Frame(t, offset, end), NEW i \in 1..(end - offset)
    PROVE  EString(w, i) = EString(t, i + offset)
<1> DEFINE k == i + offset
<1>1. /\ offset \in Nat /\ i \in Nat \ {0} /\ \A j \in 1..Len(w) : w[j] = t[j + offset]
      /\ k \in Nat /\ i <= Len(w) /\ Len(w) \in Nat
  BY WindowAt
<1>2. offset = 0 \/ ~EndsIdent(t[offset])
  BY DEF Frame
<1>3. EndsIdent("e")
  BY DEF EndsIdent, IdentByte
<1>4. i > 1 => i - 1 \in 1..Len(w) /\ i - 1 + offset = k - 1 /\ k > 1
  BY <1>1
<1>5. i > 2 => i - 2 \in 1..Len(w) /\ i - 2 + offset = k - 2 /\ k > 2
  BY <1>1
<1>6. i > 1 => w[i - 1] = t[k - 1]
  BY <1>1, <1>4
<1>7. i > 2 => w[i - 2] = t[k - 2]
  BY <1>1, <1>5
<1>8. ~(i > 1) => k - 1 = offset /\ (k > 1 <=> offset # 0)
  BY <1>1
<1>9. i > 1 /\ ~(i > 2) => k - 2 = offset /\ (k > 2 <=> offset # 0)
  BY <1>1
<1> HIDE DEF k
<1>10. EString(w, i) <=> EString(t, k)
  <2>1. CASE ~(i > 1)
    <3>1. k > 1 => t[k - 1] # "e"
      BY <1>2, <1>3, <1>8, <2>1
    <3> QED BY <2>1, <3>1 DEF EString
  <2>2. CASE i > 1 /\ ~(i > 2)
    <3>1. k > 2 => ~EndsIdent(t[k - 2])
      BY <1>2, <1>9, <2>2
    <3> QED BY <1>4, <1>6, <2>2, <3>1, Zenon DEF EString
  <2>3. CASE i > 2
    <3>1. i > 1
      BY <1>1, <2>3
    <3> QED BY <1>4, <1>5, <1>6, <1>7, <2>3, <3>1, Zenon DEF EString
  <2> QED BY <2>1, <2>2, <2>3
<1>11. EString(w, i) \in BOOLEAN /\ EString(t, k) \in BOOLEAN
  BY DEF EString
<1>12. EString(w, i) = EString(t, k)
  BY <1>10, <1>11
<1> QED BY <1>12 DEF k

\* A construct of the window is the text's, as far as the window goes.
LEMMA WindowConstruct ==
    ASSUME NEW t \in Seq(Char), NEW offset, NEW end, NEW w, Window(t, offset, end, w),
           Frame(t, offset, end), NEW i \in 1..(end - offset)
    PROVE  Construct(w, i) = Piece(Construct(t, i + offset).kind, i,
                                   Clip(Construct(t, i + offset).to, offset, end))
<1> DEFINE k == i + offset
           c == Construct(t, k)
           Same == Construct(w, i) = Piece(c.kind, i, Clip(c.to, offset, end))
<1>1. /\ Len(t) \in Nat /\ w \in Seq(Char) /\ w[i] = t[k] /\ k \in 1..Len(t) /\ i \in 1..Len(w)
      /\ offset \in Nat /\ end \in Nat /\ k <= end /\ i \in Nat /\ Len(w) = end - offset
  BY WindowAt
<1>2. ASSUME NEW kind, NEW e, c = Piece(kind, k, e), Construct(w, i) = Piece(kind, i, Clip(e, offset, end))
      PROVE  Same
  <2>1. c.kind = kind /\ c.to = e
    BY <1>2, PieceFields
  <2> HIDE DEF c
  <2> QED BY <1>2, <2>1
<1>3. Clip(k + 1, offset, end) = i + 1
  BY <1>1 DEF Clip
<1>4. Starts(t, k, << "-", "-" >>) => Same
  <2> SUFFICES ASSUME Starts(t, k, << "-", "-" >>) PROVE Same
    OBVIOUS
  <2>1. c = Piece("comment", k, LineCommentEnd(t, k))
    BY <1>1, ConstructCases
  <2>2. Starts(w, i, << "-", "-" >>)
    BY WindowPairs
  <2>3. Construct(w, i) = Piece("comment", i, LineCommentEnd(w, i))
    BY <1>1, <2>2, ConstructCases
  <2>4. LineCommentEnd(w, i) = Clip(LineCommentEnd(t, k), offset, end)
    BY WindowLine
  <2> HIDE DEF Same, c, k
  <2> QED BY <1>2, <2>1, <2>3, <2>4
<1>5. Starts(t, k, << "/", "*" >>) => Same
  <2> SUFFICES ASSUME Starts(t, k, << "/", "*" >>) PROVE Same
    OBVIOUS
  <2>1. c = Piece("comment", k, BlockCommentEnd(t, k))
    BY <1>1, ConstructCases
  <2>2. Starts(w, i, << "/", "*" >>)
    BY WindowPairs
  <2>3. Construct(w, i) = Piece("comment", i, BlockCommentEnd(w, i))
    BY <1>1, <2>2, ConstructCases
  <2>4. BlockCommentEnd(w, i) = Clip(BlockCommentEnd(t, k), offset, end)
    <3>1. i + 1 <= Len(w)
      BY <1>1, <2>2, StartsPair
    <3> DEFINE j == i + 2
    <3>2. j \in 1..(end - offset + 1) /\ j + offset = k + 2
      BY <1>1, <3>1
    <3> HIDE DEF j
    <3>3. \A d \in Nat : BlockEnds(w)[j][d] = Clip(BlockEnds(t)[j + offset][d], offset, end)
      BY <3>2, WindowBlock
    <3>4. BlockEnds(w)[j][1] = Clip(BlockEnds(t)[j + offset][1], offset, end)
      BY <3>3
    <3>5. BlockEnds(w)[i + 2][1] = Clip(BlockEnds(t)[k + 2][1], offset, end)
      BY <3>2, <3>4 DEF j
    <3> HIDE DEF k
    <3> QED BY <3>5, BlockCommentBy
  <2> HIDE DEF Same, c, k
  <2> QED BY <1>2, <2>1, <2>3, <2>4
<1>6. Semicolon(t[k]) => Same
  <2> SUFFICES ASSUME Semicolon(t[k]) PROVE Same
    OBVIOUS
  <2>1. c = Piece("semicolon", k, k + 1)
    BY <1>1, ConstructCases
  <2>2. Construct(w, i) = Piece("semicolon", i, i + 1)
    BY <1>1, ConstructCases
  <2> HIDE DEF Same, c, k
  <2> QED BY <1>2, <1>3, <2>1, <2>2
<1>7. AsciiWhitespace(t[k]) => Same
  <2> SUFFICES ASSUME AsciiWhitespace(t[k]) PROVE Same
    OBVIOUS
  <2>1. c = Piece("space", k, k + 1)
    BY <1>1, ConstructCases
  <2>2. Construct(w, i) = Piece("space", i, i + 1)
    BY <1>1, ConstructCases
  <2> HIDE DEF Same, c, k
  <2> QED BY <1>2, <1>3, <2>1, <2>2
<1>8. ASSUME NEW escapes PROVE QuotedEnd(w, i, escapes) = Clip(QuotedEnd(t, k, escapes), offset, end)
  <2> DEFINE j == i + 1
  <2>1. j \in 1..(end - offset + 1) /\ j + offset = k + 1
    BY <1>1
  <2> HIDE DEF j
  <2>2. \A quote : QuotedEnds(w, quote, escapes)[j] = Clip(QuotedEnds(t, quote, escapes)[j + offset], offset, end)
    BY <2>1, WindowQuoted
  <2>3. \A quote : QuotedEnds(w, quote, escapes)[i + 1] = Clip(QuotedEnds(t, quote, escapes)[k + 1], offset, end)
    BY <2>1, <2>2 DEF j
  <2>4. QuotedEnds(w, w[i], escapes)[i + 1] = Clip(QuotedEnds(t, t[k], escapes)[k + 1], offset, end)
    BY <1>1, <2>3
  <2> HIDE DEF k
  <2> QED BY <2>4, QuotedBy
<1>9. t[k] = "'" => Same
  <2> SUFFICES ASSUME t[k] = "'" PROVE Same
    OBVIOUS
  <2>1. c = Piece("content", k, QuotedEnd(t, k, EString(t, k)))
    BY <1>1, ConstructCases
  <2>2. Construct(w, i) = Piece("content", i, QuotedEnd(w, i, EString(w, i)))
    BY <1>1, ConstructCases
  <2>3. EString(w, i) = EString(t, k)
    BY WindowEString
  <2> HIDE DEF Same, c, k
  <2> QED BY <1>2, <1>8, <2>1, <2>2, <2>3
<1>10. t[k] = DoubleQuote => Same
  <2> SUFFICES ASSUME t[k] = DoubleQuote PROVE Same
    OBVIOUS
  <2>1. c = Piece("content", k, QuotedEnd(t, k, FALSE))
    BY <1>1, ConstructCases
  <2>2. Construct(w, i) = Piece("content", i, QuotedEnd(w, i, FALSE))
    BY <1>1, ConstructCases
  <2> HIDE DEF Same, c, k
  <2> QED BY <1>2, <1>8, <2>1, <2>2
<1>11. t[k] = "$" => Same
  <2> SUFFICES ASSUME t[k] = "$" PROVE Same
    OBVIOUS
  <2>1. c = Piece("content", k, DollarEnd(t, k))
    BY <1>1, ConstructCases
  <2>2. Construct(w, i) = Piece("content", i, DollarEnd(w, i))
    BY <1>1, ConstructCases
  <2>3. DollarEnd(w, i) = Clip(DollarEnd(t, k), offset, end)
    BY WindowDollar
  <2> HIDE DEF Same, c, k
  <2> QED BY <1>2, <2>1, <2>2, <2>3
<1>12. (~(\/ Starts(t, k, << "-", "-" >>) \/ Starts(t, k, << "/", "*" >>)
           \/ Semicolon(t[k]) \/ AsciiWhitespace(t[k])
           \/ t[k] = "'" \/ t[k] = DoubleQuote \/ t[k] = "$")) => Same
  <2> SUFFICES ASSUME ~(\/ Starts(t, k, << "-", "-" >>) \/ Starts(t, k, << "/", "*" >>)
                        \/ Semicolon(t[k]) \/ AsciiWhitespace(t[k])
                        \/ t[k] = "'" \/ t[k] = DoubleQuote \/ t[k] = "$")
               PROVE  Same
    OBVIOUS
  <2>1. c = Piece("content", k, k + 1)
    BY <1>1, ConstructCases
  <2>2. ~Starts(w, i, << "-", "-" >>) /\ ~Starts(w, i, << "/", "*" >>)
    BY WindowPairs
  <2>3. Construct(w, i) = Piece("content", i, i + 1)
    BY <1>1, <2>2, ConstructCases
  <2> HIDE DEF Same, c, k
  <2> QED BY <1>2, <1>3, <2>1, <2>3
<1>13. Same
  BY <1>4, <1>5, <1>6, <1>7, <1>9, <1>10, <1>11, <1>12
<1> QED BY <1>13

\* Constructs that follow one another from i to the end of the text.
Chained(t, i, seq) ==
    /\ Len(seq) = 0 <=> i = Past(t)
    /\ Len(seq) # 0 => seq[1].from = i
    /\ \A k \in 1..Len(seq) :
          /\ seq[k].from \in 1..Len(t) /\ seq[k] = Construct(t, seq[k].from)
          /\ k = Len(seq) => seq[k].to = Past(t)
          /\ k # Len(seq) => seq[k + 1].from = seq[k].to

LEMMA RestChained ==
    ASSUME NEW t \in Seq(Char)
    PROVE  \A i \in 1..Past(t) : Chained(t, i, Rest(t)[i])
<1> DEFINE n == Len(t)
           m == Past(t)
           R == Rest(t)
           P == {i \in 1..m : Chained(t, i, R[i])}
<1>1. n \in Nat /\ m = n + 1 /\ m \in Nat
  BY DEF Past
<1>2. ASSUME NEW i \in 1..m, \A k \in (i + 1)..m : k \in P PROVE i \in P
  <2> DEFINE c == Construct(t, i)
             r == R[c.to]
  <2>1. \A k \in (i + 1)..m : Chained(t, k, R[k])
    BY <1>2
  <2> HIDE DEF P
  <2>2. CASE i > n
    <3>0. R[i] = << >>
      BY <2>2, RestStepped
    <3>1. R[i] = << >> /\ i = m
      BY <1>1, <2>2, <3>0
    <3>2. Len(R[i]) = 0 /\ \A k \in 1..0 : FALSE
      BY <3>1
    <3> HIDE DEF R, m
    <3>3. Chained(t, i, R[i])
      BY <3>1, <3>2 DEF Chained, m
    <3> QED BY <3>3 DEF P
  <2>3. CASE i <= n
    <3>1. i \in 1..n /\ i # m
      BY <1>1, <2>3
    <3>2. c.from = i /\ c.to \in (i + 1)..m /\ c.to \in 1..m /\ c \in Pieces(n)
      BY <2>3, <3>1, ConstructFacts, RestStepped
    <3>3. R[i] = << c >> \o r
      BY <2>3, RestStepped
    <3>4. r \in Seq(Pieces(n)) /\ Chained(t, c.to, r)
      BY <2>1, <3>2, RestStepped
    <3>5. c = Construct(t, c.from)
      BY <3>2
    <3> HIDE DEF r, c, R
    <3>6. /\ Len(R[i]) = Len(r) + 1 /\ Len(r) \in Nat /\ R[i][1] = c
          /\ \A k \in 2..(Len(r) + 1) : R[i][k] = r[k - 1] /\ k - 1 \in 1..Len(r)
      BY <3>2, <3>3, <3>4, ConsFacts
    <3>7. /\ Len(r) = 0 <=> c.to = m
          /\ Len(r) # 0 => r[1].from = c.to
          /\ \A k \in 1..Len(r) :
                /\ r[k].from \in 1..n /\ r[k] = Construct(t, r[k].from)
                /\ k = Len(r) => r[k].to = m
                /\ k # Len(r) => r[k + 1].from = r[k].to
      BY <3>4 DEF Chained
    <3>8. ASSUME NEW k \in 1..Len(R[i])
          PROVE  /\ R[i][k].from \in 1..n /\ R[i][k] = Construct(t, R[i][k].from)
                 /\ k = Len(R[i]) => R[i][k].to = m
                 /\ k # Len(R[i]) => R[i][k + 1].from = R[i][k].to
      <4>1. CASE k = 1
        <5>1. Len(r) # 0 => R[i][2] = r[1]
          <6> DEFINE two == 2
          <6>1. Len(r) # 0 => two \in 2..(Len(r) + 1) /\ two - 1 = 1
            BY <3>6
          <6>2. Len(r) # 0 => R[i][two] = r[two - 1]
            <7> HIDE DEF two
            <7> QED BY <3>6, <6>1
          <6> QED BY <6>1, <6>2
        <5>2. k + 1 = 2
          BY <4>1
        <5>3. R[i][k] = c /\ (k = Len(R[i]) <=> Len(r) = 0)
          BY <3>6, <4>1
        <5>4. k # Len(R[i]) => R[i][k + 1].from = R[i][k].to
          BY <3>7, <5>1, <5>2, <5>3
        <5> QED BY <3>1, <3>2, <3>5, <3>7, <5>3, <5>4
      <4>2. CASE k # 1
        <5>1. k \in 2..(Len(r) + 1)
          BY <3>6, <4>2
        <5> DEFINE l == k - 1
        <5>2. R[i][k] = r[l] /\ l \in 1..Len(r)
          BY <3>6, <5>1
        <5>3. (k = Len(R[i]) <=> l = Len(r)) /\ l + 1 = k
          BY <3>6, <5>1
        <5>4. k # Len(R[i]) => R[i][k + 1] = r[l + 1]
          <6> DEFINE h == k + 1
          <6>1. k # Len(R[i]) => h \in 2..(Len(r) + 1) /\ h - 1 = k
            BY <3>6, <5>1
          <6>2. k # Len(R[i]) => R[i][h] = r[h - 1]
            <7> HIDE DEF h
            <7> QED BY <3>6, <6>1
          <6> QED BY <5>3, <6>1, <6>2
        <5> HIDE DEF l
        <5> QED BY <3>7, <5>2, <5>3, <5>4
      <4> QED BY <4>1, <4>2
    <3>9. Len(R[i]) # 0 /\ R[i][1].from = i
      BY <3>2, <3>6
    <3>10. Chained(t, i, R[i])
      <4> HIDE DEF n, m
      <4> QED BY <3>1, <3>8, <3>9 DEF Chained, n, m
    <3> QED BY <3>10 DEF P, R
  <2> QED BY <1>1, <2>2, <2>3
<1>3. P = 1..m
  <2>1. P \in SUBSET (1..m)
    OBVIOUS
  <2> HIDE DEF P
  <2> QED BY <1>1, <1>2, <2>1, BackwardInduction
<1> QED BY <1>3

LEMMA LexChained ==
    ASSUME NEW t \in Seq(Char)
    PROVE  Chained(t, 1, Lex(t))
<1>1. 1 \in 1..Past(t)
  BY DEF Past
<1> QED BY <1>1, RestChained, LexBy

\* A block comment that ends before the text does ends with its closing pair.
LEMMA BlockClosed ==
    ASSUME NEW t \in Seq(Char)
    PROVE  \A j \in 1..Past(t) : \A d \in Nat \ {0} :
              BlockEnds(t)[j][d] <= Len(t) => t[BlockEnds(t)[j][d] - 1] = "/"
<1> DEFINE n == Len(t)
           m == Past(t)
           E == BlockEnds(t)
           Good(j, d) == E[j][d] <= n => t[E[j][d] - 1] = "/"
           P == {j \in 1..m : \A d \in Nat \ {0} : Good(j, d)}
<1>1. n \in Nat /\ m = n + 1 /\ m \in Nat
  BY DEF Past
<1>2. ASSUME NEW j \in 1..m, \A k \in (j + 1)..m : k \in P PROVE j \in P
  <2>1. \A k \in (j + 1)..m : \A d \in Nat \ {0} : Good(k, d)
    BY <1>2
  <2> HIDE DEF P
  <2> SUFFICES ASSUME NEW d \in Nat \ {0} PROVE Good(j, d)
    BY DEF P
  <2>2. /\ j = m \/ d = 0 => E[j][d] = j
        /\ j < m /\ d # 0 =>
              IF Starts(t, j, << "/", "*" >>)
              THEN j + 2 \in (j + 1)..m /\ E[j][d] = E[j + 2][d + 1]
              ELSE IF Starts(t, j, << "*", "/" >>)
              THEN j + 2 \in (j + 1)..m /\ E[j][d] = E[j + 2][d - 1]
              ELSE E[j][d] = E[j + 1][d]
    BY BlockStepped
  <2>3. ASSUME NEW k \in (j + 1)..m, NEW b \in Nat \ {0}, E[j][d] = E[k][b] PROVE Good(j, d)
    BY <2>1, <2>3
  <2>4. CASE j = m
    BY <1>1, <2>2, <2>4
  <2>5. CASE j # m
    <3>1. j < m /\ j + 1 \in (j + 1)..m
      BY <1>1, <2>5
    <3>2. CASE Starts(t, j, << "/", "*" >>)
      <4>1. j + 2 \in (j + 1)..m /\ E[j][d] = E[j + 2][d + 1] /\ d + 1 \in Nat \ {0}
        BY <2>2, <3>1, <3>2
      <4> HIDE DEF Good, E
      <4> QED BY <2>3, <4>1
    <3>3. CASE ~Starts(t, j, << "/", "*" >>) /\ Starts(t, j, << "*", "/" >>)
      <4>1. j + 2 \in (j + 1)..m /\ E[j][d] = E[j + 2][d - 1]
        BY <2>2, <3>1, <3>3
      <4>2. CASE d = 1
        <5>1. E[j + 2][0] = j + 2
          <6> DEFINE k == j + 2
          <6>1. k \in 1..m
            BY <1>1, <4>1
          <6> HIDE DEF k
          <6>2. E[k][0] = k
            BY <6>1, BlockStepped
          <6> QED BY <6>2 DEF k
        <5>2. E[j][d] = j + 2
          BY <4>1, <4>2, <5>1
        <5>3. t[j + 1] = "/"
          BY <3>3, StartsPair
        <5>4. j + 2 - 1 = j + 1
          OBVIOUS
        <5> QED BY <5>2, <5>3, <5>4
      <4>3. CASE d # 1
        <5>1. d - 1 \in Nat \ {0}
          BY <4>3
        <5> HIDE DEF Good, E
        <5> QED BY <2>3, <4>1, <5>1
      <4> QED BY <4>2, <4>3
    <3>4. CASE ~Starts(t, j, << "/", "*" >>) /\ ~Starts(t, j, << "*", "/" >>)
      <4>1. E[j][d] = E[j + 1][d]
        BY <2>2, <3>1, <3>4
      <4> HIDE DEF Good, E
      <4> QED BY <2>3, <3>1, <4>1
    <3> QED BY <3>2, <3>3, <3>4
  <2> QED BY <2>4, <2>5
<1>3. P = 1..m
  <2>1. P \in SUBSET (1..m)
    OBVIOUS
  <2> HIDE DEF P
  <2> QED BY <1>1, <1>2, <2>1, BackwardInduction
<1> QED BY <1>3

\* What is not content, and has content after it, does not end in an identifier.
LEMMA BeforeContent ==
    ASSUME NEW t \in Seq(Char), NEW i \in 1..Len(t), Construct(t, i).kind # "content",
           Construct(t, i).to <= Len(t), Construct(t, Construct(t, i).to).kind = "content"
    PROVE  ~EndsIdent(t[Construct(t, i).to - 1])
<1> DEFINE n == Len(t)
           c == Construct(t, i)
           A == Starts(t, i, << "-", "-" >>)
           B == Starts(t, i, << "/", "*" >>)
<1>1. n \in Nat /\ c.to \in (i + 1)..n /\ c.to \in 1..n /\ i \in Nat \ {0} /\ i + 1 - 1 = i
  BY ConstructFacts DEF Past
<1>2. ASSUME NEW kind, NEW e, c = Piece(kind, i, e) PROVE c.kind = kind /\ c.to = e
  BY <1>2, PieceFields
<1>3. ASSUME NEW ch PROVE /\ Semicolon(ch) => ~EndsIdent(ch)
                          /\ AsciiWhitespace(ch) => ~EndsIdent(ch)
                          /\ ch = "/" => ~EndsIdent(ch)
                          /\ ch = Newline => AsciiWhitespace(ch)
  BY Zenon DEF Semicolon, AsciiWhitespace, EndsIdent, IdentByte, Marker, Newline
<1>4. CASE A
  <2>1. c.to = LineCommentEnd(t, i)
    <3>1. c = Piece("comment", i, LineCommentEnd(t, i))
      BY <1>4, ConstructCases
    <3> HIDE DEF c
    <3> QED BY <1>2, <3>1
  <2> DEFINE S == {Past(t)} \cup {j \in i..n : t[j] = Newline}
  <2>2. S \in SUBSET Nat /\ S # {}
    BY <1>1 DEF Past
  <2>3. c.to \in S
    <3> HIDE DEF c
    <3>1. Least(S) \in S
      <4> HIDE DEF S
      <4> QED BY <2>2, LeastFacts
    <3> QED BY <2>1, <3>1 DEF LineCommentEnd
  <2>4. t[c.to] = Newline
    <3> HIDE DEF c
    <3> QED BY <1>1, <2>3 DEF Past
  <2>5. Construct(t, c.to).kind = "space"
    <3> DEFINE k == c.to
    <3>1. k \in 1..n /\ AsciiWhitespace(t[k])
      BY <1>1, <1>3, <2>4
    <3> HIDE DEF k
    <3>2. Construct(t, k) = Piece("space", k, k + 1)
      BY <3>1, ConstructCases
    <3> QED BY <3>2, PieceFields DEF k
  <2> QED BY <2>5
<1>5. CASE B
  <2>1. c.to = BlockEnds(t)[i + 2][1]
    <3>1. c = Piece("comment", i, BlockCommentEnd(t, i))
      BY <1>5, ConstructCases
    <3> HIDE DEF c
    <3> QED BY <1>2, <3>1, BlockCommentBy
  <2>2. i + 1 <= n
    BY <1>1, <1>5, StartsPair
  <2>3. i + 2 \in 1..Past(t)
    BY <1>1, <2>2 DEF Past
  <2>4. t[c.to - 1] = "/"
    <3> HIDE DEF c
    <3> DEFINE j == i + 2
    <3>1. j \in 1..Past(t) /\ c.to = BlockEnds(t)[j][1]
      BY <2>1, <2>3
    <3> HIDE DEF j
    <3>2. \A d \in Nat \ {0} : BlockEnds(t)[j][d] <= Len(t) => t[BlockEnds(t)[j][d] - 1] = "/"
      BY <3>1, BlockClosed
    <3>3. BlockEnds(t)[j][1] <= Len(t) => t[BlockEnds(t)[j][1] - 1] = "/"
      BY <3>2
    <3> QED BY <3>1, <3>3, <1>1
  <2> QED BY <1>3, <2>4
<1>6. CASE Semicolon(t[i])
  <2>1. c.to = i + 1
    <3>1. c = Piece("semicolon", i, i + 1)
      BY <1>6, ConstructCases
    <3> HIDE DEF c
    <3> QED BY <1>2, <3>1
  <2>2. c.to - 1 = i
    BY <1>1, <2>1
  <2> QED BY <1>3, <1>6, <2>2
<1>7. CASE AsciiWhitespace(t[i])
  <2>1. c.to = i + 1
    <3>1. c = Piece("space", i, i + 1)
      BY <1>7, ConstructCases
    <3> HIDE DEF c
    <3> QED BY <1>2, <3>1
  <2>2. c.to - 1 = i
    BY <1>1, <2>1
  <2> QED BY <1>3, <1>7, <2>2
<1>8. CASE \/ t[i] = "'" \/ t[i] = DoubleQuote \/ t[i] = "$" \/ c = Piece("content", i, i + 1)
  <2>1. c.kind = "content"
    BY <1>2, <1>8, ConstructCases
  <2> QED BY <2>1
<1> QED BY <1>4, <1>5, <1>6, <1>7, <1>8, ConstructCases

\* A statement of the text is a stretch of its constructs, from content on and up
\* to a semicolon or the end.
Opens(cs, p) ==
    /\ p \in 1..Len(cs) /\ cs[p].kind = "content"
    /\ p > 1 => cs[p - 1].kind # "content"

Stretch(cs, p, q) ==
    /\ Opens(cs, p) /\ q \in (p + 1)..(Len(cs) + 1)
    /\ \A k \in p..(q - 1) : cs[k].kind # "semicolon"
    /\ q <= Len(cs) => cs[q].kind = "semicolon"

EndOf(t, cs, q) == IF q <= Len(cs) THEN cs[q].from ELSE Past(t)

RawOf(t, cs, p, q) ==
    [text |-> Trim(SubSeq(t, cs[p].from, EndOf(t, cs, q) - 1)), line |-> LineOf(t, cs[p].from)]

\* The statements pushed among the first n constructs, and the stretches they are.
Places(t, cs, out, P, Q, n) ==
    /\ P \in Seq(Nat) /\ Q \in Seq(Nat) /\ Len(P) = Len(out) /\ Len(Q) = Len(out)
    /\ \A m \in 1..Len(out) :
          Stretch(cs, P[m], Q[m]) /\ Q[m] <= n /\ out[m] = RawOf(t, cs, P[m], Q[m])
    /\ \A m \in 1..Len(out) : \A l \in 1..(m - 1) : Q[l] <= P[m]

Opened(cs, start, p, n) ==
    /\ p \in 1..n /\ Opens(cs, p) /\ start = cs[p].from
    /\ \A k \in p..n : cs[k].kind # "semicolon"

CutKnown(t, cs, state, n) ==
    \E P, Q :
        /\ Places(t, cs, state.out, P, Q, n)
        /\ state.start = 0 => n = 0 \/ cs[n].kind # "content"
        /\ state.start # 0 =>
              \E p \in Nat : /\ Opened(cs, state.start, p, n)
                             /\ \A m \in 1..Len(state.out) : Q[m] <= p

LEMMA PushPlaces ==
    ASSUME NEW t \in Seq(Char), NEW cs \in Seq(Pieces(Len(t))), NEW out \in Seq(RawStatements(t)),
           NEW n \in Nat, NEW P, NEW Q, Places(t, cs, out, P, Q, n),
           NEW p, NEW q, Stretch(cs, p, q), \A m \in 1..Len(out) : Q[m] <= p
    PROVE  \E PP, QQ : Places(t, cs, Push(out, t, cs[p].from, EndOf(t, cs, q)), PP, QQ, q)
<1> DEFINE x == RawOf(t, cs, p, q)
           new == Push(out, t, cs[p].from, EndOf(t, cs, q))
<1>1. /\ Len(cs) \in Nat /\ p \in 1..Len(cs) /\ p \in Nat /\ q \in Nat /\ p <= q
      /\ cs[p] \in Pieces(Len(t)) /\ Len(out) \in Nat
  BY DEF Stretch, Opens
<1>2. cs[p].from # 0
  BY <1>1 DEF Pieces
<1>3. new = out \/ new = Append(out, x)
  BY <1>2 DEF Push, PushTrimmed, RawOf
<1>4. /\ P \in Seq(Nat) /\ Q \in Seq(Nat) /\ Len(P) = Len(out) /\ Len(Q) = Len(out)
      /\ \A m \in 1..Len(out) :
            /\ Stretch(cs, P[m], Q[m]) /\ Q[m] <= n /\ out[m] = RawOf(t, cs, P[m], Q[m])
            /\ P[m] \in Nat /\ Q[m] \in Nat
      /\ \A m \in 1..Len(out) : \A l \in 1..(m - 1) : Q[l] <= P[m]
  BY DEF Places
<1> HIDE DEF x, new
<1>5. CASE new = out
  <2>1. \A m \in 1..Len(out) : Q[m] <= q
    BY <1>1, <1>4
  <2>2. Places(t, cs, out, P, Q, q)
    BY <1>4, <2>1 DEF Places
  <2> QED BY <1>5, <2>2 DEF new
<1>6. CASE new = Append(out, x)
  <2> DEFINE PP == Append(P, p)
             QQ == Append(Q, q)
             o == Append(out, x)
             z == Len(out)
  <2>1. /\ PP \in Seq(Nat) /\ QQ \in Seq(Nat) /\ Len(PP) = z + 1 /\ Len(QQ) = z + 1
        /\ \A m \in 1..z : PP[m] = P[m] /\ QQ[m] = Q[m]
        /\ PP[z + 1] = p /\ QQ[z + 1] = q
    BY <1>1, <1>4
  <2>2. Len(o) = z + 1 /\ o[z + 1] = x /\ \A m \in 1..z : o[m] = out[m]
    OBVIOUS
  <2> HIDE DEF PP, QQ, o
  <2>3. ASSUME NEW m \in 1..(z + 1)
        PROVE  /\ Stretch(cs, PP[m], QQ[m]) /\ QQ[m] <= q /\ o[m] = RawOf(t, cs, PP[m], QQ[m])
               /\ \A l \in 1..(m - 1) : QQ[l] <= PP[m]
    <3>1. CASE m \in 1..z
      <4>3. Q[m] <= p /\ Q[m] \in Nat /\ QQ[m] = Q[m]
        BY <1>4, <2>1, <3>1
      <4>1. QQ[m] <= q
        BY <1>1, <4>3
      <4>2. \A l \in 1..(m - 1) : l \in 1..z
        BY <1>1, <3>1
      <4> QED BY <1>4, <2>1, <2>2, <3>1, <4>1, <4>2
    <3>2. CASE m = z + 1
      <4>1. PP[m] = p /\ QQ[m] = q /\ o[m] = x
        BY <2>1, <2>2, <3>2
      <4>2. \A l \in 1..(m - 1) : l \in 1..z
        BY <1>1, <3>2
      <4>3. \A l \in 1..(m - 1) : QQ[l] <= PP[m]
        BY <2>1, <4>1, <4>2
      <4>4. q <= q
        BY <1>1
      <4> QED BY <4>1, <4>3, <4>4 DEF x
    <3> QED BY <1>1, <3>1, <3>2
  <2>4. Places(t, cs, o, PP, QQ, q)
    <3> HIDE DEF z
    <3> QED BY <2>1, <2>2, <2>3 DEF Places
  <2> QED BY <1>6, <2>4 DEF o, new
<1> QED BY <1>3, <1>5, <1>6 DEF new

LEMMA CutAllKnown ==
    ASSUME NEW t \in Seq(Char), NEW cs \in Seq(Pieces(Len(t)))
    PROVE  \A n \in 0..Len(cs) : CutKnown(t, cs, CutLoop(t, cs)[n], n)
<1> DEFINE L == CutLoop(t, cs)
           N == Len(cs)
           T == {n \in Nat : n <= N => CutKnown(t, cs, L[n], n)}
<1>1. N \in Nat /\ \A n \in 1..N : cs[n] \in Pieces(Len(t))
  OBVIOUS
<1>2. /\ L \in [0..N -> CutStates(t)] /\ L[0] = [out |-> << >>, start |-> 0]
      /\ \A k \in 1..N : L[k] = CutStep(t, L[k - 1], cs[k])
  BY CutLoopFacts
<1> HIDE DEF L
<1>3. 0 \in T
  <2>1. L[0].out = << >> /\ L[0].start = 0
    BY <1>2
  <2>2. Places(t, cs, << >>, << >>, << >>, 0)
    BY DEF Places
  <2>3. CutKnown(t, cs, L[0], 0)
    BY <2>1, <2>2 DEF CutKnown
  <2> QED BY <2>3
<1>4. ASSUME NEW k \in T PROVE k + 1 \in T
  <2>1. k \in Nat /\ (k <= N => CutKnown(t, cs, L[k], k))
    OBVIOUS
  <2> SUFFICES ASSUME k + 1 <= N PROVE CutKnown(t, cs, L[k + 1], k + 1)
    BY <2>1
  <2> DEFINE n == k + 1
             c == cs[n]
             b == L[k]
             a == L[n]
  <2>2. n \in 1..N /\ n - 1 = k /\ k <= N /\ k \in 0..N /\ k < n /\ n \in Nat
    BY <1>1, <2>1
  <2> HIDE DEF n
  <2>3. /\ a = CutStep(t, b, c) /\ b \in CutStates(t) /\ c \in Pieces(Len(t))
        /\ b.out \in Seq(RawStatements(t)) /\ b.start \in 0..Len(t) /\ c.from \in 1..Len(t)
    BY <1>1, <1>2, <2>2 DEF CutStates, Pieces
  <2>4. PICK P, Q :
            /\ Places(t, cs, b.out, P, Q, k)
            /\ b.start = 0 => k = 0 \/ cs[k].kind # "content"
            /\ b.start # 0 =>
                  \E p \in Nat : /\ Opened(cs, b.start, p, k)
                                 /\ \A m \in 1..Len(b.out) : Q[m] <= p
    BY <2>1, <2>2 DEF CutKnown
  <2> HIDE DEF T, N
  <2> HIDE DEF a, b, c
  <2>5. Places(t, cs, b.out, P, Q, n)
    <3>1. \A m \in 1..Len(b.out) : Q[m] <= n
      <4>1. \A m \in 1..Len(b.out) : Q[m] <= k /\ Q[m] \in Nat
        BY <2>4 DEF Places
      <4> QED BY <2>1, <2>2, <4>1
    <3> QED BY <2>4, <3>1 DEF Places
  <2>6. CASE c.kind = "semicolon"
    <3>1. a = [out |-> Push(b.out, t, b.start, c.from), start |-> 0]
      BY <2>3, <2>6 DEF CutStep
    <3> DEFINE new == Push(b.out, t, b.start, c.from)
    <3>2. \E PP, QQ : Places(t, cs, new, PP, QQ, n)
      <4>1. CASE b.start = 0
        <5>1. new = b.out
          BY <4>1 DEF Push
        <5> QED BY <2>5, <5>1
      <4>2. CASE b.start # 0
        <5>1. PICK p \in Nat : /\ Opened(cs, b.start, p, k)
                               /\ \A m \in 1..Len(b.out) : Q[m] <= p
          BY <2>4, <4>2
        <5>2. p \in 1..k /\ Opens(cs, p) /\ b.start = cs[p].from /\ \A l \in p..k : cs[l].kind # "semicolon"
          BY <5>1 DEF Opened
        <5>3. n \in (p + 1)..(Len(cs) + 1) /\ n <= Len(cs)
          BY <1>1, <2>2, <5>2 DEF N
        <5>4. Stretch(cs, p, n)
          BY <2>2, <2>6, <5>2, <5>3 DEF Stretch, c
        <5>5. EndOf(t, cs, n) = c.from
          BY <5>3 DEF EndOf, c
        <5>6. \E PP, QQ : Places(t, cs, Push(b.out, t, cs[p].from, EndOf(t, cs, n)), PP, QQ, n)
          BY <2>1, <2>3, <2>4, <5>1, <5>4, PushPlaces
        <5> QED BY <5>2, <5>5, <5>6
      <4> QED BY <4>1, <4>2
    <3> HIDE DEF new
    <3>3. a.out = new /\ a.start = 0
      BY <3>1 DEF new
    <3>4. cs[n].kind # "content"
      BY <2>6 DEF c
    <3>5. CutKnown(t, cs, a, n)
      BY <3>2, <3>3, <3>4 DEF CutKnown
    <3> QED BY <3>5 DEF a, n
  <2>7. CASE c.kind = "content" /\ b.start = 0
    <3>1. a = [b EXCEPT !.start = c.from]
      BY <2>3, <2>7 DEF CutStep
    <3>2. a.out = b.out /\ a.start = c.from
      BY <2>3, <3>1 DEF CutStates
    <3>3. k = 0 \/ cs[k].kind # "content"
      BY <2>4, <2>7
    <3>4. Opens(cs, n)
      BY <2>1, <2>2, <2>7, <3>3 DEF Opens, c, N
    <3>5. Opened(cs, c.from, n, n)
      <4>1. n \in 1..n /\ \A l \in n..n : l = n
        BY <2>2
      <4>2. cs[n].kind # "semicolon"
        BY <2>7 DEF c
      <4> QED BY <3>4, <4>1, <4>2 DEF Opened, c
    <3>6. \A m \in 1..Len(b.out) : Q[m] <= n
      BY <2>5 DEF Places
    <3>7. a.start # 0
      BY <2>3, <3>2
    <3>8. CutKnown(t, cs, a, n)
      BY <2>2, <2>5, <3>2, <3>5, <3>6, <3>7 DEF CutKnown
    <3> QED BY <3>8 DEF a, n
  <2>8. CASE c.kind # "semicolon" /\ ~(c.kind = "content" /\ b.start = 0)
    <3>1. a = b
      BY <2>3, <2>8 DEF CutStep
    <3>2. b.start = 0 => cs[n].kind # "content"
      BY <2>8 DEF c
    <3>3. ASSUME b.start # 0
          PROVE  \E p \in Nat : Opened(cs, b.start, p, n) /\ \A m \in 1..Len(b.out) : Q[m] <= p
      <4>1. PICK p \in Nat : /\ Opened(cs, b.start, p, k)
                             /\ \A m \in 1..Len(b.out) : Q[m] <= p
        BY <2>4, <3>3
      <4>2. p \in 1..n /\ \A l \in p..n : l \in p..k \/ l = n
        BY <2>1, <2>2, <4>1 DEF Opened
      <4>3. Opened(cs, b.start, p, n)
        BY <2>8, <4>1, <4>2 DEF Opened, c
      <4> QED BY <4>1, <4>3
    <3>4. CutKnown(t, cs, b, n)
      BY <2>5, <3>2, <3>3 DEF CutKnown
    <3> QED BY <3>1, <3>4 DEF a, n
  <2> QED BY <2>6, <2>7, <2>8
<1>5. T = Nat
  <2> HIDE DEF T
  <2>1. T \in SUBSET Nat
    BY DEF T
  <2> QED BY <1>3, <1>4, <2>1, NatSetInduction
<1>6. \A n \in 0..N : n \in T
  <2> HIDE DEF T
  <2> QED BY <1>5
<1>7. \A n \in 0..N : CutKnown(t, cs, L[n], n)
  BY <1>1, <1>6
<1> QED BY <1>7 DEF L

LEMMA SplitPlaces ==
    ASSUME NEW t \in Seq(Char)
    PROVE  \E P, Q : Places(t, Lex(t), Split(t), P, Q, Len(Lex(t)) + 1)
<1> DEFINE cs == Lex(t)
           n == Len(cs)
           L == CutLoop(t, cs)
           cut == L[n]
<1>1. cs \in Seq(Pieces(Len(t))) /\ n \in Nat /\ n \in 0..n
  BY LexFacts
<1> HIDE DEF cs
<1>2. Split(t) = Push(cut.out, t, cut.start, Past(t))
  BY CutsBy DEF Split, Close, cs
<1>3. cut \in CutStates(t) /\ CutKnown(t, cs, cut, n)
  BY <1>1, CutLoopFacts, CutAllKnown
<1> HIDE DEF cut
<1>4. cut.out \in Seq(RawStatements(t))
  BY <1>3 DEF CutStates
<1>5. PICK P, Q :
            /\ Places(t, cs, cut.out, P, Q, n)
            /\ cut.start # 0 =>
                  \E p \in Nat : /\ Opened(cs, cut.start, p, n)
                                 /\ \A m \in 1..Len(cut.out) : Q[m] <= p
  BY <1>3 DEF CutKnown
<1> DEFINE last == n + 1
<1>6. CASE cut.start = 0
  <2>1. Split(t) = cut.out
    BY <1>2, <1>6 DEF Push
  <2>2. \A m \in 1..Len(cut.out) : Q[m] <= n /\ Q[m] \in Nat
    BY <1>5 DEF Places
  <2>3. \A m \in 1..Len(cut.out) : Q[m] <= last
    BY <1>1, <2>2
  <2> HIDE DEF last
  <2>4. Places(t, cs, cut.out, P, Q, last)
    BY <1>5, <2>3 DEF Places
  <2> QED BY <2>1, <2>4 DEF last, cs
<1>7. CASE cut.start # 0
  <2>1. PICK p \in Nat : /\ Opened(cs, cut.start, p, n)
                         /\ \A m \in 1..Len(cut.out) : Q[m] <= p
    BY <1>5, <1>7
  <2>2. p \in 1..n /\ Opens(cs, p) /\ cut.start = cs[p].from /\ \A l \in p..n : cs[l].kind # "semicolon"
    BY <2>1 DEF Opened
  <2>3. last \in (p + 1)..(n + 1) /\ ~(last <= n) /\ last - 1 = n
    BY <1>1, <2>2
  <2> HIDE DEF last
  <2>4. Stretch(cs, p, last)
    BY <2>2, <2>3 DEF Stretch
  <2>5. EndOf(t, cs, last) = Past(t)
    BY <2>3 DEF EndOf
  <2>6. \E PP, QQ : Places(t, cs, Push(cut.out, t, cs[p].from, EndOf(t, cs, last)), PP, QQ, last)
    <3> HIDE DEF n
    <3> QED BY <1>1, <1>4, <1>5, <2>1, <2>4, PushPlaces
  <2>7. Split(t) = Push(cut.out, t, cs[p].from, EndOf(t, cs, last))
    BY <1>2, <2>2, <2>5
  <2>8. \E PP, QQ : Places(t, cs, Split(t), PP, QQ, last)
    <3> HIDE DEF n
    <3> QED BY <2>6, <2>7
  <2> QED BY <2>8 DEF last, cs
<1> QED BY <1>6, <1>7

LEMMA LexAt ==
    ASSUME NEW t \in Seq(Char), NEW k \in 1..Len(Lex(t))
    PROVE  LET c == Lex(t)[k]
           IN  /\ c.from \in 1..Len(t) /\ c = Construct(t, c.from)
               /\ c.to \in (c.from + 1)..Past(t) /\ c \in Pieces(Len(t))
               /\ c.kind = "semicolon" => Semicolon(t[c.from])
               /\ k = Len(Lex(t)) => c.to = Past(t)
               /\ k # Len(Lex(t)) => Lex(t)[k + 1].from = c.to
<1> DEFINE c == Lex(t)[k]
<1>1. /\ c.from \in 1..Len(t) /\ c = Construct(t, c.from)
      /\ k = Len(Lex(t)) => c.to = Past(t)
      /\ k # Len(Lex(t)) => Lex(t)[k + 1].from = c.to
  BY LexChained DEF Chained
<1> DEFINE i == c.from
<1>2. i \in 1..Len(t) /\ c = Construct(t, i)
  BY <1>1
<1> HIDE DEF c, i
<1>3. /\ c.to \in (i + 1)..Past(t) /\ c \in Pieces(Len(t))
      /\ c.kind = "semicolon" => Semicolon(t[i])
  BY <1>2, ConstructFacts
<1> QED BY <1>1, <1>3 DEF c, i

LEMMA ChainGrows ==
    ASSUME NEW t \in Seq(Char), NEW p \in 1..Len(Lex(t))
    PROVE  \A q \in (p + 1)..(Len(Lex(t)) + 1) :
              EndOf(t, Lex(t), q) \in Lex(t)[p].to..Past(t)
<1> DEFINE cs == Lex(t)
           n == Len(cs)
           x == cs[p].to
           T == {d \in Nat : p + 1 + d <= n + 1 => EndOf(t, cs, p + 1 + d) \in x..Past(t)}
<1>1. n \in Nat /\ Past(t) = Len(t) + 1 /\ Len(t) \in Nat /\ p \in Nat /\ p <= n /\ p \in 1..n
  BY LexFacts DEF Past
<1>2. \A k \in 1..n : /\ cs[k].from \in 1..Len(t) /\ cs[k].to \in (cs[k].from + 1)..Past(t)
                      /\ k = n => cs[k].to = Past(t)
                      /\ k # n => cs[k + 1].from = cs[k].to
  BY LexAt
<1>3. ASSUME NEW k \in 1..n PROVE EndOf(t, cs, k + 1) = cs[k].to
  <2>1. k = n => EndOf(t, cs, k + 1) = Past(t)
    BY <1>1 DEF EndOf
  <2>2. k # n => EndOf(t, cs, k + 1) = cs[k + 1].from
    BY <1>1 DEF EndOf
  <2> QED BY <1>2, <2>1, <2>2
<1> HIDE DEF cs, n
<1>4. x \in Nat /\ x <= Past(t)
  <2>1. cs[p].from \in 1..Len(t) /\ x \in (cs[p].from + 1)..Past(t)
    BY <1>1, <1>2
  <2> HIDE DEF x
  <2> QED BY <1>1, <2>1
<1>5. 0 \in T
  <2>1. EndOf(t, cs, p + 1) = x
    BY <1>1, <1>3
  <2>2. p + 1 + 0 = p + 1
    BY <1>1
  <2> HIDE DEF x
  <2> QED BY <1>1, <1>4, <2>1, <2>2
<1>6. ASSUME NEW d \in T PROVE d + 1 \in T
  <2>1. d \in Nat /\ (p + 1 + d <= n + 1 => EndOf(t, cs, p + 1 + d) \in x..Past(t))
    OBVIOUS
  <2> HIDE DEF x
  <2> SUFFICES ASSUME p + 1 + (d + 1) <= n + 1 PROVE EndOf(t, cs, p + 1 + (d + 1)) \in x..Past(t)
    BY <2>1
  <2> DEFINE k == p + 1 + d
  <2>2. k \in 1..n /\ k <= n + 1 /\ k <= n /\ p + 1 + (d + 1) = k + 1
    BY <1>1, <2>1
  <2>3. EndOf(t, cs, k) \in x..Past(t)
    BY <2>1, <2>2
  <2> HIDE DEF k
  <2>4. EndOf(t, cs, k) = cs[k].from
    BY <2>2 DEF EndOf, n
  <2>5. EndOf(t, cs, k + 1) = cs[k].to /\ cs[k].to \in (cs[k].from + 1)..Past(t)
    BY <1>2, <1>3, <2>2
  <2>6. EndOf(t, cs, k + 1) \in x..Past(t)
    BY <1>1, <1>2, <1>4, <2>2, <2>3, <2>4, <2>5
  <2> QED BY <2>2, <2>6
<1>7. T = Nat
  <2> HIDE DEF T
  <2>1. T \in SUBSET Nat
    BY DEF T
  <2> QED BY <1>5, <1>6, <2>1, NatSetInduction
<1>8. ASSUME NEW q \in (p + 1)..(n + 1) PROVE EndOf(t, cs, q) \in x..Past(t)
  <2> DEFINE d == q - (p + 1)
  <2>1. d \in Nat /\ p + 1 + d = q /\ q <= n + 1
    BY <1>1
  <2>2. d \in T
    <3> HIDE DEF d, T
    <3> QED BY <1>7, <2>1
  <2>3. p + 1 + d <= n + 1 => EndOf(t, cs, p + 1 + d) \in x..Past(t)
    <3> HIDE DEF d
    <3> QED BY <2>2
  <2> QED BY <2>1, <2>3
<1> QED BY <1>8 DEF cs, n

\* The greatest of some places.
LEMMA GreatestFacts ==
    ASSUME NEW n \in Nat, NEW S \in SUBSET (1..n), S # {}
    PROVE  LET z == CHOOSE i \in S : \A j \in S : i >= j
           IN  z \in S /\ \A j \in S : z >= j
<1> DEFINE R == {n - j : j \in S}
<1>1. R \in SUBSET Nat /\ R # {}
  OBVIOUS
<1>2. PICK r \in R : \A j \in R : r <= j
  <2> HIDE DEF R
  <2> QED BY <1>1, LeastFacts
<1>3. PICK i \in S : r = n - i
  BY <1>2
<1>4. \A j \in S : i >= j
  BY <1>2, <1>3
<1> QED BY <1>3, <1>4

LEMMA TrimFacts ==
    ASSUME NEW t \in Seq(Char), NEW a \in 1..Len(t), NEW e \in (a + 1)..Past(t), ~Trimmed(t[a])
    PROVE  \E end \in a..(e - 1) :
              /\ Window(t, a - 1, end, Trim(SubSeq(t, a, e - 1)))
              /\ ~Trimmed(t[end])
              /\ end + 1 < e => Trimmed(t[end + 1])
<1> DEFINE n == Len(t)
           u == SubSeq(t, a, e - 1)
           kept == {i \in DOMAIN u : ~Trimmed(u[i])}
           z == CHOOSE i \in kept : \A j \in kept : i >= j
           end == z + a - 1
           w == SubSeq(u, 1, z)
           y == e - 1
<1>1. n \in Nat /\ Past(t) = n + 1 /\ a \in 1..n /\ e \in (a + 1)..(n + 1) /\ y \in a..n /\ e = y + 1
  BY DEF Past
<1> HIDE DEF y
<1>2. /\ u \in Seq(Char) /\ Len(u) = e - a /\ DOMAIN u = 1..(e - a)
      /\ \A j \in 1..(e - a) : u[j] = t[j + a - 1]
  <2> DEFINE v == SubSeq(t, a, y)
  <2>1. v \in Seq(Char) /\ Len(v) = y - a + 1 /\ DOMAIN v = 1..(y - a + 1)
    BY <1>1
  <2>2. \A j \in 1..(y - a + 1) : v[j] = t[j + a - 1]
    BY <1>1
  <2>3. y - a + 1 = e - a
    BY <1>1
  <2> HIDE DEF v
  <2>4. /\ v \in Seq(Char) /\ Len(v) = e - a /\ DOMAIN v = 1..(e - a)
        /\ \A j \in 1..(e - a) : v[j] = t[j + a - 1]
    BY <2>1, <2>2, <2>3
  <2> QED BY <2>4 DEF v, y
<1> HIDE DEF u, n
<1>3. kept \in SUBSET (1..(e - a)) /\ 1 \in kept
  <2>1. 1 \in DOMAIN u /\ u[1] = t[a]
    BY <1>1, <1>2
  <2> QED BY <1>2, <2>1
<1>4. z \in kept /\ \A j \in kept : z >= j
  <2>1. kept # {} /\ e - a \in Nat
    BY <1>1, <1>3
  <2> HIDE DEF kept
  <2> QED BY <1>3, <2>1, GreatestFacts
<1>5. Trim(u) = w
  <2> DEFINE least == Least(kept)
  <2>1. least = 1
    <3>1. kept \in SUBSET Nat /\ \A j \in kept : 1 <= j
      BY <1>1, <1>3
    <3> HIDE DEF kept
    <3> QED BY <1>3, <3>1, LeastIs
  <2>2. kept # {}
    BY <1>3
  <2>3. Trim(u) = SubSeq(u, Least(kept), z)
    <3>1. Trim(u) = IF kept = {} THEN << >> ELSE SubSeq(u, Least(kept), z)
      BY DEF Trim
    <3> HIDE DEF kept, z
    <3> QED BY <2>2, <3>1
  <2> HIDE DEF kept, z
  <2> QED BY <2>1, <2>3
<1>6. z \in 1..(e - a) /\ ~Trimmed(u[z])
  <2> HIDE DEF z
  <2> QED BY <1>3, <1>4
<1>7. z + 1 \in 1..(e - a) => Trimmed(u[z + 1])
  <2> HIDE DEF z
  <2> SUFFICES ASSUME z + 1 \in 1..(e - a), ~Trimmed(u[z + 1]) PROVE FALSE
    OBVIOUS
  <2>1. z + 1 \in kept
    BY <1>2
  <2> HIDE DEF kept
  <2> QED BY <1>1, <1>4, <1>6, <2>1
<1> HIDE DEF z
<1>8. /\ end \in a..(e - 1) /\ end \in Nat /\ end \in (a - 1 + 1)..n /\ end - (a - 1) = z /\ a - 1 \in Nat
      /\ (end + 1 < e => z + 1 \in 1..(e - a))
  BY <1>1, <1>6
<1>9. ~Trimmed(t[end])
  BY <1>2, <1>6
<1>10. end + 1 < e => Trimmed(t[end + 1])
  <2> SUFFICES ASSUME end + 1 < e PROVE Trimmed(t[end + 1])
    OBVIOUS
  <2> DEFINE j == z + 1
  <2>1. j \in 1..(e - a) /\ Trimmed(u[j]) /\ j + a - 1 = end + 1
    BY <1>1, <1>6, <1>7, <1>8
  <2> HIDE DEF j, end
  <2> QED BY <1>2, <2>1
<1>11. w \in Seq(Char) /\ Len(w) = z /\ \A j \in 1..z : w[j] = t[j + (a - 1)]
  <2>1. z \in Nat /\ z <= Len(u) /\ \A j \in 1..z : j \in 1..(e - a)
    BY <1>1, <1>2, <1>6
  <2>2. w \in Seq(Char) /\ Len(w) = z /\ \A j \in 1..z : w[j] = u[j]
    BY <1>2, <2>1
  <2>3. \A j \in 1..z : u[j] = t[j + a - 1] /\ j + a - 1 = j + (a - 1)
    BY <1>1, <1>2, <2>1
  <2> HIDE DEF w
  <2> QED BY <2>2, <2>3
<1> HIDE DEF w
<1>12. Window(t, a - 1, end, w)
  <2> DEFINE offset == a - 1
  <2>1. offset \in Nat /\ end \in (offset + 1)..n /\ end - offset = z
    BY <1>8
  <2>2. w \in Seq(Char) /\ Len(w) = z /\ \A j \in 1..z : w[j] = t[j + offset]
    BY <1>11
  <2> HIDE DEF offset, end
  <2>3. Window(t, offset, end, w)
    BY <2>1, <2>2 DEF Window, n
  <2> QED BY <2>3 DEF offset, end
<1> HIDE DEF end
<1> QED BY <1>5, <1>8, <1>9, <1>10, <1>12 DEF u

\* A statement, trimmed, is a window of its text.
LEMMA StatementWindow ==
    ASSUME NEW t \in Seq(Char), \A i \in 1..Len(t) : t[i] # "v",
           NEW p, NEW q, Stretch(Lex(t), p, q)
    PROVE  LET a == Lex(t)[p].from
           IN  /\ a \in 1..Len(t) /\ ~Trimmed(t[a])
               /\ \E end \in a..(EndOf(t, Lex(t), q) - 1) :
                     /\ Window(t, a - 1, end, RawOf(t, Lex(t), p, q).text)
                     /\ Frame(t, a - 1, end)
                     /\ ~Trimmed(t[end])
<1> DEFINE cs == Lex(t)
           n == Len(t)
           a == cs[p].from
           e == EndOf(t, cs, q)
<1>1. /\ Len(cs) \in Nat /\ p \in 1..Len(cs) /\ cs[p].kind = "content"
      /\ p > 1 => cs[p - 1].kind # "content"
      /\ q \in (p + 1)..(Len(cs) + 1) /\ (q <= Len(cs) => cs[q].kind = "semicolon")
      /\ n \in Nat /\ Past(t) = n + 1
  BY LexFacts DEF Stretch, Opens, Past
<1>2. \A k \in 1..Len(cs) :
            /\ cs[k].from \in 1..Len(t) /\ cs[k] = Construct(t, cs[k].from)
            /\ cs[k].to \in (cs[k].from + 1)..Past(t)
            /\ cs[k].kind = "semicolon" => Semicolon(t[cs[k].from])
            /\ k # Len(cs) => cs[k + 1].from = cs[k].to
  BY LexAt
<1>3. cs[p].to \in (a + 1)..Past(t) /\ a \in 1..n /\ cs[p] = Construct(t, a)
  BY <1>1, <1>2
<1>4. e \in (a + 1)..Past(t)
  <2>1. e \in cs[p].to..Past(t)
    BY <1>1, ChainGrows
  <2> HIDE DEF e
  <2> QED BY <1>1, <1>3, <2>1
<1>5. q <= Len(cs) => Semicolon(t[e])
  BY <1>1, <1>2 DEF EndOf
<1>6. ~(q <= Len(cs)) => e = Past(t)
  BY DEF EndOf
<1>7. p > 1 => ~EndsIdent(t[a - 1])
  <2> SUFFICES ASSUME p > 1 PROVE ~EndsIdent(t[a - 1])
    OBVIOUS
  <2> DEFINE b == cs[p - 1]
             i == b.from
  <2>1. p - 1 \in 1..Len(cs) /\ p - 1 # Len(cs) /\ p - 1 + 1 = p
    BY <1>1
  <2>2. i \in 1..n /\ b = Construct(t, i) /\ b.to = a /\ b.kind # "content"
    BY <1>1, <1>2, <2>1
  <2> HIDE DEF a, b, i, n
  <2>3. Construct(t, i).to = a /\ Construct(t, a).kind = "content" /\ a <= n /\ Construct(t, i).kind # "content"
    BY <1>1, <1>3, <2>2 DEF a
  <2> QED BY <2>2, <2>3, BeforeContent DEF n
<1>8. p = 1 => a = 1
  BY <1>1, LexChained DEF Chained
<1>9. a - 1 = 0 \/ ~EndsIdent(t[a - 1])
  BY <1>1, <1>7, <1>8
<1>10. ~Trimmed(t[a])
  <2>1. ~AsciiWhitespace(t[a])
    <3> SUFFICES ASSUME AsciiWhitespace(t[a]) PROVE FALSE
      OBVIOUS
    <3> HIDE DEF a
    <3>1. Construct(t, a) = Piece("space", a, a + 1)
      BY <1>3, ConstructCases
    <3>2. Construct(t, a).kind = "space"
      BY <3>1, PieceFields
    <3> QED BY <1>1, <1>3, <3>2 DEF a
  <2> QED BY <1>3, <2>1 DEF Trimmed
<1> HIDE DEF a, e, cs
<1>11. PICK end \in a..(e - 1) :
              /\ Window(t, a - 1, end, Trim(SubSeq(t, a, e - 1)))
              /\ ~Trimmed(t[end])
              /\ end + 1 < e => Trimmed(t[end + 1])
  BY <1>3, <1>4, <1>10, TrimFacts
<1>12. end = Len(t) \/ Ender(t[end + 1])
  <2>1. CASE end + 1 < e
    <3>1. end + 1 \in 1..n
      <4>1. end \in a..(e - 1) /\ a \in Nat /\ a >= 1 /\ e \in Nat /\ e <= n + 1
        <5> HIDE DEF n
        <5> QED BY <1>1, <1>3, <1>4
      <4> HIDE DEF n
      <4> QED BY <1>1, <2>1, <4>1
    <3>2. AsciiWhitespace(t[end + 1])
      BY <1>11, <2>1, <3>1 DEF Trimmed
    <3> QED BY <3>2 DEF Ender
  <2>2. CASE ~(end + 1 < e)
    <3>1. end + 1 = e
      BY <1>1, <1>3, <1>4, <2>2
    <3>2. CASE q <= Len(cs)
      BY <1>5, <3>1, <3>2 DEF Ender
    <3>3. CASE ~(q <= Len(cs))
      BY <1>1, <1>3, <1>6, <3>1, <3>3
    <3> QED BY <3>2, <3>3
  <2> QED BY <2>1, <2>2
<1>13. Frame(t, a - 1, end)
  BY <1>9, <1>12 DEF Frame
<1>14. RawOf(t, cs, p, q).text = Trim(SubSeq(t, a, e - 1))
  BY DEF RawOf, a, e
<1> QED BY <1>3, <1>10, <1>11, <1>13, <1>14 DEF a, e, cs

\* The constructs of a stretch, as a window shows them.
Shown(cs, k, offset, end) ==
    Piece(cs[k].kind, cs[k].from - offset, Clip(cs[k].to, offset, end))

Mirrors(cs, p, q, offset, end, seq) ==
    \A l \in 1..Len(seq) : \E k \in p..(q - 1) : seq[l] = Shown(cs, k, offset, end)

LEMMA MirrorsRest ==
    ASSUME NEW t \in Seq(Char), NEW offset, NEW end, NEW w, Window(t, offset, end, w),
           Frame(t, offset, end), NEW p, NEW q, Stretch(Lex(t), p, q), end < EndOf(t, Lex(t), q)
    PROVE  \A j \in 1..Past(w) :
              (j = Past(w) \/ \E k \in p..(q - 1) : Lex(t)[k].from = j + offset) =>
                 Mirrors(Lex(t), p, q, offset, end, Rest(w)[j])
<1> DEFINE cs == Lex(t)
           N == Len(cs)
           m == Past(w)
           R == Rest(w)
           On(j) == j = m \/ \E k \in p..(q - 1) : cs[k].from = j + offset
           P == {j \in 1..m : On(j) => Mirrors(cs, p, q, offset, end, R[j])}
<1>1. /\ N \in Nat /\ p \in 1..N /\ p \in Nat /\ q \in (p + 1)..(N + 1) /\ q \in Nat
      /\ offset \in Nat /\ end \in Nat /\ end <= Len(t) /\ w \in Seq(Char) /\ Len(w) = end - offset
      /\ m = end - offset + 1 /\ m \in Nat /\ Past(t) = Len(t) + 1 /\ Len(t) \in Nat /\ Len(w) \in Nat
      /\ m = Len(w) + 1
  <2>1. N \in Nat /\ p \in 1..N /\ q \in (p + 1)..(N + 1)
    BY LexFacts DEF Stretch, Opens
  <2> HIDE DEF N
  <2> QED BY <2>1, WindowAt
<1>4. \A z \in Nat : z > end => Clip(z, offset, end) = end - offset + 1
  <2> HIDE DEF m, N
  <2>1. offset \in Nat /\ end \in Nat
    BY <1>1
  <2> QED BY <2>1 DEF Clip
<1>2. ASSUME NEW j \in 1..m, \A k \in (j + 1)..m : k \in P PROVE j \in P
  <2>1. \A k \in (j + 1)..m : On(k) => Mirrors(cs, p, q, offset, end, R[k])
    BY <1>2
  <2> HIDE DEF P
  <2> SUFFICES ASSUME On(j) PROVE Mirrors(cs, p, q, offset, end, R[j])
    BY DEF P
  <2>2. CASE j = m
    <3>1. j > Len(w) /\ j \in 1..Past(w)
      BY <1>1, <2>2
    <3>2. R[j] = << >>
      BY <1>1, <3>1, RestStepped
    <3>3. Len(R[j]) = 0 /\ \A l \in 1..0 : FALSE
      BY <3>2
    <3> HIDE DEF R
    <3> QED BY <3>3 DEF Mirrors
  <2>3. CASE j # m
    <3>1. PICK k \in p..(q - 1) : cs[k].from = j + offset
      BY <2>3
    <3>2. /\ j \in 1..(end - offset) /\ k \in 1..N /\ j <= Len(w) /\ k \in Nat /\ j \in 1..Len(w)
          /\ j \in 1..Past(w) /\ j + offset - offset = j
      BY <1>1, <2>3
    <3> DEFINE c == cs[k]
               d == Construct(w, j)
               x == j + offset
    <3>3. /\ c.from = x /\ c = Construct(t, x) /\ c.to \in (x + 1)..Past(t)
          /\ k = N => c.to = Past(t)
          /\ k # N => cs[k + 1].from = c.to
      BY <3>1, <3>2, LexAt
    <3>4. d = Piece(c.kind, j, Clip(c.to, offset, end))
      <4>1. d = Piece(Construct(t, x).kind, j, Clip(Construct(t, x).to, offset, end))
        BY <3>2, WindowConstruct
      <4> QED BY <3>3, <4>1
    <3>5. d = Shown(cs, k, offset, end)
      <4>1. c.from - offset = j
        <5>1. c.from = x
          BY <3>3
        <5> HIDE DEF c
        <5>2. x - offset = j
          BY <1>1, <3>2
        <5> HIDE DEF x
        <5> QED BY <5>1, <5>2
      <4> HIDE DEF d
      <4>2. d = Piece(c.kind, c.from - offset, Clip(c.to, offset, end))
        BY <3>4, <4>1
      <4> QED BY <4>2 DEF Shown
    <3>6. d.to = Clip(c.to, offset, end) /\ d \in Pieces(Len(w))
      <4>1. d \in Pieces(Len(w))
        BY <1>1, <3>2, ConstructFacts
      <4> HIDE DEF d, c
      <4> QED BY <3>4, <4>1, PieceFields
    <3> DEFINE y == d.to
    <3>7. y \in (j + 1)..m /\ y \in 1..Past(w) /\ R[j] = << d >> \o R[y]
      BY <1>1, <3>2, RestStepped
    <3>8. On(y)
      <4>1. CASE c.to > end
        <5>1. Clip(c.to, offset, end) = m
          <6> DEFINE z == c.to
          <6>1. z \in Nat /\ z > end
            <7>1. x \in Nat /\ Past(t) \in Nat /\ z \in (x + 1)..Past(t)
              BY <1>1, <3>2, <3>3
            <7> HIDE DEF z, x
            <7> QED BY <4>1, <7>1 DEF z
          <6> HIDE DEF z, m
          <6>2. Clip(z, offset, end) = end - offset + 1
            BY <1>4, <6>1
          <6> QED BY <1>1, <6>2 DEF z
        <5>2. y = m
          BY <3>6, <5>1
        <5> HIDE DEF y
        <5> QED BY <5>2
      <4>2. CASE ~(c.to > end)
        <5>1. c.to \in Nat /\ c.to <= end
          <6> DEFINE z == c.to
          <6>1. z \in (x + 1)..Past(t) /\ ~(z > end)
            BY <3>3, <4>2
          <6>2. x \in Nat /\ Past(t) \in Nat
            BY <1>1, <3>2
          <6> HIDE DEF z, x
          <6>3. z \in Nat /\ z <= end
            BY <1>1, <6>1, <6>2
          <6> QED BY <6>3 DEF z
        <5>2. k # N
          BY <1>1, <3>3, <4>2, <5>1
        <5>3. cs[k + 1].from = c.to
          BY <3>3, <5>2
        <5>4. k + 1 # q
          <6> SUFFICES ASSUME k + 1 = q PROVE FALSE
            OBVIOUS
          <6>1. q <= N
            BY <1>1, <3>2, <5>2
          <6>2. EndOf(t, cs, q) = c.to
            BY <5>3, <6>1 DEF EndOf
          <6> HIDE DEF c
          <6> QED BY <4>2, <6>2, <5>1, <1>1
        <5>5. k + 1 \in p..(q - 1)
          BY <1>1, <3>1, <3>2, <5>4
        <5>6. y = c.to - offset
          <6>1. Clip(c.to, offset, end) = c.to - offset
            <7> HIDE DEF c
            <7> QED BY <1>1, <5>1 DEF Clip
          <6> QED BY <3>6, <6>1
        <5>7. y + offset = c.to
          <6> HIDE DEF c, y
          <6> QED BY <1>1, <5>1, <5>6
        <5> HIDE DEF y, c
        <5> QED BY <5>3, <5>5, <5>7
      <4> QED BY <4>1, <4>2
    <3>9. Mirrors(cs, p, q, offset, end, R[y])
      <4> HIDE DEF On, y
      <4> QED BY <2>1, <3>7, <3>8
    <3>10. R[y] \in Seq(Pieces(Len(w)))
      <4> HIDE DEF y
      <4> QED BY <1>1, <3>7, RestStepped
    <3> DEFINE r == R[y]
    <3>11. R[j] = << d >> \o r
      BY <3>7
    <3>12. r \in Seq(Pieces(Len(w))) /\ Mirrors(cs, p, q, offset, end, r)
      BY <3>9, <3>10
    <3> HIDE DEF r, d, R, y
    <3>13. /\ Len(R[j]) = Len(r) + 1 /\ Len(r) \in Nat /\ R[j][1] = d
           /\ \A l \in 2..(Len(r) + 1) : R[j][l] = r[l - 1] /\ l - 1 \in 1..Len(r)
      BY <3>6, <3>11, <3>12, ConsFacts
    <3>14. ASSUME NEW l \in 1..Len(R[j]) PROVE \E i \in p..(q - 1) : R[j][l] = Shown(cs, i, offset, end)
      <4>1. CASE l = 1
        BY <3>1, <3>5, <3>13, <4>1
      <4>2. CASE l # 1
        <5>1. l \in 2..(Len(r) + 1)
          BY <3>13, <4>2
        <5> DEFINE h == l - 1
        <5>2. R[j][l] = r[h] /\ h \in 1..Len(r)
          BY <3>13, <5>1
        <5> HIDE DEF h
        <5> QED BY <3>12, <5>2 DEF Mirrors
      <4> QED BY <4>1, <4>2
    <3> QED BY <3>14 DEF Mirrors
  <2> QED BY <2>2, <2>3
<1>3. P = 1..m
  <2>1. P \in SUBSET (1..m)
    OBVIOUS
  <2> HIDE DEF P
  <2> QED BY <1>1, <1>2, <2>1, BackwardInduction
<1> QED BY <1>3

LEMMA MirrorsLex ==
    ASSUME NEW t \in Seq(Char), NEW offset, NEW end, NEW w, Window(t, offset, end, w),
           Frame(t, offset, end), NEW p, NEW q, Stretch(Lex(t), p, q), end < EndOf(t, Lex(t), q),
           Lex(t)[p].from = offset + 1
    PROVE  /\ Mirrors(Lex(t), p, q, offset, end, Lex(w))
           /\ Len(Lex(w)) # 0
           /\ Lex(w)[1].kind = "content" /\ Lex(w)[1].from = 1
           /\ \A l \in 1..Len(Lex(w)) : Lex(w)[l].kind # "semicolon"
<1>1. /\ w \in Seq(Char) /\ Len(w) \in Nat \ {0} /\ 1 \in 1..Past(w) /\ offset \in Nat /\ 1 \in 1..(end - offset)
  BY WindowAt
<1>2. /\ p \in 1..Len(Lex(t)) /\ Lex(t)[p].kind = "content" /\ p \in p..(q - 1)
      /\ \A k \in p..(q - 1) : Lex(t)[k].kind # "semicolon"
  BY LexFacts DEF Stretch, Opens
<1>3. Lex(t)[p].from = 1 + offset
  BY <1>1
<1>4. Mirrors(Lex(t), p, q, offset, end, Lex(w))
  <2>1. \E k \in p..(q - 1) : Lex(t)[k].from = 1 + offset
    BY <1>2, <1>3
  <2>2. Mirrors(Lex(t), p, q, offset, end, Rest(w)[1])
    BY <1>1, <2>1, MirrorsRest
  <2> QED BY <2>2, LexBy
<1>5. Chained(w, 1, Lex(w)) /\ Lex(w) \in Seq(Pieces(Len(w)))
  BY <1>1, LexChained, LexFacts
<1>6. Len(Lex(w)) \in Nat /\ Len(Lex(w)) # 0 /\ Lex(w)[1].from = 1
  BY <1>1, <1>5 DEF Chained, Past
<1>7. Lex(w)[1] = Construct(w, 1)
  <2>1. 1 \in 1..Len(Lex(w))
    BY <1>6
  <2>2. Lex(w)[1] = Construct(w, Lex(w)[1].from)
    BY <1>5, <2>1 DEF Chained
  <2> QED BY <1>6, <2>2
<1>8. Lex(w)[1].kind = "content"
  <2> DEFINE one == 1
             x == one + offset
  <2>1. one \in 1..(end - offset)
    BY <1>1
  <2> HIDE DEF one
  <2>2. Construct(w, one) = Piece(Construct(t, x).kind, one, Clip(Construct(t, x).to, offset, end))
    BY <2>1, WindowConstruct
  <2>3. Construct(w, one).kind = Construct(t, x).kind
    BY <2>2, PieceFields
  <2>4. Lex(t)[p] = Construct(t, Lex(t)[p].from)
    BY <1>2, LexAt
  <2>5. Construct(t, x).kind = "content"
    BY <1>2, <1>3, <2>4 DEF one
  <2> QED BY <1>7, <2>3, <2>5 DEF one
<1>9. ASSUME NEW l \in 1..Len(Lex(w)) PROVE Lex(w)[l].kind # "semicolon"
  <2>1. PICK k \in p..(q - 1) : Lex(w)[l] = Shown(Lex(t), k, offset, end)
    BY <1>4 DEF Mirrors
  <2>2. Lex(w)[l].kind = Lex(t)[k].kind
    BY <2>1, PieceFields DEF Shown
  <2> QED BY <1>2, <2>2
<1> QED BY <1>4, <1>6, <1>8, <1>9

LEMMA PartFacts ==
    ASSUME NEW w \in Seq(Char), NEW a \in Nat \ {0}, NEW b \in 0..Len(w), a <= b + 1
    PROVE  /\ Part(w, a, b) \in Seq(Char) /\ Len(Part(w, a, b)) = b - a + 1
           /\ \A j \in 1..(b - a + 1) : Part(w, a, b)[j] = w[a + j - 1]
BY DEF Part

LEMMA PartWhole ==
    ASSUME NEW w \in Seq(Char)
    PROVE  Part(w, 1, Len(w)) = w
BY DEF Part

LEMMA TrimWhole ==
    ASSUME NEW w \in Seq(Char), Len(w) # 0, ~Trimmed(w[1]), ~Trimmed(w[Len(w)])
    PROVE  Trim(w) = w
<1> DEFINE n == Len(w)
           kept == {i \in DOMAIN w : ~Trimmed(w[i])}
           z == CHOOSE i \in kept : \A j \in kept : i >= j
<1>1. n \in Nat /\ DOMAIN w = 1..n /\ n >= 1
  OBVIOUS
<1>2. kept \in SUBSET (1..n) /\ 1 \in kept /\ n \in kept
  BY <1>1
<1> HIDE DEF n
<1>3. z \in kept /\ \A j \in kept : z >= j
  <2>1. kept # {}
    BY <1>2
  <2> HIDE DEF kept
  <2> QED BY <1>1, <1>2, <2>1, GreatestFacts
<1>4. Trim(w) = IF kept = {} THEN << >> ELSE SubSeq(w, Least(kept), z)
  BY DEF Trim
<1> HIDE DEF kept, z
<1>5. z = n
  BY <1>1, <1>2, <1>3
<1>6. Least(kept) = 1
  <2>1. kept \in SUBSET Nat /\ \A j \in kept : 1 <= j
    BY <1>1, <1>2
  <2> QED BY <1>2, <2>1, LeastIs
<1>7. Trim(w) = SubSeq(w, 1, n)
  BY <1>2, <1>4, <1>5, <1>6
<1> QED BY <1>7, PartWhole DEF Part, n

LEMMA LineOne ==
    \A w : LineOf(w, 1) = 1
<1> TAKE w
<1>1. {j \in 1..(1 - 1) : w[j] = Newline} = {}
  OBVIOUS
<1>2. Cardinality({}) = 0
  BY FS_EmptySet
<1> QED BY <1>1, <1>2 DEF LineOf

\* A text whose constructs hold no semicolon is one statement.
LEMMA SplitOne ==
    ASSUME NEW w \in Seq(Char), Len(w) # 0, ~Trimmed(w[1]), ~Trimmed(w[Len(w)]),
           Len(Lex(w)) # 0, Lex(w)[1].kind = "content", Lex(w)[1].from = 1,
           \A l \in 1..Len(Lex(w)) : Lex(w)[l].kind # "semicolon"
    PROVE  Split(w) = << [text |-> w, line |-> 1] >>
<1> DEFINE cs == Lex(w)
           n == Len(cs)
           L == CutLoop(w, cs)
           once == [out |-> << >>, start |-> 1]
           T == {k \in Nat : k # 0 /\ k <= n => L[k] = once}
<1>1. cs \in Seq(Pieces(Len(w))) /\ n \in Nat /\ n # 0
  BY LexFacts
<1>2. /\ L[0] = [out |-> << >>, start |-> 0]
      /\ \A k \in 1..n : L[k] = CutStep(w, L[k - 1], cs[k])
  BY <1>1, CutLoopFacts
<1>3. cs[1].kind = "content" /\ cs[1].from = 1 /\ \A l \in 1..n : cs[l].kind # "semicolon"
  OBVIOUS
<1>0. Split(w) = Push(L[n].out, w, L[n].start, Past(w))
  BY CutsBy DEF Split, Close
<1> HIDE DEF L, cs
<1>4. 0 \in T
  OBVIOUS
<1>5. ASSUME NEW k \in T PROVE k + 1 \in T
  <2>1. k \in Nat /\ (k # 0 /\ k <= n => L[k] = once)
    OBVIOUS
  <2> SUFFICES ASSUME k + 1 <= n PROVE L[k + 1] = once
    BY <2>1
  <2> DEFINE l == k + 1
  <2>2. l \in 1..n /\ l - 1 = k /\ k <= n /\ (k = 0 => l = 1)
    BY <1>1, <2>1
  <2> HIDE DEF l
  <2>3. L[l] = CutStep(w, L[k], cs[l]) /\ cs[l].kind # "semicolon"
    BY <1>2, <1>3, <2>2
  <2>4. CASE k = 0
    <3>1. L[k].start = 0 /\ cs[l].kind = "content" /\ cs[l].from = 1
      BY <1>2, <1>3, <2>2, <2>4
    <3>2. L[l] = [L[k] EXCEPT !.start = cs[l].from]
      BY <2>3, <3>1 DEF CutStep
    <3>3. L[l] = once
      BY <1>2, <2>4, <3>1, <3>2
    <3> QED BY <3>3 DEF l
  <2>5. CASE k # 0
    <3>1. L[k] = once
      BY <2>1, <2>2, <2>5
    <3>2. L[k].start # 0
      BY <3>1
    <3> HIDE DEF once
    <3>3. L[l] = L[k]
      BY <2>3, <3>2 DEF CutStep
    <3>4. L[l] = once
      BY <3>1, <3>3
    <3> QED BY <3>4 DEF l
  <2> QED BY <2>4, <2>5
<1>6. T = Nat
  <2> HIDE DEF T
  <2>1. T \in SUBSET Nat
    BY DEF T
  <2> QED BY <1>4, <1>5, <2>1, NatSetInduction
<1>7. L[n] = once
  <2>1. n \in T
    <3> HIDE DEF T
    <3> QED BY <1>1, <1>6
  <2>2. n <= n
    BY <1>1
  <2> QED BY <1>1, <2>1, <2>2
<1>8. L[n].out = << >> /\ L[n].start = 1
  BY <1>7
<1> HIDE DEF once
<1>9. Trim(SubSeq(w, 1, Past(w) - 1)) = w
  <2>1. Past(w) - 1 = Len(w)
    BY DEF Past
  <2> QED BY <2>1, PartWhole, TrimWhole DEF Part
<1>10. Split(w) = PushTrimmed(<< >>, w, 1)
  BY <1>0, <1>8, <1>9, LineOne DEF Push
<1>11. w # << >>
  OBVIOUS
<1>12. PushTrimmed(<< >>, w, 1) = Append(<< >>, [text |-> w, line |-> 1])
  BY <1>11 DEF PushTrimmed
<1>13. \A x : Append(<< >>, x) = << x >>
  OBVIOUS
<1> QED BY <1>10, <1>12, <1>13

\* Three parts of a text that follow one another are one part.
LEMMA PartsJoined ==
    ASSUME NEW w \in Seq(Char), NEW a \in Nat \ {0}, NEW b \in Nat, NEW c \in Nat,
           a <= b + 1, b <= c, c <= Len(w)
    PROVE  Part(w, a, b) \o Part(w, b + 1, c) = Part(w, a, c)
<1> DEFINE x == Part(w, a, b)
           y == Part(w, b + 1, c)
           z == Part(w, a, c)
<1>1. Len(w) \in Nat /\ b \in 0..Len(w) /\ c \in 0..Len(w) /\ b + 1 \in Nat \ {0} /\ a <= c + 1
  OBVIOUS
<1>2. x \in Seq(Char) /\ Len(x) = b - a + 1 /\ \A j \in 1..(b - a + 1) : x[j] = w[a + j - 1]
  BY <1>1, PartFacts
<1>3. y \in Seq(Char) /\ Len(y) = c - b /\ \A j \in 1..(c - b) : y[j] = w[b + j]
  <2> DEFINE d == b + 1
  <2>1. d \in Nat \ {0} /\ d <= c + 1 /\ c - d + 1 = c - b /\ \A j \in 1..(c - b) : d + j - 1 = b + j
    BY <1>1
  <2> HIDE DEF d
  <2>2. /\ Part(w, d, c) \in Seq(Char) /\ Len(Part(w, d, c)) = c - d + 1
        /\ \A j \in 1..(c - d + 1) : Part(w, d, c)[j] = w[d + j - 1]
    BY <1>1, <2>1, PartFacts
  <2>3. /\ Part(w, d, c) \in Seq(Char) /\ Len(Part(w, d, c)) = c - b
        /\ \A j \in 1..(c - b) : Part(w, d, c)[j] = w[b + j]
    BY <2>1, <2>2
  <2> QED BY <2>3 DEF d
<1>4. z \in Seq(Char) /\ Len(z) = c - a + 1 /\ \A j \in 1..(c - a + 1) : z[j] = w[a + j - 1]
  BY <1>1, PartFacts
<1> HIDE DEF x, y, z
<1> DEFINE both == x \o y
<1>5. /\ both \in Seq(Char) /\ Len(both) = Len(x) + Len(y)
      /\ \A j \in 1..(Len(x) + Len(y)) : both[j] = IF j <= Len(x) THEN x[j] ELSE y[j - Len(x)]
  BY <1>2, <1>3, ConcatFacts
<1> HIDE DEF both
<1>6. Len(both) = Len(z) /\ Len(x) + Len(y) = c - a + 1
  BY <1>1, <1>2, <1>3, <1>4, <1>5
<1>7. ASSUME NEW j \in 1..(c - a + 1) PROVE both[j] = z[j]
  <2>1. CASE j <= b - a + 1
    <3>1. j \in 1..(b - a + 1)
      BY <1>1, <2>1
    <3> QED BY <1>2, <1>4, <1>5, <1>6, <2>1, <3>1
  <2>2. CASE ~(j <= b - a + 1)
    <3> DEFINE h == j - (b - a + 1)
    <3>1. h \in 1..(c - b) /\ b + h = a + j - 1
      BY <1>1, <2>2
    <3>2. both[j] = y[h]
      BY <1>2, <1>5, <1>6, <2>2
    <3> HIDE DEF h
    <3> QED BY <1>3, <1>4, <3>1, <3>2
  <2> QED BY <2>1, <2>2
<1>8. both = z
  <2> DEFINE l == c - a + 1
  <2>1. both \in Seq(Char) /\ z \in Seq(Char) /\ Len(both) = l /\ Len(z) = l
    BY <1>4, <1>5, <1>6
  <2>2. \A j \in 1..l : both[j] = z[j]
    BY <1>7
  <2> HIDE DEF l
  <2> QED BY <2>1, <2>2
<1> QED BY <1>8 DEF both, x, y, z

\* The body of a DO block lies in a construct, between its tags.
LEMMA BodyEnclosed ==
    ASSUME NEW w \in Seq(Char), DollarQuotedBody(w) # NoBody
    PROVE  \E c \in Elements(Lex(w)) : Encloses(w, c, DollarQuotedBody(w))
<1> DEFINE cs == Lex(w)
           n == Len(w)
           O == {i \in {c.from : c \in Elements(cs)} : w[i] = "$" /\ DollarTagEnd(w, i) # 0}
           i == Least(O)
           e == DollarTagEnd(w, i)
           C == Closings(w, i, e)
           l == Least(C)
           width == e - i
           body == Part(w, e, l - 1)
           tag == Part(w, i, e - 1)
<1>1. \A k \in 1..Len(cs) : cs[k].from \in 1..n /\ cs[k] = Construct(w, cs[k].from)
  BY LexAt
<1>2. DollarQuotedBody(w) = FirstBody(w, O)
  BY DEF DollarQuotedBody
<1>3. FirstBody(w, O) = IF O = {} THEN NoBody ELSE BodyFrom(w, i, e)
  BY DEF FirstBody
<1>4. O # {} /\ DollarQuotedBody(w) = BodyFrom(w, i, e)
  <2> HIDE DEF O, i, e
  <2> QED BY <1>2, <1>3
<1>5. BodyFrom(w, i, e) = IF C = {} THEN NoBody ELSE body
  BY DEF BodyFrom, Part
<1>6. C # {} /\ DollarQuotedBody(w) = body
  <2> HIDE DEF O, i, e, C, body
  <2> QED BY <1>4, <1>5
<1>7. i \in O
  <2>1. O \in SUBSET Nat
    BY <1>1, LexFacts DEF Elements
  <2> HIDE DEF O
  <2> QED BY <1>4, <2>1, LeastFacts
<1>8. PICK k \in 1..Len(cs) : i = cs[k].from /\ w[i] = "$" /\ e # 0
  <2> HIDE DEF i
  <2>1. \E c \in Elements(cs) : i = c.from
    BY <1>7
  <2>2. w[i] = "$" /\ e # 0
    BY <1>7
  <2> QED BY <2>1, <2>2, LexFacts DEF Elements
<1> HIDE DEF O, i
<1>9. n \in Nat /\ i \in 1..n /\ cs[k] = Construct(w, i) /\ cs[k] \in Elements(cs) /\ Past(w) = n + 1
  BY <1>1, <1>8, LexFacts DEF Elements, Past
<1>10. e \in (i + 2)..(n + 1)
  BY <1>8, <1>9, TagEndFacts
<1>11. cs[k] = Piece("content", i, DollarEnd(w, i))
  BY <1>8, <1>9, ConstructCases
<1>12. DollarEnd(w, i) = l + width
  <2>1. DollarEnd(w, i) = IF e = 0 THEN i + 1 ELSE IF C = {} THEN Past(w) ELSE l + width
    BY DEF DollarEnd
  <2> HIDE DEF e, C, l, width
  <2> QED BY <1>6, <1>8, <2>1
<1> HIDE DEF e
<1>13. /\ C \in SUBSET Nat
       /\ \A j : j \in C <=> /\ j \in e..n
                             /\ j + width <= n + 1
                             /\ SubSeq(w, j, j + width - 1) = SubSeq(w, i, e - 1)
  <2>1. e \in (i + 1)..Past(w)
    BY <1>9, <1>10
  <2> QED BY <1>9, <2>1, ClosingsFacts
<1> HIDE DEF C
<1>14. l \in C
  BY <1>6, <1>13, LeastFacts
<1> HIDE DEF l
<1>15. l \in e..n /\ l + width <= n + 1 /\ Part(w, l, l + width - 1) = tag
  BY <1>13, <1>14 DEF Part
<1>16. width \in Nat /\ width >= 2 /\ i \in Nat \ {0} /\ l \in Nat /\ e \in Nat /\ e = i + width
  BY <1>9, <1>10, <1>15
<1> HIDE DEF width
<1>17. Part(w, i, e - 1) \o Part(w, e, l - 1) = Part(w, i, l - 1)
  <2> DEFINE b == e - 1
             c == l - 1
  <2>1. b \in Nat /\ c \in Nat /\ i <= b + 1 /\ b <= c /\ c <= Len(w) /\ b + 1 = e
    BY <1>9, <1>10, <1>15, <1>16
  <2> HIDE DEF b, c, n
  <2>2. Part(w, i, b) \o Part(w, b + 1, c) = Part(w, i, c)
    BY <1>16, <2>1, PartsJoined
  <2> QED BY <2>1, <2>2 DEF b, c
<1>18. Part(w, i, l - 1) \o Part(w, l, l + width - 1) = Part(w, i, l + width - 1)
  <2> DEFINE b == l - 1
             c == l + width - 1
  <2>1. b \in Nat /\ c \in Nat /\ i <= b + 1 /\ b <= c /\ c <= Len(w) /\ b + 1 = l
    BY <1>9, <1>10, <1>15, <1>16
  <2> HIDE DEF b, c, n
  <2>2. Part(w, i, b) \o Part(w, b + 1, c) = Part(w, i, c)
    BY <1>16, <2>1, PartsJoined
  <2> QED BY <2>1, <2>2 DEF b, c
<1> DEFINE c == cs[k]
<1>19. c.from = i /\ c.to = l + width
  <2> HIDE DEF c
  <2> QED BY <1>11, <1>12, PieceFields DEF c
<1>20. SubSeq(w, i, l + width - 1) = tag \o body \o tag
  <2>1. Part(w, i, l + width - 1) = tag \o body \o tag
    <3> HIDE DEF cs
    <3> QED BY <1>15, <1>17, <1>18
  <2> QED BY <2>1 DEF Part
<1>21. Encloses(w, c, body)
  <2>1. DollarTagEnd(w, c.from) = e /\ w[c.from] = "$"
    BY <1>8, <1>19 DEF e
  <2>2. SubSeq(w, c.from, DollarTagEnd(w, c.from) - 1) = tag
    BY <1>19, <2>1 DEF Part
  <2>3. SubSeq(w, c.from, c.to - 1) = tag \o body \o tag
    <3> HIDE DEF c, tag, body
    <3> DEFINE z == l + width - 1
    <3>1. SubSeq(w, i, z) = tag \o body \o tag
      BY <1>20
    <3>2. c.to - 1 = z /\ c.from = i
      BY <1>16, <1>19
    <3> HIDE DEF z
    <3> QED BY <3>1, <3>2, Zenon
  <2> HIDE DEF c, tag, body
  <2> QED BY <2>1, <2>2, <2>3 DEF Encloses
<1> QED BY <1>6, <1>9, <1>21

\* A statement, trimmed, in its stretch.
LEMMA StretchWindow ==
    ASSUME NEW t \in Seq(Char), \A i \in 1..Len(t) : t[i] # "v",
           NEW p, NEW q, Stretch(Lex(t), p, q)
    PROVE  \E offset, end \in Nat :
              /\ Window(t, offset, end, RawOf(t, Lex(t), p, q).text)
              /\ Frame(t, offset, end)
              /\ ~Trimmed(t[offset + 1]) /\ ~Trimmed(t[end])
              /\ Lex(t)[p].from = offset + 1
              /\ EndOf(t, Lex(t), q) \in Nat /\ end < EndOf(t, Lex(t), q)
<1> DEFINE cs == Lex(t)
           a == cs[p].from
           w == RawOf(t, cs, p, q).text
           z == EndOf(t, cs, q)
<1>1. /\ a \in 1..Len(t) /\ ~Trimmed(t[a])
      /\ \E end \in a..(z - 1) : Window(t, a - 1, end, w) /\ Frame(t, a - 1, end) /\ ~Trimmed(t[end])
  BY StatementWindow
<1>2. PICK end \in a..(z - 1) : Window(t, a - 1, end, w) /\ Frame(t, a - 1, end) /\ ~Trimmed(t[end])
  BY <1>1
<1> DEFINE offset == a - 1
<1>3. offset \in Nat /\ offset + 1 = a /\ Len(t) \in Nat /\ a \in Nat
  BY <1>1
<1>4. z \in Nat
  <2>1. p \in 1..Len(cs) /\ q \in (p + 1)..(Len(cs) + 1)
    BY DEF Stretch, Opens
  <2>2. z \in cs[p].to..Past(t) /\ cs[p].to \in (a + 1)..Past(t)
    BY <2>1, ChainGrows, LexAt
  <2> HIDE DEF a, z
  <2> QED BY <1>3, <2>2 DEF Past
<1>5. end \in Nat /\ end < z
  BY <1>2, <1>3, <1>4
<1>6. Window(t, offset, end, w) /\ Frame(t, offset, end) /\ ~Trimmed(t[offset + 1]) /\ ~Trimmed(t[end])
  BY <1>1, <1>2, <1>3
<1> HIDE DEF offset
<1> QED BY <1>3, <1>4, <1>5, <1>6

LEMMA StatementAlone ==
    ASSUME NEW t \in Seq(Char), \A i \in 1..Len(t) : t[i] # "v", NEW raw \in Elements(Split(t))
    PROVE  /\ raw.text \in Seq(Char)
           /\ Split(raw.text) = << [raw EXCEPT !.line = 1] >>
<1> DEFINE cs == Lex(t)
<1>1. PICK P, Q : Places(t, cs, Split(t), P, Q, Len(cs) + 1)
  BY SplitPlaces
<1>2. PICK m \in DOMAIN Split(t) : raw = Split(t)[m]
  BY DEF Elements
<1>3. m \in 1..Len(Split(t))
  <2>1. Split(t) \in Seq(RawStatements(t))
    <3>1. cs \in Seq(Pieces(Len(t)))
      BY LexFacts
    <3>2. CutLoop(t, cs)[Len(cs)] \in CutStates(t)
      <4>1. Len(cs) \in 0..Len(cs) /\ CutLoop(t, cs) \in [0..Len(cs) -> CutStates(t)]
        BY <3>1, CutLoopFacts
      <4> HIDE DEF cs
      <4> QED BY <4>1
    <3>3. Cuts(t, cs) \in CutStates(t)
      BY <3>2, CutsBy
    <3> DEFINE cut == Cuts(t, cs)
    <3>4. cut.out \in Seq(RawStatements(t)) /\ cut.start \in 0..Len(t)
      <4> HIDE DEF cut
      <4> QED BY <3>3 DEF CutStates, cut
    <3>5. Split(t) = Push(cut.out, t, cut.start, Past(t))
      BY DEF Split, Close
    <3>6. Past(t) \in 1..Past(t)
      BY DEF Past
    <3> HIDE DEF cut
    <3> QED BY <3>4, <3>5, <3>6, PushFacts
  <2> QED BY <2>1
<1> DEFINE p == P[m]
           q == Q[m]
           w == RawOf(t, cs, p, q).text
<1>4. Stretch(cs, p, q) /\ raw = RawOf(t, cs, p, q)
  BY <1>1, <1>2, <1>3 DEF Places
<1> HIDE DEF p, q
<1>5. PICK offset, end :
            /\ offset \in Nat /\ end \in Nat
            /\ Window(t, offset, end, w) /\ Frame(t, offset, end)
            /\ ~Trimmed(t[offset + 1]) /\ ~Trimmed(t[end])
            /\ cs[p].from = offset + 1 /\ end < EndOf(t, cs, q)
  BY <1>4, StretchWindow
<1> HIDE DEF w
<1>6. /\ w \in Seq(Char) /\ Len(w) = end - offset /\ offset < end
      /\ offset \in Nat /\ end \in Nat /\ Len(w) \in Nat
      /\ \A i \in 1..Len(w) : w[i] = t[i + offset]
  <2>1. Window(t, offset, end, w)
    BY <1>5
  <2> QED BY <2>1, WindowAt
<1>7. /\ Len(Lex(w)) # 0 /\ Lex(w)[1].kind = "content" /\ Lex(w)[1].from = 1
      /\ \A l \in 1..Len(Lex(w)) : Lex(w)[l].kind # "semicolon"
  BY <1>4, <1>5, MirrorsLex
<1>8. Len(w) # 0 /\ ~Trimmed(w[1]) /\ ~Trimmed(w[Len(w)])
  <2> DEFINE first == offset + 1
             last == Len(w)
  <2>1. /\ Len(w) # 0 /\ 1 \in 1..Len(w) /\ last \in 1..Len(w)
        /\ 1 + offset = first /\ last + offset = end
    BY <1>6
  <2>2. ~Trimmed(t[first]) /\ ~Trimmed(t[end])
    BY <1>5
  <2> HIDE DEF first, last
  <2>3. w[1] = t[first] /\ w[last] = t[end]
    BY <1>6, <2>1
  <2>4. ~Trimmed(w[1]) /\ ~Trimmed(w[last])
    BY <2>2, <2>3
  <2> QED BY <2>1, <2>4 DEF last
<1>9. Split(w) = << [text |-> w, line |-> 1] >>
  BY <1>6, <1>7, <1>8, SplitOne
<1>10. raw.text = w /\ [raw EXCEPT !.line = 1] = [text |-> w, line |-> 1]
  BY <1>4 DEF RawOf, w
<1> QED BY <1>6, <1>9, <1>10

\* A statement handed on by itself is lexed as it was in the file (split.rs), whatever
\* the alphabets, unless one has the vertical tab, and the length of the text.
THEOREM StatementsAlwaysStandAlone == KnownWhitespace => (TextSpec => []StandsAlone)
<1> SUFFICES ASSUME KnownWhitespace PROVE TextSpec => []StandsAlone
  OBVIOUS
<1> DEFINE IsText == text \in Seq(Char \ {"v"})
<1>1. TextInit => IsText
  BY DEF TextInit
<1>2. IsText /\ [TextNext]_text => IsText'
  <2>1. ASSUME NEW alphabet \in Alphabets, IsText, Write(alphabet) PROVE IsText'
    <3>1. PICK c \in alphabet.chars : text' = Append(text, c)
      BY <2>1 DEF Write
    <3>2. c \in Char \ {"v"}
      BY <2>1, <3>1, SplitterAssumption DEF KnownWhitespace
    <3> QED BY <2>1, <3>1, <3>2
  <2>2. ASSUME IsText, UNCHANGED text PROVE IsText'
    BY <2>2
  <2> QED BY <2>1, <2>2 DEF TextNext
<1>3. IsText => StandsAlone
  <2> SUFFICES ASSUME IsText PROVE StandsAlone
    OBVIOUS
  <2>1. text \in Seq(Char) /\ \A i \in 1..Len(text) : text[i] # "v"
    BY DEF IsText
  <2>2. ASSUME NEW raw \in Elements(Split(text))
        PROVE  /\ Split(raw.text) = << [raw EXCEPT !.line = 1] >>
               /\ DollarQuotedBody(raw.text) # NoBody =>
                     \E c \in Elements(Lex(raw.text)) : Encloses(raw.text, c, DollarQuotedBody(raw.text))
    BY <2>1, StatementAlone, BodyEnclosed
  <2> QED BY <2>2 DEF StandsAlone
<1> QED BY <1>1, <1>2, <1>3, PTL DEF TextSpec

-----------------------------------------------------------------------------
(* Ignore markers: those in the comments of the statements are among those    *)
(* in the comments of the text, each once, at the lines they have there.      *)

LEMMA DisjointSum ==
    ASSUME NEW A, NEW B, IsFiniteSet(A), IsFiniteSet(B), A \cap B = {}
    PROVE  /\ IsFiniteSet(A \cup B)
           /\ Cardinality(A \cup B) = Cardinality(A) + Cardinality(B)
           /\ Cardinality(A) \in Nat /\ Cardinality(B) \in Nat
<1>1. /\ IsFiniteSet(A \cup B)
      /\ Cardinality(A \cup B) = Cardinality(A) + Cardinality(B) - Cardinality(A \cap B)
  BY FS_Union
<1>2. Cardinality(A \cap B) = 0
  BY FS_EmptySet
<1>3. Cardinality(A) \in Nat /\ Cardinality(B) \in Nat
  BY FS_CardinalityType
<1> QED BY <1>1, <1>2, <1>3

LEMMA ShiftedSize ==
    ASSUME NEW S \in SUBSET Nat, IsFiniteSet(S), NEW d \in Nat
    PROVE  LET T == {i + d : i \in S}
           IN  IsFiniteSet(T) /\ Cardinality(T) = Cardinality(S)
<1> DEFINE T == {i + d : i \in S}
           f == [i \in S |-> i + d]
<1>1. f \in Bijection(S, T)
  <2>1. f \in [S -> T]
    OBVIOUS
  <2>2. \A i, j \in S : f[i] = f[j] => i = j
    OBVIOUS
  <2>3. \A x \in T : \E i \in S : f[i] = x
    OBVIOUS
  <2> HIDE DEF f, T
  <2> QED BY <2>1, <2>2, <2>3 DEF Bijection, Injection, Surjection, IsInjective
<1>2. ExistsBijection(S, T)
  BY <1>1 DEF ExistsBijection
<1> HIDE DEF T
<1>3. IsFiniteSet(T) /\ Cardinality(T) = Cardinality(S)
  BY <1>2, FS_Bijection
<1> QED BY <1>3 DEF T

\* The nth of some places, in order.
Nth(S, n) == CHOOSE i \in S : Cardinality({j \in S : j < i}) = n - 1

LEMMA NthFacts ==
    ASSUME NEW S \in SUBSET Nat, IsFiniteSet(S)
    PROVE  [n \in 1..Cardinality(S) |-> Nth(S, n)] \in Bijection(1..Cardinality(S), S)
<1> DEFINE k == Cardinality(S)
           Below(i) == {j \in S : j < i}
           rank == [i \in S |-> Cardinality(Below(i))]
           at == [n \in 1..k |-> Nth(S, n)]
<1>1. k \in Nat
  BY FS_CardinalityType
<1>2. ASSUME NEW i \in S
      PROVE  IsFiniteSet(Below(i)) /\ Cardinality(Below(i)) \in 0..(k - 1)
  <2>1. IsFiniteSet(S \ {i}) /\ Cardinality(S \ {i}) = k - 1
    BY FS_RemoveElement
  <2>2. Below(i) \in SUBSET (S \ {i})
    OBVIOUS
  <2> DEFINE B == Below(i)
             R == S \ {i}
  <2>3. IsFiniteSet(R) /\ B \in SUBSET R /\ Cardinality(R) = k - 1
    BY <2>1, <2>2
  <2> HIDE DEF B, R
  <2>4. IsFiniteSet(B) /\ Cardinality(B) <= k - 1
    BY <2>3, FS_Subset
  <2>5. Cardinality(B) \in Nat
    BY <2>4, FS_CardinalityType
  <2>6. Cardinality(B) \in 0..(k - 1)
    BY <1>1, <2>4, <2>5
  <2> QED BY <2>4, <2>6 DEF B
<1>3. ASSUME NEW i \in S, NEW j \in S, i < j PROVE Cardinality(Below(i)) # Cardinality(Below(j))
  <2> DEFINE A == Below(i)
             B == Below(j)
  <2>1. IsFiniteSet(B) /\ A \in SUBSET B /\ A # B
    <3>1. i \in B /\ i \notin A
      BY <1>3
    <3>2. A \in SUBSET B
      <4>1. ASSUME NEW x \in S, x < i PROVE x < j
        <5>1. x \in Nat /\ i \in Nat /\ j \in Nat
          OBVIOUS
        <5> QED BY <1>3, <4>1, <5>1
      <4> QED BY <4>1
    <3>3. IsFiniteSet(B)
      BY <1>2
    <3> HIDE DEF A, B
    <3> QED BY <3>1, <3>2, <3>3
  <2> HIDE DEF A, B
  <2>2. Cardinality(A) # Cardinality(B)
    BY <2>1, FS_Subset
  <2> QED BY <2>2 DEF A, B
<1>4. \A i, j \in S : rank[i] = rank[j] => i = j
  <2> SUFFICES ASSUME NEW i \in S, NEW j \in S, rank[i] = rank[j] PROVE i = j
    OBVIOUS
  <2>1. Cardinality(Below(i)) = Cardinality(Below(j))
    OBVIOUS
  <2> HIDE DEF Below, rank
  <2>2. ~(i < j) /\ ~(j < i)
    BY <1>3, <2>1
  <2> QED BY <2>2
<1>5. rank \in [S -> 0..(k - 1)]
  <2> HIDE DEF Below, k
  <2> QED BY <1>2
<1>6. \A n \in 1..k : \E i \in S : rank[i] = n - 1
  <2> HIDE DEF rank
  <2> QED BY <1>4, <1>5, RanksFill
<1>7. ASSUME NEW n \in 1..k PROVE Nth(S, n) \in S /\ rank[Nth(S, n)] = n - 1
  <2>1. \A i \in S : rank[i] = Cardinality(Below(i))
    OBVIOUS
  <2>2. \E i \in S : Cardinality(Below(i)) = n - 1
    <3> HIDE DEF rank, Below
    <3> QED BY <1>6, <2>1
  <2>3. Nth(S, n) = CHOOSE i \in S : Cardinality(Below(i)) = n - 1
    BY DEF Nth
  <2> HIDE DEF rank, Below
  <2> QED BY <2>1, <2>2, <2>3
<1> HIDE DEF rank, k
<1>8. at \in [1..k -> S] /\ \A n \in 1..k : at[n] = Nth(S, n)
  BY <1>7
<1> HIDE DEF at
<1>9. \A m, n \in 1..k : at[m] = at[n] => m = n
  <2> SUFFICES ASSUME NEW m \in 1..k, NEW n \in 1..k, at[m] = at[n] PROVE m = n
    OBVIOUS
  <2>1. m - 1 = n - 1
    BY <1>7, <1>8
  <2> QED BY <2>1
<1>10. \A i \in S : \E n \in 1..k : at[n] = i
  <2> SUFFICES ASSUME NEW i \in S PROVE \E n \in 1..k : at[n] = i
    OBVIOUS
  <2> DEFINE n == rank[i] + 1
  <2>1. rank[i] \in 0..(k - 1)
    BY <1>5
  <2>2. n \in 1..k /\ n - 1 = rank[i]
    BY <1>1, <2>1
  <2> HIDE DEF n
  <2>3. at[n] \in S /\ rank[at[n]] = rank[i]
    BY <1>7, <1>8, <2>2
  <2>4. at[n] = i
    BY <1>4, <2>3
  <2> QED BY <2>2, <2>4
<1>11. at \in Bijection(1..k, S)
  BY <1>8, <1>9, <1>10 DEF Bijection, Injection, Surjection, IsInjective
<1> QED BY <1>11 DEF at, k

\* Of the places in order, as many are in a part as the part has.
LEMMA NthCount ==
    ASSUME NEW S \in SUBSET Nat, IsFiniteSet(S), NEW X \in SUBSET S
    PROVE  LET N == {n \in 1..Cardinality(S) : Nth(S, n) \in X}
           IN  IsFiniteSet(X) /\ IsFiniteSet(N) /\ Cardinality(N) = Cardinality(X)
<1> DEFINE k == Cardinality(S)
           N == {n \in 1..k : Nth(S, n) \in X}
           at == [n \in 1..k |-> Nth(S, n)]
           f == [n \in N |-> at[n]]
<1>1. IsFiniteSet(X)
  BY FS_Subset
<1>2. at \in Bijection(1..k, S) /\ \A n \in 1..k : at[n] = Nth(S, n)
  BY NthFacts
<1>3. N \in SUBSET (1..k) /\ \A n \in 1..k : n \in N <=> at[n] \in X
  BY <1>2
<1> HIDE DEF at, k, N
<1>4. /\ \A i, j \in 1..k : at[i] = at[j] => i = j
      /\ \A x \in S : \E i \in 1..k : at[i] = x
  BY <1>2 DEF Bijection, Injection, Surjection, IsInjective
<1>5. f \in [N -> X] /\ \A n \in N : f[n] = at[n]
  BY <1>3
<1> HIDE DEF f
<1>6. \A i, j \in N : f[i] = f[j] => i = j
  BY <1>3, <1>4, <1>5
<1>7. \A x \in X : \E n \in N : f[n] = x
  BY <1>3, <1>4, <1>5
<1>8. f \in Injection(N, X) /\ f \in Surjection(N, X)
  BY <1>5, <1>6, <1>7 DEF Injection, Surjection, IsInjective
<1>9. IsFiniteSet(N) /\ Cardinality(N) = Cardinality(X)
  BY <1>1, <1>8, FS_Injection
<1> QED BY <1>1, <1>9 DEF N, k

\* Past a window's start, lines count as in the window.
LEMMA LineShift ==
    ASSUME NEW t \in Seq(Char), NEW offset, NEW end, NEW w, Window(t, offset, end, w),
           NEW i \in 1..Len(w)
    PROVE  /\ LineOf(t, i + offset) = LineOf(t, offset + 1) + LineOf(w, i) - 1
           /\ LineOf(w, i) \in Nat /\ LineOf(t, offset + 1) \in Nat
<1> DEFINE k == i + offset
           A == {j \in 1..offset : t[j] = Newline}
           S == {j \in 1..(i - 1) : w[j] = Newline}
           B == {j + offset : j \in S}
           C == {j \in 1..(k - 1) : t[j] = Newline}
<1>1. /\ offset \in Nat /\ Len(w) \in Nat /\ i \in Nat
      /\ \A j \in 1..Len(w) : w[j] = t[j + offset]
  BY WindowAt
<1>2. IsFiniteSet(A) /\ IsFiniteSet(S) /\ S \in SUBSET Nat
  <2>1. IsFiniteSet(1..offset) /\ IsFiniteSet(1..(i - 1))
    BY <1>1, FS_Interval
  <2>2. A \in SUBSET (1..offset) /\ S \in SUBSET (1..(i - 1))
    OBVIOUS
  <2>3. S \in SUBSET Nat
    OBVIOUS
  <2> HIDE DEF A, S
  <2>4. IsFiniteSet(A)
    BY <2>1, <2>2, FS_Subset
  <2>5. IsFiniteSet(S)
    BY <2>1, <2>2, FS_Subset
  <2> QED BY <2>3, <2>4, <2>5
<1>3. IsFiniteSet(B) /\ Cardinality(B) = Cardinality(S)
  <2> HIDE DEF S
  <2> QED BY <1>1, <1>2, ShiftedSize
<1>4. A \cap B = {}
  <2> SUFFICES ASSUME NEW x \in A, NEW j \in S, x = j + offset PROVE FALSE
    OBVIOUS
  <2>1. x <= offset /\ j >= 1 /\ j \in Nat /\ x \in Nat
    BY <1>1
  <2> QED BY <1>1, <2>1
<1>5. C = A \cup B
  <2>1. ASSUME NEW x \in C PROVE x \in A \cup B
    <3>1. x \in Nat /\ x >= 1 /\ x <= k - 1 /\ t[x] = Newline
      BY <1>1
    <3>2. CASE x <= offset
      BY <1>1, <3>1, <3>2
    <3>3. CASE ~(x <= offset)
      <4> DEFINE j == x - offset
      <4>1. j \in 1..(i - 1) /\ j + offset = x /\ j \in 1..Len(w)
        BY <1>1, <3>1, <3>3
      <4> HIDE DEF j
      <4>2. w[j] = Newline
        BY <1>1, <3>1, <4>1
      <4> QED BY <4>1, <4>2
    <3> QED BY <3>2, <3>3
  <2>2. A \in SUBSET C
    <3>1. \A x \in 1..offset : x \in 1..(k - 1)
      BY <1>1
    <3> QED BY <3>1
  <2>3. ASSUME NEW j \in S PROVE j + offset \in C
    <3>1. j \in 1..Len(w) /\ j + offset \in 1..(k - 1)
      BY <1>1
    <3>2. w[j] = Newline
      OBVIOUS
    <3> QED BY <1>1, <3>1, <3>2
  <2> QED BY <2>1, <2>2, <2>3
<1> DEFINE a == Cardinality(A)
           b == Cardinality(B)
           c == Cardinality(C)
<1>6. c = a + b /\ a \in Nat /\ b \in Nat
  <2> HIDE DEF A, B, C
  <2> QED BY <1>2, <1>3, <1>4, <1>5, DisjointSum
<1>7. LineOf(t, k) = 1 + c /\ LineOf(w, i) = 1 + b
  <2> HIDE DEF B
  <2> QED BY <1>3 DEF LineOf
<1>8. LineOf(t, offset + 1) = 1 + a
  <2> DEFINE x == offset + 1
             D == {j \in 1..(x - 1) : t[j] = Newline}
  <2>1. x - 1 = offset
    BY <1>1
  <2> HIDE DEF x
  <2>2. D = A
    BY <2>1
  <2>3. LineOf(t, x) = 1 + Cardinality(D)
    BY DEF LineOf
  <2>4. LineOf(t, x) = 1 + a
    <3> HIDE DEF A, D
    <3> QED BY <2>2, <2>3
  <2> QED BY <2>4 DEF x
<1> HIDE DEF a, b, c
<1>9. /\ 1 + c = 1 + a + (1 + b) - 1
      /\ 1 + a \in Nat /\ 1 + b \in Nat
  BY <1>6
<1> QED BY <1>7, <1>8, <1>9 DEF k

\* A marker in a comment of a statement is one of the text, in the statement's stretch.
LEMMA MarkerShift ==
    ASSUME NEW t \in Seq(Char), NEW offset, NEW end, NEW w, Window(t, offset, end, w),
           Frame(t, offset, end), NEW p, NEW q, Stretch(Lex(t), p, q), end < EndOf(t, Lex(t), q),
           Lex(t)[p].from = offset + 1, NEW i \in CommentMarkers(w, Lex(w))
    PROVE  /\ i \in 1..Len(w)
           /\ i + offset \in CommentMarkers(t, Lex(t))
           /\ i + offset \in (offset + 1)..end
<1> DEFINE cs == Lex(t)
           x == i + offset
<1>1. /\ offset \in Nat /\ end \in Nat /\ Len(w) \in Nat /\ Len(w) = end - offset /\ end <= Len(t)
      /\ \A j \in 1..Len(w) : w[j] = t[j + offset] /\ j + offset \in 1..Len(t)
  BY WindowAt
<1>2. i \in 1..Len(w) /\ w[i] = Marker
  <2>1. w \in Seq(Char)
    BY WindowAt
  <2>2. DOMAIN w = 1..Len(w)
    BY <2>1
  <2>3. i \in DOMAIN w /\ w[i] = Marker
    BY DEF CommentMarkers
  <2> QED BY <2>2, <2>3
<1>3. PICK c \in Elements(Lex(w)) : c.kind = "comment" /\ i \in c.from..(c.to - 1)
  BY DEF CommentMarkers
<1>4. PICK l \in 1..Len(Lex(w)) : c = Lex(w)[l]
  <2>1. Lex(w) \in Seq(Pieces(Len(w)))
    BY LexFacts DEF Window
  <2> HIDE DEF cs
  <2> QED BY <2>1 DEF Elements
<1>5. PICK k \in p..(q - 1) : c = Shown(cs, k, offset, end)
  <2>1. Mirrors(cs, p, q, offset, end, Lex(w))
    BY MirrorsLex
  <2> QED BY <1>4, <2>1 DEF Mirrors
<1>6. k \in 1..Len(cs)
  <2>1. Len(cs) \in Nat
    BY LexFacts
  <2>2. p \in 1..Len(cs) /\ q \in (p + 1)..(Len(cs) + 1)
    BY DEF Stretch, Opens
  <2> HIDE DEF cs
  <2> QED BY <2>1, <2>2
<1> DEFINE from == cs[k].from
           to == cs[k].to
<1>7. from \in Nat /\ to \in Nat
  <2>1. from \in 1..Len(t) /\ to \in (from + 1)..Past(t)
    BY <1>6, LexAt
  <2> HIDE DEF from, to
  <2> QED BY <1>1, <2>1 DEF Past
<1>8. cs[k].kind = "comment" /\ c.from = from - offset /\ c.to = Clip(to, offset, end)
  <2> HIDE DEF cs
  <2>1. cs[k].kind = c.kind /\ c.from = from - offset /\ c.to = Clip(to, offset, end)
    BY <1>5, PieceFields DEF Shown
  <2> QED BY <1>3, <2>1
<1> HIDE DEF from, to
<1>9. x \in from..(to - 1)
  <2>1. i \in (from - offset)..(Clip(to, offset, end) - 1)
    BY <1>3, <1>8
  <2>2. i \in Nat /\ i <= end - offset
    BY <1>1, <1>2
  <2>3. CASE to <= end + 1
    <3>1. Clip(to, offset, end) = to - offset
      BY <2>3 DEF Clip
    <3> QED BY <1>1, <1>7, <2>1, <2>2, <3>1
  <2>4. CASE ~(to <= end + 1)
    <3>1. x <= end /\ from - offset <= i
      BY <1>1, <1>7, <2>1, <2>2
    <3> QED BY <1>1, <1>7, <2>2, <2>4, <3>1
  <2> QED BY <2>3, <2>4
<1>10. x \in DOMAIN t /\ t[x] = Marker /\ x \in (offset + 1)..end
  BY <1>1, <1>2
<1>11. cs[k] \in Elements(cs)
  <2>1. cs \in Seq(Pieces(Len(t)))
    BY LexFacts
  <2> HIDE DEF cs
  <2> QED BY <1>6, <2>1 DEF Elements
<1>12. x \in CommentMarkers(t, cs)
  <2> HIDE DEF x, cs
  <2> QED BY <1>8, <1>9, <1>10, <1>11 DEF CommentMarkers, from, to
<1> QED BY <1>2, <1>10, <1>12

LEMMA MarkersFinite ==
    ASSUME NEW w \in Seq(Char)
    PROVE  LET S == CommentMarkers(w, Lex(w))
           IN  S \in SUBSET (1..Len(w)) /\ S \in SUBSET Nat /\ IsFiniteSet(S)
<1> DEFINE S == CommentMarkers(w, Lex(w))
<1>1. Len(w) \in Nat /\ DOMAIN w = 1..Len(w)
  OBVIOUS
<1>2. S \in SUBSET (1..Len(w))
  <2>1. S \in SUBSET DOMAIN w
    BY DEF CommentMarkers
  <2> HIDE DEF S
  <2> QED BY <1>1, <2>1
<1>3. IsFiniteSet(1..Len(w))
  BY <1>1, FS_Interval
<1> HIDE DEF S
<1>4. IsFiniteSet(S)
  BY <1>2, <1>3, FS_Subset
<1>5. S \in SUBSET Nat
  BY <1>2
<1> QED BY <1>2, <1>4, <1>5 DEF S

\* The lines of the markers of a text, and how often each is there.
LEMMA TimesOfMarkers ==
    ASSUME NEW w \in Seq(Char)
    PROVE  LET S == CommentMarkers(w, Lex(w))
           IN  /\ CommentMarkerLines(w) \in Seq(Nat)
               /\ \A line : LET X == {i \in S : LineOf(w, i) = line}
                            IN  /\ X \in SUBSET S /\ IsFiniteSet(X)
                                /\ Times(CommentMarkerLines(w), line) = Cardinality(X)
<1> DEFINE S == CommentMarkers(w, Lex(w))
           k == Cardinality(S)
           lines == CommentMarkerLines(w)
           X(line) == {i \in S : LineOf(w, i) = line}
<1>1. S \in SUBSET (1..Len(w)) /\ S \in SUBSET Nat /\ IsFiniteSet(S)
  BY MarkersFinite
<1>2. lines = [n \in 1..k |-> LineOf(w, Nth(S, n))]
  BY DEF CommentMarkerLines, LinesOf, Nth
<1>3. k \in Nat
  <2> HIDE DEF S
  <2> QED BY <1>1, FS_CardinalityType
<1>4. \A n \in 1..k : Nth(S, n) \in S
  <2> DEFINE at == [n \in 1..k |-> Nth(S, n)]
  <2>1. at \in Bijection(1..k, S)
    <3> HIDE DEF S
    <3> QED BY <1>1, NthFacts
  <2>2. at \in [1..k -> S] /\ \A n \in 1..k : at[n] = Nth(S, n)
    <3> HIDE DEF S, k
    <3> QED BY <2>1 DEF Bijection, Injection
  <2> HIDE DEF S, k, at
  <2> QED BY <2>2
<1>5. ASSUME NEW i \in S PROVE LineOf(w, i) \in Nat
  <2> DEFINE A == {j \in 1..(i - 1) : w[j] = Newline}
  <2>1. i \in Nat
    <3> HIDE DEF S
    <3> QED BY <1>1
  <2>2. IsFiniteSet(1..(i - 1)) /\ A \in SUBSET (1..(i - 1))
    BY <2>1, FS_Interval
  <2>3. LineOf(w, i) = 1 + Cardinality(A)
    BY DEF LineOf
  <2> HIDE DEF A
  <2>4. Cardinality(A) \in Nat
    <3>1. IsFiniteSet(A)
      BY <2>2, FS_Subset
    <3> QED BY <3>1, FS_CardinalityType
  <2> QED BY <2>3, <2>4
<1> HIDE DEF S
<1>6. lines \in Seq(Nat)
  <2> HIDE DEF lines, k
  <2>1. \A n \in 1..k : LineOf(w, Nth(S, n)) \in Nat
    BY <1>4, <1>5
  <2>2. lines \in [1..k -> Nat]
    BY <1>2, <2>1
  <2> QED BY <1>3, <2>2
<1>7. ASSUME NEW line
      PROVE  /\ X(line) \in SUBSET S /\ IsFiniteSet(X(line))
             /\ Times(lines, line) = Cardinality(X(line))
  <2> DEFINE Y == X(line)
             N == {n \in 1..k : Nth(S, n) \in Y}
             M == {n \in DOMAIN lines : lines[n] = line}
  <2>1. Y \in SUBSET S
    OBVIOUS
  <2>2. \A i \in S : i \in Y <=> LineOf(w, i) = line
    OBVIOUS
  <2>3. Times(lines, line) = Cardinality(M)
    BY DEF Times
  <2> HIDE DEF Y, lines
  <2>4. N = M
    <3>1. DOMAIN lines = 1..k /\ \A n \in 1..k : lines[n] = LineOf(w, Nth(S, n))
      BY <1>2
    <3> HIDE DEF k
    <3>2. \A n \in 1..k : Nth(S, n) \in Y <=> lines[n] = line
      BY <1>4, <2>2, <3>1
    <3> QED BY <3>1, <3>2
  <2>5. IsFiniteSet(Y) /\ Cardinality(N) = Cardinality(Y)
    <3> HIDE DEF M
    <3> QED BY <1>1, <2>1, NthCount
  <2> HIDE DEF N, M
  <2>6. Times(lines, line) = Cardinality(Y)
    BY <2>3, <2>4, <2>5
  <2> QED BY <2>1, <2>5, <2>6 DEF Y
<1> HIDE DEF lines
<1> QED BY <1>6, <1>7 DEF lines, S

LEMMA TimesAbsolute ==
    ASSUME NEW lines \in Seq(Int), NEW first \in Int, NEW line \in Int
    PROVE  /\ Absolute(first, lines) \in Seq(Int)
           /\ \E at \in Int : /\ at = line - first + 1
                              /\ Times(Absolute(first, lines), line) = Times(lines, at)
<1> DEFINE moved == Absolute(first, lines)
           n == Len(lines)
           at == line - first + 1
<1>1. n \in Nat /\ DOMAIN lines = 1..n /\ \A i \in 1..n : lines[i] \in Int
  OBVIOUS
<1>2. moved = [i \in 1..n |-> first + lines[i] - 1]
  BY <1>1 DEF Absolute
<1> HIDE DEF n, moved
<1>3. moved \in [1..n -> Int]
  BY <1>1, <1>2
<1>4. moved \in Seq(Int)
  BY <1>1, <1>3
<1>5. at \in Int
  OBVIOUS
<1> DEFINE M == {i \in DOMAIN moved : moved[i] = line}
           L == {i \in DOMAIN lines : lines[i] = at}
<1>6. M = L
  <2>1. ASSUME NEW i \in 1..n PROVE moved[i] = line <=> lines[i] = at
    <3> DEFINE x == lines[i]
    <3>1. moved[i] = first + x - 1
      BY <1>2
    <3>2. x \in Int
      BY <1>1
    <3> HIDE DEF x
    <3>3. first + x - 1 = line <=> x = at
      BY <3>2
    <3> QED BY <3>1, <3>3 DEF x
  <2>2. DOMAIN moved = 1..n
    BY <1>3
  <2> HIDE DEF at
  <2> QED BY <1>1, <2>1, <2>2
<1>7. Times(moved, line) = Cardinality(M) /\ Times(lines, at) = Cardinality(L)
  <2> HIDE DEF at
  <2> QED BY DEF Times
<1> HIDE DEF M, L
<1>8. Times(moved, line) = Times(lines, at)
  BY <1>6, <1>7
<1> QED BY <1>4, <1>5, <1>8 DEF moved

LEMMA TimesNat ==
    ASSUME NEW lines \in Seq(Int), NEW line
    PROVE  IsFiniteSet({n \in DOMAIN lines : lines[n] = line}) /\ Times(lines, line) \in Nat
<1> DEFINE A == {n \in DOMAIN lines : lines[n] = line}
<1>1. IsFiniteSet(1..Len(lines))
  <2>1. Len(lines) \in Nat
    OBVIOUS
  <2> QED BY <2>1, FS_Interval
<1>2. A \in SUBSET (1..Len(lines))
  OBVIOUS
<1>3. Times(lines, line) = Cardinality(A)
  BY DEF Times
<1> HIDE DEF A
<1>4. IsFiniteSet(A)
  BY <1>1, <1>2, FS_Subset
<1>5. Cardinality(A) \in Nat
  BY <1>4, FS_CardinalityType
<1> QED BY <1>3, <1>4, <1>5 DEF A

LEMMA TimesConcat ==
    ASSUME NEW left \in Seq(Int), NEW right \in Seq(Int), NEW line
    PROVE  Times(left \o right, line) = Times(left, line) + Times(right, line)
<1> DEFINE both == left \o right
           a == Len(left)
           b == Len(right)
           A == {n \in DOMAIN left : left[n] = line}
           R == {n \in DOMAIN right : right[n] = line}
           B == {n + a : n \in R}
           C == {n \in DOMAIN both : both[n] = line}
<1>1. a \in Nat /\ b \in Nat /\ DOMAIN left = 1..a /\ DOMAIN right = 1..b
  OBVIOUS
<1>2. /\ both \in Seq(Int) /\ DOMAIN both = 1..(a + b)
      /\ \A p \in 1..(a + b) : both[p] = IF p <= a THEN left[p] ELSE right[p - a]
  <2>1. /\ both \in Seq(Int) /\ Len(both) = a + b
        /\ \A p \in 1..(a + b) : both[p] = IF p <= a THEN left[p] ELSE right[p - a]
    BY ConcatFacts
  <2> HIDE DEF both, a, b
  <2> QED BY <2>1
<1> HIDE DEF both, a, b
<1>3. IsFiniteSet(A) /\ IsFiniteSet(R) /\ R \in SUBSET Nat
  <2>1. IsFiniteSet(A)
    BY TimesNat
  <2>2. IsFiniteSet(R)
    BY TimesNat
  <2>3. R \in SUBSET Nat
    BY <1>1
  <2> HIDE DEF A, R
  <2> QED BY <2>1, <2>2, <2>3
<1>4. IsFiniteSet(B) /\ Cardinality(B) = Cardinality(R)
  <2> HIDE DEF R
  <2> QED BY <1>1, <1>3, ShiftedSize
<1>5. A \cap B = {}
  <2> SUFFICES ASSUME NEW x \in A, NEW n \in R, x = n + a PROVE FALSE
    OBVIOUS
  <2>1. x \in Nat /\ x <= a /\ n \in Nat /\ n >= 1
    BY <1>1
  <2> QED BY <1>1, <2>1
<1>6. C = A \cup B
  <2>1. ASSUME NEW x \in C PROVE x \in A \cup B
    <3>1. x \in Nat /\ x >= 1 /\ x <= a + b /\ both[x] = line /\ x \in 1..(a + b)
      BY <1>1, <1>2
    <3>2. CASE x <= a
      <4>1. x \in 1..a /\ left[x] = line
        BY <1>1, <1>2, <3>1, <3>2
      <4> QED BY <1>1, <4>1
    <3>3. CASE ~(x <= a)
      <4> DEFINE n == x - a
      <4>1. n \in 1..b /\ n + a = x
        BY <1>1, <3>1, <3>3
      <4>2. right[n] = line
        BY <1>2, <3>1, <3>3
      <4> HIDE DEF n
      <4> QED BY <1>1, <4>1, <4>2
    <3> QED BY <3>2, <3>3
  <2>2. ASSUME NEW x \in A PROVE x \in C
    <3>1. x \in 1..(a + b) /\ x <= a /\ left[x] = line
      BY <1>1
    <3> QED BY <1>2, <3>1
  <2>3. ASSUME NEW n \in R PROVE n + a \in C
    <3>1. n \in 1..b /\ right[n] = line
      BY <1>1
    <3> DEFINE x == n + a
    <3>2. x \in 1..(a + b) /\ ~(x <= a) /\ x - a = n
      BY <1>1, <3>1
    <3> HIDE DEF x
    <3>3. both[x] = line
      BY <1>2, <3>1, <3>2
    <3>4. x \in C
      BY <1>2, <3>2, <3>3
    <3> QED BY <3>4 DEF x
  <2> QED BY <2>1, <2>2, <2>3
<1>7. Times(both, line) = Cardinality(C) /\ Times(left, line) = Cardinality(A) /\ Times(right, line) = Cardinality(R)
  BY DEF Times
<1> HIDE DEF A, B, C, R
<1>8. Cardinality(C) = Cardinality(A) + Cardinality(R)
  BY <1>3, <1>4, <1>5, <1>6, DisjointSum
<1>9. Times(both, line) = Times(left, line) + Times(right, line)
  BY <1>7, <1>8
<1> QED BY <1>9 DEF both

\* The file's lines of the markers in a statement.
Contribution(raw) == Absolute(raw.line, CommentMarkerLines(raw.text))

AttachedAt(statements, F, n) ==
    IF n = 0 THEN << >> ELSE F[n - 1] \o Contribution(statements[n])

AttachedLoop(statements) ==
    CHOOSE F : F = [n \in 0..Len(statements) |-> AttachedAt(statements, F, n)]

LEMMA AttachedBy ==
    \A statements : AttachedLines(statements) = AttachedLoop(statements)[Len(statements)]
BY DEF AttachedLines, AttachedLoop, AttachedAt, Contribution

LEMMA AttachedLoopFacts ==
    ASSUME NEW statements, Len(statements) \in Nat,
           \A k \in 1..Len(statements) : Contribution(statements[k]) \in Seq(Int)
    PROVE  /\ AttachedLoop(statements)[0] = << >>
           /\ \A k \in 1..Len(statements) :
                 AttachedLoop(statements)[k] =
                     AttachedLoop(statements)[k - 1] \o Contribution(statements[k])
           /\ \A k \in 0..Len(statements) : AttachedLoop(statements)[k] \in Seq(Int)
<1> DEFINE n == Len(statements)
           V == Seq(Int)
           part(k) == Contribution(statements[k])
           step == [x \in (1..n) \X V |-> x[2] \o part(x[1])]
<1>1. n \in Nat /\ \A k \in 1..n : part(k) \in V
  OBVIOUS
<1>2. << >> \in V
  OBVIOUS
<1>3. \A k \in 1..n, before \in V : before \o part(k) \in V
  <2> SUFFICES ASSUME NEW k \in 1..n, NEW before \in V PROVE before \o part(k) \in V
    OBVIOUS
  <2> DEFINE c == part(k)
  <2>1. c \in V
    BY <1>1
  <2> HIDE DEF c
  <2>2. before \o c \in V
    BY <2>1, ConcatFacts
  <2> QED BY <2>2 DEF c
<1> HIDE DEF part
<1>4. step \in [(1..n) \X V -> V]
  <2>1. \A x \in (1..n) \X V : x[1] \in 1..n /\ x[2] \in V
    OBVIOUS
  <2> HIDE DEF V, n
  <2> QED BY <1>3, <2>1
<1>5. \A k \in 1..n, before \in V : step[<< k, before >>] = before \o part(k)
  <2> HIDE DEF V, n
  <2> QED OBVIOUS
<1> HIDE DEF step
<1>6. PICK F : IsLoop(F, n, V, << >>, step)
  <2> HIDE DEF V, n
  <2> QED BY <1>1, <1>2, <1>4, LoopExists
<1>7. F \in [0..n -> V] /\ F[0] = << >> /\ \A k \in 1..n : F[k] = F[k - 1] \o part(k)
  <2>1. F \in [0..n -> V] /\ F[0] = << >> /\ \A k \in 1..n : F[k] = step[<< k, F[k - 1] >>]
    BY <1>6 DEF IsLoop
  <2>2. \A k \in 1..n : F[k - 1] \in V
    <3>1. \A k \in 1..n : k - 1 \in 0..n
      BY <1>1
    <3> HIDE DEF V, n
    <3> QED BY <2>1, <3>1
  <2> HIDE DEF V, n
  <2> QED BY <1>5, <2>1, <2>2
<1>8. F = [k \in 0..n |-> AttachedAt(statements, F, k)]
  <2>1. ASSUME NEW k \in 0..n PROVE F[k] = AttachedAt(statements, F, k)
    <3>1. CASE k = 0
      BY <1>7, <3>1 DEF AttachedAt
    <3>2. CASE k # 0
      <4>1. k \in 1..n
        BY <1>1, <3>2
      <4>2. F[k] = F[k - 1] \o part(k)
        BY <1>7, <4>1
      <4> QED BY <3>2, <4>2 DEF AttachedAt, part
    <3> QED BY <3>1, <3>2
  <2>2. F = [k \in 0..n |-> F[k]]
    BY <1>7
  <2> QED BY <2>1, <2>2
<1> DEFINE G == AttachedLoop(statements)
<1>9. G = [k \in 0..n |-> AttachedAt(statements, G, k)]
  BY <1>8 DEF AttachedLoop
<1> HIDE DEF G
<1>10. \A k \in 0..n : G[k] = AttachedAt(statements, G, k)
  BY <1>9
<1>11. G[0] = << >> /\ \A k \in 1..n : G[k] = G[k - 1] \o part(k)
  <2>1. 0 \in 0..n /\ \A k \in 1..n : k \in 0..n /\ k # 0
    BY <1>1
  <2> QED BY <1>10, <2>1 DEF AttachedAt, part
<1> DEFINE T == {k \in Nat : k <= n => G[k] \in V}
<1>12. 0 \in T
  BY <1>2, <1>11
<1>13. ASSUME NEW k \in T PROVE k + 1 \in T
  <2> DEFINE l == k + 1
  <2>1. k \in Nat /\ l \in Nat /\ l - 1 = k /\ (k <= n => G[k] \in V)
    OBVIOUS
  <2> SUFFICES ASSUME l <= n PROVE G[l] \in V
    BY <2>1
  <2>2. l \in 1..n /\ k <= n
    BY <1>1, <2>1
  <2> HIDE DEF l, V
  <2>3. G[l] = G[k] \o part(l) /\ G[k] \in V
    BY <1>11, <2>1, <2>2
  <2> QED BY <1>3, <2>2, <2>3
<1>14. T = Nat
  <2> HIDE DEF T
  <2>1. T \in SUBSET Nat
    BY DEF T
  <2> QED BY <1>12, <1>13, <2>1, NatSetInduction
<1>15. \A k \in 0..n : k \in T
  <2> HIDE DEF T
  <2> QED BY <1>1, <1>14
<1>16. \A k \in 0..n : G[k] \in V
  BY <1>1, <1>15
<1> QED BY <1>11, <1>16 DEF G, part

\* The markers of a statement are as many of the text's, in the statement's stretch.
LEMMA ContributionFacts ==
    ASSUME NEW t \in Seq(Char), \A i \in 1..Len(t) : t[i] # "v", NEW line \in Int,
           NEW p, NEW q, Stretch(Lex(t), p, q)
    PROVE  LET raw == RawOf(t, Lex(t), p, q)
           IN  /\ Contribution(raw) \in Seq(Int)
               /\ \E Y \in SUBSET CommentMarkers(t, Lex(t)) :
                     /\ IsFiniteSet(Y) /\ Cardinality(Y) = Times(Contribution(raw), line)
                     /\ \A i \in Y : /\ LineOf(t, i) = line
                                     /\ Lex(t)[p].from <= i /\ i < EndOf(t, Lex(t), q)
<1> DEFINE cs == Lex(t)
           raw == RawOf(t, cs, p, q)
           w == raw.text
           z == EndOf(t, cs, q)
           first == raw.line
<1>1. PICK offset \in Nat, end \in Nat :
            /\ Window(t, offset, end, w) /\ Frame(t, offset, end)
            /\ cs[p].from = offset + 1 /\ z \in Nat /\ end < z
  BY StretchWindow
<1>2. first = LineOf(t, offset + 1)
  BY <1>1 DEF RawOf
<1> HIDE DEF raw
<1>3. w \in Seq(Char) /\ 1 \in 1..Len(w) /\ Len(w) \in Nat
  BY <1>1, WindowAt
<1>4. first \in Nat
  BY <1>1, <1>2, <1>3, LineShift
<1> DEFINE S == CommentMarkers(w, Lex(w))
           lines == CommentMarkerLines(w)
           got == Contribution(raw)
<1> HIDE DEF first, w
<1>5. got = Absolute(first, lines)
  BY DEF Contribution, first, w
<1>6. /\ lines \in Seq(Int)
      /\ \A at : LET X == {i \in S : LineOf(w, i) = at}
                 IN  X \in SUBSET S /\ IsFiniteSet(X) /\ Times(lines, at) = Cardinality(X)
  <2>1. lines \in Seq(Nat)
    BY <1>3, TimesOfMarkers
  <2>2. lines \in Seq(Int)
    <3> HIDE DEF lines
    <3> QED BY <2>1
  <2> QED BY <1>3, <2>2, TimesOfMarkers
<1> HIDE DEF lines, got
<1>7. got \in Seq(Int) /\ \E at \in Int : at = line - first + 1 /\ Times(got, line) = Times(lines, at)
  BY <1>4, <1>5, <1>6, TimesAbsolute
<1>8. PICK at \in Int : at = line - first + 1 /\ Times(got, line) = Times(lines, at)
  BY <1>7
<1> DEFINE X == {i \in S : LineOf(w, i) = at}
           Y == {i + offset : i \in X}
<1>9. X \in SUBSET S /\ X \in SUBSET Nat /\ IsFiniteSet(X) /\ Times(lines, at) = Cardinality(X)
  <2>1. S \in SUBSET Nat
    BY <1>3, MarkersFinite
  <2>2. X \in SUBSET S /\ IsFiniteSet(X) /\ Times(lines, at) = Cardinality(X)
    BY <1>6
  <2> HIDE DEF X, S
  <2> QED BY <2>1, <2>2
<1>10. \A i \in X : LineOf(w, i) = at
  OBVIOUS
<1> HIDE DEF X
<1>11. IsFiniteSet(Y) /\ Cardinality(Y) = Cardinality(X)
  BY <1>1, <1>9, ShiftedSize
<1>12. ASSUME NEW i \in X
       PROVE  /\ i + offset \in CommentMarkers(t, cs)
              /\ LineOf(t, i + offset) = line
              /\ cs[p].from <= i + offset /\ i + offset < z
  <2>1. /\ i \in 1..Len(w) /\ i + offset \in CommentMarkers(t, cs)
        /\ i + offset \in (offset + 1)..end
    <3>1. i \in CommentMarkers(w, Lex(w))
      BY <1>9
    <3> QED BY <1>1, <3>1, MarkerShift
  <2> DEFINE k == i + offset
  <2>2. k \in Nat /\ offset + 1 <= k /\ k <= end
    BY <1>1, <2>1
  <2>3. LineOf(t, k) = LineOf(t, offset + 1) + LineOf(w, i) - 1
    BY <1>1, <2>1, LineShift
  <2> HIDE DEF k
  <2>4. LineOf(t, k) = first + at - 1
    BY <1>2, <1>10, <2>3
  <2>5. first + at - 1 = line
    BY <1>4, <1>8
  <2>6. cs[p].from <= k /\ k < z
    <3> HIDE DEF z
    <3> QED BY <1>1, <2>2
  <2> QED BY <2>1, <2>4, <2>5, <2>6 DEF k
<1>13. Y \in SUBSET CommentMarkers(t, cs)
  BY <1>12
<1>14. \A y \in Y : LineOf(t, y) = line /\ cs[p].from <= y /\ y < z
  BY <1>12
<1> HIDE DEF Y
<1>15. Cardinality(Y) = Times(got, line)
  BY <1>8, <1>9, <1>11
<1>16. /\ got \in Seq(Int)
       /\ \E YY \in SUBSET CommentMarkers(t, cs) :
             /\ IsFiniteSet(YY) /\ Cardinality(YY) = Times(got, line)
             /\ \A i \in YY : LineOf(t, i) = line /\ cs[p].from <= i /\ i < z
  BY <1>7, <1>11, <1>13, <1>14, <1>15
<1> QED BY <1>16 DEF got, raw

\* Of the statements before another none reaches into it.
LEMMA StretchesApart ==
    ASSUME NEW t \in Seq(Char), NEW p, NEW q, Stretch(Lex(t), p, q),
           NEW r, NEW s, Stretch(Lex(t), r, s), q <= r
    PROVE  /\ EndOf(t, Lex(t), q) <= Lex(t)[r].from
           /\ EndOf(t, Lex(t), q) \in Nat /\ Lex(t)[r].from \in Nat
           /\ EndOf(t, Lex(t), s) \in Nat /\ Lex(t)[r].from < EndOf(t, Lex(t), s)
<1> DEFINE cs == Lex(t)
           N == Len(cs)
           a == cs[q].from
           b == cs[r].from
<1>1. N \in Nat
  BY LexFacts
<1>2. p \in 1..N /\ q \in (p + 1)..(N + 1) /\ r \in 1..N /\ s \in (r + 1)..(N + 1)
  BY DEF Stretch, Opens
<1>3. q \in 1..N /\ q <= N /\ (q # r => r \in (q + 1)..(N + 1) /\ r <= N)
  <2> HIDE DEF N
  <2> QED BY <1>1, <1>2
<1>4. EndOf(t, cs, q) = a
  BY <1>3 DEF EndOf
<1>5. a \in Nat /\ b \in Nat /\ b < EndOf(t, cs, s) /\ EndOf(t, cs, s) \in Nat
  <2> DEFINE z == EndOf(t, cs, s)
             c == cs[r].to
  <2>1. a \in 1..Len(t) /\ b \in 1..Len(t) /\ c \in (b + 1)..Past(t)
    BY <1>2, <1>3, LexAt
  <2>2. z \in c..Past(t)
    BY <1>2, ChainGrows
  <2>3. Len(t) \in Nat /\ Past(t) \in Nat
    BY DEF Past
  <2> HIDE DEF a, b, z, c
  <2>4. a \in Nat /\ b \in Nat /\ b < z /\ z \in Nat
    BY <2>1, <2>2, <2>3
  <2> QED BY <2>4 DEF z
<1>6. a <= b
  <2>1. CASE q = r
    BY <1>5, <2>1
  <2>2. CASE q # r
    <3> DEFINE c == cs[q].to
    <3>1. EndOf(t, cs, r) \in c..Past(t) /\ c \in (a + 1)..Past(t)
      BY <1>3, <2>2, ChainGrows, LexAt
    <3>2. EndOf(t, cs, r) = b
      BY <1>3, <2>2 DEF EndOf
    <3>3. Past(t) \in Nat
      BY DEF Past
    <3> HIDE DEF a, b, c
    <3> QED BY <1>5, <3>1, <3>2, <3>3
  <2> QED BY <2>1, <2>2
<1> HIDE DEF a, b
<1> QED BY <1>4, <1>5, <1>6 DEF a, b

\* No line has more markers attached than are written on it.
LEMMA AttachedWithin ==
    ASSUME NEW t \in Seq(Char), \A i \in 1..Len(t) : t[i] # "v", NEW line \in Int
    PROVE  /\ Times(AttachedLines(Split(t)), line) \in Nat
           /\ Times(CommentMarkerLines(t), line) \in Nat
           /\ Times(AttachedLines(Split(t)), line) <= Times(CommentMarkerLines(t), line)
<1> DEFINE cs == Lex(t)
           out == Split(t)
           n == Len(out)
           S == CommentMarkers(t, cs)
           L == AttachedLoop(out)
           End(q) == EndOf(t, cs, q)
<1>1. PICK P, Q : Places(t, cs, out, P, Q, Len(cs) + 1)
  BY SplitPlaces
<1>2. /\ P \in Seq(Nat) /\ Len(P) = n
      /\ \A m \in 1..n : Stretch(cs, P[m], Q[m]) /\ out[m] = RawOf(t, cs, P[m], Q[m])
      /\ \A m \in 1..n : \A l \in 1..(m - 1) : Q[l] <= P[m]
  BY <1>1 DEF Places
<1> HIDE DEF out, cs
<1>3. n \in Nat
  BY <1>2
<1> HIDE DEF n
<1>4. ASSUME NEW m \in 1..n
      PROVE  /\ Contribution(out[m]) \in Seq(Int)
             /\ \E Y \in SUBSET S :
                   /\ IsFiniteSet(Y) /\ Cardinality(Y) = Times(Contribution(out[m]), line)
                   /\ \A i \in Y : LineOf(t, i) = line /\ cs[P[m]].from <= i /\ i < End(Q[m])
  <2> DEFINE p == P[m]
             q == Q[m]
  <2>1. Stretch(cs, p, q) /\ out[m] = RawOf(t, cs, p, q)
    BY <1>2
  <2> HIDE DEF p, q
  <2>2. /\ Contribution(RawOf(t, cs, p, q)) \in Seq(Int)
        /\ \E Y \in SUBSET S :
              /\ IsFiniteSet(Y) /\ Cardinality(Y) = Times(Contribution(RawOf(t, cs, p, q)), line)
              /\ \A i \in Y : LineOf(t, i) = line /\ cs[p].from <= i /\ i < End(q)
    BY <2>1, ContributionFacts DEF cs
  <2> HIDE DEF S, End
  <2> QED BY <2>1, <2>2 DEF p, q
<1>5. /\ L[0] = << >> /\ \A k \in 0..n : L[k] \in Seq(Int)
      /\ \A k \in 1..n : L[k] = L[k - 1] \o Contribution(out[k])
  <2>1. Len(out) \in Nat /\ \A k \in 1..Len(out) : Contribution(out[k]) \in Seq(Int)
    BY <1>3, <1>4 DEF n
  <2> QED BY <2>1, AttachedLoopFacts DEF n
<1> HIDE DEF L
<1>6. S \in SUBSET Nat /\ IsFiniteSet(S)
  BY MarkersFinite DEF cs
<1> HIDE DEF S
<1> DEFINE Found(m) ==
               \E Z \in SUBSET S :
                  /\ IsFiniteSet(Z) /\ Cardinality(Z) = Times(L[m], line)
                  /\ \A i \in Z : LineOf(t, i) = line /\ m # 0 /\ i < End(Q[m])
           T == {m \in Nat : m <= n => Found(m)}
<1>7. 0 \in T
  <2> DEFINE none == {x \in S : FALSE}
  <2>1. none = {}
    OBVIOUS
  <2>2. Times(L[0], line) = 0
    <3> DEFINE A == {x \in DOMAIN << >> : << >>[x] = line}
    <3>1. A = {}
      OBVIOUS
    <3>2. Times(<< >>, line) = Cardinality(A)
      BY DEF Times
    <3> HIDE DEF A
    <3> QED BY <1>5, <3>1, <3>2, FS_EmptySet
  <2>3. IsFiniteSet(none) /\ Cardinality(none) = 0
    <3> HIDE DEF none
    <3> QED BY <2>1, FS_EmptySet
  <2>4. none \in SUBSET S /\ \A i \in none : FALSE
    OBVIOUS
  <2> HIDE DEF none, End
  <2>5. Found(0)
    BY <2>2, <2>3, <2>4
  <2> QED BY <2>5
<1>8. ASSUME NEW m \in T PROVE m + 1 \in T
  <2> DEFINE k == m + 1
  <2>1. m \in Nat /\ k \in Nat /\ k - 1 = m /\ k # 0 /\ (m <= n => Found(m))
    OBVIOUS
  <2> SUFFICES ASSUME k <= n PROVE Found(k)
    BY <2>1
  <2>2. k \in 1..n /\ m <= n /\ m \in 0..n /\ (m # 0 => m \in 1..n /\ m \in 1..(k - 1))
    BY <1>3, <2>1
  <2> HIDE DEF k
  <2>3. Found(m)
    BY <2>1, <2>2
  <2> HIDE DEF End
  <2>4. PICK Z \in SUBSET S :
               /\ IsFiniteSet(Z) /\ Cardinality(Z) = Times(L[m], line)
               /\ \A i \in Z : LineOf(t, i) = line /\ m # 0 /\ i < End(Q[m])
    BY <2>3
  <2> DEFINE part == Contribution(out[k])
             start == cs[P[k]].from
             end == End(Q[k])
  <2>5. /\ part \in Seq(Int)
        /\ \E Y \in SUBSET S :
              /\ IsFiniteSet(Y) /\ Cardinality(Y) = Times(part, line)
              /\ \A i \in Y : LineOf(t, i) = line /\ start <= i /\ i < end
    BY <1>4, <2>2
  <2>6. PICK Y \in SUBSET S :
               /\ IsFiniteSet(Y) /\ Cardinality(Y) = Times(part, line)
               /\ \A i \in Y : LineOf(t, i) = line /\ start <= i /\ i < end
    BY <2>5
  <2>7. ASSUME m # 0
        PROVE  End(Q[m]) <= start /\ End(Q[m]) \in Nat /\ start \in Nat /\ end \in Nat /\ start < end
    <3> DEFINE p == P[m]
               q == Q[m]
               r == P[k]
               s == Q[k]
    <3>1. Stretch(cs, p, q) /\ Stretch(cs, r, s) /\ q <= r
      BY <1>2, <2>2, <2>7
    <3> HIDE DEF p, q, r, s
    <3>2. /\ EndOf(t, cs, q) <= cs[r].from /\ EndOf(t, cs, q) \in Nat /\ cs[r].from \in Nat
          /\ EndOf(t, cs, s) \in Nat /\ cs[r].from < EndOf(t, cs, s)
      BY <3>1, StretchesApart DEF cs
    <3> QED BY <3>2 DEF End, p, q, r, s
  <2> HIDE DEF part, start, end
  <2>8. Z \cap Y = {}
    <3> SUFFICES ASSUME NEW i \in Z, i \in Y PROVE FALSE
      OBVIOUS
    <3>1. i \in Nat /\ i < End(Q[m]) /\ m # 0 /\ start <= i
      BY <1>6, <2>4, <2>6
    <3>2. End(Q[m]) <= start /\ End(Q[m]) \in Nat /\ start \in Nat
      BY <2>7, <3>1
    <3> QED BY <3>1, <3>2
  <2> DEFINE W == Z \cup Y
  <2>9. /\ IsFiniteSet(W) /\ Cardinality(W) = Cardinality(Z) + Cardinality(Y)
    BY <2>4, <2>6, <2>8, DisjointSum
  <2>10. Cardinality(W) = Times(L[k], line)
    <3>1. L[k] = L[m] \o part /\ L[m] \in Seq(Int)
      BY <1>5, <2>1, <2>2 DEF part
    <3>2. Times(L[k], line) = Times(L[m], line) + Times(part, line)
      BY <2>5, <3>1, TimesConcat
    <3> HIDE DEF W
    <3> QED BY <2>4, <2>6, <2>9, <3>2
  <2>11. ASSUME NEW i \in W PROVE LineOf(t, i) = line /\ k # 0 /\ i < end
    <3>1. CASE i \in Y
      BY <2>1, <2>6, <3>1
    <3>2. CASE i \in Z
      <4>1. i \in Nat /\ i < End(Q[m]) /\ m # 0 /\ LineOf(t, i) = line
        BY <1>6, <2>4, <3>2
      <4>2. End(Q[m]) <= start /\ End(Q[m]) \in Nat /\ start \in Nat /\ end \in Nat /\ start < end
        BY <2>7, <4>1
      <4> QED BY <2>1, <4>1, <4>2
    <3> QED BY <3>1, <3>2
  <2>12. W \in SUBSET S
    OBVIOUS
  <2> HIDE DEF W
  <2> QED BY <2>9, <2>10, <2>11, <2>12 DEF end
<1>9. T = Nat
  <2> HIDE DEF T
  <2>1. T \in SUBSET Nat
    BY DEF T
  <2> QED BY <1>7, <1>8, <2>1, NatSetInduction
<1>10. n \in T
  <2> HIDE DEF T
  <2> QED BY <1>3, <1>9
<1>11. PICK Z \in SUBSET S :
             /\ IsFiniteSet(Z) /\ Cardinality(Z) = Times(L[n], line)
             /\ \A i \in Z : LineOf(t, i) = line
  BY <1>3, <1>10
<1> DEFINE X == {i \in S : LineOf(t, i) = line}
<1>12. IsFiniteSet(X) /\ Times(CommentMarkerLines(t), line) = Cardinality(X)
  BY TimesOfMarkers DEF S, cs
<1>13. Z \in SUBSET X
  BY <1>11
<1> HIDE DEF X
<1>14. Cardinality(Z) <= Cardinality(X) /\ Cardinality(Z) \in Nat /\ Cardinality(X) \in Nat
  BY <1>11, <1>12, <1>13, FS_Subset, FS_CardinalityType
<1>15. AttachedLines(out) = L[n]
  BY AttachedBy DEF L, n
<1>16. Cardinality(Z) = Times(AttachedLines(out), line)
  BY <1>11, <1>15
<1> QED BY <1>12, <1>14, <1>16 DEF out

\* Every marker in a comment either exempts the statement it is in or is reported as
\* stranded (lib.rs), whatever the alphabets, unless one has the vertical tab, and the
\* length of the text.
THEOREM MarkersAlwaysAccounted == KnownWhitespace => (TextSpec => []MarkersAccounted)
<1> SUFFICES ASSUME KnownWhitespace PROVE TextSpec => []MarkersAccounted
  OBVIOUS
<1> DEFINE IsText == text \in Seq(Char \ {"v"})
<1>1. TextInit => IsText
  BY DEF TextInit
<1>2. IsText /\ [TextNext]_text => IsText'
  <2>1. ASSUME NEW alphabet \in Alphabets, IsText, Write(alphabet) PROVE IsText'
    <3>1. PICK c \in alphabet.chars : text' = Append(text, c)
      BY <2>1 DEF Write
    <3>2. c \in Char \ {"v"}
      BY <2>1, <3>1, SplitterAssumption DEF KnownWhitespace
    <3> QED BY <2>1, <3>1, <3>2
  <2>2. ASSUME IsText, UNCHANGED text PROVE IsText'
    BY <2>2
  <2> QED BY <2>1, <2>2 DEF TextNext
<1>3. IsText => MarkersAccounted
  <2> SUFFICES ASSUME IsText PROVE MarkersAccounted
    OBVIOUS
  <2>1. text \in Seq(Char) /\ \A i \in 1..Len(text) : text[i] # "v"
    BY DEF IsText
  <2> DEFINE written == CommentMarkerLines(text)
             attached == AttachedLines(Split(text))
  <2>2. ASSUME NEW line \in 1..LineOf(text, Past(text))
        PROVE  Times(attached, line) + Stranded(written, attached, line) = Times(written, line)
    <3> DEFINE a == Times(attached, line)
               b == Times(written, line)
    <3>1. a \in Nat /\ b \in Nat /\ a <= b
      <4>1. line \in Int
        OBVIOUS
      <4> QED BY <2>1, <4>1, AttachedWithin
    <3>2. Stranded(written, attached, line) = IF b - a > 0 THEN b - a ELSE 0
      BY DEF Stranded
    <3> HIDE DEF a, b
    <3>3. a + Stranded(written, attached, line) = b
      BY <3>1, <3>2
    <3> QED BY <3>3 DEF a, b
  <2> HIDE DEF written, attached
  <2> QED BY <2>2 DEF MarkersAccounted, written, attached
<1> QED BY <1>1, <1>2, <1>3, PTL DEF TextSpec

-----------------------------------------------------------------------------
(* Where Postgres ends statements: its tokens and the splitter's constructs  *)
(* are walked side by side.                                                  *)

\* Where Postgres takes up a string again.
LEMMA ResumesFacts ==
    ASSUME NEW t \in Seq(Char), NEW j \in Nat, Resumes(t, j) # {}
    PROVE  LET k == Least(Resumes(t, j))
           IN  /\ k \in (j + 1)..Len(t) /\ t[k] = "'"
               /\ \A n \in j..(k - 1) : Trimmed(t[n])
<1> DEFINE S == Resumes(t, j)
           k == Least(S)
<1>1. S \in SUBSET Nat /\ S # {}
  BY DEF Resumes
<1>2. k \in S
  <2> HIDE DEF S
  <2> QED BY <1>1, LeastFacts
<1> HIDE DEF k
<1>3. /\ k \in (j + 1)..Len(t) /\ t[k] = "'"
      /\ \A n \in j..(k - 1) : Trimmed(t[n])
  BY <1>2 DEF Resumes
<1> QED BY <1>3 DEF k

\* Postgres' strings: the end from j on, if there is one.
StringStep(t, quote, escapes, F, j) ==
    IF j > Len(t) THEN Refused
    ELSE IF t[j] = Backslash /\ escapes THEN F[j + 2]
    ELSE IF t[j] # quote THEN F[j + 1]
    ELSE IF At(t, j + 1, quote) THEN F[j + 2]
    ELSE IF quote = "'" /\ Resumes(t, j + 1) # {} THEN F[Least(Resumes(t, j + 1)) + 1]
    ELSE j + 1

StringEnds(t, quote, escapes) ==
    CHOOSE F : F = [j \in 1..(Past(t) + 1) |-> StringStep(t, quote, escapes, F, j)]

LEMMA StringEndsExist ==
    ASSUME NEW t \in Seq(Char), NEW quote, NEW escapes
    PROVE  \A j \in 1..(Past(t) + 1) :
              StringEnds(t, quote, escapes)[j] = StringStep(t, quote, escapes, StringEnds(t, quote, escapes), j)
<1> DEFINE n == Len(t)
           m == Past(t) + 1
           V == 0..Past(t)
           S == [1..m -> V]
           step == [x \in (1..m) \X S |-> StringStep(t, quote, escapes, x[2], x[1])]
           Again(j) == Least(Resumes(t, j + 1)) + 1
<1>1. n \in Nat /\ m = n + 2 /\ m \in Nat /\ Past(t) = n + 1
  BY DEF Past
<1>2. \A j \in 1..m : Resumes(t, j + 1) # {} => Again(j) \in (j + 1)..m
  <2> SUFFICES ASSUME NEW j \in 1..m, Resumes(t, j + 1) # {} PROVE Again(j) \in (j + 1)..m
    OBVIOUS
  <2> DEFINE h == j + 1
             k == Least(Resumes(t, h))
  <2>1. h \in Nat
    BY <1>1
  <2> HIDE DEF h
  <2>2. k \in (h + 1)..n
    BY <2>1, ResumesFacts DEF h
  <2> HIDE DEF k
  <2>3. k + 1 \in (j + 1)..m
    BY <1>1, <2>2 DEF h
  <2> QED BY <2>3 DEF k, h
<1> HIDE DEF m, n, Again
<1>3. \A j \in 1..m : j <= n => j + 1 \in (j + 1)..m /\ j + 2 \in (j + 1)..m /\ j + 1 \in 0..Past(t)
  BY <1>1
<1>4. \A F, j : StringStep(t, quote, escapes, F, j) =
         IF j > n THEN 0
         ELSE IF t[j] = Backslash /\ escapes THEN F[j + 2]
         ELSE IF t[j] # quote THEN F[j + 1]
         ELSE IF At(t, j + 1, quote) THEN F[j + 2]
         ELSE IF quote = "'" /\ Resumes(t, j + 1) # {} THEN F[Again(j)]
         ELSE j + 1
  BY DEF StringStep, Refused, n, Again
<1>5. \A F \in S, j \in 1..m : StringStep(t, quote, escapes, F, j) \in V
  <2> TAKE F \in S, j \in 1..m
  <2>1. \A k \in (j + 1)..m : F[k] \in V
    <3>1. \A k \in (j + 1)..m : k \in 1..m
      OBVIOUS
    <3> QED BY <3>1
  <2>2. CASE j > n
    BY <1>1, <1>4, <2>2
  <2>3. CASE ~(j > n)
    <3>1. F[j + 1] \in V /\ F[j + 2] \in V /\ j + 1 \in V
      <4>1. j <= n
        BY <1>1, <2>3
      <4> QED BY <1>3, <2>1, <4>1
    <3>2. Resumes(t, j + 1) # {} => F[Again(j)] \in V
      BY <1>2, <2>1
    <3> HIDE DEF V
    <3> QED BY <1>4, <2>3, <3>1, <3>2
  <2> QED BY <2>2, <2>3
<1>6. step \in [(1..m) \X S -> V]
  <2>1. \A x \in (1..m) \X S : x[1] \in 1..m /\ x[2] \in S
    OBVIOUS
  <2> HIDE DEF S, V
  <2> QED BY <1>5, <2>1
<1>7. \A j \in 1..m, F \in S : step[<< j, F >>] = StringStep(t, quote, escapes, F, j)
  <2> HIDE DEF S
  <2> QED OBVIOUS
<1> HIDE DEF step
<1>8. ASSUME NEW j \in 1..m, NEW F, NEW G, \A k \in (j + 1)..m : F[k] = G[k]
      PROVE  StringStep(t, quote, escapes, F, j) = StringStep(t, quote, escapes, G, j)
  <2>1. ~(j > n) => F[j + 1] = G[j + 1] /\ F[j + 2] = G[j + 2]
    <3>1. ~(j > n) => j <= n
      BY <1>1
    <3> QED BY <1>3, <1>8, <3>1, Zenon
  <2>2. Resumes(t, j + 1) # {} => F[Again(j)] = G[Again(j)]
    BY <1>2, <1>8, Zenon
  <2> QED BY <1>4, <2>1, <2>2
<1>9. 0 \in V
  BY <1>1
<1>10. PICK F \in S : \A j \in 1..m : F[j] = step[<< j, F >>]
  <2>1. ASSUME NEW j \in 1..m, NEW f \in S, NEW g \in S, \A k \in (j + 1)..m : f[k] = g[k]
        PROVE  step[<< j, f >>] = step[<< j, g >>]
    <3>1. StringStep(t, quote, escapes, f, j) = StringStep(t, quote, escapes, g, j)
      BY <1>8, <2>1
    <3> HIDE DEF S
    <3> QED BY <1>7, <3>1
  <2>2. LaterOnly(step, m, V)
    BY <2>1 DEF LaterOnly
  <2>3. step \in [(1..m) \X [1..m -> V] -> V]
    BY <1>6
  <2>4. \E F : IsBackward(F, m, V, step)
    <3> HIDE DEF V, S
    <3> QED BY <1>1, <1>9, <2>2, <2>3, BackwardExists
  <2> QED BY <2>4 DEF IsBackward
<1>11. F = [j \in 1..m |-> StringStep(t, quote, escapes, F, j)]
  <2>1. \A j \in 1..m : F[j] = StringStep(t, quote, escapes, F, j)
    BY <1>7, <1>10
  <2>2. F = [j \in 1..m |-> F[j]]
    OBVIOUS
  <2> QED BY <2>1, <2>2
<1> DEFINE G == StringEnds(t, quote, escapes)
<1>12. G = [j \in 1..m |-> StringStep(t, quote, escapes, G, j)]
  BY <1>11 DEF StringEnds, m
<1> HIDE DEF G
<1>13. \A j \in 1..m : G[j] = StringStep(t, quote, escapes, G, j)
  BY <1>12
<1> QED BY <1>13 DEF G, m

LEMMA StringBy ==
    \A t, i, escapes : StringEnd(t, i, escapes) = StringEnds(t, t[i], escapes)[i + 1]
BY DEF StringEnd, StringEnds, StringStep

\* One step of the way to the end of a string.
LEMMA StringStepped ==
    ASSUME NEW t \in Seq(Char), NEW quote, NEW escapes, NEW j \in 1..(Past(t) + 1)
    PROVE  LET E == StringEnds(t, quote, escapes)
           IN  /\ j > Len(t) => E[j] = 0
               /\ j <= Len(t) =>
                     IF t[j] = Backslash /\ escapes THEN E[j] = E[j + 2]
                     ELSE IF t[j] # quote THEN E[j] = E[j + 1]
                     ELSE IF At(t, j + 1, quote) THEN E[j] = E[j + 2]
                     ELSE IF quote = "'" /\ Resumes(t, j + 1) # {}
                     THEN E[j] = E[Least(Resumes(t, j + 1)) + 1]
                     ELSE E[j] = j + 1
<1>1. Len(t) \in Nat
  OBVIOUS
<1>2. j <= Len(t) => ~(j > Len(t))
  BY <1>1
<1> QED BY <1>2, StringEndsExist DEF StringStep, Refused

LEMMA StringBounds ==
    ASSUME NEW t \in Seq(Char), NEW quote, NEW escapes
    PROVE  \A j \in 1..(Past(t) + 1) :
              LET e == StringEnds(t, quote, escapes)[j]
              IN  e = 0 \/ (j <= Len(t) /\ e \in (j + 1)..Past(t) /\ t[e - 1] = quote)
<1> DEFINE E == StringEnds(t, quote, escapes)
           n == Len(t)
           m == Past(t) + 1
           Good(j) == E[j] = 0 \/ (j <= n /\ E[j] \in (j + 1)..(n + 1) /\ t[E[j] - 1] = quote)
           P == {j \in 1..m : Good(j)}
<1>1. n \in Nat /\ m = n + 2 /\ m \in Nat /\ Past(t) = n + 1
  BY DEF Past
<1>2. ASSUME NEW j \in 1..m, \A k \in (j + 1)..m : k \in P PROVE j \in P
  <2> DEFINE again == Least(Resumes(t, j + 1)) + 1
  <2>1. \A k \in (j + 1)..m : Good(k)
    BY <1>2
  <2>2. /\ j > n => E[j] = 0
        /\ j <= n =>
              IF t[j] = Backslash /\ escapes THEN E[j] = E[j + 2]
              ELSE IF t[j] # quote THEN E[j] = E[j + 1]
              ELSE IF At(t, j + 1, quote) THEN E[j] = E[j + 2]
              ELSE IF quote = "'" /\ Resumes(t, j + 1) # {} THEN E[j] = E[again]
              ELSE E[j] = j + 1
    BY <1>1, StringStepped
  <2>3. Resumes(t, j + 1) # {} => again \in (j + 1)..m
    <3> SUFFICES ASSUME Resumes(t, j + 1) # {} PROVE again \in (j + 1)..m
      OBVIOUS
    <3> DEFINE h == j + 1
               k == Least(Resumes(t, h))
    <3>1. h \in Nat
      BY <1>1
    <3> HIDE DEF h
    <3>2. k \in (h + 1)..n
      BY <3>1, ResumesFacts DEF h
    <3> HIDE DEF k
    <3>3. k + 1 \in (j + 1)..m
      BY <1>1, <3>2 DEF h
    <3> QED BY <3>3 DEF k, h
  <2> HIDE DEF E, P, m, n, again
  <2>4. ASSUME NEW k \in (j + 1)..m, j <= n, E[j] = E[k] PROVE Good(j)
    <3>1. Good(k)
      BY <2>1
    <3>2. E[k] \in (k + 1)..(n + 1) => E[k] \in (j + 1)..(n + 1)
      BY <1>1
    <3> QED BY <2>4, <3>1, <3>2
  <2>5. CASE j > n
    BY <2>2, <2>5 DEF P
  <2>6. CASE j <= n
    <3>1. j + 1 \in (j + 1)..m /\ j + 2 \in (j + 1)..m /\ j + 1 \in (j + 1)..(n + 1) /\ j + 1 - 1 = j
      BY <1>1, <2>6
    <3>2. CASE E[j] = j + 1 /\ t[j] = quote
      <4>1. Good(j)
        BY <2>6, <3>1, <3>2
      <4> QED BY <4>1 DEF P
    <3>3. CASE ~(E[j] = j + 1 /\ t[j] = quote)
      <4>1. \E k \in (j + 1)..m : E[j] = E[k]
        BY <2>2, <2>3, <2>6, <3>1, <3>3, Zenon
      <4> HIDE DEF Good
      <4>2. Good(j)
        BY <2>4, <2>6, <4>1
      <4> QED BY <4>2 DEF P
    <3> QED BY <3>2, <3>3
  <2> QED BY <1>1, <2>5, <2>6
<1>3. P = 1..m
  <2>1. P \in SUBSET (1..m)
    OBVIOUS
  <2> HIDE DEF P
  <2> QED BY <1>1, <1>2, <2>1, BackwardInduction
<1>4. \A j \in 1..m : Good(j)
  BY <1>3
<1> HIDE DEF P
<1> QED BY <1>1, <1>4

\* Postgres' comments: the end from j on, at a depth, if there is one.
CommentStep(t, F, j) ==
    [depth \in Nat |->
        IF depth = 0 THEN j
        ELSE IF j > Len(t) THEN Refused
        ELSE IF Starts(t, j, << "/", "*" >>) THEN F[j + 2][depth + 1]
        ELSE IF Starts(t, j, << "*", "/" >>) THEN F[j + 2][depth - 1]
        ELSE F[j + 1][depth]]

CommentEnds(t) == CHOOSE F : F = [j \in 1..Past(t) |-> CommentStep(t, F, j)]

LEMMA CommentEndsExist ==
    ASSUME NEW t \in Seq(Char)
    PROVE  \A j \in 1..Past(t) : CommentEnds(t)[j] = CommentStep(t, CommentEnds(t), j)
<1> DEFINE n == Len(t)
           m == Past(t)
           V == [Nat -> 0..m]
           S == [1..m -> V]
           step == [x \in (1..m) \X S |-> CommentStep(t, x[2], x[1])]
<1>1. n \in Nat /\ m = n + 1 /\ m \in Nat
  BY DEF Past
<1> HIDE DEF m, n
<1>2. \A j \in 1..m : (j <= n => j + 1 \in (j + 1)..m) /\ (j > n \/ j <= n)
  BY <1>1
<1>3. \A j \in 1..m : /\ Starts(t, j, << "/", "*" >>) => j + 2 \in (j + 1)..m
                      /\ Starts(t, j, << "*", "/" >>) => j + 2 \in (j + 1)..m
  <2> TAKE j \in 1..m
  <2>1. j \in Nat \ {0}
    BY <1>1
  <2>2. Starts(t, j, << "/", "*" >>) \/ Starts(t, j, << "*", "/" >>) => j + 1 <= n
    BY <2>1, StartsPair DEF n
  <2> QED BY <1>1, <2>2
<1>4. \A F \in S, j \in 1..m : CommentStep(t, F, j) \in V
  <2> TAKE F \in S, j \in 1..m
  <2> DEFINE at(d) ==
                IF d = 0 THEN j
                ELSE IF j > Len(t) THEN 0
                ELSE IF Starts(t, j, << "/", "*" >>) THEN F[j + 2][d + 1]
                ELSE IF Starts(t, j, << "*", "/" >>) THEN F[j + 2][d - 1]
                ELSE F[j + 1][d]
  <2>1. \A k \in (j + 1)..m : \A d \in Nat : k \in 1..m /\ F[k][d] \in 0..m
    <3>1. \A k \in (j + 1)..m : k \in 1..m
      OBVIOUS
    <3>2. \A k \in 1..m : \A d \in Nat : F[k][d] \in 0..m
      OBVIOUS
    <3> QED BY <3>1, <3>2
  <2>2. ASSUME NEW d \in Nat PROVE at(d) \in 0..m
    <3>1. CASE j > n \/ d = 0
      BY <1>1, <3>1 DEF n
    <3>2. CASE ~(j > n \/ d = 0) /\ Starts(t, j, << "/", "*" >>)
      BY <1>3, <2>1, <3>2 DEF n
    <3>3. CASE ~(j > n \/ d = 0) /\ ~Starts(t, j, << "/", "*" >>) /\ Starts(t, j, << "*", "/" >>)
      <4>1. d - 1 \in Nat /\ j + 2 \in (j + 1)..m
        BY <1>3, <3>3
      <4> QED BY <2>1, <3>3, <4>1 DEF n
    <3>4. CASE ~(j > n \/ d = 0) /\ ~Starts(t, j, << "/", "*" >>) /\ ~Starts(t, j, << "*", "/" >>)
      BY <1>2, <2>1, <3>4 DEF n
    <3> QED BY <3>1, <3>2, <3>3, <3>4
  <2> HIDE DEF at
  <2>3. [d \in Nat |-> at(d)] \in V
    BY <2>2
  <2> QED BY <2>3 DEF CommentStep, Refused, at
<1>5. step \in [(1..m) \X S -> V]
  <2>1. \A x \in (1..m) \X S : x[1] \in 1..m /\ x[2] \in S
    OBVIOUS
  <2> HIDE DEF S, V
  <2> QED BY <1>4, <2>1
<1>6. \A j \in 1..m, F \in S : step[<< j, F >>] = CommentStep(t, F, j)
  <2> HIDE DEF S
  <2> QED OBVIOUS
<1> HIDE DEF step
<1>7. ASSUME NEW j \in 1..m, NEW F \in S, NEW G \in S, \A k \in (j + 1)..m : F[k] = G[k]
      PROVE  step[<< j, F >>] = step[<< j, G >>]
  <2>1. j <= n => F[j + 1] = G[j + 1]
    BY <1>2, <1>7, Zenon
  <2>2. Starts(t, j, << "/", "*" >>) \/ Starts(t, j, << "*", "/" >>) => F[j + 2] = G[j + 2]
    BY <1>3, <1>7, Zenon
  <2>3. j > n \/ j <= n
    BY <1>1
  <2>4. CommentStep(t, F, j) = CommentStep(t, G, j)
    BY <2>1, <2>2, <2>3 DEF CommentStep, n
  <2> QED BY <1>6, <2>4
<1>8. [d \in Nat |-> 1] \in V
  BY <1>1
<1>9. PICK F \in S : \A j \in 1..m : F[j] = step[<< j, F >>]
  <2>1. LaterOnly(step, m, V)
    BY <1>7 DEF LaterOnly
  <2>2. step \in [(1..m) \X [1..m -> V] -> V]
    BY <1>5
  <2>3. \E F : IsBackward(F, m, V, step)
    <3> HIDE DEF V, S
    <3> QED BY <1>1, <1>8, <2>1, <2>2, BackwardExists
  <2> QED BY <2>3 DEF IsBackward
<1>10. F = [j \in 1..m |-> CommentStep(t, F, j)]
  <2>1. \A j \in 1..m : F[j] = CommentStep(t, F, j)
    BY <1>6, <1>9
  <2>2. F = [j \in 1..m |-> F[j]]
    OBVIOUS
  <2> QED BY <2>1, <2>2
<1> DEFINE G == CommentEnds(t)
<1>11. G = [j \in 1..m |-> CommentStep(t, G, j)]
  BY <1>10 DEF CommentEnds, m
<1> HIDE DEF G
<1>12. \A j \in 1..m : G[j] = CommentStep(t, G, j)
  BY <1>11
<1> QED BY <1>12 DEF G, m

LEMMA CommentBy ==
    \A t, i : CommentEnd(t, i) = CommentEnds(t)[i + 2][1]
BY DEF CommentEnd, CommentEnds, CommentStep

\* One step of the way to the end of a comment.
LEMMA CommentStepped ==
    ASSUME NEW t \in Seq(Char), NEW j \in 1..Past(t), NEW d \in Nat
    PROVE  LET E == CommentEnds(t)
           IN  /\ d = 0 => E[j][d] = j
               /\ j = Past(t) /\ d # 0 => E[j][d] = 0
               /\ j < Past(t) /\ d # 0 =>
                     IF Starts(t, j, << "/", "*" >>) THEN E[j][d] = E[j + 2][d + 1]
                     ELSE IF Starts(t, j, << "*", "/" >>) THEN E[j][d] = E[j + 2][d - 1]
                     ELSE E[j][d] = E[j + 1][d]
<1> DEFINE E == CommentEnds(t)
<1>1. Len(t) \in Nat /\ Past(t) = Len(t) + 1 /\ j \in Nat \ {0}
  BY DEF Past
<1>2. E[j] = CommentStep(t, E, j)
  BY CommentEndsExist
<1> HIDE DEF E
<1>3. E[j][d] = IF d = 0 THEN j
                ELSE IF j > Len(t) THEN 0
                ELSE IF Starts(t, j, << "/", "*" >>) THEN E[j + 2][d + 1]
                ELSE IF Starts(t, j, << "*", "/" >>) THEN E[j + 2][d - 1]
                ELSE E[j + 1][d]
  BY <1>2 DEF CommentStep, Refused
<1>4. (j > Len(t) <=> j = Past(t)) /\ (j < Past(t) <=> ~(j > Len(t)))
  BY <1>1
<1> QED BY <1>3, <1>4 DEF E

\* A comment that ends for Postgres ends there for the splitter.
LEMMA CommentsAgree ==
    ASSUME NEW t \in Seq(Char)
    PROVE  \A j \in 1..Past(t) : \A d \in Nat :
              CommentEnds(t)[j][d] # 0 => BlockEnds(t)[j][d] = CommentEnds(t)[j][d]
<1> DEFINE m == Past(t)
           C == CommentEnds(t)
           E == BlockEnds(t)
           Good(j, d) == C[j][d] # 0 => E[j][d] = C[j][d]
           P == {j \in 1..m : \A d \in Nat : Good(j, d)}
<1>1. m \in Nat
  BY DEF Past
<1>2. ASSUME NEW j \in 1..m, \A k \in (j + 1)..m : k \in P PROVE j \in P
  <2>1. \A k \in (j + 1)..m : \A d \in Nat : Good(k, d)
    BY <1>2
  <2> HIDE DEF P
  <2> SUFFICES ASSUME NEW d \in Nat PROVE Good(j, d)
    BY DEF P
  <2>2. /\ j = m \/ d = 0 => E[j][d] = j
        /\ j < m /\ d # 0 =>
              IF Starts(t, j, << "/", "*" >>)
              THEN j + 2 \in (j + 1)..m /\ E[j][d] = E[j + 2][d + 1]
              ELSE IF Starts(t, j, << "*", "/" >>)
              THEN j + 2 \in (j + 1)..m /\ E[j][d] = E[j + 2][d - 1]
              ELSE E[j][d] = E[j + 1][d]
    BY BlockStepped
  <2>3. /\ d = 0 => C[j][d] = j
        /\ j = m /\ d # 0 => C[j][d] = 0
        /\ j < m /\ d # 0 =>
              IF Starts(t, j, << "/", "*" >>) THEN C[j][d] = C[j + 2][d + 1]
              ELSE IF Starts(t, j, << "*", "/" >>) THEN C[j][d] = C[j + 2][d - 1]
              ELSE C[j][d] = C[j + 1][d]
    BY CommentStepped
  <2> HIDE DEF C, E, m
  <2>4. ASSUME NEW k \in (j + 1)..m, NEW b \in Nat, E[j][d] = E[k][b], C[j][d] = C[k][b]
        PROVE  Good(j, d)
    BY <2>1, <2>4
  <2>5. CASE j = m \/ d = 0
    BY <2>2, <2>3, <2>5
  <2>6. CASE j < m /\ d # 0
    <3>1. d + 1 \in Nat /\ d - 1 \in Nat /\ j + 1 \in (j + 1)..m
      BY <1>1, <2>6
    <3> HIDE DEF Good
    <3>2. CASE Starts(t, j, << "/", "*" >>)
      BY <2>2, <2>3, <2>4, <2>6, <3>1, <3>2
    <3>3. CASE ~Starts(t, j, << "/", "*" >>) /\ Starts(t, j, << "*", "/" >>)
      BY <2>2, <2>3, <2>4, <2>6, <3>1, <3>3
    <3>4. CASE ~Starts(t, j, << "/", "*" >>) /\ ~Starts(t, j, << "*", "/" >>)
      BY <2>2, <2>3, <2>4, <2>6, <3>1, <3>4
    <3> QED BY <3>2, <3>3, <3>4
  <2> QED BY <1>1, <2>5, <2>6
<1>3. P = 1..m
  <2>1. P \in SUBSET (1..m)
    OBVIOUS
  <2> HIDE DEF P
  <2> QED BY <1>1, <1>2, <2>1, BackwardInduction
<1> QED BY <1>3

\* The semicolons the splitter cuts at from i on.
Semis(t, i) == {c.from : c \in {d \in Elements(Rest(t)[i]) : d.kind = "semicolon"}}

OwnSemi(t, i) == IF Semicolon(t[i]) THEN {i} ELSE {}

LEMMA SemisPast ==
    ASSUME NEW t \in Seq(Char)
    PROVE  Semis(t, Past(t)) = {}
<1>1. Past(t) \in 1..Past(t) /\ Past(t) > Len(t)
  BY DEF Past
<1>2. Rest(t)[Past(t)] = << >>
  BY <1>1, RestStepped
<1> QED BY <1>2 DEF Semis, Elements

LEMMA SemisStepped ==
    ASSUME NEW t \in Seq(Char), NEW i \in 1..Len(t)
    PROVE  /\ Construct(t, i).to \in (i + 1)..Past(t)
           /\ Semis(t, i) = OwnSemi(t, i) \cup Semis(t, Construct(t, i).to)
<1> DEFINE c == Construct(t, i)
           r == Rest(t)[c.to]
           all == Rest(t)[i]
<1>1. i \in 1..Past(t) /\ i <= Len(t)
  BY DEF Past
<1>2. c.from = i /\ c.to \in (i + 1)..Past(t) /\ c \in Pieces(Len(t))
  BY ConstructFacts
<1>3. all = << c >> \o r /\ c.to \in 1..Past(t)
  BY <1>1, RestStepped
<1>4. r \in Seq(Pieces(Len(t)))
  BY <1>3, RestStepped
<1>5. c.kind = "semicolon" <=> Semicolon(t[i])
  <2>1. c.kind = "semicolon" => Semicolon(t[i])
    BY ConstructFacts
  <2>2. Semicolon(t[i]) => c = Piece("semicolon", i, i + 1)
    BY ConstructCases
  <2> HIDE DEF c
  <2> QED BY <2>1, <2>2, PieceFields
<1> HIDE DEF c, r, all
<1>6. Elements(all) = {c} \cup Elements(r)
  <2>1. /\ Len(all) = Len(r) + 1 /\ all[1] = c /\ all \in Seq(Pieces(Len(t)))
        /\ \A k \in 2..(Len(r) + 1) : all[k] = r[k - 1] /\ k - 1 \in 1..Len(r)
        /\ \A k \in 1..Len(r) : all[k + 1] = r[k]
    BY <1>2, <1>3, <1>4, ConsFacts
  <2>2. DOMAIN all = 1..(Len(r) + 1) /\ DOMAIN r = 1..Len(r) /\ Len(r) \in Nat
    BY <1>4, <2>1
  <2>3. ASSUME NEW x \in Elements(all) PROVE x = c \/ x \in Elements(r)
    <3>1. PICK k \in 1..(Len(r) + 1) : x = all[k]
      BY <2>2, <2>3 DEF Elements
    <3>2. CASE k = 1
      BY <2>1, <3>1, <3>2
    <3>3. CASE k # 1
      <4> DEFINE h == k - 1
      <4>1. k \in 2..(Len(r) + 1)
        BY <2>2, <3>3
      <4>2. x = r[h] /\ h \in 1..Len(r)
        BY <2>1, <3>1, <4>1
      <4> HIDE DEF h
      <4> QED BY <2>2, <4>2 DEF Elements
    <3> QED BY <3>2, <3>3
  <2>4. c \in Elements(all)
    <3>1. 1 \in DOMAIN all
      BY <2>2
    <3> QED BY <2>1, <3>1 DEF Elements
  <2>5. ASSUME NEW x \in Elements(r) PROVE x \in Elements(all)
    <3>1. PICK k \in 1..Len(r) : x = r[k]
      BY <2>2, <2>5 DEF Elements
    <3> DEFINE h == k + 1
    <3>2. h \in DOMAIN all /\ x = all[h]
      BY <2>1, <2>2, <3>1
    <3> HIDE DEF h
    <3> QED BY <3>2 DEF Elements
  <2> QED BY <2>3, <2>4, <2>5
<1>7. Semis(t, i) = OwnSemi(t, i) \cup Semis(t, c.to)
  <2> DEFINE Own(S) == {d.from : d \in {x \in S : x.kind = "semicolon"}}
  <2>1. Semis(t, i) = Own(Elements(all)) /\ Semis(t, c.to) = Own(Elements(r))
    BY DEF Semis, all, r
  <2>2. OwnSemi(t, i) = Own({c})
    BY <1>2, <1>5 DEF OwnSemi
  <2>3. Own({c} \cup Elements(r)) = Own({c}) \cup Own(Elements(r))
    OBVIOUS
  <2> HIDE DEF Own
  <2> QED BY <1>6, <2>1, <2>2, <2>3
<1> QED BY <1>2, <1>7 DEF c

\* A construct of one character that no statement ends at.
Quiet(c) == EndsIdent(c) \/ Trimmed(c)

LEMMA QuietStepped ==
    ASSUME NEW t \in Seq(Char), NEW i \in 1..Len(t), Quiet(t[i])
    PROVE  Semis(t, i) = Semis(t, i + 1)
<1>1. i \in Nat \ {0}
  OBVIOUS
<1>2. /\ ~Semicolon(t[i]) /\ t[i] \notin {"-", "/", "'", "$", DoubleQuote}
  BY Zenon DEF Quiet, EndsIdent, IdentByte, Trimmed, AsciiWhitespace, Semicolon, Marker,
               Newline, DoubleQuote
<1>3. ~Starts(t, i, << "-", "-" >>) /\ ~Starts(t, i, << "/", "*" >>)
  BY <1>1, <1>2, StartsPair
<1>4. \E kind : Construct(t, i) = Piece(kind, i, i + 1)
  BY <1>2, <1>3, ConstructCases
<1>5. Construct(t, i).to = i + 1
  BY <1>4, PieceFields
<1>6. OwnSemi(t, i) = {}
  BY <1>2 DEF OwnSemi
<1> DEFINE to == Construct(t, i).to
<1>7. Semis(t, i) = OwnSemi(t, i) \cup Semis(t, to)
  BY SemisStepped
<1>8. to = i + 1
  BY <1>5
<1> HIDE DEF to
<1> QED BY <1>6, <1>7, <1>8

LEMMA QuietRun ==
    ASSUME NEW t \in Seq(Char), NEW a \in 1..Past(t), NEW b \in a..Past(t),
           \A n \in a..(b - 1) : Quiet(t[n])
    PROVE  Semis(t, a) = Semis(t, b)
<1> DEFINE P == {j \in 1..b : j >= a => Semis(t, j) = Semis(t, b)}
<1>1. Len(t) \in Nat /\ Past(t) = Len(t) + 1 /\ a \in Nat /\ b \in Nat /\ a >= 1
  BY DEF Past
<1>2. ASSUME NEW j \in 1..b, \A k \in (j + 1)..b : k \in P PROVE j \in P
  <2>1. CASE j = b
    BY <2>1
  <2>2. CASE j # b /\ j >= a
    <3>1. j \in a..(b - 1) /\ j \in 1..Len(t) /\ j + 1 \in (j + 1)..b /\ j + 1 >= a
      BY <1>1, <2>2
    <3>2. Semis(t, j + 1) = Semis(t, b)
      BY <1>2, <3>1
    <3>3. Semis(t, j) = Semis(t, j + 1)
      BY <3>1, QuietStepped
    <3> QED BY <3>2, <3>3
  <2>3. CASE ~(j >= a)
    BY <2>3
  <2> QED BY <2>1, <2>2, <2>3
<1>3. P = 1..b
  <2>1. P \in SUBSET (1..b)
    OBVIOUS
  <2> HIDE DEF P
  <2> QED BY <1>1, <1>2, <2>1, BackwardInduction
<1>4. a \in P
  BY <1>1, <1>3
<1> QED BY <1>1, <1>4

\* A quoted string is one construct, and holds no cut.
LEMMA QuotedQuiet ==
    ASSUME NEW t \in Seq(Char), NEW i \in 1..Len(t), t[i] \in {"'", DoubleQuote}
    PROVE  \E b \in BOOLEAN :
              /\ b => t[i] = "'" /\ EString(t, i)
              /\ ~b => t[i] = DoubleQuote \/ ~EString(t, i)
              /\ Semis(t, i) = Semis(t, QuotedEnds(t, t[i], b)[i + 1])
<1>1. OwnSemi(t, i) = {}
  BY CharactersApart DEF OwnSemi
<1>2. ASSUME NEW b \in BOOLEAN, Construct(t, i) = Piece("content", i, QuotedEnd(t, i, b))
      PROVE  Semis(t, i) = Semis(t, QuotedEnds(t, t[i], b)[i + 1])
  <2> DEFINE to == Construct(t, i).to
             e == QuotedEnds(t, t[i], b)[i + 1]
  <2>1. to = e
    BY <1>2, PieceFields, QuotedBy
  <2>2. Semis(t, i) = OwnSemi(t, i) \cup Semis(t, to)
    BY SemisStepped
  <2> HIDE DEF to, e
  <2>3. Semis(t, i) = Semis(t, e)
    BY <1>1, <2>1, <2>2
  <2> QED BY <2>3 DEF e
<1>3. CASE t[i] = "'"
  <2> DEFINE b == EString(t, i)
  <2>1. b \in BOOLEAN
    BY DEF EString
  <2>2. Construct(t, i) = Piece("content", i, QuotedEnd(t, i, b))
    BY <1>3, ConstructCases
  <2>3. Semis(t, i) = Semis(t, QuotedEnds(t, t[i], b)[i + 1])
    <3> HIDE DEF b
    <3> QED BY <1>2, <2>1, <2>2
  <2> HIDE DEF b
  <2>4. b <=> EString(t, i)
    BY DEF b
  <2> QED BY <1>3, <2>1, <2>3, <2>4
<1>4. CASE t[i] = DoubleQuote
  <2>1. Construct(t, i) = Piece("content", i, QuotedEnd(t, i, FALSE))
    BY <1>4, ConstructCases
  <2>2. Semis(t, i) = Semis(t, QuotedEnds(t, t[i], FALSE)[i + 1])
    BY <1>2, <2>1
  <2> QED BY <1>4, <2>2
<1> QED BY <1>3, <1>4

\* No backslash; or no string that is taken up again, and escapes are read alike.
SameEscapes(t, a, b) ==
    \/ \A i \in 1..Len(t) : t[i] # Backslash
    \/ a = b /\ \A i \in 1..Len(t) : t[i] = "'" => Resumes(t, i + 1) = {}

\* Where a string ends for Postgres, the splitter has cut at nothing since.
LEMMA StringWalk ==
    ASSUME NEW t \in Seq(Char), NEW quote \in {"'", DoubleQuote}, NEW a \in BOOLEAN
    PROVE  \A j \in 1..(Past(t) + 1) : \A b \in BOOLEAN :
              SameEscapes(t, a, b) /\ StringEnds(t, quote, a)[j] # 0 =>
                 Semis(t, QuotedEnds(t, quote, b)[j]) = Semis(t, StringEnds(t, quote, a)[j])
<1> DEFINE n == Len(t)
           m == Past(t) + 1
           F == StringEnds(t, quote, a)
           E(b) == QuotedEnds(t, quote, b)
           Good(j, b) == SameEscapes(t, a, b) /\ F[j] # 0 => Semis(t, E(b)[j]) = Semis(t, F[j])
           P == {j \in 1..m : \A b \in BOOLEAN : Good(j, b)}
<1>1. n \in Nat /\ m = n + 2 /\ m \in Nat /\ Past(t) = n + 1
  BY DEF Past
<1>2. ASSUME NEW j \in 1..m, \A k \in (j + 1)..m : k \in P PROVE j \in P
  <2> DEFINE h == j + 1
             again == Least(Resumes(t, h))
  <2>1. \A k \in (j + 1)..m : \A b \in BOOLEAN : Good(k, b)
    BY <1>2
  <2> HIDE DEF P
  <2> SUFFICES ASSUME NEW b \in BOOLEAN, SameEscapes(t, a, b), F[j] # 0 PROVE Good(j, b)
    BY DEF P
  <2>2. /\ j > n => F[j] = 0
        /\ j <= n =>
              IF t[j] = Backslash /\ a THEN F[j] = F[j + 2]
              ELSE IF t[j] # quote THEN F[j] = F[j + 1]
              ELSE IF At(t, j + 1, quote) THEN F[j] = F[j + 2]
              ELSE IF quote = "'" /\ Resumes(t, h) # {} THEN F[j] = F[again + 1]
              ELSE F[j] = j + 1
    BY StringStepped
  <2>3. j <= n =>
              IF t[j] = Backslash /\ b THEN E(b)[j] = E(b)[j + 2]
              ELSE IF t[j] # quote THEN E(b)[j] = E(b)[j + 1]
              ELSE IF At(t, j + 1, quote) THEN E(b)[j] = E(b)[j + 2]
              ELSE E(b)[j] = j + 1
    BY QuotedStepped
  <2> HIDE DEF F, E, m, n
  <2>4. j \in 1..n
    <3>1. j <= n \/ j > n
      BY <1>1
    <3> QED BY <1>1, <2>2, <3>1
  <2>5. j <= n /\ j + 1 \in (j + 1)..m /\ j + 2 \in (j + 1)..m /\ h \in Nat
    BY <1>1, <2>4
  <2>6. t[j] = Backslash => a = b
    BY <2>4 DEF SameEscapes, n
  <2>7. ASSUME NEW k \in (j + 1)..m, F[j] = F[k], E(b)[j] = E(b)[k] PROVE Good(j, b)
    <3>1. Good(k, b)
      BY <2>1
    <3> QED BY <2>7, <3>1
  <2>8. CASE /\ quote = "'" /\ t[j] = quote /\ Resumes(t, h) # {}
             /\ F[j] = F[again + 1] /\ E(b)[j] = h
    <3> DEFINE k == again
    <3>0. ~(\A i \in 1..Len(t) : t[i] = "'" => Resumes(t, i + 1) = {})
      BY <2>4, <2>8 DEF h, n
    <3>1. /\ k \in (h + 1)..n /\ t[k] = "'"
          /\ \A i \in h..(k - 1) : Trimmed(t[i])
      BY <2>5, <2>8, ResumesFacts DEF n
    <3> HIDE DEF again
    <3>2. k \in 1..n /\ k + 1 \in (j + 1)..m /\ h \in 1..Past(t) /\ k \in h..Past(t)
          /\ \A i \in h..(k - 1) : i \in 1..n
      BY <1>1, <2>4, <3>1
    <3> HIDE DEF h, k
    <3>3. Semis(t, h) = Semis(t, k)
      <4>1. \A i \in h..(k - 1) : Quiet(t[i])
        BY <3>1 DEF Quiet
      <4> QED BY <3>2, <4>1, QuietRun
    <3>4. \A c \in BOOLEAN : SameEscapes(t, a, c)
      <4>1. \A i \in 1..Len(t) : t[i] # Backslash
        BY <3>0 DEF SameEscapes
      <4> QED BY <4>1 DEF SameEscapes
    <3>5. PICK c \in BOOLEAN : Semis(t, k) = Semis(t, QuotedEnds(t, t[k], c)[k + 1])
      BY <3>1, <3>2, QuotedQuiet DEF n
    <3>6. Semis(t, k) = Semis(t, E(c)[k + 1])
      BY <2>8, <3>1, <3>5 DEF E
    <3>7. Semis(t, E(c)[k + 1]) = Semis(t, F[k + 1])
      <4> DEFINE l == k + 1
      <4>1. l \in (j + 1)..m /\ F[j] = F[l]
        BY <2>8, <3>2 DEF k
      <4> HIDE DEF l
      <4>2. Good(l, c)
        BY <2>1, <4>1
      <4>3. Semis(t, E(c)[l]) = Semis(t, F[l])
        BY <3>4, <4>1, <4>2
      <4> QED BY <4>3 DEF l
    <3>8. F[j] = F[k + 1]
      BY <2>8 DEF k
    <3> QED BY <2>8, <3>3, <3>6, <3>7, <3>8
  <2>9. CASE F[j] = j + 1 /\ E(b)[j] = j + 1
    BY <2>9
  <2> HIDE DEF Good
  <2>10. CASE t[j] = Backslash /\ a
    BY <2>2, <2>3, <2>5, <2>6, <2>7, <2>10
  <2>11. CASE ~(t[j] = Backslash /\ a) /\ t[j] # quote
    BY <2>2, <2>3, <2>5, <2>6, <2>7, <2>11
  <2>12. CASE ~(t[j] = Backslash /\ a) /\ t[j] = quote /\ At(t, j + 1, quote)
    BY <2>2, <2>3, <2>5, <2>6, <2>7, <2>12
  <2>13. CASE ~(t[j] = Backslash /\ a) /\ t[j] = quote /\ ~At(t, j + 1, quote)
    <3>1. E(b)[j] = j + 1
      BY <2>3, <2>5, <2>6, <2>13
    <3>2. \/ quote = "'" /\ t[j] = quote /\ Resumes(t, h) # {} /\ F[j] = F[again + 1]
          \/ F[j] = j + 1
      BY <2>2, <2>5, <2>13, Zenon
    <3>3. E(b)[j] = h
      BY <3>1 DEF h
    <3> QED BY <2>8, <2>9, <3>1, <3>2, <3>3
  <2> QED BY <2>10, <2>11, <2>12, <2>13
<1>3. P = 1..m
  <2>1. P \in SUBSET (1..m)
    OBVIOUS
  <2> HIDE DEF P
  <2> QED BY <1>1, <1>2, <2>1, BackwardInduction
<1> QED BY <1>3

\* Tokens, case by case.
LEMMA TokenCases ==
    ASSUME NEW t \in Seq(Char), NEW i \in 1..Len(t)
    PROVE  /\ Starts(t, i, << "-", "-" >>) => TokenEnd(t, i) = LineCommentEnd(t, i)
           /\ Starts(t, i, << "/", "*" >>) => TokenEnd(t, i) = CommentEnd(t, i)
           /\ OpensEString(t, i) => TokenEnd(t, i) = StringEnd(t, i + 1, TRUE)
           /\ IdentStart(t[i]) /\ ~OpensEString(t, i) => TokenEnd(t, i) = IdentEnd(t, i)
           /\ t[i] = "1" /\ i < Len(t) /\ IdentStart(t[i + 1]) => TokenEnd(t, i) = 0
           /\ t[i] \in {"'", DoubleQuote} => TokenEnd(t, i) = StringEnd(t, i, FALSE)
           /\ t[i] = "$" => TokenEnd(t, i) = PgDollarEnd(t, i)
           /\ \/ Starts(t, i, << "-", "-" >>)
              \/ Starts(t, i, << "/", "*" >>)
              \/ OpensEString(t, i)
              \/ IdentStart(t[i]) /\ ~OpensEString(t, i)
              \/ t[i] = "1" /\ i < Len(t) /\ IdentStart(t[i + 1])
              \/ t[i] \in {"'", DoubleQuote}
              \/ t[i] = "$"
              \/ /\ ~Starts(t, i, << "-", "-" >>) /\ ~Starts(t, i, << "/", "*" >>)
                 /\ ~IdentStart(t[i]) /\ t[i] \notin {"'", DoubleQuote, "$"}
                 /\ t[i] = "1" /\ i < Len(t) => ~IdentStart(t[i + 1])
                 /\ TokenEnd(t, i) = i + 1
<1> DEFINE A == Starts(t, i, << "-", "-" >>)
           B == Starts(t, i, << "/", "*" >>)
           C == OpensEString(t, i)
           D == IdentStart(t[i])
           N == i < Len(t) /\ IdentStart(t[i + 1])
           e == TokenEnd(t, i)
<1>1. i \in Nat \ {0}
  OBVIOUS
<1>2. (A => t[i] = "-") /\ (B => t[i] = "/")
  BY <1>1, StartsPair
<1>3. (C => t[i] = "e") /\ (D <=> t[i] \in {"e", "x", Marker})
  BY DEF OpensEString, IdentStart
<1>4. e = CASE A -> LineCommentEnd(t, i)
            [] B -> CommentEnd(t, i)
            [] C -> StringEnd(t, i + 1, TRUE)
            [] D /\ ~C -> IdentEnd(t, i)
            [] t[i] = "1" /\ N -> Refused
            [] t[i] \in {"'", DoubleQuote} -> StringEnd(t, i, FALSE)
            [] t[i] = "$" -> PgDollarEnd(t, i)
            [] OTHER -> i + 1
  BY Zenon DEF TokenEnd
<1> HIDE DEF A, B, C, D, N, e
<1>5. A => e = LineCommentEnd(t, i)
  BY <1>2, <1>3, <1>4, Zenon DEF Marker, DoubleQuote
<1>6. B => e = CommentEnd(t, i)
  BY <1>2, <1>3, <1>4, Zenon DEF Marker, DoubleQuote
<1>7. C => e = StringEnd(t, i + 1, TRUE)
  BY <1>2, <1>3, <1>4, Zenon DEF Marker, DoubleQuote
<1>8. D /\ ~C => e = IdentEnd(t, i)
  BY <1>2, <1>3, <1>4, Zenon DEF Marker, DoubleQuote
<1>9. t[i] = "1" /\ N => e = 0
  BY <1>2, <1>3, <1>4, Zenon DEF Marker, DoubleQuote, Refused
<1>10. t[i] \in {"'", DoubleQuote} => e = StringEnd(t, i, FALSE)
  BY <1>2, <1>3, <1>4, Zenon DEF Marker, DoubleQuote
<1>11. t[i] = "$" => e = PgDollarEnd(t, i)
  BY <1>2, <1>3, <1>4, Zenon DEF Marker, DoubleQuote
<1>12. \/ A \/ B \/ C \/ (D /\ ~C) \/ (t[i] = "1" /\ N) \/ t[i] \in {"'", DoubleQuote} \/ t[i] = "$"
       \/ e = i + 1
  BY <1>4, Zenon
<1> QED BY <1>5, <1>6, <1>7, <1>8, <1>9, <1>10, <1>11, <1>12, Zenon DEF A, B, C, D, N, e

LEMMA IdentEndFacts ==
    ASSUME NEW t \in Seq(Char), NEW i \in 1..Len(t), IdentStart(t[i])
    PROVE  LET e == IdentEnd(t, i)
           IN  /\ e \in (i + 1)..Past(t)
               /\ \A j \in i..(e - 1) : IdentStart(t[j]) \/ t[j] \in {"1", "$"}
               /\ e <= Len(t) => ~(IdentStart(t[e]) \/ t[e] \in {"1", "$"})
<1> DEFINE n == Len(t)
           Stop(j) == ~(IdentStart(t[j]) \/ t[j] \in {"1", "$"})
           S == {Past(t)} \cup {j \in i..n : Stop(j)}
           e == IdentEnd(t, i)
<1>1. n \in Nat /\ Past(t) = n + 1 /\ i \in Nat
  BY DEF Past
<1>2. S \in SUBSET Nat /\ S # {} /\ \A j \in S : j \in (i + 1)..(n + 1)
  <2>1. ~Stop(i)
    OBVIOUS
  <2> HIDE DEF Stop
  <2> QED BY <1>1, <2>1
<1>3. e \in S /\ \A j \in S : e <= j
  <2> HIDE DEF S
  <2>1. e = Least(S)
    BY DEF IdentEnd, S
  <2> HIDE DEF e
  <2> QED BY <1>2, <2>1, LeastFacts
<1> HIDE DEF e, Stop
<1>4. e \in (i + 1)..(n + 1)
  BY <1>2, <1>3
<1>5. e <= n => Stop(e)
  BY <1>1, <1>3, <1>4
<1>6. ASSUME NEW j \in i..(e - 1) PROVE ~Stop(j)
  <2>1. j \in i..n /\ ~(e <= j)
    BY <1>1, <1>4
  <2> QED BY <1>3, <2>1
<1> QED BY <1>1, <1>4, <1>5, <1>6 DEF e, Stop

LEMMA PgDollarFacts ==
    ASSUME NEW t \in Seq(Char), NEW i \in 1..Len(t), t[i] = "$", PgDollarEnd(t, i) # 0
    PROVE  /\ PgDollarEnd(t, i) = DollarEnd(t, i)
           /\ t[DollarEnd(t, i) - 1] = "$"
<1> DEFINE n == Len(t)
           g == DollarTagEnd(t, i)
           C == Closings(t, i, g)
           c == Least(C)
           w == g - i
<1>1. n \in Nat /\ Past(t) = n + 1 /\ i \in Nat \ {0}
  BY DEF Past
<1>2. PgDollarEnd(t, i) = IF g = 0 THEN i + 1 ELSE IF C = {} THEN 0 ELSE c + w
  BY DEF PgDollarEnd, Refused
<1>3. DollarEnd(t, i) = IF g = 0 THEN i + 1 ELSE IF C = {} THEN Past(t) ELSE c + w
  BY DEF DollarEnd
<1>4. CASE g = 0
  <2>1. i + 1 - 1 = i
    BY <1>1
  <2> QED BY <1>2, <1>3, <1>4, <2>1
<1>5. CASE g # 0
  <2>1. C # {}
    BY <1>2, <1>5
  <2>2. g \in (i + 2)..Past(t)
    BY <1>5, TagEndFacts
  <2>3. t[g - 1] = "$"
    <3> DEFINE s == TagStop(t, i)
    <3>1. g = s + 1 /\ At(t, s, "$") /\ s \in (i + 1)..Past(t)
      BY <1>5, TagEndBy, TagStopFacts
    <3> HIDE DEF s, g
    <3>2. g - 1 = s
      BY <1>1, <3>1
    <3> QED BY <3>1, <3>2 DEF At
  <2>4. g \in (i + 1)..Past(t)
    BY <1>1, <2>2
  <2> HIDE DEF g
  <2>5. /\ C \in SUBSET Nat
        /\ \A j : j \in C <=> /\ j \in g..n
                              /\ j + w <= Past(t)
                              /\ SubSeq(t, j, j + w - 1) = SubSeq(t, i, g - 1)
    BY <2>4, ClosingsFacts
  <2>6. c \in C
    <3> HIDE DEF C
    <3> QED BY <2>1, <2>5, LeastFacts
  <2> HIDE DEF C, c
  <2>7. c \in g..n /\ c + w <= Past(t) /\ SubSeq(t, c, c + w - 1) = SubSeq(t, i, g - 1)
    BY <2>5, <2>6
  <2>8. w \in Nat \ {0} /\ g - 1 = i + w - 1 /\ c \in Nat \ {0} /\ i + w - 1 \in Nat /\ c + w - 1 \in Nat
    BY <1>1, <2>2, <2>7
  <2> HIDE DEF w
  <2>9. \A a \in Nat \ {0} : a + w - 1 \in Nat => SubSeq(t, a, a + w - 1)[w] = t[a + w - 1]
    <3> SUFFICES ASSUME NEW a \in Nat \ {0} PROVE SubSeq(t, a, a + w - 1)[w] = t[a + w - 1]
      OBVIOUS
    <3> DEFINE z == a + w - 1
    <3>1. z \in Nat /\ z - a + 1 = w
      BY <2>8
    <3> HIDE DEF z
    <3>2. SubSeq(t, a, z) = [k \in 1..(z - a + 1) |-> t[a + k - 1]]
      BY <3>1
    <3>3. SubSeq(t, a, z) = [k \in 1..w |-> t[a + k - 1]]
      BY <3>1, <3>2
    <3>4. w \in 1..w
      BY <2>8
    <3> QED BY <3>3, <3>4 DEF z
  <2>10. t[c + w - 1] = t[i + w - 1]
    BY <1>1, <2>7, <2>8, <2>9
  <2>11. t[c + w - 1] = "$"
    BY <2>3, <2>8, <2>10
  <2> HIDE DEF g
  <2>12. DollarEnd(t, i) = c + w /\ PgDollarEnd(t, i) = c + w
    BY <1>2, <1>3, <1>5, <2>1
  <2>13. DollarEnd(t, i) - 1 = c + w - 1
    BY <2>8, <2>12
  <2>14. t[DollarEnd(t, i) - 1] = "$"
    BY <2>11, <2>13
  <2>15. PgDollarEnd(t, i) = DollarEnd(t, i)
    BY <2>12
  <2> QED BY <2>14, <2>15
<1> QED BY <1>4, <1>5

LEMMA TokenBounds ==
    ASSUME NEW t \in Seq(Char), NEW i \in 1..Len(t), TokenEnd(t, i) # 0
    PROVE  TokenEnd(t, i) \in (i + 1)..Past(t)
<1> DEFINE n == Len(t)
           e == TokenEnd(t, i)
<1>1. n \in Nat /\ Past(t) = n + 1 /\ i \in Nat \ {0}
  BY DEF Past
<1>2. CASE Starts(t, i, << "-", "-" >>)
  <2>1. t[i] = "-"
    BY <1>1, <1>2, StartsPair
  <2>2. t[i] # Newline
    BY <2>1, CharactersApart
  <2> QED BY <1>2, <2>2, LineCommentFacts, TokenCases
<1>3. CASE Starts(t, i, << "/", "*" >>)
  <2>1. i + 1 <= n
    BY <1>1, <1>3, StartsPair
  <2> DEFINE k == i + 2
  <2>2. k \in 1..Past(t) /\ 1 \in Nat
    BY <1>1, <2>1
  <2>3. e = CommentEnds(t)[k][1]
    BY <1>3, TokenCases, CommentBy
  <2> HIDE DEF k
  <2>4. BlockEnds(t)[k][1] = e
    BY <2>2, <2>3, CommentsAgree
  <2>5. BlockCommentEnd(t, i) = e
    BY <2>4, BlockCommentBy DEF k
  <2> QED BY <1>3, <2>5, BlockCommentFacts
<1>4. ASSUME NEW k \in {i, i + 1}, NEW a, e = StringEnd(t, k, a), k <= n PROVE e \in (i + 1)..Past(t)
  <2> DEFINE j == k + 1
  <2>1. j \in 1..(Past(t) + 1) /\ \A x \in (j + 1)..Past(t) : x \in (i + 1)..Past(t)
    BY <1>1, <1>4
  <2>2. e = StringEnds(t, t[k], a)[j]
    BY <1>4, StringBy
  <2> HIDE DEF j, e
  <2>3. StringEnds(t, t[k], a)[j] = 0 \/ StringEnds(t, t[k], a)[j] \in (j + 1)..Past(t)
    BY <2>1, StringBounds
  <2> QED BY <2>1, <2>2, <2>3 DEF e
<1>5. CASE OpensEString(t, i)
  <2>1. i + 1 <= n
    BY <1>5 DEF OpensEString, At
  <2> QED BY <1>4, <1>5, <2>1, TokenCases
<1>6. CASE IdentStart(t[i]) /\ ~OpensEString(t, i)
  BY <1>6, IdentEndFacts, TokenCases
<1>7. CASE t[i] = "1" /\ i < Len(t) /\ IdentStart(t[i + 1])
  BY <1>7, TokenCases
<1>8. CASE t[i] \in {"'", DoubleQuote}
  <2>1. e = StringEnd(t, i, FALSE)
    BY <1>8, TokenCases, Zenon
  <2>2. i <= n /\ i \in {i, i + 1}
    BY <1>1
  <2> HIDE DEF e
  <2> QED BY <1>4, <2>1, <2>2 DEF e
<1>9. CASE t[i] = "$"
  <2>1. e = PgDollarEnd(t, i)
    BY <1>9, TokenCases
  <2> QED BY <1>9, <2>1, PgDollarFacts, DollarFacts
<1>10. CASE e = i + 1
  BY <1>1, <1>10
<1> QED BY <1>2, <1>3, <1>5, <1>6, <1>7, <1>8, <1>9, <1>10, TokenCases

\* A name that starts here is not the rest of one, and a quote that opens here is no
\* E string's.
Boundary(t, i) ==
    i > 1 /\ i <= Len(t) => /\ t[i] = "'" => ~EString(t, i)
                            /\ IdentStart(t[i]) => ~EndsIdent(t[i - 1])

LEMMA BoundaryAfter ==
    ASSUME NEW t \in Seq(Char), NEW e \in 1..Past(t), ~IdentStart(t[e - 1]),
           t[e - 1] = "1" /\ e <= Len(t) => ~IdentStart(t[e])
    PROVE  Boundary(t, e)
<1>1. t[e - 1] # "e"
  BY DEF IdentStart
<1>2. EndsIdent(t[e - 1]) => t[e - 1] = "1"
  BY Zenon DEF IdentStart, EndsIdent, IdentByte
<1> QED BY <1>1, <1>2 DEF Boundary, EString

LEMMA BoundaryPast ==
    ASSUME NEW t \in Seq(Char)
    PROVE  Boundary(t, Past(t))
BY DEF Boundary, Past

\* A token that Postgres accepts takes the splitter to its end, past no cut but a
\* semicolon of its own.
Crossed(t, i, e) == Boundary(t, e) /\ Semis(t, i) = OwnSemi(t, i) \cup Semis(t, e)

LEMMA ConstructCrossed ==
    ASSUME NEW t \in Seq(Char), NEW i \in 1..Len(t), NEW e, Construct(t, i).to = e, Boundary(t, e)
    PROVE  Crossed(t, i, e)
<1>1. Semis(t, i) = OwnSemi(t, i) \cup Semis(t, Construct(t, i).to)
  BY SemisStepped
<1> QED BY <1>1 DEF Crossed

LEMMA CommentCrossed ==
    ASSUME NEW t \in Seq(Char), NEW i \in 1..Len(t), TokenEnd(t, i) # 0,
           Starts(t, i, << "-", "-" >>) \/ Starts(t, i, << "/", "*" >>)
    PROVE  Crossed(t, i, TokenEnd(t, i))
<1> DEFINE n == Len(t)
           e == TokenEnd(t, i)
<1>1. n \in Nat /\ Past(t) = n + 1 /\ i \in Nat \ {0} /\ e \in (i + 1)..Past(t) /\ e \in 1..Past(t)
  <2>1. e \in (i + 1)..Past(t)
    BY TokenBounds
  <2> HIDE DEF e
  <2> QED BY <2>1 DEF Past
<1>2. CASE Starts(t, i, << "-", "-" >>)
  <2>1. e = LineCommentEnd(t, i)
    BY <1>2, TokenCases
  <2>2. Construct(t, i) = Piece("comment", i, LineCommentEnd(t, i))
    BY <1>2, ConstructCases
  <2>3. Construct(t, i).to = e
    BY <2>1, <2>2, PieceFields
  <2>4. e <= n => t[e] = Newline
    <3> DEFINE S == {Past(t)} \cup {j \in i..n : t[j] = Newline}
    <3>1. S \in SUBSET Nat /\ S # {}
      BY <1>1
    <3>2. Least(S) \in S
      <4> HIDE DEF S
      <4> QED BY <3>1, LeastFacts
    <3>3. e \in S
      BY <2>1, <3>2 DEF LineCommentEnd
    <3> HIDE DEF e
    <3> QED BY <1>1, <3>3
  <2>5. Boundary(t, e)
    <3>1. ~IdentStart(Newline) /\ Newline # "'"
      BY Zenon DEF IdentStart, Newline, Marker
    <3> HIDE DEF e
    <3> QED BY <2>4, <3>1 DEF Boundary
  <2> HIDE DEF e
  <2> QED BY <2>3, <2>5, ConstructCrossed DEF e
<1>3. CASE Starts(t, i, << "/", "*" >>)
  <2> DEFINE k == i + 2
  <2>1. k \in 1..Past(t) /\ 1 \in Nat \ {0}
    <3>1. i + 1 <= n
      BY <1>1, <1>3, StartsPair
    <3> QED BY <1>1, <3>1
  <2>2. e = CommentEnds(t)[k][1]
    BY <1>3, TokenCases, CommentBy
  <2> HIDE DEF k
  <2>3. BlockEnds(t)[k][1] = e
    BY <2>1, <2>2, CommentsAgree
  <2>4. BlockCommentEnd(t, i) = e
    BY <2>3, BlockCommentBy DEF k
  <2>5. Construct(t, i) = Piece("comment", i, BlockCommentEnd(t, i))
    BY <1>3, ConstructCases
  <2>6. Construct(t, i).to = e
    BY <2>4, <2>5, PieceFields
  <2>7. BlockEnds(t)[k][1] <= Len(t) => t[BlockEnds(t)[k][1] - 1] = "/"
    BY <2>1, BlockClosed
  <2> HIDE DEF e
  <2>8. CASE e <= n
    <3>1. t[e - 1] = "/"
      BY <2>3, <2>7, <2>8
    <3>2. ~IdentStart("/") /\ "/" # "1"
      BY DEF IdentStart, Marker
    <3>3. ~IdentStart(t[e - 1]) /\ t[e - 1] # "1"
      BY <3>1, <3>2
    <3>4. Boundary(t, e)
      BY <1>1, <3>3, BoundaryAfter
    <3> QED BY <2>6, <3>4, ConstructCrossed DEF e
  <2>9. CASE ~(e <= n)
    <3>1. e = Past(t)
      BY <1>1, <2>9
    <3>2. Boundary(t, e)
      BY <3>1, BoundaryPast
    <3> QED BY <2>6, <3>2, ConstructCrossed DEF e
  <2> QED BY <2>8, <2>9
<1> QED BY <1>2, <1>3

LEMMA StringCrossed ==
    ASSUME NEW t \in Seq(Char), EscapesOnOneLine(t), NEW i \in 1..Len(t),
           t[i] \in {"'", DoubleQuote}, NEW a \in BOOLEAN,
           t[i] = "'" => (a <=> EString(t, i)),
           t[i] = DoubleQuote => ~a,
           StringEnd(t, i, a) # 0
    PROVE  Crossed(t, i, StringEnd(t, i, a))
<1> DEFINE n == Len(t)
           j == i + 1
           e == StringEnd(t, i, a)
           quote == t[i]
<1>1. n \in Nat /\ Past(t) = n + 1 /\ i \in Nat \ {0} /\ j \in 1..(Past(t) + 1)
  BY DEF Past
<1>2. e = StringEnds(t, quote, a)[j]
  BY StringBy
<1>3. SameEscapes(t, a, a)
  <2>1. Elements(t) = {t[k] : k \in 1..n}
    BY DEF Elements
  <2>2. CASE Backslash \in Elements(t)
    <3>1. \A k \in 1..n : t[k] = "'" => Resumes(t, k + 1) = {}
      BY <2>2 DEF EscapesOnOneLine
    <3> QED BY <3>1 DEF SameEscapes
  <2>3. CASE Backslash \notin Elements(t)
    BY <2>1, <2>3 DEF SameEscapes
  <2> QED BY <2>2, <2>3
<1>4. PICK b \in BOOLEAN :
         /\ b => quote = "'" /\ EString(t, i)
         /\ ~b => quote = DoubleQuote \/ ~EString(t, i)
         /\ Semis(t, i) = Semis(t, QuotedEnds(t, quote, b)[j])
  BY QuotedQuiet
<1>5. b = a
  <2>1. DoubleQuote # "'"
    BY DEF DoubleQuote
  <2>2. b => a
    BY <1>4
  <2>3. a => b
    BY <1>4, <2>1, Zenon
  <2> QED BY <2>2, <2>3
<1> HIDE DEF j, e
<1>6. Semis(t, QuotedEnds(t, quote, a)[j]) = Semis(t, e)
  <2>1. quote \in {"'", DoubleQuote}
    OBVIOUS
  <2> HIDE DEF quote
  <2>2. StringEnds(t, quote, a)[j] # 0
    BY <1>2 DEF e
  <2> QED BY <1>1, <1>2, <1>3, <2>1, <2>2, StringWalk
<1>7. OwnSemi(t, i) = {}
  BY CharactersApart DEF OwnSemi
<1>8. Semis(t, i) = OwnSemi(t, i) \cup Semis(t, e)
  BY <1>4, <1>5, <1>6, <1>7
<1>9. e \in (j + 1)..Past(t) /\ t[e - 1] = quote
  <2>1. StringEnds(t, quote, a)[j] = 0 \/ (StringEnds(t, quote, a)[j] \in (j + 1)..Past(t)
                                           /\ t[StringEnds(t, quote, a)[j] - 1] = quote)
    BY <1>1, StringBounds
  <2> QED BY <1>2, <2>1 DEF e
<1>10. Boundary(t, e)
  <2>1. \A c \in {"'", DoubleQuote} : ~IdentStart(c) /\ c # "1"
    BY Zenon DEF IdentStart, DoubleQuote, Marker
  <2>2. ~IdentStart(t[e - 1]) /\ t[e - 1] # "1"
    BY <1>9, <2>1
  <2>3. e \in 1..Past(t)
    BY <1>1, <1>9
  <2> QED BY <2>2, <2>3, BoundaryAfter
<1> QED BY <1>8, <1>10 DEF Crossed, e

LEMMA EStringCrossed ==
    ASSUME NEW t \in Seq(Char), EscapesOnOneLine(t), NEW i \in 1..Len(t), Boundary(t, i),
           OpensEString(t, i), TokenEnd(t, i) # 0
    PROVE  Crossed(t, i, TokenEnd(t, i))
<1> DEFINE j == i + 1
           e == TokenEnd(t, i)
<1>1. t[i] = "e" /\ j <= Len(t) /\ t[j] = "'"
  BY DEF OpensEString, At
<1>2. j \in 1..Len(t) /\ j - 1 = i /\ j - 2 = i - 1 /\ j > 1 /\ (j > 2 <=> i > 1) /\ i <= Len(t)
  BY <1>1
<1>3. e = StringEnd(t, j, TRUE)
  BY TokenCases
<1>4. IdentStart(t[i]) /\ Quiet(t[i]) /\ ~Semicolon(t[i])
  BY <1>1, Zenon DEF IdentStart, Quiet, EndsIdent, IdentByte, Semicolon
<1>5. EString(t, j)
  <2>1. i > 1 => ~EndsIdent(t[i - 1])
    BY <1>2, <1>4 DEF Boundary
  <2> HIDE DEF j
  <2> QED BY <1>1, <1>2, <2>1 DEF EString
<1>6. Semis(t, i) = Semis(t, j)
  BY <1>4, QuietStepped
<1> HIDE DEF j, e
<1>7. t[j] # DoubleQuote
  BY <1>1 DEF DoubleQuote
<1>8. Crossed(t, j, e)
  BY <1>1, <1>2, <1>3, <1>5, <1>7, StringCrossed DEF e
<1>9. OwnSemi(t, j) = {} /\ OwnSemi(t, i) = {}
  BY <1>1, <1>4, CharactersApart DEF OwnSemi
<1> QED BY <1>6, <1>8, <1>9 DEF Crossed, e

LEMMA IdentCrossed ==
    ASSUME NEW t \in Seq(Char), NEW i \in 1..Len(t), IdentStart(t[i]), ~OpensEString(t, i),
           \A j \in i..(IdentEnd(t, i) - 1) : t[j] # "$"
    PROVE  Crossed(t, i, TokenEnd(t, i))
<1> DEFINE n == Len(t)
           e == TokenEnd(t, i)
<1>1. e = IdentEnd(t, i)
  BY TokenCases
<1>2. /\ e \in (i + 1)..Past(t)
      /\ \A j \in i..(e - 1) : IdentStart(t[j]) \/ t[j] \in {"1", "$"}
      /\ e <= n => ~(IdentStart(t[e]) \/ t[e] \in {"1", "$"})
  BY <1>1, IdentEndFacts
<1>3. \A j \in i..(e - 1) : t[j] # "$"
  BY <1>1
<1> HIDE DEF e
<1>4. n \in Nat /\ Past(t) = n + 1 /\ i \in 1..Past(t) /\ e \in i..Past(t) /\ e \in Nat
  BY <1>2 DEF Past
<1>5. \A j \in i..(e - 1) : EndsIdent(t[j])
  <2> TAKE j \in i..(e - 1)
  <2>1. IdentStart(t[j]) \/ t[j] = "1"
    BY <1>2, <1>3
  <2> QED BY <2>1, Zenon DEF IdentStart, EndsIdent, IdentByte
<1>6. Semis(t, i) = Semis(t, e)
  <2>1. \A j \in i..(e - 1) : Quiet(t[j])
    BY <1>5 DEF Quiet
  <2> QED BY <1>4, <2>1, QuietRun
<1>7. OwnSemi(t, i) = {}
  <2>1. ~Semicolon(t[i])
    BY Zenon DEF IdentStart, Semicolon, Marker
  <2> QED BY <2>1 DEF OwnSemi
<1>8. Boundary(t, e)
  <2> SUFFICES ASSUME e > 1, e <= n, t[e] = "'" PROVE ~EString(t, e)
    BY <1>2 DEF Boundary
  <2>1. CASE e = i + 1
    <3>1. e - 1 = i
      BY <2>1
    <3>2. t[i] # "e"
      BY <2>1 DEF OpensEString, At
    <3> QED BY <3>1, <3>2 DEF EString
  <2>2. CASE e # i + 1
    <3>1. e - 2 \in i..(e - 1) /\ e > 2
      BY <1>2, <1>4, <2>2
    <3>2. EndsIdent(t[e - 2])
      BY <1>5, <3>1
    <3> QED BY <3>1, <3>2 DEF EString
  <2> QED BY <2>1, <2>2
<1> QED BY <1>6, <1>7, <1>8 DEF Crossed, e

LEMMA DollarCrossed ==
    ASSUME NEW t \in Seq(Char), NEW i \in 1..Len(t), t[i] = "$", TokenEnd(t, i) # 0
    PROVE  Crossed(t, i, TokenEnd(t, i))
<1> DEFINE e == TokenEnd(t, i)
<1>1. e = PgDollarEnd(t, i)
  BY TokenCases
<1>2. e = DollarEnd(t, i) /\ t[e - 1] = "$"
  <2>1. PgDollarEnd(t, i) = DollarEnd(t, i) /\ t[DollarEnd(t, i) - 1] = "$"
    BY <1>1, PgDollarFacts
  <2> HIDE DEF e
  <2> QED BY <1>1, <2>1
<1>3. e \in 1..Past(t)
  <2>1. e \in (i + 1)..Past(t)
    BY TokenBounds
  <2> HIDE DEF e
  <2> QED BY <2>1 DEF Past
<1>4. Construct(t, i).to = e
  <2>1. Construct(t, i) = Piece("content", i, DollarEnd(t, i))
    BY ConstructCases
  <2> QED BY <1>2, <2>1, PieceFields
<1> HIDE DEF e
<1>5. ~IdentStart("$") /\ "$" # "1"
  BY Zenon DEF IdentStart, Marker
<1>6. ~IdentStart(t[e - 1]) /\ t[e - 1] # "1"
  BY <1>2, <1>5
<1>7. Boundary(t, e)
  BY <1>3, <1>6, BoundaryAfter
<1> QED BY <1>4, <1>7, ConstructCrossed DEF e

LEMMA OtherCrossed ==
    ASSUME NEW t \in Seq(Char), NEW i \in 1..Len(t),
           ~Starts(t, i, << "-", "-" >>), ~Starts(t, i, << "/", "*" >>),
           ~IdentStart(t[i]), t[i] \notin {"'", DoubleQuote, "$"},
           t[i] = "1" /\ i < Len(t) => ~IdentStart(t[i + 1]),
           TokenEnd(t, i) = i + 1
    PROVE  Crossed(t, i, TokenEnd(t, i))
<1> DEFINE e == i + 1
<1>1. e \in 1..Past(t) /\ e - 1 = i /\ (e <= Len(t) <=> i < Len(t))
  BY DEF Past
<1>2. \E kind : Construct(t, i) = Piece(kind, i, e)
  BY ConstructCases
<1> HIDE DEF e
<1>3. Construct(t, i).to = e
  BY <1>2, PieceFields
<1>4. t[i] = "1" /\ e <= Len(t) => ~IdentStart(t[e])
  BY <1>1 DEF e
<1>5. Boundary(t, e)
  <2>1. ~IdentStart(t[e - 1]) /\ (t[e - 1] = "1" /\ e <= Len(t) => ~IdentStart(t[e]))
    BY <1>1, <1>4
  <2> QED BY <1>1, <2>1, BoundaryAfter
<1>6. TokenEnd(t, i) = e
  BY DEF e
<1> QED BY <1>3, <1>5, <1>6, ConstructCrossed

LEMMA TokenCrossed ==
    ASSUME NEW t \in Seq(Char), EscapesOnOneLine(t), NEW i \in 1..Len(t), Boundary(t, i),
           TokenEnd(t, i) # 0,
           IdentStart(t[i]) => \A j \in i..(IdentEnd(t, i) - 1) : t[j] # "$"
    PROVE  Crossed(t, i, TokenEnd(t, i))
<1>1. CASE Starts(t, i, << "-", "-" >>) \/ Starts(t, i, << "/", "*" >>)
  BY <1>1, CommentCrossed
<1>2. CASE OpensEString(t, i)
  BY <1>2, EStringCrossed
<1>3. CASE IdentStart(t[i]) /\ ~OpensEString(t, i)
  BY <1>3, IdentCrossed
<1>4. CASE t[i] = "1" /\ i < Len(t) /\ IdentStart(t[i + 1])
  BY <1>4, TokenCases
<1>5. CASE t[i] \in {"'", DoubleQuote}
  <2>1. TokenEnd(t, i) = StringEnd(t, i, FALSE)
    BY <1>5, TokenCases, Zenon
  <2>2. t[i] = "'" => ~EString(t, i)
    <3>1. i > 1 \/ ~EString(t, i)
      BY DEF EString
    <3>2. i <= Len(t)
      OBVIOUS
    <3> QED BY <3>1, <3>2 DEF Boundary
  <2>3. Crossed(t, i, StringEnd(t, i, FALSE))
    <3>1. StringEnd(t, i, FALSE) # 0
      BY <2>1
    <3> QED BY <1>5, <2>2, <3>1, StringCrossed
  <2> QED BY <2>1, <2>3
<1>6. CASE t[i] = "$"
  BY <1>6, DollarCrossed
<1>7. CASE /\ ~Starts(t, i, << "-", "-" >>) /\ ~Starts(t, i, << "/", "*" >>)
           /\ ~IdentStart(t[i]) /\ t[i] \notin {"'", DoubleQuote, "$"}
           /\ t[i] = "1" /\ i < Len(t) => ~IdentStart(t[i + 1])
           /\ TokenEnd(t, i) = i + 1
  BY <1>7, OtherCrossed
<1> QED
  BY <1>1, <1>2, <1>3, <1>4, <1>5, <1>6, <1>7, TokenCases

\* Postgres' tokens from i on.
FromStep(t, F, i) ==
    IF i = Refused THEN {Refused}
    ELSE IF i > Len(t) THEN {}
    ELSE {i} \cup F[TokenEnd(t, i)]

TokensFrom(t) == CHOOSE F : F = [i \in 0..Past(t) |-> FromStep(t, F, i)]

LEMMA TokensFromExists ==
    ASSUME NEW t \in Seq(Char)
    PROVE  \A i \in 0..Past(t) : TokensFrom(t)[i] = FromStep(t, TokensFrom(t), i)
<1> DEFINE n == Len(t)
           m == Past(t)
           V == SUBSET (0..m)
           S == [1..m -> V]
           to(i) == TokenEnd(t, i)
           In(F, i) == IF i > n THEN {} ELSE {i} \cup (IF to(i) = 0 THEN {0} ELSE F[to(i)])
           step == [x \in (1..m) \X S |-> In(x[2], x[1])]
<1>1. n \in Nat /\ m = n + 1 /\ m \in Nat
  BY DEF Past
<1>2. \A i \in 1..n : to(i) # 0 => to(i) \in (i + 1)..m
  BY TokenBounds
<1> HIDE DEF m, n, to
<1>3. \A i \in 1..m : i > n \/ (i \in 1..n /\ ~(i > n))
  BY <1>1
<1>4. \A F \in S, i \in 1..m : In(F, i) \in V
  <2> TAKE F \in S, i \in 1..m
  <2>1. CASE i > n
    BY <2>1
  <2>2. CASE i \in 1..n /\ ~(i > n)
    <3>1. to(i) # 0 => to(i) \in 1..m
      BY <1>1, <1>2, <2>2
    <3>2. to(i) # 0 => F[to(i)] \in SUBSET (0..m)
      BY <3>1
    <3>3. {0} \in V /\ {i} \in V
      BY <1>1
    <3> QED BY <2>2, <3>2, <3>3
  <2> QED BY <1>3, <2>1, <2>2
<1>5. step \in [(1..m) \X S -> V]
  <2>1. \A x \in (1..m) \X S : x[1] \in 1..m /\ x[2] \in S
    OBVIOUS
  <2> HIDE DEF S, V, In
  <2> QED BY <1>4, <2>1
<1>6. \A i \in 1..m, F \in S : step[<< i, F >>] = In(F, i)
  <2> HIDE DEF S, In
  <2> QED OBVIOUS
<1> HIDE DEF step
<1>7. ASSUME NEW i \in 1..m, NEW F, NEW G, \A k \in (i + 1)..m : F[k] = G[k]
      PROVE  In(F, i) = In(G, i)
  <2>1. i \in 1..n /\ to(i) # 0 => F[to(i)] = G[to(i)]
    BY <1>2, <1>7
  <2> QED BY <1>3, <2>1
<1> HIDE DEF In
<1>8. {} \in V
  OBVIOUS
<1>9. PICK F \in S : \A i \in 1..m : F[i] = step[<< i, F >>]
  <2>1. ASSUME NEW i \in 1..m, NEW f \in S, NEW g \in S, \A k \in (i + 1)..m : f[k] = g[k]
        PROVE  step[<< i, f >>] = step[<< i, g >>]
    <3>1. In(f, i) = In(g, i)
      BY <1>7, <2>1
    <3> HIDE DEF S
    <3> QED BY <1>6, <3>1
  <2>2. LaterOnly(step, m, V)
    BY <2>1 DEF LaterOnly
  <2>3. step \in [(1..m) \X [1..m -> V] -> V]
    BY <1>5
  <2>4. \E F : IsBackward(F, m, V, step)
    <3> HIDE DEF V, S
    <3> QED BY <1>1, <1>8, <2>2, <2>3, BackwardExists
  <2> QED BY <2>4 DEF IsBackward
<1>10. \A i \in 1..m : F[i] = In(F, i)
  BY <1>6, <1>9
<1> DEFINE G == [i \in 0..m |-> IF i = 0 THEN {0} ELSE F[i]]
<1>11. G[0] = {0} /\ \A i \in 1..m : G[i] = F[i]
  <2>1. 0 \in 0..m /\ \A i \in 1..m : i \in 0..m /\ i # 0
    BY <1>1
  <2> QED BY <2>1
<1>12. \A i \in 0..m : G[i] = FromStep(t, G, i)
  <2> TAKE i \in 0..m
  <2>0. G = [k \in 0..m |-> IF k = 0 THEN {0} ELSE F[k]]
    OBVIOUS
  <2> HIDE DEF G
  <2>1. CASE i = 0
    BY <1>11, <2>1 DEF FromStep, Refused
  <2>2. CASE i \in 1..m /\ i > n
    <3>1. G[i] = {}
      BY <1>10, <1>11, <2>2 DEF In
    <3>2. i # 0
      BY <2>2
    <3> QED BY <2>2, <3>1, <3>2 DEF FromStep, Refused, n
  <2>3. CASE i \in 1..n /\ i \in 1..m /\ ~(i > n)
    <3>1. F[i] = {i} \cup (IF to(i) = 0 THEN {0} ELSE F[to(i)])
      BY <1>10, <2>3 DEF In
    <3>2. to(i) # 0 => to(i) \in 1..m
      BY <1>1, <1>2, <2>3
    <3>3. G[to(i)] = IF to(i) = 0 THEN {0} ELSE F[to(i)]
      BY <1>11, <3>2
    <3>4. G[i] = {i} \cup G[to(i)]
      BY <1>11, <2>3, <3>1, <3>3
    <3>5. i # 0
      BY <2>3
    <3> QED BY <2>3, <3>4, <3>5 DEF FromStep, Refused, n, to
  <2> QED BY <1>1, <1>3, <2>1, <2>2, <2>3
<1>13. G = [i \in 0..m |-> FromStep(t, G, i)]
  <2>1. G = [i \in 0..m |-> G[i]]
    OBVIOUS
  <2> HIDE DEF G
  <2> QED BY <1>12, <2>1
<1> HIDE DEF G
<1> DEFINE H == TokensFrom(t)
<1>14. H = [i \in 0..m |-> FromStep(t, H, i)]
  BY <1>13 DEF TokensFrom, m
<1> HIDE DEF H
<1>15. \A i \in 0..m : H[i] = FromStep(t, H, i)
  BY <1>14
<1> QED BY <1>15 DEF H, m

LEMMA TokensBy ==
    \A t : Tokens(t) = TokensFrom(t)[1]
BY DEF Tokens, TokensFrom, FromStep

LEMMA TokensStepped ==
    ASSUME NEW t \in Seq(Char)
    PROVE  LET F == TokensFrom(t)
           IN  /\ F[0] = {0}
               /\ F[Past(t)] = {}
               /\ \A i \in 1..Len(t) : F[i] = {i} \cup F[TokenEnd(t, i)]
<1>1. Len(t) \in Nat /\ Past(t) = Len(t) + 1
  BY DEF Past
<1>2. 0 \in 0..Past(t) /\ Past(t) \in 0..Past(t) /\ Past(t) > Len(t) /\ Past(t) # 0
  BY <1>1
<1>3. \A i \in 1..Len(t) : i \in 0..Past(t) /\ ~(i > Len(t)) /\ i # 0
  BY <1>1
<1> QED BY <1>2, <1>3, TokensFromExists DEF FromStep, Refused

\* No name that starts at a token in S holds a dollar sign.
NoDollars(t, S) ==
    \A i \in S : IdentStart(t[i]) => "$" \notin Elements(SubSeq(t, i, IdentEnd(t, i) - 1))

LEMMA NoDollarsIn ==
    ASSUME NEW t \in Seq(Char), NEW i \in 1..Len(t), IdentStart(t[i]),
           "$" \notin Elements(SubSeq(t, i, IdentEnd(t, i) - 1))
    PROVE  \A j \in i..(IdentEnd(t, i) - 1) : t[j] # "$"
<1> DEFINE e == IdentEnd(t, i)
           z == e - 1
           word == SubSeq(t, i, z)
<1>1. e \in (i + 1)..Past(t)
  BY IdentEndFacts
<1> HIDE DEF e
<1>2. z \in Nat /\ i \in Nat /\ z - i + 1 \in Nat
  BY <1>1 DEF Past
<1>3. "$" \notin Elements(word)
  BY DEF e
<1> HIDE DEF z
<1>4. word = [k \in 1..(z - i + 1) |-> t[i + k - 1]]
  BY <1>2
<1> HIDE DEF word
<1>5. ASSUME NEW j \in i..z PROVE t[j] \in Elements(word)
  <2> DEFINE k == j - i + 1
  <2>1. k \in 1..(z - i + 1) /\ i + k - 1 = j
    BY <1>2
  <2> HIDE DEF k
  <2>2. word[k] = t[j] /\ k \in DOMAIN word
    BY <1>4, <2>1
  <2> QED BY <2>2 DEF Elements
<1> QED BY <1>3, <1>5 DEF z, e

LEMMA CutsAgree ==
    ASSUME NEW t \in Seq(Char), EscapesOnOneLine(t)
    PROVE  \A i \in 1..Past(t) :
              Boundary(t, i) /\ 0 \notin TokensFrom(t)[i] /\ NoDollars(t, TokensFrom(t)[i]) =>
                 Semis(t, i) = {k \in TokensFrom(t)[i] : Semicolon(t[k])}
<1> DEFINE n == Len(t)
           m == Past(t)
           F == TokensFrom(t)
           Good(i) == Boundary(t, i) /\ 0 \notin F[i] /\ NoDollars(t, F[i]) =>
                         Semis(t, i) = {k \in F[i] : Semicolon(t[k])}
           P == {i \in 1..m : Good(i)}
<1>1. n \in Nat /\ m = n + 1 /\ m \in Nat
  BY DEF Past
<1>2. F[0] = {0} /\ F[m] = {} /\ \A i \in 1..n : F[i] = {i} \cup F[TokenEnd(t, i)]
  BY TokensStepped
<1>3. ASSUME NEW i \in 1..m, \A k \in (i + 1)..m : k \in P PROVE i \in P
  <2>1. \A k \in (i + 1)..m : Good(k)
    BY <1>3
  <2> HIDE DEF P, F
  <2> SUFFICES ASSUME Boundary(t, i), 0 \notin F[i], NoDollars(t, F[i])
               PROVE  Semis(t, i) = {k \in F[i] : Semicolon(t[k])}
    BY DEF P
  <2>2. CASE i = m
    BY <1>2, <2>2, SemisPast
  <2>3. CASE i # m
    <3> DEFINE e == TokenEnd(t, i)
    <3>1. i \in 1..n
      BY <1>1, <2>3
    <3>2. F[i] = {i} \cup F[e]
      BY <1>2, <3>1
    <3>3. e # 0
      BY <1>2, <3>2
    <3>4. e \in (i + 1)..m
      BY <3>1, <3>3, TokenBounds
    <3>5. IdentStart(t[i]) => \A j \in i..(IdentEnd(t, i) - 1) : t[j] # "$"
      BY <3>1, <3>2, NoDollarsIn DEF NoDollars
    <3>6. Boundary(t, e) /\ Semis(t, i) = OwnSemi(t, i) \cup Semis(t, e)
      BY <3>1, <3>3, <3>5, TokenCrossed DEF Crossed
    <3> HIDE DEF e
    <3>7. NoDollars(t, F[e]) /\ 0 \notin F[e]
      BY <3>2 DEF NoDollars
    <3>8. Semis(t, e) = {k \in F[e] : Semicolon(t[k])}
      BY <2>1, <3>4, <3>6, <3>7
    <3> QED BY <3>2, <3>6, <3>8 DEF OwnSemi
  <2> QED BY <2>2, <2>3
<1>4. P = 1..m
  <2>1. P \in SUBSET (1..m)
    OBVIOUS
  <2> HIDE DEF P
  <2> QED BY <1>1, <1>3, <2>1, BackwardInduction
<1> QED BY <1>4

\* In a text Postgres can lex, in which no name holds a dollar sign and, where there are
\* escapes, no string goes on after a newline, the splitter cuts at exactly the semicolons
\* Postgres sees (split.rs:1), whatever the alphabets and the length of the text.
THEOREM CutsAlwaysWherePostgresDoes ==
    TextSpec => [](EscapesOnOneLine(text) => CutsWherePostgresDoes)
<1> DEFINE IsText == text \in Seq(Char)
<1>1. TextInit => IsText
  BY DEF TextInit
<1>2. IsText /\ [TextNext]_text => IsText'
  <2>1. ASSUME NEW alphabet \in Alphabets, IsText, Write(alphabet) PROVE IsText'
    BY <2>1, SplitterAssumption DEF Write
  <2>2. ASSUME IsText, UNCHANGED text PROVE IsText'
    BY <2>2
  <2> QED BY <2>1, <2>2 DEF TextNext
<1>3. IsText => (EscapesOnOneLine(text) => CutsWherePostgresDoes)
  <2> SUFFICES ASSUME IsText, EscapesOnOneLine(text), Lexes(text), ~DollarInIdentifier(text)
               PROVE  SplitterSemicolons(text) = Semicolons(text)
    BY DEF CutsWherePostgresDoes
  <2> DEFINE F == TokensFrom(text)[1]
  <2>1. Tokens(text) = F
    BY TokensBy
  <2>2. 1 \in 1..Past(text) /\ Boundary(text, 1)
    BY DEF Past, Boundary
  <2>3. 0 \notin F /\ NoDollars(text, F)
    BY <2>1 DEF Lexes, Refused, DollarInIdentifier, NoDollars
  <2>4. Semis(text, 1) = {k \in F : Semicolon(text[k])}
    BY <2>2, <2>3, CutsAgree
  <2>5. SplitterSemicolons(text) = Semis(text, 1)
    BY LexBy DEF SplitterSemicolons, Semis
  <2>6. Semicolons(text) = {k \in F : Semicolon(text[k])}
    BY <2>1 DEF Semicolons, Semicolon
  <2> QED BY <2>4, <2>5, <2>6
<1> QED BY <1>1, <1>2, <1>3, PTL DEF TextSpec
=============================================================================
