----------------------------- MODULE MCAnalysis -----------------------------
(***************************************************************************)
(* Small series with DO blocks: two tables, one of them partitioned, two   *)
(* domains, and the shapes a fragment of a body can have.                  *)
(***************************************************************************)
EXTENDS Analysis

CONSTANTS a, t, u

Ref(key) == [key |-> key, short |-> FALSE, array |-> FALSE]
MCTypes == {"int4", "int8", "d", "e"}
MCAssume == [key \in {} |-> Fixed(4, 4)]
MCNewTypes == {Ref("int4"), Ref("int8"), Ref("d")}

OneColumn ==
    [ columns |-> << [key |-> a, type |-> Ref("int4"), not_null |-> FALSE] >>,
      pk_columns |-> {}, if_not_exists |-> FALSE, is_ctas |-> FALSE,
      incomplete_columns |-> FALSE, temporary |-> FALSE,
      partition_of |-> NoName, like_source |-> NoName ]

MCCreates == {OneColumn}

Domain(name, base) == [op |-> "domain", name |-> name, base |-> Ref(base)]
DropDomain(name) == [op |-> "drop_types", names |-> {name}]
RenameDomain(old, new) == [op |-> "rename_type", old |-> old, new |-> new]
Alter(table) == [op |-> "alter", table |-> table]
Drop(names) == [op |-> "drop", tables |-> names]
Partition(name, parent) == [op |-> "create", table |-> name, partition_of |-> parent]
CreateOp(name) == [op |-> "create", table |-> name, partition_of |-> NoName]
Irrelevant == [op |-> "irrelevant"]

Static(anchors, affects) == [anchors |-> anchors, template |-> NoTemplate, affects |-> affects]
Execute(ident, number, affects) ==
    [ anchors |-> << NotParsed >>, template |-> [ident |-> ident, number |-> number],
      affects |-> affects ]

NoKeyword == Static(<< >>, {})
Guarded(op, affects) == Static(<< NotParsed, << op >> >>, affects)
Untried == Static(<< NotParsed, NotParsed, << Alter(t) >> >>, {t})
Opaque == Static(<< NotParsed >>, {u})
LongOpaque == Static(<< NotParsed, NotParsed, NotParsed >>, {u})
Template(op, affects) == Execute(<< op >>, NotParsed, affects)

TableFragments ==
    { NoKeyword, Untried, Opaque, LongOpaque,
      Guarded(Alter(t), {t}), Guarded(CreateOp(u), {u}), Guarded(Drop(<< t, u >>), {t, u}),
      Static(<< << Irrelevant >> >>, {}),
      Execute(<< Alter(t), Alter(u) >>, << Irrelevant >>, {t, u}),
      Execute(NotParsed, << Drop(<< u >>) >>, {u}),
      Execute(NotParsed, NotParsed, {t}),
      Template(Partition(DynamicToken, t), {}),
      Template(Partition(u, DynamicToken), {u}),
      Template(CreateOp(DynamicToken), {u}),
      Template(Alter(DynamicToken), {t}),
      Template(Drop(<< t, DynamicToken >>), {t, u}) }

Pairs(set) == {<< f, g >> : f, g \in set}

TableBodies ==
    {<< f >> : f \in TableFragments} \cup Pairs({NoKeyword, Guarded(Alter(t), {t}), Opaque})

ASSUME TableBodiesTruthful == \A body \in TableBodies : \A f \in Elements(body) : Truthful(f)

\* The template is the first literal of a concatenation: what is executed is not
\* what the literal alone says.
ConcatenatedBodies == { << Template(Drop(<< t >>), {u}) >> }

\* A placeholder in the table's name, in a template only the number makes parse:
\* the name read off the substitution is not the table altered.
NumberedBodies == { << Execute(NotParsed, << Alter(u) >>, {t}) >> }

AllTypeOps ==
    { Domain("d", "int4"), Domain("d", "int8"), Domain("e", "d"),
      DropDomain("d"), RenameDomain("d", "e") }

GuardedTypes == {Guarded(op, {}) : op \in {Domain("d", "int4"), Domain("d", "int8"), Domain("e", "d")}}
TypeBodies == {<< f >> : f \in GuardedTypes} \cup Pairs(GuardedTypes)

AllBodies == TableBodies \cup TypeBodies
=============================================================================
