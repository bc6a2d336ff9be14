----------------------------- MODULE ColumnKinds -----------------------------
(***************************************************************************)
(* A column's storage class: the only fact about a column the layout math  *)
(* consumes (layout.rs), and what the type catalog resolves a name to      *)
(* (catalog.rs).  An alignment is its boundary in bytes.                   *)
(***************************************************************************)
EXTENDS Integers

\* Align::bytes: `c`, `s`, `i`, `d`.
Align == {1, 2, 4, 8}

Fixed(len, align) == [form |-> "fixed", len |-> len, align |-> align]

\* `short`: the typmod proves the one-byte-header form (varchar(n), n <= 31).
Varlena(align, short) == [form |-> "varlena", align |-> align, short |-> short]

\* pg_type.typlen is an int2.
Length == 1..32767

ColumnKind ==
    [form : {"fixed"}, len : Length, align : Align]
      \cup [form : {"varlena"}, align : Align, short : BOOLEAN]

IsFixed(kind) == kind.form = "fixed"

\* A fixed width that is not a multiple of its own alignment (timetz, macaddr).
Irregular(kind) == IsFixed(kind) /\ kind.len % kind.align # 0
=============================================================================
