------------------------------- MODULE Catalog -------------------------------
(***************************************************************************)
(* The type catalog of one analysis (catalog.rs): a lookup in three        *)
(* layers, first hit wins.  `session` holds the types the replayed DDL     *)
(* defined, `Assume` the user's --assume-type layer, `Builtin` the vendored*)
(* table; a name in none of them resolves to a flagged guess.  A map is a  *)
(* function on the set of keys it holds.                                   *)
(***************************************************************************)
EXTENDS ColumnKinds, Collections

CONSTANTS
    TypeName,   \* the type keys DDL may mention
    Assume      \* the user layer: a function from some type keys to kinds

ASSUME AssumeAssumption ==
    /\ DOMAIN Assume \subseteq TypeName
    /\ \A key \in DOMAIN Assume : Assume[key] \in ColumnKind

-----------------------------------------------------------------------------
(* The vendored table. *)

Resolved(kind, known, notNull) ==
    [kind |-> kind, known |-> known, implicit_not_null |-> notNull]

Plain(kind) == Resolved(kind, TRUE, FALSE)

\* Serial pseudo-types imply NOT NULL.
Serial(kind) == Resolved(kind, TRUE, TRUE)

\* The guess for a name no layer knows: varlena, int-aligned, flagged.
Unresolvable == Resolved(Varlena(4, FALSE), FALSE, FALSE)

BuiltinVarlenaInt ==
    { "numeric", "text", "bytea", "json", "jsonb", "xml", "inet", "cidr", "bit",
      "varbit", "tsvector", "tsquery", "int4range", "numrange", "daterange",
      "int4multirange", "nummultirange", "datemultirange", "citext", "hstore",
      "vector", "halfvec", "sparsevec", "ltree", "lquery", "ltxtquery" }

BuiltinVarlenaDouble ==
    { "path", "polygon", "int8range", "tsrange", "tstzrange", "int8multirange",
      "tsmultirange", "tstzmultirange", "geometry", "geography", "cube" }

\* `short`: the reference declares a character count of at most 31.
Builtin(key, short) ==
    CASE key \in {"bool", "pgchar"} -> Plain(Fixed(1, 1))
      [] key = "int2" -> Plain(Fixed(2, 2))
      [] key \in {"int4", "float4", "oid", "regclass", "date"} -> Plain(Fixed(4, 4))
      [] key \in {"int8", "float8", "money", "time", "timestamp", "timestamptz",
                  "pg_lsn"} -> Plain(Fixed(8, 8))
      [] key = "timetz" -> Plain(Fixed(12, 8))
      [] key \in {"interval", "point"} -> Plain(Fixed(16, 8))
      [] key = "uuid" -> Plain(Fixed(16, 1))
      [] key = "macaddr" -> Plain(Fixed(6, 4))
      [] key = "macaddr8" -> Plain(Fixed(8, 4))
      [] key = "name" -> Plain(Fixed(64, 1))
      [] key \in {"lseg", "box"} -> Plain(Fixed(32, 8))
      [] key \in {"line", "circle"} -> Plain(Fixed(24, 8))
      [] key = "box3d" -> Plain(Fixed(52, 8))
      [] key \in {"varchar", "bpchar"} -> Plain(Varlena(4, short))
      [] key \in BuiltinVarlenaInt -> Plain(Varlena(4, FALSE))
      [] key \in BuiltinVarlenaDouble -> Plain(Varlena(8, FALSE))
      [] key \in {"serial", "serial4"} -> Serial(Fixed(4, 4))
      [] key \in {"bigserial", "serial8"} -> Serial(Fixed(8, 8))
      [] key \in {"smallserial", "serial2"} -> Serial(Fixed(2, 2))
      [] OTHER -> Unresolvable

-----------------------------------------------------------------------------
(* Resolution.  A type reference is [key, short, array]. *)

TypeRef == [key : TypeName, short : BOOLEAN, array : BOOLEAN]

ResolveScalar(session, key, short) ==
    IF key \in DOMAIN session
    THEN Resolved(session[key].kind, session[key].known, FALSE)
    ELSE IF key \in DOMAIN Assume
    THEN Resolved(Assume[key], TRUE, FALSE)
    ELSE Builtin(key, short)

\* Arrays and ranges alike: double-aligned iff the element is.
RangeAlign(elem) == IF elem = 8 THEN 8 ELSE 4

Resolve(session, ref) ==
    IF ref.array
    THEN LET elem == ResolveScalar(session, ref.key, FALSE)
         IN  Resolved(Varlena(RangeAlign(elem.kind.align), FALSE), elem.known, FALSE)
    ELSE ResolveScalar(session, ref.key, ref.short)

-----------------------------------------------------------------------------
(* The replayed type DDL: each definition's session layer after the op.    *)

SessionEntry == [kind : ColumnKind, known : BOOLEAN]

Define(session, key, kind, known) ==
    Put(session, key, [kind |-> kind, known |-> known])

DefineEnum(session, key) == Define(session, key, Fixed(4, 4), TRUE)

DefineComposite(session, key) == Define(session, key, Varlena(8, FALSE), TRUE)

\* `subtypes` is {subtype} or, when the option is absent, {}.
DefineRange(session, key, subtypes) ==
    IF subtypes = {}
    THEN Define(session, key, Varlena(4, FALSE), FALSE)
    ELSE LET sub == Resolve(session, CHOOSE ref \in subtypes : TRUE)
         IN  Define(session, key, Varlena(RangeAlign(sub.kind.align), FALSE), sub.known)

\* A domain inherits its base's storage verbatim, and nothing else of it.
DefineDomain(session, key, base) ==
    LET resolved == Resolve(session, base)
    IN  Define(session, key, resolved.kind, resolved.known)

DefineShell(session, key) == Define(session, key, Varlena(4, FALSE), FALSE)

RenameType(session, old, new) ==
    IF old \in DOMAIN session
    THEN Put(Remove(session, old), new, session[old])
    ELSE session
=============================================================================
