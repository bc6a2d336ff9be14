---------------------------- MODULE Identifiers ----------------------------
(***************************************************************************)
(* Names of tables and types, and the keys both parser front ends and the  *)
(* sniff give them.  An identifier is [text, quoted].  A text is a sequence*)
(* of parts, so that joining names with a dot is concatenation.  A name is *)
(* a sequence of one or two identifiers, schema first.                     *)
(***************************************************************************)
EXTENDS Collections

Lower(letter) == CASE letter = "A" -> "a" [] letter = "T" -> "t" [] OTHER -> letter

Lowered(txt) == [i \in DOMAIN txt |-> Lower(txt[i])]

\* ident_key, and PostgreSQL's scanner: what is not quoted is folded.
IdentKey(ident) == IF ident.quoted THEN ident.text ELSE Lowered(ident.text)

LastOf(name) == name[Len(name)]

\* raw_name, type_rangevar_name, name_from_nodes: types go by their last part.
TypeKey(name) == IdentKey(LastOf(name))

\* table_name, rangevar_name: tables go by all of theirs.
TableKey(name) ==
    IF Len(name) = 1 THEN IdentKey(name[1])
    ELSE IdentKey(name[1]) \o IdentKey(name[2])

TableKeys(names) == [i \in DOMAIN names |-> TableKey(names[i])]

Keys(idents) == [i \in DOMAIN idents |-> IdentKey(idents[i])]
=============================================================================
