----------------------------- MODULE MCBackends -----------------------------
(***************************************************************************)
(* Statements for Backends: tables a.t, "a"."T", b.t and t in several      *)
(* spellings, every form of CREATE TABLE, every sub-command of ALTER TABLE *)
(* and every type definition.                                              *)
(***************************************************************************)
EXTENDS Backends

Id(word) == [text |-> << word >>, quoted |-> FALSE]
Quoted(word) == [text |-> << word >>, quoted |-> TRUE]

QualifiedNames ==
    { << Id("a"), Id("t") >>, << Id("A"), Id("T") >>, << Quoted("a"), Id("T") >>,
      << Id("a"), Quoted("T") >>, << Id("b"), Id("t") >> }
PlainNames == { << Id("T") >>, << Quoted("t") >>, << Quoted("T") >>, << Id("u") >> }
TableNames == QualifiedNames \cup PlainNames

Keyword(keyword, length, dims) ==
    [keyword |-> keyword, name |-> << >>, length |-> length, dims |-> dims]
NamedType(name, length) == [keyword |-> "none", name |-> name, length |-> length, dims |-> 0]

Types ==
    { Keyword("int", NoLength, dims) : dims \in 0..2 }
    \cup { Keyword("char", length, dims) : length \in {NoLength, 10}, dims \in 0..1 }
    \cup { Keyword("varchar", length, dims) : length \in {NoLength, 10}, dims \in 0..1 }
    \cup { NamedType(name, NoLength) :
             name \in { << Quoted("char") >>, << Id("bpchar") >>, << Id("T") >>,
                        << Id("a"), Quoted("T") >>, << Id("pg_catalog"), Id("varchar") >> } }
    \cup { NamedType(<< Id("T") >>, 10) }

Columns ==
    { [name |-> name, type |-> type, constraint |-> constraint] :
        name \in {Id("A"), Quoted("A")}, type \in Types,
        constraint \in {"none", "not null", "primary key", "identity", "generated"} }

CreateTable(name, columns, form) ==
    [ kind |-> "create table", name |-> name, columns |-> columns, pk |-> << >>,
      if_not_exists |-> FALSE, temporary |-> FALSE, form |-> form,
      source |-> << Id("A"), Id("t") >> ]

MCCreates ==
    { CreateTable(name, << >>, "columns") : name \in TableNames }
    \cup { [CreateTable(name, << >>, "columns") EXCEPT !.if_not_exists = TRUE] : name \in TableNames }
    \cup { CreateTable(<< Id("u") >>, << column >>, "columns") : column \in Columns }
    \cup { CreateTable(<< Id("u") >>, << >>, form) : form \in {"query", "inherits", "partition", "like"} }
    \cup { [CreateTable(<< Id("u") >>, << >>, "columns") EXCEPT
               !.temporary = TRUE, !.pk = << Id("A"), Quoted("A") >>] }

Commands ==
    { [do |-> "add column", column |-> column, if_not_exists |-> ine] :
        column \in {c \in Columns : c.constraint = "none"}, ine \in BOOLEAN }
    \cup { [do |-> "drop column", column |-> Quoted("A"), if_exists |-> ie] : ie \in BOOLEAN }
    \cup { [do |-> "set type", column |-> Id("A"), type |-> type] : type \in Types }
    \cup { [do |-> do, column |-> Id("A")] : do \in {"set not null", "drop not null"} }
    \cup { [do |-> "add primary key", columns |-> << Id("A"), Quoted("A") >>], [do |-> "other"] }

Alters ==
    { [kind |-> "alter table", name |-> << Id("A"), Id("t") >>, commands |-> << cmd, [do |-> "other"] >>] :
        cmd \in Commands }
    \cup { [ kind |-> "rename column", name |-> << Id("u") >>, old |-> Id("A"), new |-> Quoted("A") ] }

Renames ==
    { [kind |-> "rename table", name |-> name, new |-> new] :
        name \in TableNames, new \in {Id("u"), Quoted("T")} }

TypeName == { << Id("T") >>, << Quoted("T") >> }
Definitions ==
    { [kind |-> "create type", name |-> name, as |-> as] :
        name \in TypeName \cup {<< Id("A"), Id("T") >>}, as \in {"enum", "composite", "base"} }
    \cup { [kind |-> "create type", name |-> name, as |-> "range", subtype |-> subtype] :
             name \in TypeName, subtype \in {<< >>} \cup {<< type >> : type \in Types} }
    \cup { [kind |-> "create type", name |-> name, as |-> "domain", base |-> type] :
             name \in TypeName, type \in Types }
    \cup { [kind |-> "rename type", name |-> name, new |-> Id("A")] : name \in TypeName }

Drops ==
    { [kind |-> "drop", object |-> "table", names |-> << name, << Id("u") >> >>, if_exists |-> ie] :
        name \in TableNames, ie \in BOOLEAN }
    \cup { [kind |-> "drop", object |-> "type", names |-> << << Id("A"), Id("T") >> >>, if_exists |-> FALSE] }

MCStatements ==
    MCCreates \cup Alters \cup Renames \cup Definitions \cup Drops \cup {[kind |-> "other"]}

\* A domain is defined and dropped.
MCDomains ==
    { s \in Definitions : s.kind = "create type" /\ s.as = "domain" }
    \cup { [kind |-> "drop", object |-> "domain", names |-> << name >>, if_exists |-> FALSE] :
             name \in TypeName }

ASSUME StatementsPlain == \A s \in MCStatements : Plain(s)
ASSUME StatementsQualified == QualifiedConsistently

\* Names whose schema, if there is one, is not quoted.
MCSniffedNames ==
    PlainNames \cup { << Id("A"), Id("T") >>, << Id("a"), Id("t") >>, << Id("A"), Quoted("T") >>,
                     << Id("a"), Quoted("t") >> }

ASSUME NamesSniffable == \A name \in MCSniffedNames : Sniffable(name)
=============================================================================
