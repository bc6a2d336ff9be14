------------------------------ MODULE MCFolder ------------------------------
(***************************************************************************)
(* Small workloads for the replay: two or three table names, two columns,  *)
(* one built-in type, one the series may define and one it never does.     *)
(***************************************************************************)
EXTENDS Folder

Ref(key) == [key |-> key, short |-> FALSE, array |-> FALSE]

Col(key, type) == [key |-> key, type |-> Ref(type), not_null |-> FALSE]

MCTypes == {"int4", "mood", "point3"}
MCAssume == [key \in {} |-> Fixed(4, 4)]

Create(columns) ==
    [ columns |-> columns, pk_columns |-> {}, if_not_exists |-> FALSE,
      is_ctas |-> FALSE, incomplete_columns |-> FALSE, temporary |-> FALSE,
      partition_of |-> NoName, like_source |-> NoName ]

CONSTANTS a, b, t, u

OneColumn == Create(<< Col(a, "int4") >>)
TwoColumns == [Create(<< Col(a, "mood"), Col(b, "int4") >>) EXCEPT !.pk_columns = {b}]
Repeated == Create(<< Col(a, "int4"), Col(a, "point3") >>)
IfNotExists == [OneColumn EXCEPT !.if_not_exists = TRUE]
Ctas == [Create(<< >>) EXCEPT !.is_ctas = TRUE]
CtasIfNotExists == [Ctas EXCEPT !.if_not_exists = TRUE]
Temporary == [OneColumn EXCEPT !.temporary = TRUE]
Inherits == [OneColumn EXCEPT !.incomplete_columns = TRUE]
Partition(parent) == [Create(<< >>) EXCEPT !.partition_of = parent]
Like(source) == [Create(<< >>) EXCEPT !.like_source = source]
LikeAndColumns(source) == [TwoColumns EXCEPT !.like_source = source]

AllCreates ==
    { OneColumn, TwoColumns, Repeated, IfNotExists, Ctas, CtasIfNotExists,
      Temporary, Inherits, Partition(u), Like(t), LikeAndColumns(t) }

AllRaws == { Col(b, "mood"), Col(a, "int4") }
AllNewTypes == { Ref("mood"), Ref("int4") }
AllDropLists == { << t >>, << t, u >> }
=============================================================================
