----------------------------- MODULE MCPgReplay -----------------------------
(***************************************************************************)
(* Small migration series for the joint replay: two tables, two columns,   *)
(* and one type, which plays no part in the agreement.                     *)
(***************************************************************************)
EXTENDS PgReplay

CONSTANTS a, b, t, u

Col(key) ==
    [key |-> key, type |-> [key |-> "int4", short |-> FALSE, array |-> FALSE],
     not_null |-> FALSE]

MCTypes == {"int4"}
MCAssume == [key \in {} |-> Fixed(4, 4)]

Create(columns) ==
    [ columns |-> columns, pk_columns |-> {}, if_not_exists |-> FALSE,
      is_ctas |-> FALSE, incomplete_columns |-> FALSE, temporary |-> FALSE,
      partition_of |-> NoName, like_source |-> NoName ]

MCCreates ==
    { Create(<< Col(a), Col(b) >>),
      [Create(<< Col(a) >>) EXCEPT !.if_not_exists = TRUE],
      [Create(<< >>) EXCEPT !.is_ctas = TRUE],
      [Create(<< >>) EXCEPT !.is_ctas = TRUE, !.if_not_exists = TRUE],
      [Create(<< Col(b) >>) EXCEPT !.incomplete_columns = TRUE],
      [Create(<< >>) EXCEPT !.partition_of = t],
      [Create(<< >>) EXCEPT !.like_source = u] }

MCRaws == {Col(a)}
MCDropLists == {<< t >>, << t, u >>}

\* The part of the state space NeverSilentlyWrong says something of.
Attributed == ~Unattributed
=============================================================================
