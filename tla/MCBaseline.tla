----------------------------- MODULE MCBaseline -----------------------------
(***************************************************************************)
(* One table, spelled USERS, over layouts with and without avoidable       *)
(* bytes.                                                                  *)
(***************************************************************************)
EXTENDS Baseline

Bool == Fixed(1, 1)
Int8 == Fixed(8, 8)
Text == Varlena(4, FALSE)
ShortText == Varlena(4, TRUE)

Interleaved == << Bool, Int8, Bool, Int8 >>
Packed == << Int8, Int8, Bool, Bool >>
\* The text of one signature, vip,f8d,vi, begins the text of the other, vip,f8d,vip.
LongLast == << ShortText, Int8, Text >>
ShortLast == << ShortText, Int8, ShortText >>

MCTable == {"users"}
MCDisplay == [name \in MCTable |-> "USERS"]

MCLayouts == {Interleaved, Packed, LongLast, ShortLast}
MCKinds == {Bool, Text}
=============================================================================
