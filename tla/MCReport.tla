------------------------------ MODULE MCReport ------------------------------
(***************************************************************************)
(* Storage classes with every alignment, both varlena forms and irregular  *)
(* widths: timetz and macaddr.                                             *)
(***************************************************************************)
EXTENDS Report

Bool == Fixed(1, 1)
Int4 == Fixed(4, 4)
TimeTz == Fixed(12, 8)
MacAddr == Fixed(6, 4)
Text == Varlena(4, FALSE)
ShortText == Varlena(4, TRUE)

MCKinds == {Bool, Int4, MacAddr, TimeTz, Text, ShortText}
=============================================================================
