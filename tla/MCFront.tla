-------------------------------- MODULE MCFront --------------------------------
(***************************************************************************)
(* From the text of a file to the operations of its statements.  The       *)
(* splitter and the front ends share no state, and one of them has         *)
(* something to do in a behavior: short texts over the characters whose    *)
(* interplay decides where statements end (all of them at once are out of  *)
(* reach), or the statements of MCBackends.                                *)
(***************************************************************************)
EXTENDS MCBackends, PgLexer

Over(chars, length) == [chars |-> chars, length |-> length]

Strings == Over({"'", DoubleQuote, Backslash, "e", "x", ";", " "}, 6)
Escapes == Over({"'", Backslash, "e", "x", ";"}, 7)
NestedComments == Over({"/", "*", ";"}, 9)
Dollars == Over({"$", "x", "1", ";", "'", "-", Newline}, 6)
Markers == Over({"-", "/", "*", "'", ";", "x", Newline, Marker}, 6)

MCAlphabets == {Strings, Escapes, NestedComments, Dollars, Markers}

ASSUME MCKnownWhitespace == KnownWhitespace

FrontInit == TextInit /\ Init

NoStatement == statement.kind = "other" /\ created = 0

NextText == NoStatement /\ TextNext /\ UNCHANGED vars

NextStatement == text = << >> /\ Next /\ UNCHANGED text

FrontSpec == FrontInit /\ [][NextText \/ NextStatement]_<<text, vars>>
=============================================================================
