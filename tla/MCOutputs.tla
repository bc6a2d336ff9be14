------------------------------ MODULE MCOutputs ------------------------------
(***************************************************************************)
(* Twelve annotations of a severity, which pass every cap; tables of up to *)
(* three columns; and a memory the host's signed numbers can address.      *)
(***************************************************************************)
EXTENDS Outputs

Bare(txt) == [text |-> txt, quoted |-> FALSE]
InQuotes(txt) == [text |-> txt, quoted |-> TRUE]

\* The double quote.
Quote == "q"

\* Lowercase names, and whatever may stand in quotes but a keyword alone.
MCColumnNames ==
    { Bare(<< "a" >>), Bare(<< "t", "1" >>), InQuotes(<< "A" >>), InQuotes(<< "1" >>),
      InQuotes(<< "a", Quote >>), InQuotes(<< Quote, Quote, "a" >>) }

MCTableNames == { Bare(<< "t" >>), InQuotes(<< "a" >>) }

MCReserved == { << "u" >> }

ASSUME NamesSuggestible == Statement!Suggestible

ASSUME MemoryAddressable == Boundary!Addressable
=============================================================================
