------------------------------- MODULE MCInputs -------------------------------
(***************************************************************************)
(* Names of up to four characters, trees of up to four entries, and        *)
(* directories of up to six files for up to four workers: chunks of one,   *)
(* two and three files, a short last one, and fewer chunks than workers.   *)
(***************************************************************************)
EXTENDS Inputs

\* V2 comes before V10, and after it in a listing; each hidden or not, with the extension
\* and without.
MCFileNames ==
    {dot \o version \o extension :
        dot \in { << >>, << "." >> }, version \in { << "V", "2" >>, << "V", "1", "0" >> },
        extension \in { << >>, << ".", "x" >> }}

ASSUME NamesReadable == NamesSpelled /\ FileNamesSpelled /\ LimitKnown /\ MaxDepth \in Nat
=============================================================================
