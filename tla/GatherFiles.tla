----------------------------- MODULE GatherFiles -----------------------------
(***************************************************************************)
(* What reading a directory's files promises (lib.rs read_files): the      *)
(* sources in file order, or the failure of the first file, in file order, *)
(* that cannot be read.  The answer comes in one step.                     *)
(***************************************************************************)
EXTENDS Naturals

CONSTANT Pending    \* no answer yet

VARIABLES
    files,          \* the number of files, in version order
    unreadable,     \* the files whose reading fails
    answer          \* Pending, the sources read, or the error

Sources(list) == [ok |-> TRUE, list |-> list]

Failure(file) == [ok |-> FALSE, file |-> file]

InFileOrder ==
    IF unreadable = {}
    THEN Sources([i \in 1..files |-> i])
    ELSE Failure(CHOOSE i \in unreadable : \A j \in unreadable : i <= j)

Init == answer = Pending

Answer ==
    /\ answer = Pending
    /\ answer' = InFileOrder
    /\ UNCHANGED <<files, unreadable>>

Spec == Init /\ [][Answer]_<<files, unreadable, answer>> /\ WF_<<files, unreadable, answer>>(Answer)
=============================================================================
