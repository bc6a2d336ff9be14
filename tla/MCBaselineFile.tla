--------------------------- MODULE MCBaselineFile ---------------------------
(***************************************************************************)
(* Small instances of BaselineFile: three tables, two of which are over    *)
(* the limit in any analysis that finds one, and each kind of command.     *)
(***************************************************************************)
EXTENDS BaselineFile

CONSTANTS t, u, v

UpdateWith(given) == [kind |-> "update", fail_over_given |-> given]
AcceptOf(names) == [kind |-> "accept", names |-> names]

MCCommands ==
    { [kind |-> "gate"], UpdateWith(TRUE), UpdateWith(FALSE),
      AcceptOf(<< t >>), AcceptOf(<< u, "unknown" >>) }

\* The head of the one and the tail of the other are {t, v}, which no analysis finds.
MCFindings == {{t, u}, {u, v}}

MCTableOrder ==
    [baseline \in SUBSET Table |-> SelectSeq(<< t, u, v >>, LAMBDA table : table \in baseline)]
=============================================================================
