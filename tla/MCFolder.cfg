\* Every operation, three statements.
SPECIFICATION Spec
CONSTANTS
    a = a  b = b  t = t  u = u
    NoName = NoName
    Table = {t, u}
    Column = {a, b}
    TypeName <- MCTypes
    Assume <- MCAssume
    Creates <- AllCreates
    Raws <- AllRaws
    NewTypes <- AllNewTypes
    DropLists <- AllDropLists
    MaxStatements = 3
    RenameClash = FALSE
INVARIANTS
    TypeOK GuessesNotedOnce GhostsExplained IncompleteExplained
    OrderMatchesTables HistoryInOrder
PROPERTIES
    AttributesNeverReclaimed IncompleteSticks
\* A series ends.
CHECK_DEADLOCK FALSE
