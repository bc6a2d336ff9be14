\* The series the replay is sound for.  Once a statement could not be attributed
\* NeverSilentlyWrong claims nothing, for good: notes are never taken back.
SPECIFICATION PgSpec
CONSTRAINT Attributed
CONSTANTS
    a = a  b = b  t = t  u = u
    NoName = NoName
    Table = {t, u}
    Column = {a, b}
    TypeName <- MCTypes
    Assume <- MCAssume
    Creates <- MCCreates
    Raws <- MCRaws
    NewTypes = {}
    DropLists <- MCDropLists
    RenameClash = FALSE
    MaxStatements = 4
INVARIANTS NeverSilentlyWrong
\* A series ends.
CHECK_DEADLOCK FALSE
