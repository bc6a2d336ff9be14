\* Tables in a schema are renamed.
SPECIFICATION Spec
CONSTANTS
    Statements <- MCStatements
    RenameQualified = TRUE
    MaxTables = 2
    SniffedNames <- MCSniffedNames
    OnlyAfterIf = FALSE
    Comments = FALSE
    LongHeadings = FALSE
INVARIANT NamesTrack
