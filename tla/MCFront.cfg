\* A text grows, or a series of statements is read.
SPECIFICATION FrontSpec
CONSTANTS
    Alphabets <- MCAlphabets
    Statements <- MCStatements
    RenameQualified = FALSE
    MaxTables = 2
    SniffedNames <- MCSniffedNames
    OnlyAfterIf = FALSE
    Comments = FALSE
    LongHeadings = FALSE
INVARIANTS
    CutsWherePostgresDoes MarkersAccounted StandsAlone
    BackendsAgree NamesTrack SniffsTheTarget
PROPERTY TerminatedIsFinal
\* A text is as long as it is.
CHECK_DEADLOCK FALSE
