\* Domains are dropped.
SPECIFICATION Spec
CONSTANTS
    Statements <- MCDomains
    RenameQualified = FALSE
    MaxTables = 2
    SniffedNames <- MCSniffedNames
    OnlyAfterIf = FALSE
    Comments = FALSE
    LongHeadings = FALSE
INVARIANT BackendsAgree
