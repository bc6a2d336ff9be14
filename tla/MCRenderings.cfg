\* One table through many rewrites and acceptances, with every limit and flag.
SPECIFICATION Spec
CONSTANTS
    Table <- MCTable
    Display <- MCDisplay
    Layouts <- MCLayouts
    Kinds <- MCKinds
    NoteKinds = {"SkippedStatement", "EmptyScan", "CtasSkipped"}
    Limits = {0, 8}
    NoLimit = NoLimit
    NoFile = NoFile
    Allowances = {0, 3}
    MaxColumns = 5
INVARIANTS DebtWasAccepted NoFailureHidden FailureIsExplained
PROPERTIES AppendKeepsAllowance MaintenanceSettles
