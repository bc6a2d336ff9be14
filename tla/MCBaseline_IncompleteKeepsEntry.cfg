\* One table.
SPECIFICATION Spec
CONSTANTS
    Table <- MCTable
    Display <- MCDisplay
    Layouts <- MCLayouts
    Kinds <- MCKinds
    NoteKinds = {}
    Limits = {0, 8}
    NoLimit = NoLimit
    NoFile = NoFile
    Allowances = {0, 3}
    MaxColumns = 5
PROPERTY IncompleteKeepsEntry
