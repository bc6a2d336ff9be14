\* Two runs, one after the other or at the same time, some killed or failed by the disk.
SPECIFICATION FairSpec
CONSTANTS
    t = t  u = u  v = v
    NoFile = NoFile
    NoBaseline = NoBaseline
    Run = {1, 2}
    Table = {t, u, v}
    TableOrder <- MCTableOrder
    Findings <- MCFindings
    Commands <- MCCommands
    Faults = TRUE
INVARIANTS LoadedWasWritten FileIsLastWritten
PROPERTIES AcceptTouchesNamedOnly RunsEnd
