\* One of the three parts at work.
SPECIFICATION OutputsSpec
CONSTANTS
    MaxLines = 12
    Backends = {"sqlparser", "pg-exact"}
    ColumnNames <- MCColumnNames
    TableNames <- MCTableNames
    Types = {"int4", "int8"}
    Reserved <- MCReserved
    MaxColumns = 3
    WordSize = 16
    MaxMemory = 8
    InputLengths = {0, 2}
    OutputLengths = {1, 3}
    MaxHeld = 4
INVARIANTS LossIsLoud SuggestionIsTheTable BuffersAccounted
\* The annotation stream ends.
CHECK_DEADLOCK FALSE
