\* Table and type DDL in DO blocks, the attempt cap and dynamic templates included.
SPECIFICATION AnalysisSpec
CONSTANTS
    a = a  t = t  u = u
    NoName = NoName
    DynamicToken = DynamicToken
    NotParsed = NotParsed
    NoTemplate = NoTemplate
    Table = {t, u}
    Column = {a}
    TypeName <- MCTypes
    Assume <- MCAssume
    Creates <- MCCreates
    Raws = {}
    NewTypes <- MCNewTypes
    DropLists = {}
    RenameClash = FALSE
    TypeOps <- AllTypeOps
    Bodies <- AllBodies
    MaxParseAttempts = 2
    GuardedRedefinition = FALSE
    MaxStatements = 3
INVARIANTS TouchedIsLoud TouchedIsFlagged FoldedTypesLayoutSafe
PROPERTY ImplementsReplay
\* A series ends.
CHECK_DEADLOCK FALSE
