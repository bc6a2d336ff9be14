\* One of the three parts at work.
SPECIFICATION InputsSpec
CONSTANTS
    Alphabet = {"V", "_", "0", "2"}
    MaxLength = 4
    \* The largest segment that fits; its successor is one digit longer.
    MaxSegment = 99
    FileNames <- MCFileNames
    MaxDepth = 3
    MaxEntries = 4
    MaxFiles = 6
    MaxParallelism = 5
    Pending = Pending
    NotRead = NotRead
INVARIANTS
    CompareIsKeyOrder VersionsInOrder CollectedOnce OrderedWithinDirectories
PROPERTY ImplementsPromise
\* Each part ends: a name is as long as it is, read_files returns.
CHECK_DEADLOCK FALSE
