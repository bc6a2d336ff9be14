-------------------------------- MODULE Inputs --------------------------------
(***************************************************************************)
(* How migrations come in: the order of two names, the files of a tree,    *)
(* and the readers of a list of files.  They share no state, and only one  *)
(* of them has something to do in a behavior: the readers of an empty list *)
(* are done at once.                                                       *)
(***************************************************************************)
EXTENDS VersionOrder

CONSTANTS
    Alphabet,                   \* the characters of the two names
    MaxLength,                  \* bound: characters of a name
    FileNames, MaxDepth, MaxEntries,            \* CollectFiles
    MaxFiles, MaxParallelism, Pending, NotRead  \* ReadFiles

VARIABLES
    a, b,                                                               \* two names
    tree,                                                               \* a tree
    files, unreadable, parallelism, spawned, read, joined, results, answer \* the readers

names == <<a, b>>
readers == <<files, unreadable, parallelism, spawned, read, joined, results, answer>>
inputs == <<names, tree, readers>>

Trees == INSTANCE CollectFiles

Reading == INSTANCE ReadFiles

InputsInit ==
    /\ a = << >> /\ b = << >>
    /\ Trees!Init
    /\ Reading!Init

NothingRead == files = 0 /\ parallelism = 1 /\ answer # Pending

NoNames == a = << >> /\ b = << >>

NoTree == DOMAIN tree = {}

\* One of the names grows by a character.
NextName ==
    /\ NothingRead /\ NoTree
    /\ \E c \in Alphabet :
          \/ Len(a) < MaxLength /\ a' = Append(a, c) /\ UNCHANGED b
          \/ Len(b) < MaxLength /\ b' = Append(b, c) /\ UNCHANGED a
    /\ UNCHANGED <<tree, readers>>

NextEntry == NothingRead /\ NoNames /\ Trees!Next /\ UNCHANGED <<names, readers>>

NextRead == NoNames /\ NoTree /\ Reading!Next /\ UNCHANGED <<names, tree>>

InputsNext == NextName \/ NextEntry \/ NextRead

\* The fairness is the readers'.
InputsSpec == InputsInit /\ [][InputsNext]_inputs /\ Reading!Fairness

-----------------------------------------------------------------------------
(* Properties. *)

\* "Same order as comparing [`sort_key`]s" (version.rs:7), which is total: sort_by
\* may be given no other, and only equal names compare as equal, so the files of
\* a directory have one order.
CompareIsKeyOrder ==
    /\ Compare(a, b) = KeyOrder(SortKey(a), SortKey(b))
    /\ Compare(a, b) = 0 => a = b

\* What names may be spelled in: the characters whose order is known.
Letters == {Characters[i] : i \in DOMAIN Characters}

NamesSpelled == Alphabet \subseteq Letters

FileNamesSpelled == FileNames \subseteq Seq(Letters)

\* Numbers of any size.
Unlimited == 10 ^ MaxLength

\* No number that fits is left out.
LimitKnown == Unlimited \in Nat /\ MaxSegment \in 0..Unlimited

Version(name) == SegmentsUpTo(name, Unlimited)

Fits(name) == \A i \in DOMAIN Version(name) : Version(name)[i] <= MaxSegment

\* "Unversioned names [...] sort after all versioned ones" (version.rs:2), and of two
\* versions the smaller comes first, number by number: no migration is replayed
\* before one it follows.  A number too large takes its name's version away, and sends
\* the name behind every other: it is never read as another number.
VersionsInOrder ==
    LET versioned(name) == Version(name) # Unversioned /\ Fits(name)
    IN  /\ versioned(a) /\ versioned(b) /\ Version(a) # Version(b)
           => Compare(a, b) = LexOrder(Version(a), Version(b))
        /\ versioned(a) /\ ~versioned(b) => Compare(a, b) = -1

\* Of CollectFiles: every visible file is collected, once.
CollectedOnce == Trees!CollectedOnce

\* Of CollectFiles: the files of a directory are in version order, and together.
OrderedWithinDirectories == Trees!OrderedWithinDirectories

\* Of ReadFiles: the readers' answer is that of a single pass, and it comes.
ImplementsPromise == Reading!ImplementsPromise
=============================================================================
