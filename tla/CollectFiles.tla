---------------------------- MODULE CollectFiles ----------------------------
(***************************************************************************)
(* What collect_sql_files (fs.rs) finds in a directory to which entries    *)
(* are added.  A path is a sequence of names from the root, which is << >>;*)
(* a name is one of VersionOrder's, with "x" for the letters sql.          *)
(***************************************************************************)
EXTENDS VersionOrder, FiniteSets

CONSTANTS
    FileNames,  \* the names of files and directories
    MaxDepth,   \* bound: names in a path
    MaxEntries  \* bound: entries of the tree

VARIABLE tree   \* the kind of what is at each path below the root

Kind == {"file", "directory", "link to file", "link to directory"}

\* A dot in front.
Hidden(name) == name # << >> /\ name[1] = "."

\* Path::extension, which a name that only begins with its dot has not.
IsSql(name) ==
    LET n == Len(name)
    IN  n > 2 /\ name[n - 1] = "." /\ name[n] = "x"

Parent(path) == SubSeq(path, 1, Len(path) - 1)

FileName(path) == path[Len(path)]

Elements(seq) == {seq[i] : i \in DOMAIN seq}

Entries(dir) == {path \in DOMAIN tree : Parent(path) = dir}

\* Fault: is_dir() follows links.
EntersLinks(path) == tree[path] \in {"directory", "link to directory"}

\* file_type() does not follow links.
Enters(path) == tree[path] = "directory"

\* What a link to a directory shows is the root, a link cycle.
Below(path) == IF tree[path] = "directory" THEN path ELSE << >>

\* sort_by, for `before` a set of pairs: an element is put before the first that it
\* comes before.
Sorted(seq, before) ==
    LET place(sorted, e) ==
            CHOOSE i \in 1..(Len(sorted) + 1) :
                /\ \A j \in 1..(i - 1) : << e, sorted[j] >> \notin before
                /\ i <= Len(sorted) => << e, sorted[i] >> \in before
        inserted(sorted, e) ==
            LET i == place(sorted, e)
            IN  SubSeq(sorted, 1, i - 1) \o << e >> \o SubSeq(sorted, i, Len(sorted))
        upto[n \in 0..Len(seq)] == IF n = 0 THEN << >> ELSE inserted(upto[n - 1], seq[n])
    IN  upto[Len(seq)]

\* In some order, as read_dir lists them; then by name.
Listing(dir) ==
    LET entries == Entries(dir)
        unsorted == CHOOSE seq \in [1..Cardinality(entries) -> entries] :
                        Elements(seq) = entries
        before == {pair \in entries \X entries :
                      TextOrder(FileName(pair[1]), FileName(pair[2])) < 0}
    IN  Sorted(unsorted, before)

\* Which entries that are not entered are collected.
Kept(path) == ~Hidden(FileName(path)) /\ IsSql(FileName(path))

\* walk of each directory, to a depth no tree reaches without following links.
Walk(dir) ==
    LET walked[fuel \in 0..(MaxDepth + 1)] ==
            [d \in {<< >>} \cup DOMAIN tree |->
                LET of(path) ==
                        IF Enters(path)
                        THEN IF Hidden(FileName(path)) THEN << >> ELSE walked[fuel - 1][Below(path)]
                        ELSE IF Kept(path) THEN << path >> ELSE << >>
                    listing == Listing(d)
                    upto[n \in 0..Len(listing)] ==
                        IF n = 0 THEN << >> ELSE upto[n - 1] \o of(listing[n])
                IN  IF fuel = 0 THEN << >> ELSE upto[Len(listing)]]
    IN  walked[MaxDepth + 1][dir]

\* Path's order, name by name.
PathOrder(p, q) ==
    LET differ == {i \in DOMAIN p \cap DOMAIN q : p[i] # q[i]}
        first == CHOOSE i \in differ : \A j \in differ : i <= j
    IN  IF differ # {} THEN TextOrder(p[first], q[first])
        ELSE LexOrder(<< Len(p) >>, << Len(q) >>)

\* Fault: directories are not told apart.
OrderByName(p, q) == Compare(FileName(p), FileName(q))

\* By directory, then by version.
FileOrder(p, q) ==
    ThenWith(PathOrder(Parent(p), Parent(q)), Compare(FileName(p), FileName(q)))

CollectSqlFiles ==
    LET files == Walk(<< >>)
        before == {pair \in Elements(files) \X Elements(files) :
                      FileOrder(pair[1], pair[2]) < 0}
    IN  Sorted(files, before)

-----------------------------------------------------------------------------

Init == tree = [path \in {} |-> "file"]

\* A new entry in a directory; the names of one directory differ.
Add(dir, name, kind) ==
    LET path == Append(dir, name)
    IN  /\ Cardinality(DOMAIN tree) < MaxEntries
        /\ Len(path) <= MaxDepth
        /\ dir = << >> \/ (dir \in DOMAIN tree /\ tree[dir] = "directory")
        /\ path \notin DOMAIN tree
        /\ tree' = [p \in DOMAIN tree \cup {path} |-> IF p = path THEN kind ELSE tree[p]]

Next ==
    \E dir \in {<< >>} \cup DOMAIN tree, name \in FileNames, kind \in Kind : Add(dir, name, kind)

Spec == Init /\ [][Next]_tree

-----------------------------------------------------------------------------
(* Properties. *)

\* The files of the tree, by themselves or through a link, that no dot hides.  A link
\* to a directory is one of them when its own name says sql.
Visible ==
    {path \in DOMAIN tree :
        /\ tree[path] # "directory" /\ IsSql(FileName(path))
        /\ \A i \in DOMAIN path : ~Hidden(path[i])}

\* "Dot-prefixed entries are skipped [...]; symlinked directories are not entered,
\* so a link cycle cannot duplicate files" (fs.rs:12): every visible file is
\* collected, exactly once, and nothing else.
CollectedOnce ==
    LET once(files) == Elements(files) = Visible /\ Len(files) = Cardinality(Visible)
    IN  once(CollectSqlFiles)

Ranked(files, i, j) ==
    /\ Compare(FileName(files[i]), FileName(files[j])) <= 0
    /\ \A k \in i..j : Parent(files[k]) = Parent(files[i])

\* "Recursive, version-ordered within each directory" (fs.rs:10): the files of a
\* directory follow one another, whatever its subdirectories hold, and never one of
\* a later version before one of an earlier.
OrderedWithinDirectories ==
    LET ordered(files) ==
            \A i, j \in DOMAIN files :
                i < j /\ Parent(files[i]) = Parent(files[j]) => Ranked(files, i, j)
    IN  ordered(CollectSqlFiles)
=============================================================================
