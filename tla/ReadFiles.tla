------------------------------ MODULE ReadFiles ------------------------------
(***************************************************************************)
(* The reader threads of the CLI (lib.rs read_files).  The files, numbered *)
(* in version order, are cut in chunks, one scoped thread reads each chunk,*)
(* and the main thread joins them in order.  With one worker the main      *)
(* thread reads by itself and stops at the first error.  A source is the   *)
(* number of the file it was read from, an error is NotRead.               *)
(***************************************************************************)
EXTENDS Integers, Sequences

CONSTANTS
    MaxFiles,       \* bound on the directory's files
    MaxParallelism, \* bound on available_parallelism
    Pending,        \* no answer yet
    NotRead         \* a result that is an error

VARIABLES
    files,          \* the number of files
    unreadable,     \* the files whose reading fails
    parallelism,    \* available_parallelism
    spawned,        \* readers spawned so far
    read,           \* each reader's results so far
    joined,         \* readers joined so far
    results,        \* the results of the joined readers, or of the main thread
    answer          \* Pending, or what read_files returns

disk == <<files, unreadable, parallelism>>
vars == <<disk, spawned, read, joined, results, answer>>

MaxWorkers == 4

Least(x, y) == IF x <= y THEN x ELSE y

Workers == Least(Least(parallelism, MaxWorkers), files)

DivCeil(x, y) == (x + y - 1) \div y

\* files.chunks(chunk): the last one may be short, and there may be fewer of
\* them than workers.
ChunkSize == DivCeil(files, Workers)

Readers == 1..DivCeil(files, ChunkSize)

FirstOf(r) == (r - 1) * ChunkSize + 1

SizeOf(r) == Least(ChunkSize, files - (r - 1) * ChunkSize)

Sources(list) == [ok |-> TRUE, list |-> list]

Failure(file) == [ok |-> FALSE, file |-> file]

ReadSource(file) == IF file \in unreadable THEN NotRead ELSE file

Init ==
    /\ files \in 0..MaxFiles
    /\ unreadable \in SUBSET (1..files)
    /\ parallelism \in 1..MaxParallelism
    /\ spawned = 0
    /\ read = [r \in 1..MaxWorkers |-> << >>]
    /\ joined = 0
    /\ results = << >>
    /\ answer = Pending

-----------------------------------------------------------------------------
(* One worker. *)

ReadInTurn ==
    /\ answer = Pending
    /\ Workers < 2
    /\ Len(results) < files
    /\ LET file == Len(results) + 1
       IN  IF file \in unreadable
           THEN answer' = Failure(file) /\ UNCHANGED results
           ELSE results' = Append(results, ReadSource(file)) /\ UNCHANGED answer
    /\ UNCHANGED <<disk, spawned, read, joined>>

-----------------------------------------------------------------------------
(* Several. *)

Spawn ==
    /\ Workers >= 2
    /\ spawned + 1 \in Readers
    /\ spawned' = spawned + 1
    /\ UNCHANGED <<disk, read, joined, results, answer>>

ReadOne(r) ==
    /\ r <= spawned
    /\ Len(read[r]) < SizeOf(r)
    /\ read' = [read EXCEPT ![r] = Append(@, ReadSource(FirstOf(r) + Len(@)))]
    /\ UNCHANGED <<disk, spawned, joined, results, answer>>

\* Fault: a reader's results are taken as far as they are.
JoinEarly ==
    /\ Workers >= 2
    /\ spawned + 1 \notin Readers
    /\ joined < spawned
    /\ joined' = joined + 1
    /\ results' = results \o read[joined + 1]
    /\ UNCHANGED <<disk, spawned, read, answer>>

\* collect() spawns every reader before the first join.
Join ==
    /\ Workers >= 2
    /\ spawned + 1 \notin Readers
    /\ joined < spawned
    /\ Len(read[joined + 1]) = SizeOf(joined + 1)
    /\ joined' = joined + 1
    /\ results' = results \o read[joined + 1]
    /\ UNCHANGED <<disk, spawned, read, answer>>

-----------------------------------------------------------------------------

Finished ==
    IF Workers < 2 THEN Len(results) = files ELSE joined + 1 \notin Readers

\* The results are zipped with the files; the first error is the answer.
Collect ==
    /\ answer = Pending
    /\ Finished
    /\ answer' = IF \E i \in DOMAIN results : results[i] = NotRead
                 THEN Failure(CHOOSE i \in DOMAIN results :
                                  /\ results[i] = NotRead
                                  /\ \A j \in 1..(i - 1) : results[j] # NotRead)
                 ELSE Sources(results)
    /\ UNCHANGED <<disk, spawned, read, joined, results>>

Main == ReadInTurn \/ Spawn \/ Join \/ Collect

Next == Main \/ \E r \in 1..MaxWorkers : ReadOne(r)

\* Every thread that can run is run.
Fairness == WF_vars(Main) /\ \A r \in 1..MaxWorkers : WF_vars(ReadOne(r))

Spec == Init /\ [][Next]_vars /\ Fairness

-----------------------------------------------------------------------------
(* Properties. *)

\* "Results and the first-error-wins failure message are in file order either
\* way" (lib.rs:244): however many readers there are and however they interleave,
\* the answer is the one a single pass over the files gives, and it comes.
Promise == INSTANCE GatherFiles WITH
    files <- files, unreadable <- unreadable, answer <- answer, Pending <- Pending

ImplementsPromise == Promise!Spec
=============================================================================
