------------------------------- MODULE WasmAbi -------------------------------
(***************************************************************************)
(* Buffers across the wasm boundary (rowdiet-wasm's lib.rs): a host in     *)
(* JavaScript, external, that follows the documented contract, and what    *)
(* the module has allocated for it.  A buffer's content is "zero",         *)
(* "request" or "reply".  The host views the memory anew for every access, *)
(* so that its growth is left out.                                         *)
(***************************************************************************)
EXTENDS Collections, FiniteSets

CONSTANTS
    WordSize,       \* the values of a pointer, of a length: stands for 2^32
    MaxMemory,      \* bound: bytes the memory has
    InputLengths,   \* lengths of requests
    OutputLengths,  \* lengths of replies
    MaxHeld         \* bound: buffers the host holds at a time

VARIABLES
    blocks,     \* what the module has allocated: address to [len, content]
    held,       \* the buffers the host has to release, as it knows them
    fault       \* what has gone wrong, or "none"

vars == <<blocks, held, fault>>

\* A memory whose addresses the host's signed numbers can tell; a reply is JSON,
\* and no text is no JSON.
Addressable ==
    /\ WordSize \in Nat \ (0..3) /\ MaxMemory \in 1..(WordSize \div 2)
    /\ InputLengths \subseteq Nat
    /\ OutputLengths \subseteq Nat \ {0}

-----------------------------------------------------------------------------
(* Numbers across the boundary. *)

\* An i32 is a signed Number in JavaScript, and is cut to a word on the way back.
ToHost(ptr) == IF ptr >= WordSize \div 2 THEN ptr - WordSize ELSE ptr

ToModule(number) == number % WordSize

Pack(ptr, len) == ptr * WordSize + len

\* An i64 is a signed BigInt.
BigInt(word) ==
    IF word >= (WordSize \div 2) * WordSize THEN word - WordSize * WordSize ELSE word

\* Number(v >> 32n), Number(v & 0xffffffffn).
Unpack(v) == [ptr |-> v \div WordSize, len |-> v % WordSize]

-----------------------------------------------------------------------------
(* The allocator (external). *)

Dangling == 1

Bytes(ptr, len) == ptr..(ptr + len - 1)

\* Where a block of this length may be; nothing is allocated for no bytes.
Places(len) ==
    IF len = 0 THEN {Dangling}
    ELSE {ptr \in 1..(MaxMemory - len) :
             \A other \in DOMAIN blocks :
                 Bytes(ptr, len) \cap Bytes(other, blocks[other].len) = {}}

Allocated(ptr, len, content) ==
    IF len = 0 THEN blocks ELSE Put(blocks, ptr, [len |-> len, content |-> content])

IsBlock(ptr, len) == len = 0 \/ (ptr \in DOMAIN blocks /\ blocks[ptr].len = len)

Released(ptr, len) == IF len = 0 THEN blocks ELSE Remove(blocks, ptr)

Fail(what) == fault' = IF fault = "none" THEN what ELSE fault

-----------------------------------------------------------------------------
(* Calls and what the host does between them. *)

Buffer(role, ptr, len) == [role |-> role, ptr |-> ptr, len |-> len]

\* rowdiet_alloc.
Alloc(len) ==
    /\ Cardinality(held) < MaxHeld
    /\ \E ptr \in Places(len) :
          /\ blocks' = Allocated(ptr, len, "zero")
          /\ held' = held \cup {Buffer("input", ToHost(ptr), len)}
    /\ UNCHANGED fault

\* A typed array over the memory takes no range outside it.
InMemory(buffer) == buffer.ptr >= 0 /\ buffer.ptr + buffer.len <= MaxMemory

\* The host writes its request.
WriteInput(buffer) ==
    /\ buffer.role = "input"
    /\ IF InMemory(buffer)
       THEN /\ blocks' = Allocated(buffer.ptr, buffer.len, "request")
            /\ held' = (held \ {buffer}) \cup {[buffer EXCEPT !.role = "written"]}
            /\ UNCHANGED fault
       ELSE Fail("write") /\ UNCHANGED <<blocks, held>>

\* What the call finds where the host says its request is.
Received(ptr, len) == IsBlock(ptr, len) /\ (len > 0 => blocks[ptr].content = "request")

\* Fault: the input is taken over, and dropped with the request.
InputDropped(buffer) == Released(ToModule(buffer.ptr), buffer.len)

\* The input is not consumed.
InputKept(buffer) == blocks

\* into_boxed_slice cuts a reply's block to its length.
ReplyBlock(len) == len

\* rowdiet_lint.
Lint(buffer) ==
    /\ buffer.role = "written"
    /\ Cardinality(held) < MaxHeld
    /\ \E len \in OutputLengths : \E ptr \in Places(ReplyBlock(len)) :
          LET output == Unpack(BigInt(Pack(ptr, len)))
          IN  /\ blocks' = Put(InputKept(buffer), ptr, [len |-> ReplyBlock(len), content |-> "reply"])
              /\ held' = held \cup {Buffer("output", output.ptr, output.len)}
    /\ IF Received(ToModule(buffer.ptr), buffer.len) THEN UNCHANGED fault ELSE Fail("input")

\* The host slices the reply.
ReadOutput(buffer) ==
    /\ buffer.role = "output"
    /\ IF /\ InMemory(buffer)
          /\ IsBlock(buffer.ptr, buffer.len)
          /\ blocks[buffer.ptr].content = "reply"
       THEN /\ held' = (held \ {buffer}) \cup {[buffer EXCEPT !.role = "read"]}
            /\ UNCHANGED fault
       ELSE Fail("read") /\ UNCHANGED held
    /\ UNCHANGED blocks

\* rowdiet_free, once for each buffer and in any order.
Free(buffer) ==
    LET ptr == ToModule(buffer.ptr)
    IN  /\ held' = held \ {buffer}
        /\ IF IsBlock(ptr, buffer.len)
           THEN blocks' = Released(ptr, buffer.len) /\ UNCHANGED fault
           ELSE Fail("free") /\ UNCHANGED blocks

Init ==
    /\ blocks = EmptyMap
    /\ held = {}
    /\ fault = "none"

Next ==
    \/ \E len \in InputLengths : Alloc(len)
    \/ \E buffer \in held :
           WriteInput(buffer) \/ Lint(buffer) \/ ReadOutput(buffer) \/ Free(buffer)

Spec == Init /\ [][Next]_vars

-----------------------------------------------------------------------------
(* Properties. *)

\* "exactly the boxed slice produced by rowdiet_alloc / rowdiet_lint" is what every free
\* gives back, every request arrives as written and every reply is read as written, however
\* requests overlap, whichever buffer is freed first, and however often one is linted.  And
\* what the module has allocated is what the host has still to release, with the lengths the
\* host knows, so a host that releases everything leaks nothing.
BuffersAccounted ==
    /\ fault = "none"
    /\ {<< ptr, blocks[ptr].len >> : ptr \in DOMAIN blocks}
           = {<< ToModule(buffer.ptr), buffer.len >> : buffer \in {b \in held : b.len > 0}}
=============================================================================
