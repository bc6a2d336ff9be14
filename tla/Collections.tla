---------------------------- MODULE Collections ----------------------------
(***************************************************************************)
(* The two collections the crate keeps its state in.  A BTreeMap is a      *)
(* function on the set of the keys it holds, a Vec a sequence.             *)
(***************************************************************************)
EXTENDS Integers, Sequences

EmptyMap == [key \in {} |-> key]

Put(map, key, value) ==
    [k \in DOMAIN map \cup {key} |-> IF k = key THEN value ELSE map[k]]

Remove(map, key) == [k \in DOMAIN map \ {key} |-> map[k]]

Elements(seq) == {seq[i] : i \in DOMAIN seq}

\* Vec::retain of what is not in `out`.
Retain(seq, out) ==
    LET kept[i \in 0..Len(seq)] ==
            IF i = 0 THEN << >>
            ELSE IF seq[i] \in out THEN kept[i - 1]
            ELSE Append(kept[i - 1], seq[i])
    IN  kept[Len(seq)]
=============================================================================
