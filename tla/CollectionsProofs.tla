-------------------------- MODULE CollectionsProofs --------------------------
(***************************************************************************)
(* What the operators of Collections do, for every map and every sequence. *)
(***************************************************************************)
EXTENDS Collections, WellFoundedInduction, FiniteSetTheorems, TLAPS

\* Induction over the naturals, on the set of numbers that have the property.
LEMMA NatSetInduction ==
    ASSUME NEW T \in SUBSET Nat, 0 \in T, \A n \in T : n + 1 \in T
    PROVE  T = Nat
<1> DEFINE R == {r \in Nat \X Nat : r[1] < r[2]}
           C == Nat \ T
<1>1. IsWellFoundedOn(R, Nat)
  <2>1. R = OpToRel(<, Nat)
    BY DEF OpToRel
  <2> QED BY <2>1, NatLessThanWellFounded
<1>2. SUFFICES ASSUME C # {} PROVE FALSE
  OBVIOUS
<1>3. PICK x \in C : \A y \in C : <<y, x>> \notin R
  <2> HIDE DEF R
  <2> QED BY <1>1, <1>2, WFMin
<1>4. x # 0
  OBVIOUS
<1>5. x - 1 \in T
  <2>1. x \in Nat /\ x - 1 \in Nat /\ x - 1 < x
    BY <1>4
  <2>2. <<x - 1, x>> \in R
    BY <2>1
  <2> QED BY <1>3, <2>1, <2>2
<1>6. (x - 1) + 1 \in T
  BY <1>5
<1> QED BY <1>6

\* A set of naturals that is not empty has a least element.
LEMMA LeastNumber ==
    ASSUME NEW S \in SUBSET Nat, S # {}
    PROVE  \E c \in S : \A d \in S : c <= d
<1> DEFINE T == {m \in Nat : \A d \in S : m <= d}
<1> SUFFICES ASSUME \A c \in S : \E d \in S : ~(c <= d) PROVE FALSE
  OBVIOUS
<1>1. 0 \in T
  OBVIOUS
<1>2. ASSUME NEW m \in T PROVE m + 1 \in T
  <2>1. m \in Nat /\ \A d \in S : m <= d
    OBVIOUS
  <2>2. m \notin S
    BY <2>1
  <2>3. \A d \in S : m + 1 <= d
    BY <2>1, <2>2
  <2> QED BY <2>1, <2>3
<1>3. T = Nat
  <2> HIDE DEF T
  <2>1. T \in SUBSET Nat
    BY DEF T
  <2> QED BY <1>1, <1>2, <2>1, NatSetInduction
<1>4. PICK d \in S : TRUE
  OBVIOUS
<1>5. d + 1 \in T
  BY <1>3
<1>6. d \in Nat /\ d + 1 <= d
  BY <1>5
<1> QED BY <1>6

\* The intermediate values of a loop over 1..n, from `init` by `step`.
IsLoop(F, n, V, init, step) ==
    /\ F \in [0..n -> V]
    /\ F[0] = init
    /\ \A i \in 1..n : F[i] = step[<<i, F[i - 1]>>]

LEMMA LoopExists ==
    ASSUME NEW n \in Nat, NEW V, NEW init \in V, NEW step \in [(1..n) \X V -> V]
    PROVE  \E F : IsLoop(F, n, V, init, step)
<1> DEFINE Loop(F, m) == IsLoop(F, m, V, init, step)
           T == {m \in Nat : m \in 0..n => \E F : Loop(F, m)}
<1>1. 0 \in T
  <2>1. Loop([i \in 0..0 |-> init], 0)
    BY DEF IsLoop
  <2> QED BY <2>1
<1>2. ASSUME NEW m \in T PROVE m + 1 \in T
  <2> SUFFICES ASSUME m + 1 \in 0..n PROVE \E F : Loop(F, m + 1)
    OBVIOUS
  <2>1. m \in Nat /\ m \in 0..n /\ m + 1 \in 1..n
    OBVIOUS
  <2>2. PICK F : Loop(F, m)
    BY <2>1
  <2> DEFINE last == step[<<m + 1, F[m]>>]
             G == [i \in 0..(m + 1) |-> IF i = m + 1 THEN last ELSE F[i]]
  <2>3. last \in V
    BY <2>1, <2>2 DEF IsLoop
  <2>4. G \in [0..(m + 1) -> V]
    BY <2>1, <2>2, <2>3 DEF IsLoop
  <2>5. G[0] = init
    BY <2>1, <2>2 DEF IsLoop
  <2>6. ASSUME NEW i \in 1..(m + 1) PROVE G[i] = step[<<i, G[i - 1]>>]
    <3>1. i - 1 \in 0..m /\ i - 1 # m + 1 /\ i \in 0..(m + 1) /\ i - 1 \in 0..(m + 1)
      BY <2>1
    <3>2. G[i - 1] = F[i - 1]
      BY <3>1
    <3>3. CASE i = m + 1
      BY <2>1, <3>1, <3>2, <3>3
    <3>4. CASE i # m + 1
      <4>1. i \in 1..m
        BY <2>1, <3>4
      <4> QED BY <2>2, <3>1, <3>2, <3>4, <4>1 DEF IsLoop
    <3> QED BY <3>3, <3>4
  <2>7. Loop(G, m + 1)
    BY <2>4, <2>5, <2>6 DEF IsLoop
  <2> QED BY <2>7
<1>3. T = Nat
  <2> HIDE DEF T
  <2>1. T \in SUBSET Nat
    BY DEF T
  <2> QED BY <1>1, <1>2, <2>1, NatSetInduction
<1>4. n \in T
  BY <1>3
<1> HIDE DEF Loop
<1>5. \E F : Loop(F, n)
  BY <1>4
<1> QED BY <1>5 DEF Loop

-----------------------------------------------------------------------------
(* Maps. *)

LEMMA PutDomain ==
    ASSUME NEW map, NEW key, NEW value
    PROVE  DOMAIN Put(map, key, value) = DOMAIN map \cup {key}
BY DEF Put

LEMMA RemoveDomain ==
    ASSUME NEW map, NEW key
    PROVE  DOMAIN Remove(map, key) = DOMAIN map \ {key}
BY DEF Remove

-----------------------------------------------------------------------------
(* Sequences. *)

LEMMA AppendElements ==
    ASSUME NEW S, NEW seq \in Seq(S), NEW e \in S
    PROVE  Elements(Append(seq, e)) = Elements(seq) \cup {e}
<1> DEFINE longer == Append(seq, e)
<1>1. /\ DOMAIN seq = 1..Len(seq) /\ Len(seq) \in Nat
      /\ DOMAIN longer = 1..(Len(seq) + 1)
  OBVIOUS
<1>2. longer[Len(seq) + 1] = e
  OBVIOUS
<1>3. \A i \in 1..Len(seq) : longer[i] = seq[i]
  OBVIOUS
<1> HIDE DEF longer
<1>4. ASSUME NEW x \in Elements(longer) PROVE x \in Elements(seq) \cup {e}
  <2>1. PICK i \in 1..(Len(seq) + 1) : x = longer[i]
    BY <1>1, <1>4 DEF Elements
  <2>2. CASE i = Len(seq) + 1
    BY <2>1, <2>2, <1>2
  <2>3. CASE i \in 1..Len(seq)
    BY <2>1, <2>3, <1>1, <1>3 DEF Elements
  <2> QED BY <1>1, <2>1, <2>2, <2>3
<1>5. ASSUME NEW x \in Elements(seq) PROVE x \in Elements(longer)
  <2>1. PICK i \in 1..Len(seq) : x = seq[i]
    BY <1>1, <1>5 DEF Elements
  <2>2. i \in 1..(Len(seq) + 1) /\ longer[i] = x
    BY <1>1, <1>3, <2>1
  <2> QED BY <1>1, <2>2 DEF Elements
<1>6. e \in Elements(longer)
  <2>1. Len(seq) + 1 \in 1..(Len(seq) + 1)
    BY <1>1
  <2> QED BY <1>1, <1>2, <2>1 DEF Elements
<1> QED BY <1>4, <1>5, <1>6 DEF longer

LEMMA ElementReplaced ==
    ASSUME NEW S, NEW seq \in Seq(S), NEW i, NEW e \in S
    PROVE  [seq EXCEPT ![i] = e] \in Seq(S)
<1> DEFINE edited == [seq EXCEPT ![i] = e]
<1>1. Len(seq) \in Nat /\ DOMAIN seq = 1..Len(seq) /\ seq \in [1..Len(seq) -> S]
  OBVIOUS
<1>2. edited \in [1..Len(seq) -> S]
  BY <1>1
<1> HIDE DEF edited
<1>3. edited \in Seq(S)
  BY <1>1, <1>2
<1> QED BY <1>3 DEF edited

\* No element twice.
Injective(seq) == \A i, j \in DOMAIN seq : seq[i] = seq[j] => i = j

LEMMA AppendInjective ==
    ASSUME NEW S, NEW seq \in Seq(S), NEW e \in S,
           Injective(seq), e \notin Elements(seq)
    PROVE  Injective(Append(seq, e))
BY DEF Injective, Elements

\* The function Retain is defined by, a prefix of seq at a time.
KeptStep(seq, out, F, i) ==
    IF i = 0 THEN << >>
    ELSE IF seq[i] \in out THEN F[i - 1]
    ELSE Append(F[i - 1], seq[i])

IsKept(seq, out, n, F) == F = [i \in 0..n |-> KeptStep(seq, out, F, i)]

LEMMA KeptExists ==
    ASSUME NEW seq, NEW out, NEW n \in Nat
    PROVE  \E F : IsKept(seq, out, n, F)
<1> DEFINE T == {m \in Nat : \E F : IsKept(seq, out, m, F)}
<1>1. 0 \in T
  <2>1. IsKept(seq, out, 0, [i \in 0..0 |-> << >>])
    BY DEF IsKept, KeptStep
  <2> QED BY <2>1
<1>2. ASSUME NEW m \in T PROVE m + 1 \in T
  <2>1. PICK F : IsKept(seq, out, m, F)
    OBVIOUS
  <2> DEFINE G == [i \in 0..(m + 1) |->
                      IF i = m + 1 THEN KeptStep(seq, out, F, m + 1) ELSE F[i]]
  <2>2. ASSUME NEW i \in 0..(m + 1) PROVE G[i] = KeptStep(seq, out, G, i)
    <3>1. CASE i = m + 1
      <4>1. G[i - 1] = F[i - 1]
        BY <3>1
      <4> QED BY <3>1, <4>1 DEF KeptStep
    <3>2. CASE i # m + 1 /\ i # 0
      <4>1. i \in 0..m /\ i - 1 \in 0..m /\ i - 1 # m + 1
        BY <3>2
      <4>2. G[i - 1] = F[i - 1] /\ G[i] = F[i]
        BY <3>2, <4>1
      <4>3. F[i] = KeptStep(seq, out, F, i)
        BY <2>1, <4>1 DEF IsKept
      <4> QED BY <4>2, <4>3, <3>2 DEF KeptStep
    <3>3. CASE i = 0
      <4>1. F[0] = KeptStep(seq, out, F, 0)
        BY <2>1 DEF IsKept
      <4>2. G[0] = F[0]
        OBVIOUS
      <4> QED BY <3>3, <4>1, <4>2 DEF KeptStep
    <3> QED BY <3>1, <3>2, <3>3
  <2>3. IsKept(seq, out, m + 1, G)
    <3> HIDE DEF G
    <3>1. G = [i \in 0..(m + 1) |-> G[i]]
      BY DEF G
    <3> QED BY <2>2, <3>1 DEF IsKept
  <2> QED BY <2>3
<1>3. T = Nat
  <2> HIDE DEF T
  <2>1. T \in SUBSET Nat
    BY DEF T
  <2> QED BY <1>1, <1>2, <2>1, NatSetInduction
<1> QED BY <1>3

\* Retain keeps, in their order, the elements that are not in `out`.
LEMMA RetainKept ==
    ASSUME NEW S, NEW seq \in Seq(S), NEW out
    PROVE  \E F : /\ IsKept(seq, out, Len(seq), F)
                  /\ Retain(seq, out) = F[Len(seq)]
<1> DEFINE kept == CHOOSE F : IsKept(seq, out, Len(seq), F)
<1>1. IsKept(seq, out, Len(seq), kept)
  BY KeptExists
<1>2. Retain(seq, out) = kept[Len(seq)]
  BY DEF Retain, IsKept, KeptStep
<1> QED BY <1>1, <1>2

\* What is kept of a prefix of seq.
KeptElements(seq, out, n) == {seq[j] : j \in 1..n} \ out

LEMMA RetainPrefix ==
    ASSUME NEW S, NEW seq \in Seq(S), NEW out, NEW F,
           IsKept(seq, out, Len(seq), F), NEW n \in 0..Len(seq)
    PROVE  /\ F[n] \in Seq(S)
           /\ Elements(F[n]) = KeptElements(seq, out, n)
           /\ Injective(seq) => Injective(F[n])
<1> DEFINE Good(m) == /\ F[m] \in Seq(S)
                      /\ Elements(F[m]) = KeptElements(seq, out, m)
                      /\ Injective(seq) => Injective(F[m])
           T == {m \in Nat : m \in 0..Len(seq) => Good(m)}
<1>0. Len(seq) \in Nat /\ DOMAIN seq = 1..Len(seq)
  OBVIOUS
<1>1. 0 \in T
  <2>1. F[0] = << >>
    BY <1>0 DEF IsKept, KeptStep
  <2>2. Elements(<< >>) = {} /\ KeptElements(seq, out, 0) = {} /\ Injective(<< >>)
    BY DEF Elements, KeptElements, Injective
  <2>3. << >> \in Seq(S)
    OBVIOUS
  <2>4. Good(0)
    BY <2>1, <2>2, <2>3
  <2> QED BY <2>4
<1>2. ASSUME NEW m \in T PROVE m + 1 \in T
  <2> SUFFICES ASSUME m + 1 \in 0..Len(seq) PROVE Good(m + 1)
    OBVIOUS
  <2>1. m \in Nat /\ m \in 0..Len(seq) /\ m + 1 \in 1..Len(seq) /\ m + 1 \in DOMAIN seq
    BY <1>0
  <2>2. Good(m)
    BY <2>1
  <2>3. F[m + 1] = IF seq[m + 1] \in out THEN F[m] ELSE Append(F[m], seq[m + 1])
    <3>1. F[m + 1] = KeptStep(seq, out, F, m + 1)
      BY <2>1 DEF IsKept
    <3> QED BY <2>1, <3>1 DEF KeptStep
  <2>4. KeptElements(seq, out, m + 1) = (KeptElements(seq, out, m) \cup {seq[m + 1]}) \ out
    BY <2>1 DEF KeptElements
  <2>5. seq[m + 1] \in S
    BY <2>1
  <2>6. CASE seq[m + 1] \in out
    <3>1. KeptElements(seq, out, m + 1) = KeptElements(seq, out, m)
      BY <2>4, <2>6 DEF KeptElements
    <3> QED BY <2>2, <2>3, <2>6, <3>1
  <2>7. CASE seq[m + 1] \notin out
    <3>1. F[m + 1] = Append(F[m], seq[m + 1]) /\ F[m + 1] \in Seq(S)
      BY <2>2, <2>3, <2>5, <2>7
    <3>2. Elements(F[m + 1]) = Elements(F[m]) \cup {seq[m + 1]}
      BY <2>2, <2>5, <3>1, AppendElements
    <3>3. KeptElements(seq, out, m + 1) = KeptElements(seq, out, m) \cup {seq[m + 1]}
      BY <2>4, <2>7 DEF KeptElements
    <3>4. Elements(F[m + 1]) = KeptElements(seq, out, m + 1)
      BY <2>2, <3>2, <3>3
    <3>5. ASSUME Injective(seq) PROVE Injective(F[m + 1])
      <4>1. seq[m + 1] \notin KeptElements(seq, out, m)
        <5>1. \A j \in 1..m : seq[j] # seq[m + 1]
          BY <1>0, <2>1, <3>5 DEF Injective
        <5> QED BY <5>1 DEF KeptElements
      <4>2. Injective(F[m]) /\ seq[m + 1] \notin Elements(F[m])
        BY <2>2, <3>5, <4>1
      <4> QED BY <2>2, <2>5, <3>1, <4>2, AppendInjective
    <3> QED BY <3>1, <3>4, <3>5
  <2> QED BY <2>6, <2>7
<1>3. T = Nat
  <2> HIDE DEF T
  <2>1. T \in SUBSET Nat
    BY DEF T
  <2> QED BY <1>1, <1>2, <2>1, NatSetInduction
<1> QED BY <1>0, <1>3

\* Vec::retain: what is left are the elements that are not in `out`, in a sequence
\* of the same type that repeats nothing the sequence did not repeat.
LEMMA RetainFacts ==
    ASSUME NEW S, NEW seq \in Seq(S), NEW out
    PROVE  /\ Retain(seq, out) \in Seq(S)
           /\ Elements(Retain(seq, out)) = Elements(seq) \ out
           /\ Injective(seq) => Injective(Retain(seq, out))
<1>1. PICK F : IsKept(seq, out, Len(seq), F) /\ Retain(seq, out) = F[Len(seq)]
  BY RetainKept
<1>2. Len(seq) \in 0..Len(seq) /\ DOMAIN seq = 1..Len(seq)
  OBVIOUS
<1>3. KeptElements(seq, out, Len(seq)) = Elements(seq) \ out
  BY <1>2 DEF KeptElements, Elements
<1> QED BY <1>1, <1>2, <1>3, RetainPrefix

\* Counting up to n within a set.
LEMMA CountUp ==
    ASSUME NEW n \in Nat, NEW T, 0 \in T,
           \A m \in 0..(n - 1) : m \in T => m + 1 \in T
    PROVE  n \in T
<1> DEFINE U == {m \in Nat : m \in 0..n => m \in T}
<1>1. 0 \in U
  OBVIOUS
<1>2. ASSUME NEW m \in U PROVE m + 1 \in U
  <2>1. m + 1 \in 0..n => m \in 0..(n - 1) /\ m \in 0..n
    OBVIOUS
  <2> QED BY <2>1
<1>3. U = Nat
  <2> HIDE DEF U
  <2>1. U \in SUBSET Nat
    BY DEF U
  <2> QED BY <1>1, <1>2, <2>1, NatSetInduction
<1> QED BY <1>3

\* An invariant of Retain's loop, as the set of the pairs it allows: the number of
\* elements looked at, and what is kept of them.
LEMMA RetainInvariant ==
    ASSUME NEW S, NEW seq \in Seq(S), NEW out, NEW G,
           << 0, << >> >> \in G,
           \A i \in 1..Len(seq), kept \in Seq(S) :
               << i - 1, kept >> \in G =>
                   << i, IF seq[i] \in out THEN kept ELSE Append(kept, seq[i]) >> \in G
    PROVE  << Len(seq), Retain(seq, out) >> \in G
<1>1. PICK F : IsKept(seq, out, Len(seq), F) /\ Retain(seq, out) = F[Len(seq)]
  BY RetainKept
<1> DEFINE T == {m \in 0..Len(seq) : << m, F[m] >> \in G}
<1>2. Len(seq) \in Nat
  OBVIOUS
<1>3. 0 \in T
  BY <1>1, <1>2 DEF IsKept, KeptStep
<1>4. ASSUME NEW m \in 0..(Len(seq) - 1), m \in T PROVE m + 1 \in T
  <2>1. m + 1 \in 1..Len(seq) /\ m + 1 \in 0..Len(seq) /\ (m + 1) - 1 = m /\ m \in 0..Len(seq)
    BY <1>2
  <2>2. F[m] \in Seq(S)
    BY <1>1, <2>1, RetainPrefix
  <2>3. F[m + 1] = IF seq[m + 1] \in out THEN F[m] ELSE Append(F[m], seq[m + 1])
    <3>1. F[m + 1] = KeptStep(seq, out, F, m + 1)
      BY <1>1, <2>1 DEF IsKept
    <3> QED BY <2>1, <3>1 DEF KeptStep
  <2>4. << m + 1, F[m + 1] >> \in G
    BY <1>4, <2>1, <2>2, <2>3
  <2> QED BY <2>1, <2>4
<1>5. Len(seq) \in T
  <2> HIDE DEF T
  <2> QED BY <1>2, <1>3, <1>4, CountUp
<1> QED BY <1>1, <1>5

\* The elements' ranks increase along the sequence.
Increasing(seq, rank) ==
    \A i, j \in DOMAIN seq : i < j => rank[seq[i]] < rank[seq[j]]

\* Appending what ranks above everything in the sequence.
LEMMA AppendIncreasing ==
    ASSUME NEW S, NEW seq \in Seq(S), NEW e \in S, NEW rank, Increasing(seq, rank),
           \A x \in Elements(seq) : rank[x] < rank[e]
    PROVE  Increasing(Append(seq, e), rank)
<1> DEFINE longer == Append(seq, e)
<1>1. /\ DOMAIN seq = 1..Len(seq) /\ Len(seq) \in Nat
      /\ DOMAIN longer = 1..(Len(seq) + 1)
      /\ longer[Len(seq) + 1] = e
      /\ \A i \in 1..Len(seq) : longer[i] = seq[i]
  OBVIOUS
<1> HIDE DEF longer
<1>2. ASSUME NEW i \in DOMAIN longer, NEW j \in DOMAIN longer, i < j
      PROVE  rank[longer[i]] < rank[longer[j]]
  <2>1. i \in 1..Len(seq)
    BY <1>1, <1>2
  <2>2. CASE j \in 1..Len(seq)
    BY <1>1, <1>2, <2>1, <2>2 DEF Increasing
  <2>3. CASE j = Len(seq) + 1
    BY <1>1, <2>1, <2>3 DEF Elements
  <2> QED BY <1>1, <2>2, <2>3
<1> QED BY <1>2 DEF Increasing, longer

\* Vec::retain keeps the order.
LEMMA RetainIncreasing ==
    ASSUME NEW S, NEW seq \in Seq(S), NEW out, NEW rank, Increasing(seq, rank)
    PROVE  Increasing(Retain(seq, out), rank)
<1> DEFINE G == {p \in Nat \X Seq(S) :
                    /\ Increasing(p[2], rank)
                    /\ \A x \in Elements(p[2]) : \E j \in 1..p[1] : x = seq[j]}
<1>1. DOMAIN seq = 1..Len(seq) /\ Len(seq) \in Nat
  OBVIOUS
<1> DEFINE Seen(m, kept) == /\ Increasing(kept, rank)
                            /\ \A x \in Elements(kept) : \E j \in 1..m : x = seq[j]
<1>0. \A m \in Nat, kept \in Seq(S) : << m, kept >> \in G <=> Seen(m, kept)
  OBVIOUS
<1> HIDE DEF G
<1>2. << 0, << >> >> \in G
  <2>1. Seen(0, << >>)
    BY DEF Increasing, Elements
  <2>2. << >> \in Seq(S) /\ 0 \in Nat
    OBVIOUS
  <2> QED BY <1>0, <2>1, <2>2
<1>3. ASSUME NEW i \in 1..Len(seq), NEW kept \in Seq(S), << i - 1, kept >> \in G
      PROVE  << i, IF seq[i] \in out THEN kept ELSE Append(kept, seq[i]) >> \in G
  <2>1. /\ Increasing(kept, rank) /\ i \in Nat /\ seq[i] \in S
        /\ \A x \in Elements(kept) : \E j \in 1..(i - 1) : x = seq[j]
    BY <1>0, <1>1, <1>3
  <2>2. \A x \in Elements(kept) : rank[x] < rank[seq[i]]
    BY <1>1, <2>1 DEF Increasing
  <2>3. \A x \in Elements(kept) : \E j \in 1..i : x = seq[j]
    BY <1>1, <2>1
  <2>4. CASE seq[i] \in out
    BY <1>0, <2>1, <2>3, <2>4
  <2>5. CASE seq[i] \notin out
    <3>1. Increasing(Append(kept, seq[i]), rank)
      BY <2>1, <2>2, AppendIncreasing
    <3>2. Elements(Append(kept, seq[i])) = Elements(kept) \cup {seq[i]}
      BY <2>1, AppendElements
    <3>3. \A x \in Elements(Append(kept, seq[i])) : \E j \in 1..i : x = seq[j]
      BY <1>1, <2>3, <3>2
    <3>4. Append(kept, seq[i]) \in Seq(S)
      BY <2>1
    <3> QED BY <1>0, <2>1, <2>5, <3>1, <3>3, <3>4
  <2> QED BY <2>4, <2>5
<1>4. << Len(seq), Retain(seq, out) >> \in G
  BY <1>2, <1>3, RetainInvariant
<1>5. Len(seq) \in Nat /\ Retain(seq, out) \in Seq(S)
  BY RetainFacts
<1> QED BY <1>0, <1>4, <1>5

\* Vec::retain drops one element at most, where at most one is to go.
LEMMA RetainAllButOne ==
    ASSUME NEW S, NEW seq \in Seq(S), NEW out,
           \A i, j \in DOMAIN seq : seq[i] \in out /\ seq[j] \in out => i = j
    PROVE  Len(Retain(seq, out)) >= Len(seq) - 1
<1> DEFINE G == {p \in Nat \X Seq(S) :
                    /\ Len(p[2]) >= p[1] - 1
                    /\ Len(p[2]) < p[1] => \E j \in 1..p[1] : seq[j] \in out}
<1>1. DOMAIN seq = 1..Len(seq) /\ Len(seq) \in Nat
  OBVIOUS
<1> DEFINE Lost(m, kept) == /\ Len(kept) >= m - 1
                            /\ Len(kept) < m => \E j \in 1..m : seq[j] \in out
<1>0. \A m \in Nat, kept \in Seq(S) : << m, kept >> \in G <=> Lost(m, kept)
  OBVIOUS
<1> HIDE DEF G
<1>2. << 0, << >> >> \in G
  <2>1. Lost(0, << >>)
    OBVIOUS
  <2>2. << >> \in Seq(S) /\ 0 \in Nat
    OBVIOUS
  <2> QED BY <1>0, <2>1, <2>2
<1>3. ASSUME NEW i \in 1..Len(seq), NEW kept \in Seq(S), << i - 1, kept >> \in G
      PROVE  << i, IF seq[i] \in out THEN kept ELSE Append(kept, seq[i]) >> \in G
  <2>1. /\ Len(kept) \in Nat /\ i \in Nat /\ seq[i] \in S
        /\ Len(kept) >= (i - 1) - 1
        /\ Len(kept) < i - 1 => \E j \in 1..(i - 1) : seq[j] \in out
    BY <1>0, <1>1, <1>3
  <2>2. CASE seq[i] \in out
    <3>1. Len(kept) >= i - 1
      BY <1>1, <2>1, <2>2
    <3>2. \E j \in 1..i : seq[j] \in out
      BY <1>1, <2>2
    <3>3. Lost(i, kept)
      BY <2>1, <3>1, <3>2
    <3> QED BY <1>0, <2>1, <2>2, <3>3
  <2>3. CASE seq[i] \notin out
    <3>1. Append(kept, seq[i]) \in Seq(S) /\ Len(Append(kept, seq[i])) = Len(kept) + 1
      BY <2>1
    <3>2. Len(kept) < i - 1 => \E j \in 1..i : seq[j] \in out
      BY <1>1, <2>1
    <3>3. Lost(i, Append(kept, seq[i]))
      BY <2>1, <3>1, <3>2
    <3> QED BY <1>0, <2>1, <2>3, <3>1, <3>3
  <2> QED BY <2>2, <2>3
<1>4. << Len(seq), Retain(seq, out) >> \in G
  BY <1>2, <1>3, RetainInvariant
<1>5. Len(seq) \in Nat /\ Retain(seq, out) \in Seq(S)
  BY RetainFacts
<1> QED BY <1>0, <1>4, <1>5

\* Two sequences of one length, gone through together.
LEMMA RetainTogether ==
    ASSUME NEW S, NEW seq \in Seq(S), NEW out, NEW T, NEW other \in Seq(T), NEW off,
           Len(other) = Len(seq), NEW G,
           << 0, << >>, << >> >> \in G,
           \A i \in 1..Len(seq), kept \in Seq(S), left \in Seq(T) :
               << i - 1, kept, left >> \in G =>
                   << i, IF seq[i] \in out THEN kept ELSE Append(kept, seq[i]),
                      IF other[i] \in off THEN left ELSE Append(left, other[i]) >> \in G
    PROVE  << Len(seq), Retain(seq, out), Retain(other, off) >> \in G
<1>1. PICK F : IsKept(seq, out, Len(seq), F) /\ Retain(seq, out) = F[Len(seq)]
  BY RetainKept
<1>2. PICK H : IsKept(other, off, Len(seq), H) /\ Retain(other, off) = H[Len(seq)]
  BY RetainKept
<1> DEFINE U == {m \in 0..Len(seq) : << m, F[m], H[m] >> \in G}
<1>3. Len(seq) \in Nat
  OBVIOUS
<1>4. 0 \in U
  BY <1>1, <1>2, <1>3 DEF IsKept, KeptStep
<1>5. ASSUME NEW m \in 0..(Len(seq) - 1), m \in U PROVE m + 1 \in U
  <2>1. m + 1 \in 1..Len(seq) /\ m + 1 \in 0..Len(seq) /\ (m + 1) - 1 = m /\ m \in 0..Len(seq)
    BY <1>3
  <2>2. F[m] \in Seq(S)
    BY <1>1, <2>1, RetainPrefix
  <2>3. H[m] \in Seq(T)
    BY <1>2, <2>1, RetainPrefix
  <2>4. /\ F[m + 1] = KeptStep(seq, out, F, m + 1)
        /\ H[m + 1] = KeptStep(other, off, H, m + 1)
    BY <1>1, <1>2, <2>1 DEF IsKept
  <2>5. /\ F[m + 1] = IF seq[m + 1] \in out THEN F[m] ELSE Append(F[m], seq[m + 1])
        /\ H[m + 1] = IF other[m + 1] \in off THEN H[m] ELSE Append(H[m], other[m + 1])
    BY <2>1, <2>4 DEF KeptStep
  <2>6. << m + 1, F[m + 1], H[m + 1] >> \in G
    BY <1>5, <2>1, <2>2, <2>3, <2>5
  <2> QED BY <2>1, <2>6
<1>6. Len(seq) \in U
  <2> HIDE DEF U
  <2> QED BY <1>3, <1>4, <1>5, CountUp
<1> QED BY <1>1, <1>2, <1>6

\* What Retain does with one more element.
LEMMA RetainAppend ==
    ASSUME NEW S, NEW seq \in Seq(S), NEW e \in S, NEW out
    PROVE  Retain(Append(seq, e), out) =
               IF e \in out THEN Retain(seq, out) ELSE Append(Retain(seq, out), e)
<1> DEFINE longer == Append(seq, e)
           n == Len(seq)
<1>1. /\ n \in Nat /\ longer \in Seq(S) /\ Len(longer) = n + 1 /\ longer[n + 1] = e
      /\ \A i \in 1..n : longer[i] = seq[i]
  OBVIOUS
<1> HIDE DEF longer
<1>2. PICK F : IsKept(seq, out, n, F) /\ Retain(seq, out) = F[n]
  BY RetainKept
<1>3. PICK H : IsKept(longer, out, n + 1, H) /\ Retain(longer, out) = H[n + 1]
  BY <1>1, RetainKept
<1> DEFINE U == {m \in 0..n : F[m] = H[m]}
<1>4. 0 \in U
  BY <1>1, <1>2, <1>3 DEF IsKept, KeptStep
<1>5. ASSUME NEW m \in 0..(n - 1), m \in U PROVE m + 1 \in U
  <2>1. /\ m + 1 \in 1..n /\ m + 1 \in 0..n /\ m + 1 \in 0..(n + 1)
        /\ (m + 1) - 1 = m /\ m + 1 # 0
    BY <1>1
  <2>2. F[m + 1] = KeptStep(seq, out, F, m + 1) /\ H[m + 1] = KeptStep(longer, out, H, m + 1)
    BY <1>2, <1>3, <2>1 DEF IsKept
  <2>3. F[m] = H[m] /\ longer[m + 1] = seq[m + 1]
    BY <1>1, <1>5, <2>1
  <2>4. F[m + 1] = H[m + 1]
    BY <2>1, <2>2, <2>3 DEF KeptStep
  <2> QED BY <2>1, <2>4
<1>6. n \in U
  <2> HIDE DEF U
  <2> QED BY <1>1, <1>4, <1>5, CountUp
<1>7. H[n + 1] = KeptStep(longer, out, H, n + 1) /\ (n + 1) - 1 = n /\ n + 1 # 0
  BY <1>1, <1>3 DEF IsKept
<1>8. H[n + 1] = IF e \in out THEN F[n] ELSE Append(F[n], e)
  BY <1>1, <1>6, <1>7 DEF KeptStep
<1> QED BY <1>2, <1>3, <1>8 DEF longer

\* Vec::retain of everything.
LEMMA RetainAll ==
    ASSUME NEW S, NEW seq \in Seq(S), NEW out, \A i \in DOMAIN seq : seq[i] \notin out
    PROVE  Retain(seq, out) = seq
<1> DEFINE Same(m, kept) == Len(kept) = m /\ \A i \in 1..m : kept[i] = seq[i]
           G == {p \in Nat \X Seq(S) : Same(p[1], p[2])}
<1>1. DOMAIN seq = 1..Len(seq) /\ Len(seq) \in Nat
  OBVIOUS
<1>2. \A m \in Nat, kept \in Seq(S) : << m, kept >> \in G <=> Same(m, kept)
  OBVIOUS
<1> HIDE DEF G
<1>3. << 0, << >> >> \in G
  <2>1. Same(0, << >>)
    OBVIOUS
  <2>2. << >> \in Seq(S) /\ 0 \in Nat
    OBVIOUS
  <2> QED BY <1>2, <2>1, <2>2
<1>4. ASSUME NEW i \in 1..Len(seq), NEW kept \in Seq(S), << i - 1, kept >> \in G
      PROVE  << i, IF seq[i] \in out THEN kept ELSE Append(kept, seq[i]) >> \in G
  <2>1. i \in Nat /\ i - 1 \in Nat /\ seq[i] \in S /\ seq[i] \notin out
    BY <1>1
  <2>2. Same(i - 1, kept)
    BY <1>2, <1>4, <2>1
  <2>3. Append(kept, seq[i]) \in Seq(S) /\ Same(i, Append(kept, seq[i]))
    BY <1>1, <2>1, <2>2
  <2> QED BY <1>2, <2>1, <2>3
<1>5. << Len(seq), Retain(seq, out) >> \in G
  BY <1>3, <1>4, RetainInvariant
<1>6. Retain(seq, out) \in Seq(S)
  BY RetainFacts
<1>7. Same(Len(seq), Retain(seq, out))
  BY <1>1, <1>2, <1>5, <1>6
<1> QED BY <1>1, <1>6, <1>7

LEMMA RetainNone ==
    ASSUME NEW out
    PROVE  Retain(<< >>, out) = << >>
<1>1. << >> \in Seq({}) /\ Len(<< >>) = 0
  OBVIOUS
<1>2. PICK F : IsKept(<< >>, out, Len(<< >>), F) /\ Retain(<< >>, out) = F[Len(<< >>)]
  BY <1>1, RetainKept
<1>3. F[0] = << >>
  BY <1>1, <1>2 DEF IsKept, KeptStep
<1> QED BY <1>1, <1>2, <1>3

\* Two elements that stay, stay in their order.
LEMMA RetainPair ==
    ASSUME NEW S, NEW seq \in Seq(S), NEW out,
           NEW j \in DOMAIN seq, NEW k \in DOMAIN seq, j < k,
           seq[j] \notin out, seq[k] \notin out
    PROVE  \E x, y \in DOMAIN Retain(seq, out) :
               x < y /\ Retain(seq, out)[x] = seq[j] /\ Retain(seq, out)[y] = seq[k]
<1> DEFINE One(m, kept) == j <= m => \E x \in DOMAIN kept : kept[x] = seq[j]
           Two(m, kept) == k <= m => \E x, y \in DOMAIN kept :
                                         x < y /\ kept[x] = seq[j] /\ kept[y] = seq[k]
           G == {p \in Nat \X Seq(S) : One(p[1], p[2]) /\ Two(p[1], p[2])}
<1>1. DOMAIN seq = 1..Len(seq) /\ Len(seq) \in Nat /\ j \in Nat /\ k \in Nat /\ 0 < j
  OBVIOUS
<1>2. \A m \in Nat, kept \in Seq(S) : << m, kept >> \in G <=> One(m, kept) /\ Two(m, kept)
  OBVIOUS
<1> HIDE DEF G
<1>3. << 0, << >> >> \in G
  <2>1. One(0, << >>) /\ Two(0, << >>)
    BY <1>1
  <2>2. << >> \in Seq(S) /\ 0 \in Nat
    OBVIOUS
  <2> QED BY <1>2, <2>1, <2>2
<1>4. ASSUME NEW i \in 1..Len(seq), NEW kept \in Seq(S), << i - 1, kept >> \in G
      PROVE  << i, IF seq[i] \in out THEN kept ELSE Append(kept, seq[i]) >> \in G
  <2>1. i \in Nat /\ i - 1 \in Nat /\ seq[i] \in S
    BY <1>1
  <2>2. One(i - 1, kept) /\ Two(i - 1, kept)
    BY <1>2, <1>4, <2>1
  <2>3. CASE seq[i] \in out
    <3>1. j # i /\ k # i
      BY <2>3
    <3>2. One(i, kept) /\ Two(i, kept)
      BY <1>1, <2>1, <2>2, <3>1
    <3> QED BY <1>2, <2>1, <2>3, <3>2
  <2>4. CASE seq[i] \notin out
    <3> DEFINE longer == Append(kept, seq[i])
    <3>1. /\ longer \in Seq(S) /\ Len(kept) \in Nat
          /\ DOMAIN kept = 1..Len(kept) /\ DOMAIN longer = 1..(Len(kept) + 1)
          /\ longer[Len(kept) + 1] = seq[i]
          /\ \A x \in DOMAIN kept : longer[x] = kept[x]
      BY <2>1
    <3> HIDE DEF longer
    <3>2. \A x \in DOMAIN kept : x \in DOMAIN longer /\ x < Len(kept) + 1
      BY <3>1
    <3>3. Len(kept) + 1 \in DOMAIN longer
      BY <3>1
    <3>4. One(i, longer)
      <4>1. CASE j = i
        BY <3>1, <3>3, <4>1
      <4>2. CASE j # i
        BY <1>1, <2>1, <2>2, <3>1, <3>2, <4>2
      <4> QED BY <4>1, <4>2
    <3>5. Two(i, longer)
      <4>1. CASE k = i
        <5>1. PICK x \in DOMAIN kept : kept[x] = seq[j]
          BY <1>1, <2>1, <2>2, <4>1
        <5>2. /\ x \in DOMAIN longer /\ x < Len(kept) + 1 /\ longer[x] = seq[j]
              /\ longer[Len(kept) + 1] = seq[k]
          BY <3>1, <3>2, <4>1, <5>1
        <5> QED BY <3>3, <5>2
      <4>2. CASE k # i
        <5>1. SUFFICES ASSUME k <= i
                       PROVE  \E x, y \in DOMAIN longer :
                                  x < y /\ longer[x] = seq[j] /\ longer[y] = seq[k]
          OBVIOUS
        <5>2. PICK x \in DOMAIN kept, y \in DOMAIN kept :
                  x < y /\ kept[x] = seq[j] /\ kept[y] = seq[k]
          BY <1>1, <2>1, <2>2, <4>2, <5>1
        <5> QED BY <3>1, <3>2, <5>2
      <4> QED BY <4>1, <4>2
    <3>6. << i, longer >> \in G
      BY <1>2, <2>1, <3>1, <3>4, <3>5
    <3> QED BY <2>4, <3>6 DEF longer
  <2> QED BY <2>3, <2>4
<1>5. << Len(seq), Retain(seq, out) >> \in G
  BY <1>3, <1>4, RetainInvariant
<1>6. Retain(seq, out) \in Seq(S)
  BY RetainFacts
<1>7. Two(Len(seq), Retain(seq, out))
  BY <1>1, <1>2, <1>5, <1>6
<1> QED BY <1>1, <1>7

LEMMA SliceFacts ==
    ASSUME NEW S, NEW seq \in Seq(S), NEW m \in Int, NEW n \in Int,
           m \in 1..(Len(seq) + 1), n \in (m - 1)..Len(seq)
    PROVE  /\ SubSeq(seq, m, n) \in Seq(S)
           /\ Len(SubSeq(seq, m, n)) = n - m + 1
           /\ \A p \in 1..(n - m + 1) : SubSeq(seq, m, n)[p] = seq[m + p - 1]
<1>1. Len(seq) \in Nat /\ \A p \in 1..Len(seq) : seq[p] \in S
  OBVIOUS
<1> QED BY <1>1

LEMMA ConcatFacts ==
    ASSUME NEW S, NEW left \in Seq(S), NEW right \in Seq(S)
    PROVE  /\ left \o right \in Seq(S)
           /\ Len(left \o right) = Len(left) + Len(right)
           /\ \A p \in 1..(Len(left) + Len(right)) :
                  (left \o right)[p] =
                      IF p <= Len(left) THEN left[p] ELSE right[p - Len(left)]
OBVIOUS

\* Vec::remove, as the slices before and after the position.
Cut(seq, i) == SubSeq(seq, 1, i - 1) \o SubSeq(seq, i + 1, Len(seq))

LEMMA CutOut ==
    ASSUME NEW S, NEW seq \in Seq(S), NEW i \in DOMAIN seq
    PROVE  /\ Cut(seq, i) \in Seq(S)
           /\ Len(Cut(seq, i)) = Len(seq) - 1
           /\ \A p \in 1..(Len(seq) - 1) :
                  Cut(seq, i)[p] = IF p < i THEN seq[p] ELSE seq[p + 1]
<1> DEFINE left == SubSeq(seq, 1, i - 1)
           right == SubSeq(seq, i + 1, Len(seq))
           n == Len(seq)
<1>1. n \in Nat /\ i \in 1..n
  OBVIOUS
<1>2. \A m, k \in Int : m \in 1..(n + 1) /\ k \in (m - 1)..n =>
          /\ SubSeq(seq, m, k) \in Seq(S)
          /\ Len(SubSeq(seq, m, k)) = k - m + 1
          /\ \A p \in 1..(k - m + 1) : SubSeq(seq, m, k)[p] = seq[m + p - 1]
  BY SliceFacts
<1>3. right = SubSeq(seq, i + 1, n)
  OBVIOUS
<1> HIDE DEF n
<1>4. left \in Seq(S) /\ Len(left) = i - 1 /\ \A p \in 1..(i - 1) : left[p] = seq[p]
  BY <1>1, <1>2
<1>5. /\ right \in Seq(S) /\ Len(right) = n - (i + 1) + 1
      /\ \A p \in 1..(n - (i + 1) + 1) : right[p] = seq[(i + 1) + p - 1]
  <2>1. i + 1 \in Int /\ n \in Int /\ i + 1 \in 1..(n + 1) /\ n \in (i + 1 - 1)..n
    BY <1>1
  <2>2. /\ SubSeq(seq, i + 1, n) \in Seq(S)
        /\ Len(SubSeq(seq, i + 1, n)) = n - (i + 1) + 1
        /\ \A p \in 1..(n - (i + 1) + 1) : SubSeq(seq, i + 1, n)[p] = seq[(i + 1) + p - 1]
    BY <1>2, <2>1
  <2> HIDE DEF right
  <2> QED BY <1>3, <2>2
<1>6. Cut(seq, i) = left \o right
  BY DEF Cut
<1> HIDE DEF left, right
<1>7. /\ Cut(seq, i) \in Seq(S)
      /\ Len(Cut(seq, i)) = Len(left) + Len(right)
      /\ \A p \in 1..(Len(left) + Len(right)) :
             Cut(seq, i)[p] = IF p <= Len(left) THEN left[p] ELSE right[p - Len(left)]
  <2>1. left \in Seq(S) /\ right \in Seq(S)
    BY <1>4, <1>5
  <2> QED BY <1>6, <2>1, ConcatFacts
<1>8. Len(Cut(seq, i)) = n - 1
  BY <1>1, <1>4, <1>5, <1>7
<1>9. ASSUME NEW p \in 1..(n - 1)
      PROVE  Cut(seq, i)[p] = IF p < i THEN seq[p] ELSE seq[p + 1]
  <2>1. p \in Int /\ n \in Int /\ i \in Int /\ 1 <= p /\ p <= n - 1 /\ 1 <= i /\ i <= n
    BY <1>1, <1>9
  <2>2. Cut(seq, i)[p] = IF p <= Len(left) THEN left[p] ELSE right[p - Len(left)]
    <3>1. Len(left) + Len(right) = n - 1
      BY <2>1, <1>4, <1>5
    <3> QED BY <3>1, <1>7
  <2>3. CASE p < i
    BY <2>1, <2>2, <2>3, <1>4
  <2>4. CASE ~(p < i)
    <3>1. /\ p - Len(left) \in 1..(n - (i + 1) + 1)
          /\ (i + 1) + (p - Len(left)) - 1 = p + 1
      BY <2>1, <2>4, <1>4
    <3>2. ~(p <= Len(left))
      BY <2>1, <2>4, <1>4
    <3>3. right[p - Len(left)] = seq[p + 1]
      BY <3>1, <1>5
    <3> QED BY <2>2, <2>4, <3>2, <3>3
  <2> QED BY <2>3, <2>4
<1> QED BY <1>7, <1>8, <1>9 DEF n

LEMMA CutElements ==
    ASSUME NEW S, NEW seq \in Seq(S), NEW i \in DOMAIN seq
    PROVE  Elements(Cut(seq, i)) \subseteq Elements(seq)
<1> DEFINE n == Len(seq)
           cut == Cut(seq, i)
<1>1. /\ cut \in Seq(S) /\ Len(cut) = n - 1
      /\ \A p \in 1..(n - 1) : cut[p] = IF p < i THEN seq[p] ELSE seq[p + 1]
  BY CutOut
<1>2. n \in Nat /\ DOMAIN seq = 1..n
  OBVIOUS
<1> HIDE DEF n, cut
<1>3. DOMAIN cut = 1..(n - 1)
  BY <1>1
<1>4. \A p \in 1..(n - 1) : \E q \in 1..n : cut[p] = seq[q]
  <2> TAKE p \in 1..(n - 1)
  <2>1. p \in 1..n /\ p + 1 \in 1..n
    BY <1>2
  <2> QED BY <2>1, <1>1, <1>2
<1> QED BY <1>2, <1>3, <1>4 DEF Elements, cut

-----------------------------------------------------------------------------
(* Functions made from the end. *)

\* Induction from the end.
LEMMA BackwardInduction ==
    ASSUME NEW m \in Nat, NEW P \in SUBSET (1..m),
           \A j \in 1..m : (\A k \in (j + 1)..m : k \in P) => j \in P
    PROVE  P = 1..m
<1> DEFINE T == {n \in Nat : \A k \in 1..m : k > m - n => k \in P}
<1>1. 0 \in T
  OBVIOUS
<1>2. ASSUME NEW n \in T PROVE n + 1 \in T
  <2>1. n \in Nat /\ \A k \in 1..m : k > m - n => k \in P
    OBVIOUS
  <2> SUFFICES ASSUME NEW k \in 1..m, k > m - (n + 1) PROVE k \in P
    OBVIOUS
  <2>2. \A l \in (k + 1)..m : l \in 1..m /\ l > m - n
    BY <2>1
  <2> QED BY <2>1, <2>2
<1>3. T = Nat
  <2>1. T \in SUBSET Nat
    OBVIOUS
  <2> HIDE DEF T
  <2> QED BY <1>1, <1>2, <2>1, NatSetInduction
<1>4. m \in T
  <2> HIDE DEF T
  <2> QED BY <1>3
<1>5. \A k \in 1..m : k > m - m
  OBVIOUS
<1> QED BY <1>4, <1>5

LaterOnly(step, m, V) ==
    \A j \in 1..m : \A f, g \in [1..m -> V] :
        (\A k \in (j + 1)..m : f[k] = g[k]) => step[<< j, f >>] = step[<< j, g >>]

IsBackward(F, m, V, step) ==
    F \in [1..m -> V] /\ \A j \in 1..m : F[j] = step[<< j, F >>]

\* A function whose value at a place is made from its values at later ones.
LEMMA BackwardExists ==
    ASSUME NEW m \in Nat, NEW V, NEW some \in V, NEW step \in [(1..m) \X [1..m -> V] -> V],
           LaterOnly(step, m, V)
    PROVE  \E F : IsBackward(F, m, V, step)
<1> DEFINE S == [1..m -> V]
           Upto(F, n) == \A j \in 1..m : j > m - n => F[j] = step[<< j, F >>]
           T == {n \in Nat : n <= m => \E F \in S : Upto(F, n)}
<1>1. 0 \in T
  <2>1. [j \in 1..m |-> some] \in S
    OBVIOUS
  <2>2. \A j \in 1..m : ~(j > m - 0)
    OBVIOUS
  <2> QED BY <2>1, <2>2
<1>2. ASSUME NEW n \in T PROVE n + 1 \in T
  <2> HIDE DEF S, Upto
  <2>0. n + 1 \in Nat
    OBVIOUS
  <2> SUFFICES ASSUME n + 1 <= m PROVE \E F \in S : Upto(F, n + 1)
    BY <2>0
  <2> USE DEF S, Upto
  <2>1. n \in Nat /\ n <= m /\ m - n \in 1..m
    OBVIOUS
  <2>2. PICK F \in S : Upto(F, n)
    BY <2>1
  <2> DEFINE i == m - n
             G == [F EXCEPT ![i] = step[<< i, F >>]]
  <2> HIDE DEF T
  <2>3. step[<< i, F >>] \in V
    BY <2>1, <2>2
  <2>4. G \in S
    BY <2>1, <2>2, <2>3
  <2>5. G[i] = step[<< i, F >>] /\ \A k \in 1..m : k # i => G[k] = F[k]
    BY <2>1, <2>2
  <2> HIDE DEF G
  <2>6. ASSUME NEW j \in 1..m, j > m - (n + 1) PROVE G[j] = step[<< j, G >>]
    <3>1. \A k \in (j + 1)..m : k \in 1..m /\ k # i
      BY <2>1, <2>6
    <3>2. \A k \in (j + 1)..m : F[k] = G[k]
      BY <2>5, <3>1
    <3>3. step[<< j, F >>] = step[<< j, G >>]
      BY <2>2, <2>4, <3>2 DEF LaterOnly
    <3>4. CASE j = i
      BY <2>5, <3>3, <3>4
    <3>5. CASE j # i
      <4>1. j > m - n
        BY <2>1, <2>6, <3>5
      <4> QED BY <2>2, <2>5, <3>3, <3>5, <4>1
    <3> QED BY <3>4, <3>5
  <2> QED BY <2>4, <2>6
<1>3. T = Nat
  <2>1. T \in SUBSET Nat
    OBVIOUS
  <2> HIDE DEF T
  <2> QED BY <1>1, <1>2, <2>1, NatSetInduction
<1>4. PICK F \in S : Upto(F, m)
  <2>1. m \in T /\ m <= m
    <3> HIDE DEF T
    <3> QED BY <1>3
  <2> QED BY <2>1
<1>5. \A j \in 1..m : j > m - m
  OBVIOUS
<1> QED BY <1>4, <1>5 DEF IsBackward

\* As many distinct ranks as there are members leave no rank out.
LEMMA RanksFill ==
    ASSUME NEW S, IsFiniteSet(S), NEW rank \in [S -> 0..(Cardinality(S) - 1)],
           \A i, j \in S : rank[i] = rank[j] => i = j
    PROVE  \A p \in 1..Cardinality(S) : \E i \in S : rank[i] = p - 1
<1> DEFINE n == Cardinality(S)
           R == 0..(n - 1)
<1>1. n \in Nat
  BY FS_CardinalityType
<1>2. IsFiniteSet(R) /\ Cardinality(R) = n
  BY <1>1, FS_Interval
<1>3. rank \in Injection(S, R)
  BY DEF Injection, IsInjective
<1>4. rank \in Surjection(S, R)
  <2> HIDE DEF R
  <2> QED BY <1>2, <1>3, FS_Injection
<1>5. ASSUME NEW p \in 1..n PROVE \E i \in S : rank[i] = p - 1
  <2>1. p - 1 \in R
    BY <1>1
  <2> QED BY <1>4, <2>1 DEF Surjection
<1> QED BY <1>5
=============================================================================
