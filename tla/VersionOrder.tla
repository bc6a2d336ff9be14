---------------------------- MODULE VersionOrder ----------------------------
(***************************************************************************)
(* The order of migration file names (version.rs).  A name is a sequence   *)
(* of characters; a number is read by the values of its digits and must    *)
(* fit MaxSegment, as a u64 does.                                          *)
(***************************************************************************)
EXTENDS Integers, Sequences

CONSTANT MaxSegment     \* stands for u64::MAX

\* The characters, in byte order.
Characters == << ".", "0", "1", "2", "9", "V", "_", "x" >>

Byte(c) == CHOOSE i \in DOMAIN Characters : Characters[i] = c

Prefixes == {"V"}       \* V, U and B of either case

Digits == [c \in {"0", "1", "2", "9"} |->
              CASE c = "0" -> 0 [] c = "1" -> 1 [] c = "2" -> 2 [] OTHER -> 9]

IsDigit(name, i) == i \in DOMAIN name /\ name[i] \in DOMAIN Digits

-----------------------------------------------------------------------------
(* parse_version. *)

Unversioned == << >>

DigitsEnd(name, i) ==
    CHOOSE j \in i..(Len(name) + 1) :
        ~IsDigit(name, j) /\ \A k \in i..(j - 1) : IsDigit(name, k)

Number(name, i, j) ==
    LET upto[k \in (i - 1)..(j - 1)] ==
            IF k < i THEN 0 ELSE 10 * upto[k - 1] + Digits[name[k]]
    IN  upto[j - 1]

\* The separator at j is followed by another segment.
Continues(name, j) ==
    j \in DOMAIN name /\ name[j] \in {"_", "."} /\ IsDigit(name, j + 1)

\* The segments of the version, none of them over `limit`.
SegmentsUpTo(name, limit) ==
    LET first == IF name # << >> /\ name[1] \in Prefixes THEN 2 ELSE 1
        from[i \in 1..(Len(name) + 1)] ==
            LET j == DigitsEnd(name, i)
                segment == << Number(name, i, j) >>
            IN  IF j = i \/ segment[1] > limit THEN Unversioned
                ELSE IF ~Continues(name, j) THEN segment
                ELSE IF from[j + 1] = Unversioned THEN Unversioned
                ELSE segment \o from[j + 1]
    IN  from[first]

\* Fault: sub-versions are left to the tie-breaker.
ParseFirstSegment(name) ==
    LET segments == SegmentsUpTo(name, MaxSegment)
    IN  IF segments = Unversioned THEN Unversioned ELSE << segments[1] >>

ParseVersion(name) == SegmentsUpTo(name, MaxSegment)

-----------------------------------------------------------------------------
(* compare. *)

\* Vec's and str's order: the first difference decides, then the length.
LexOrder(s, t) ==
    LET differ == {i \in DOMAIN s \cap DOMAIN t : s[i] # t[i]}
        first == CHOOSE i \in differ : \A j \in differ : i <= j
    IN  IF differ # {} THEN IF s[first] < t[first] THEN -1 ELSE 1
        ELSE IF Len(s) < Len(t) THEN -1
        ELSE IF Len(s) > Len(t) THEN 1 ELSE 0

TextOrder(a, b) ==
    LexOrder([i \in DOMAIN a |-> Byte(a[i])], [i \in DOMAIN b |-> Byte(b[i])])

ThenWith(order, tie) == IF order # 0 THEN order ELSE tie

\* Fault: names of one version are equal.
CompareVersionsOnly(a, b) ==
    LET va == ParseVersion(a)
        vb == ParseVersion(b)
    IN  CASE va # Unversioned /\ vb # Unversioned -> LexOrder(va, vb)
          [] va # Unversioned /\ vb = Unversioned -> -1
          [] va = Unversioned /\ vb # Unversioned -> 1
          [] OTHER -> TextOrder(a, b)

\* -1, 0 and 1 are Less, Equal and Greater.
Compare(a, b) ==
    LET va == ParseVersion(a)
        vb == ParseVersion(b)
    IN  CASE va # Unversioned /\ vb # Unversioned -> ThenWith(LexOrder(va, vb), TextOrder(a, b))
          [] va # Unversioned /\ vb = Unversioned -> -1
          [] va = Unversioned /\ vb # Unversioned -> 1
          [] OTHER -> TextOrder(a, b)

\* The key Compare spares its callers: rank, segments, name.
SortKey(name) ==
    [ rank |-> IF ParseVersion(name) = Unversioned THEN 1 ELSE 0,
      segments |-> ParseVersion(name), name |-> name ]

KeyOrder(k, l) ==
    ThenWith(LexOrder(<< k.rank >>, << l.rank >>),
             ThenWith(LexOrder(k.segments, l.segments), TextOrder(k.name, l.name)))
=============================================================================
