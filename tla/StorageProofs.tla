----------------------------- MODULE StorageProofs -----------------------------
(***************************************************************************)
(* Theorems about Storage, for payloads of any size, bodies of any length  *)
(* and fields of any width.  Three invariants, each on top of the one      *)
(* before it:                                                              *)
(*                                                                         *)
(* StorageInv: what has been read at each field, and that every level read *)
(* took three units.                                                       *)
(*                                                                         *)
(* TakenInv: the units before offset are what encode_body makes of the     *)
(* header fields and levels read so far, so that at the end the body is    *)
(* the encoding of the payload read.                                       *)
(*                                                                         *)
(* WrittenInv: of a body encoded from a payload, what has been read agrees *)
(* with that payload, so that the next field is there and is accepted.     *)
(*                                                                         *)
(* The levels of a body are flattened by the recursion of FlattenSeq; what *)
(* is needed of it (FlattenIs, EncodedNext) comes from the prefixes it     *)
(* sums up, by taking a least index at which two such tables differ.       *)
(***************************************************************************)
EXTENDS Storage, SequenceTheorems, WellFoundedInduction, TLAPS

-----------------------------------------------------------------------------
\* Flattening.

Units == Seq(Nat)

LEMMA UnitsAssociate ==
    ASSUME NEW a \in Seq(Nat), NEW b \in Seq(Nat), NEW c \in Seq(Nat)
    PROVE  (a \o b) \o c = a \o (b \o c)
  BY ConcatAssociative, SMTT(40)

LEMMA SubSeqOfOne ==
    ASSUME NEW s \in Seq(Nat), NEW i \in 1..Len(s)
    PROVE  SubSeq(s, i, i) = <<s[i]>>
  <1>1. i \in i..Len(s) /\ i - 1 < i /\ i \in Int /\ i - 1 \in Int
    OBVIOUS
  <1>2. SubSeq(s, i, i) = SubSeq(s, i, i - 1) \o <<s[i]>>
    BY <1>1, SubSeqRecursiveSecond
  <1>3. SubSeq(s, i, i - 1) = <<>>
    BY <1>1, SubSeqEmpty
  <1>4. <<s[i]>> \in Seq(Nat)
    OBVIOUS
  <1> QED
    BY <1>2, <1>3, <1>4, ConcatEmptySeq

LEMMA TwoUnits ==
    ASSUME NEW a \in Nat, NEW b \in Nat
    PROVE  <<a>> \o <<b>> = <<a, b>>
  <1> DEFINE s == <<a>> \o <<b>>
             t == <<a, b>>
  <1>1. <<a>> \in Seq(Nat) /\ <<b>> \in Seq(Nat) /\ Len(<<a>>) = 1 /\ Len(<<b>>) = 1
    OBVIOUS
  <1>2. s \in Seq(Nat) /\ Len(s) = 2 /\ s[1] = a /\ s[2] = b
    BY <1>1, ConcatProperties
  <1>3. t \in Seq(Nat) /\ Len(t) = 2 /\ t[1] = a /\ t[2] = b
    OBVIOUS
  <1> HIDE DEF s, t
  <1>4. \A i \in 1..Len(s) : s[i] = t[i]
    BY <1>2, <1>3
  <1>5. s = t
    BY <1>2, <1>3, <1>4, SeqEqual
  <1> QED
    BY <1>5 DEF s, t

LEMMA PrefixUnits ==
    ASSUME NEW s \in Seq(Nat), NEW t \in Seq(Nat)
    PROVE  Len(s \o t) = Len(s) + Len(t) /\ \A i \in 1..Len(s) : (s \o t)[i] = s[i]
  BY ConcatProperties

LEMMA SuffixUnits ==
    ASSUME NEW s \in Seq(Nat), NEW t \in Seq(Nat), NEW i \in 1..Len(t)
    PROVE  (s \o t)[Len(s) + i] = t[i]
  BY ConcatProperties

LEMMA SeqOfLarger ==
    ASSUME NEW R, NEW Q, R \subseteq Q, NEW s \in Seq(R)
    PROVE  s \in Seq(Q) /\ \A k \in 1..Len(s) : s[k] \in R
  OBVIOUS

\* A set of natural numbers that is not empty has a least element.
LEMMA LeastExists ==
    ASSUME NEW S, S \subseteq Nat, S # {}
    PROVE  \E m \in S : \A k \in S : m <= k
  <1>1. PICK m \in S : \A k \in S : ~(<<k, m>> \in OpToRel(<, Nat))
    BY NatLessThanWellFounded, WFMin, Zenon
  <1>2. ASSUME NEW k \in S, ~(m <= k)
        PROVE  FALSE
    <2>1. k < m /\ k \in Nat /\ m \in Nat
      BY <1>2
    <2> QED
      BY <1>1, <2>1 DEF OpToRel
  <1> QED
    BY <1>2

\* f[i] is the concatenation of the first i sequences of s, up to the n-th.
IsParts(f, s, n) ==
    /\ f \in [0..n -> Units]
    /\ f[0] = <<>>
    /\ \A i \in 1..n : f[i] = f[i - 1] \o s[i]

\* There are such parts of s: the least number of sequences without them would get
\* them from those of one sequence less.
LEMMA PartsExist ==
    ASSUME NEW s \in Seq(Units)
    PROVE  \E f : IsParts(f, s, Len(s))
  <1> DEFINE missing == {n \in 0..Len(s) : ~\E f : IsParts(f, s, n)}
  <1>1. Len(s) \in Nat /\ \A i \in 1..Len(s) : s[i] \in Units
    OBVIOUS
  <1>2. ASSUME missing # {}
        PROVE  FALSE
    <2>1. missing \subseteq Nat
      BY <1>1
    <2> HIDE DEF missing
    <2>2. PICK n \in missing : \A k \in missing : n <= k
      BY <1>2, <2>1, LeastExists
    <2>3. n \in 0..Len(s) /\ ~\E f : IsParts(f, s, n)
      BY DEF missing
    <2>4. n \in Nat
      BY <2>3
    <2>5. CASE n = 0
      <3> DEFINE f == [i \in 0..0 |-> <<>>]
      <3>1. f \in [0..n -> Units] /\ f[0] = <<>> /\ 1..n = {}
        BY <2>5 DEF Units
      <3>2. IsParts(f, s, n)
        BY <3>1, Zenon DEF IsParts
      <3> QED
        BY <2>3, <3>2, Zenon
    <2>6. CASE n # 0
      <3>1. n - 1 \in 0..Len(s) /\ ~(n <= n - 1) /\ n \in 1..Len(s)
        BY <1>1, <2>3, <2>4, <2>6
      <3>2. n - 1 \notin missing
        BY <2>2, <3>1
      <3>3. PICK f : IsParts(f, s, n - 1)
        BY <3>1, <3>2 DEF missing
      <3>4. /\ f \in [0..n - 1 -> Units] /\ f[0] = <<>>
            /\ \A i \in 1..n - 1 : f[i] = f[i - 1] \o s[i]
        BY <3>3, Zenon DEF IsParts
      <3> DEFINE g == [i \in 0..n |-> IF i = n THEN f[n - 1] \o s[n] ELSE f[i]]
      <3>5. s[n] \in Units /\ f[n - 1] \in Units
        BY <1>1, <2>4, <2>6, <3>1, <3>4
      <3>6. f[n - 1] \o s[n] \in Units
        BY <3>5 DEF Units
      <3>7. g \in [0..n -> Units]
        <4>1. ASSUME NEW i \in 0..n, i # n
              PROVE  f[i] \in Units
          <5>1. i \in 0..n - 1
            BY <2>4, <4>1
          <5> QED
            BY <3>4, <5>1
        <4> QED
          BY <3>6, <4>1
      <3>8. g[0] = <<>>
        BY <2>4, <2>6, <3>4
      <3>9. ASSUME NEW i \in 1..n
            PROVE  g[i] = g[i - 1] \o s[i]
        <4>1. i - 1 \in 0..n /\ i - 1 # n /\ i \in 0..n /\ (i # n => i \in 1..n - 1)
          BY <2>4
        <4>2. g[i - 1] = f[i - 1]
          BY <4>1
        <4>3. CASE i = n
          BY <4>1, <4>2, <4>3
        <4>4. CASE i # n
          BY <3>4, <4>1, <4>2, <4>4
        <4> QED
          BY <4>3, <4>4
      <3> HIDE DEF g
      <3>10. IsParts(g, s, n)
        BY <3>7, <3>8, <3>9, Zenon DEF IsParts
      <3> QED
        BY <2>3, <3>10, Zenon
    <2> QED
      BY <2>5, <2>6
  <1>3. Len(s) \in 0..Len(s)
    BY <1>1
  <1> QED
    BY <1>2, <1>3

\* Lists that begin with the same sequences have the same first parts.
LEMMA PartsAgree ==
    ASSUME NEW s, NEW t, NEW f, NEW g, NEW n \in Nat, NEW m \in Nat, n <= m,
           IsParts(f, s, n), IsParts(g, t, m), \A i \in 1..n : s[i] = t[i]
    PROVE  \A i \in 0..n : f[i] = g[i]
  <1> DEFINE differ == {i \in 0..n : f[i] # g[i]}
  <1>1. ASSUME differ # {}
        PROVE  FALSE
    <2>1. differ \subseteq Nat /\ \A i \in differ : i \in 0..n /\ f[i] # g[i]
      OBVIOUS
    <2>2. \A i \in 0..n : i \notin differ => f[i] = g[i]
      OBVIOUS
    <2> HIDE DEF differ
    <2>3. PICK i \in differ : \A j \in differ : i <= j
      BY <1>1, <2>1, LeastExists
    <2>4. i \in 0..n /\ f[i] # g[i]
      BY <2>1
    <2>5. i # 0
      BY <2>4 DEF IsParts
    <2>6. i \in 1..n /\ i - 1 \in 0..n /\ ~(i <= i - 1) /\ i \in 1..m
      BY <2>4, <2>5
    <2>7. f[i - 1] = g[i - 1]
      BY <2>2, <2>3, <2>6
    <2>8. f[i] = f[i - 1] \o s[i] /\ g[i] = g[i - 1] \o t[i] /\ s[i] = t[i]
      BY <2>6, Zenon DEF IsParts
    <2> QED
      BY <2>4, <2>7, <2>8
  <1> QED
    BY <1>1

\* The last part is the list flattened.
LEMMA FlattenIs ==
    ASSUME NEW s \in Seq(Units), NEW f, IsParts(f, s, Len(s))
    PROVE  FlattenSeq(s) = f[Len(s)]
  <1> DEFINE n == Len(s)
  <1>1. n \in Nat /\ \A i \in 1..n : s[i] \in Units
    OBVIOUS
  <1>2. f[0] = <<>> /\ \A i \in 1..n : f[i] = f[i - 1] \o s[i]
    BY Zenon DEF IsParts
  <1>3. CASE n = 0
    <2>1. s = <<>> /\ Len(s) = 0
      BY <1>3
    <2>2. FlattenSeq(s) = s
      BY <2>1, Zenon DEF FlattenSeq
    <2> QED
      BY <1>2, <1>3, <2>1, <2>2
  <1>4. CASE n # 0
    <2> DEFINE Rec(g) == g = [i \in 1..n |-> IF i = 1 THEN s[i] ELSE g[i - 1] \o s[i]]
               h == CHOOSE g : Rec(g)
               f1 == [i \in 1..n |-> f[i]]
    <2>1. FlattenSeq(s) = h[n]
      <3>1. ~(Len(s) = 0)
        BY <1>4
      <3> QED
        BY <3>1, Zenon DEF FlattenSeq
    <2>2. 1 \in 1..n /\ n \in 1..n
      BY <1>1, <1>4
    <2>3. f[1] = s[1]
      <3>1. f[1] = f[0] \o s[1]
        <4>1. f[1] = f[1 - 1] \o s[1]
          BY <1>2, <2>2
        <4> QED
          BY <4>1
      <3>2. <<>> \o s[1] = s[1]
        BY <1>1, <2>2 DEF Units
      <3> QED
        BY <1>2, <3>1, <3>2
    <2>4. \A i \in 1..n : i # 1 => i - 1 \in 1..n
      BY <1>1
    <2>5. Rec(f1)
      <3>1. ASSUME NEW i \in 1..n
            PROVE  f1[i] = IF i = 1 THEN s[i] ELSE f1[i - 1] \o s[i]
        <4>1. CASE i = 1
          BY <2>2, <2>3, <4>1
        <4>2. CASE i # 1
          BY <1>2, <2>4, <4>2
        <4> QED
          BY <4>1, <4>2
      <3>2. f1 = [i \in 1..n |-> f1[i]]
        BY Zenon
      <3> HIDE DEF f1
      <3> QED
        BY <3>1, <3>2
    <2>6. Rec(h)
      <3> HIDE DEF f1, Rec
      <3> QED
        BY <2>5
    <2> HIDE DEF h
    <2>7. \A i \in 1..n : h[i] = IF i = 1 THEN s[i] ELSE h[i - 1] \o s[i]
      BY <2>6
    <2> DEFINE differ == {i \in 1..n : h[i] # f[i]}
    <2>8. ASSUME differ # {}
          PROVE  FALSE
      <3>1. differ \subseteq Nat /\ \A i \in differ : i \in 1..n /\ h[i] # f[i]
        BY <1>1
      <3>2. \A i \in 1..n : i \notin differ => h[i] = f[i]
        OBVIOUS
      <3> HIDE DEF differ
      <3>3. PICK i \in differ : \A j \in differ : i <= j
        BY <2>8, <3>1, LeastExists
      <3>4. i \in 1..n /\ h[i] # f[i]
        BY <3>1
      <3>5. i # 1
        BY <2>3, <2>7, <3>4
      <3>6. i - 1 \in 1..n /\ ~(i <= i - 1)
        BY <1>1, <2>4, <3>4, <3>5
      <3>7. h[i - 1] = f[i - 1]
        BY <3>2, <3>3, <3>6
      <3> QED
        BY <1>2, <2>7, <3>4, <3>5, <3>7
    <2>9. h[n] = f[n]
      BY <2>2, <2>8
    <2> QED
      BY <2>1, <2>9
  <1> QED
    BY <1>3, <1>4


-----------------------------------------------------------------------------
\* The encoding of a payload.

EncodedUnits(levels, n) == [k \in 1..n |-> EncodeLevel(levels[k])]

\* What the first n levels are encoded to.
Encoded(levels, n) == FlattenSeq(EncodedUnits(levels, n))

\* What precedes the levels: the SRID is there when the flag says so.
HeaderOf(id, n) ==
    <<Magic, Version, IF id = NoSrid THEN 0 ELSE 1, 0, n>>
    \o (IF id = NoSrid THEN <<>> ELSE <<id>>)

\* Each level encoded is appended to those before it.
LEMMA EncodedParts ==
    ASSUME NEW levels, NEW m \in Nat, \A k \in 1..m : EncodeLevel(levels[k]) \in Units
    PROVE  \E f : /\ f \in [0..m -> Units]
                  /\ f[0] = <<>>
                  /\ \A i \in 1..m : f[i] = f[i - 1] \o EncodeLevel(levels[i])
                  /\ \A n \in 0..m : Encoded(levels, n) = f[n]
  <1> DEFINE s(n) == EncodedUnits(levels, n)
  <1>1. ASSUME NEW n \in 0..m
        PROVE  s(n) \in Seq(Units) /\ Len(s(n)) = n /\ \A k \in 1..n : s(n)[k] = EncodeLevel(levels[k])
    <2>1. n \in Nat /\ \A k \in 1..n : k \in 1..m
      OBVIOUS
    <2>2. \A k \in 1..n : EncodeLevel(levels[k]) \in Units
      BY <2>1
    <2> QED
      BY <2>1, <2>2 DEF EncodedUnits
  <1>2. m \in 0..m
    OBVIOUS
  <1> HIDE DEF s
  <1>3. PICK f : IsParts(f, s(m), m)
    BY <1>1, <1>2, PartsExist
  <1>4. ASSUME NEW n \in 0..m
        PROVE  Encoded(levels, n) = f[n]
    <2>1. PICK g : IsParts(g, s(n), n)
      BY <1>1, PartsExist
    <2>2. n \in Nat /\ n <= m /\ n \in 0..n
      OBVIOUS
    <2>3. \A k \in 1..n : s(n)[k] = s(m)[k]
      BY <1>1, <1>2, <2>2
    <2>4. g[n] = f[n]
      BY <1>3, <2>1, <2>2, <2>3, PartsAgree
    <2>5. FlattenSeq(s(n)) = g[n]
      BY <1>1, <2>1, FlattenIs
    <2> QED
      BY <2>4, <2>5 DEF Encoded, s
  <1>5. /\ f \in [0..m -> Units]
        /\ f[0] = <<>>
        /\ \A i \in 1..m : f[i] = f[i - 1] \o EncodeLevel(levels[i])
    <2>1. \A i \in 1..m : s(m)[i] = EncodeLevel(levels[i])
      BY <1>1, <1>2
    <2> QED
      BY <1>3, <2>1, Zenon DEF IsParts
  <1> QED
    BY <1>4, <1>5

LEMMA EncodedNext ==
    ASSUME NEW levels, NEW n \in Nat, \A k \in 1..n + 1 : EncodeLevel(levels[k]) \in Units
    PROVE  /\ Encoded(levels, n) \in Units
           /\ Encoded(levels, n + 1) = Encoded(levels, n) \o EncodeLevel(levels[n + 1])
  <1>1. n + 1 \in Nat /\ n \in 0..n + 1 /\ n + 1 \in 0..n + 1 /\ n + 1 \in 1..n + 1 /\ (n + 1) - 1 = n
    OBVIOUS
  <1>2. PICK f : /\ f \in [0..n + 1 -> Units]
                 /\ f[0] = <<>>
                 /\ \A i \in 1..n + 1 : f[i] = f[i - 1] \o EncodeLevel(levels[i])
                 /\ \A i \in 0..n + 1 : Encoded(levels, i) = f[i]
    BY <1>1, EncodedParts
  <1> QED
    BY <1>1, <1>2

LEMMA EncodedNothing ==
    ASSUME NEW levels
    PROVE  Encoded(levels, 0) = <<>>
  <1>1. EncodedUnits(levels, 0) = <<>>
    BY DEF EncodedUnits
  <1>2. FlattenSeq(<<>>) = <<>>
    <2>1. Len(<<>>) = 0
      OBVIOUS
    <2> QED
      BY <2>1, Zenon DEF FlattenSeq
  <1> QED
    BY <1>1, <1>2 DEF Encoded

\* The encoding of all levels begins with that of the first ones.
LEMMA EncodedSplit ==
    ASSUME NEW levels, NEW m \in Nat, NEW n \in 0..m, \A k \in 1..m : EncodeLevel(levels[k]) \in Units
    PROVE  /\ Encoded(levels, n) \in Units
           /\ Encoded(levels, m) \in Units
           /\ \E rest \in Units : Encoded(levels, m) = Encoded(levels, n) \o rest
  <1>1. PICK f : /\ f \in [0..m -> Units]
                 /\ f[0] = <<>>
                 /\ \A i \in 1..m : f[i] = f[i - 1] \o EncodeLevel(levels[i])
                 /\ \A i \in 0..m : Encoded(levels, i) = f[i]
    BY EncodedParts
  <1> DEFINE Follows(i) == \E rest \in Units : f[i] = f[n] \o rest
             without == {i \in n..m : ~Follows(i)}
  <1>2. ASSUME without # {}
        PROVE  FALSE
    <2>1. without \subseteq Nat /\ \A i \in without : i \in n..m /\ ~Follows(i)
      OBVIOUS
    <2>2. \A i \in n..m : i \notin without => Follows(i)
      OBVIOUS
    <2> HIDE DEF without, Follows
    <2>3. PICK i \in without : \A j \in without : i <= j
      BY <1>2, <2>1, LeastExists
    <2>4. i \in n..m /\ ~Follows(i)
      BY <2>1
    <2>5. i # n
      <3>1. f[n] = f[n] \o <<>> /\ <<>> \in Units
        BY <1>1, ConcatEmptySeq DEF Units
      <3>2. Follows(n)
        BY <3>1 DEF Follows
      <3> QED
        BY <2>4, <3>2
    <2>6. i - 1 \in n..m /\ ~(i <= i - 1) /\ i \in 1..m
      BY <2>4, <2>5
    <2>7. Follows(i - 1)
      BY <2>2, <2>3, <2>6
    <2>8. PICK rest \in Units : f[i - 1] = f[n] \o rest
      BY <2>7 DEF Follows
    <2>9. f[i] = f[n] \o (rest \o EncodeLevel(levels[i]))
      <3>1. f[i] = (f[n] \o rest) \o EncodeLevel(levels[i])
        BY <1>1, <2>6, <2>8
      <3>2. f[n] \in Seq(Nat) /\ EncodeLevel(levels[i]) \in Seq(Nat) /\ rest \in Seq(Nat)
        BY <1>1, <2>6 DEF Units
      <3>3. (f[n] \o rest) \o EncodeLevel(levels[i]) = f[n] \o (rest \o EncodeLevel(levels[i]))
        <4> DEFINE a == f[n]
                   c == EncodeLevel(levels[i])
        <4>1. a \in Seq(Nat) /\ rest \in Seq(Nat) /\ c \in Seq(Nat)
          BY <3>2
        <4> HIDE DEF a, c
        <4>2. (a \o rest) \o c = a \o (rest \o c)
          BY <4>1, UnitsAssociate
        <4> QED
          BY <4>2 DEF a, c
      <3> QED
        BY <3>1, <3>3
    <2>10. rest \o EncodeLevel(levels[i]) \in Units
      BY <2>6, <2>8, ConcatProperties DEF Units
    <2> QED
      BY <2>4, <2>9, <2>10 DEF Follows
  <1>3. m \in n..m /\ n \in 0..m /\ m \in 0..m
    OBVIOUS
  <1>4. Follows(m)
    BY <1>2, <1>3
  <1> QED
    BY <1>1, <1>3, <1>4

\* A level takes three units at least.
LEMMA EncodedLength ==
    ASSUME NEW levels, NEW m \in Nat,
           \A k \in 1..m : EncodeLevel(levels[k]) \in Units /\ Len(EncodeLevel(levels[k])) >= 3
    PROVE  Len(Encoded(levels, m)) >= 3 * m
  <1>1. PICK f : /\ f \in [0..m -> Units]
                 /\ f[0] = <<>>
                 /\ \A i \in 1..m : f[i] = f[i - 1] \o EncodeLevel(levels[i])
                 /\ \A i \in 0..m : Encoded(levels, i) = f[i]
    BY EncodedParts
  <1> DEFINE short == {i \in 0..m : ~(Len(f[i]) >= 3 * i)}
  <1>2. ASSUME short # {}
        PROVE  FALSE
    <2>1. short \subseteq Nat /\ \A i \in short : i \in 0..m /\ ~(Len(f[i]) >= 3 * i)
      OBVIOUS
    <2>2. \A i \in 0..m : i \notin short => Len(f[i]) >= 3 * i
      OBVIOUS
    <2> HIDE DEF short
    <2>3. PICK i \in short : \A j \in short : i <= j
      BY <1>2, <2>1, LeastExists
    <2>4. i \in 0..m /\ ~(Len(f[i]) >= 3 * i)
      BY <2>1
    <2>5. i # 0
      BY <1>1, <2>4
    <2>6. i - 1 \in 0..m /\ ~(i <= i - 1) /\ i \in 1..m
      BY <2>4, <2>5
    <2>7. Len(f[i - 1]) >= 3 * (i - 1)
      BY <2>2, <2>3, <2>6
    <2>8. Len(f[i]) = Len(f[i - 1]) + Len(EncodeLevel(levels[i]))
      <3>1. f[i] = f[i - 1] \o EncodeLevel(levels[i]) /\ f[i - 1] \in Seq(Nat) /\ EncodeLevel(levels[i]) \in Seq(Nat)
        BY <1>1, <2>6 DEF Units
      <3> QED
        BY <3>1, ConcatProperties
    <2>9. Len(EncodeLevel(levels[i])) \in Nat /\ Len(EncodeLevel(levels[i])) >= 3
      BY <2>6 DEF Units
    <2>10. Len(f[i - 1]) \in Nat
      BY <1>1, <2>6 DEF Units
    <2>11. i \in Nat
      BY <2>6
    <2> DEFINE new == Len(f[i])
               old == Len(f[i - 1])
               level == Len(EncodeLevel(levels[i]))
    <2>12. /\ ~(new >= 3 * i) /\ old >= 3 * (i - 1) /\ new = old + level
           /\ level \in Nat /\ level >= 3 /\ old \in Nat
      BY <2>4, <2>7, <2>8, <2>9, <2>10
    <2> HIDE DEF new, old, level
    <2> QED
      BY <2>11, <2>12
  <1>3. m \in 0..m
    OBVIOUS
  <1> QED
    BY <1>1, <1>2, <1>3

-----------------------------------------------------------------------------
\* What can be built and written.

Payload == [srid : Nat \cup {NoSrid}, levels : Seq([alpha : Nat, ewkb : Seq(Nat)])]

\* A u32 field holds numbers up to its limit unchanged.
LEMMA U32Fits ==
    ASSUME NEW n \in Nat
    PROVE  AsU32(n) \in Nat /\ (n <= MaxU32 => AsU32(n) = n)
  BY PayloadAssumption DEF AsU32

\* A payload given to the constructor is one of well-formed levels.
LEMMA WrittenPayload ==
    ASSUME NEW v \in Payloads
    PROVE  v \in Payload /\ \A k \in 1..Len(v.levels) : v.levels[k].alpha \in AlphaUnits
  <1> DEFINE R == [alpha : AlphaUnits, ewkb : Seq(Nat)]
             s == v.levels
  <1>1. v \in [srid : Nat \cup {NoSrid}, levels : Seq(R)]
    BY StorageAssumption
  <1>2. s \in Seq(R) /\ v.srid \in Nat \cup {NoSrid} /\ v = [srid |-> v.srid, levels |-> s]
    BY <1>1
  <1>3. R \subseteq [alpha : Nat, ewkb : Seq(Nat)] /\ \A l \in R : l.alpha \in AlphaUnits
    BY StorageAssumption
  <1> HIDE DEF R, s
  <1>4. s \in Seq([alpha : Nat, ewkb : Seq(Nat)]) /\ \A k \in 1..Len(s) : s[k] \in R
    BY <1>2, <1>3, SeqOfLarger
  <1> QED
    BY <1>2, <1>3, <1>4 DEF Payload, s

\* The bytes of a level that is let through fit its length field.
LEMMA StoredLevelBytes ==
    ASSUME NEW ewkb \in Seq(Nat), StoredLevelError(ewkb) = "None"
    PROVE  Len(ewkb) >= 1 /\ AsU32(Len(ewkb)) = Len(ewkb)
  <1>1. Len(ewkb) \in 1..MaxU32
    BY PayloadAssumption DEF StoredLevelError
  <1>2. Len(ewkb) \in Nat /\ Len(ewkb) >= 1 /\ Len(ewkb) <= MaxU32
    BY <1>1, PayloadAssumption
  <1> QED
    BY <1>2, U32Fits

LEMMA LevelUnits ==
    ASSUME NEW l, l.alpha \in Nat, l.ewkb \in Seq(Nat)
    PROVE  /\ EncodeLevel(l) \in Units
           /\ Len(EncodeLevel(l)) = 2 + Len(l.ewkb)
  <1> DEFINE fixed == <<l.alpha, AsU32(Len(l.ewkb))>>
  <1>1. AsU32(Len(l.ewkb)) \in Nat
    BY U32Fits, SMTT(40)
  <1>2. fixed \in Seq(Nat) /\ Len(fixed) = 2
    BY <1>1
  <1>3. EncodeLevel(l) = fixed \o l.ewkb
    BY DEF EncodeLevel
  <1> DEFINE e == l.ewkb
  <1>4. e \in Seq(Nat)
    OBVIOUS
  <1> HIDE DEF fixed, e
  <1>5. fixed \o e \in Seq(Nat) /\ Len(fixed \o e) = 2 + Len(e)
    <2>1. fixed \o e \in Seq(Nat) /\ Len(fixed \o e) = Len(fixed) + Len(e)
      BY <1>2, <1>4, ConcatProperties, Zenon
    <2> QED
      BY <1>2, <2>1
  <1> QED
    BY <1>3, <1>5 DEF Units, e

LEMMA PayloadLevels ==
    ASSUME NEW v \in Payload, NEW k \in 1..Len(v.levels)
    PROVE  /\ v.levels[k].alpha \in Nat
           /\ v.levels[k].ewkb \in Seq(Nat)
           /\ v.levels[k] = [alpha |-> v.levels[k].alpha, ewkb |-> v.levels[k].ewkb]
           /\ EncodeLevel(v.levels[k]) \in Units
           /\ Len(EncodeLevel(v.levels[k])) = 2 + Len(v.levels[k].ewkb)
  <1>1. v.levels[k] \in [alpha : Nat, ewkb : Seq(Nat)]
    <2> DEFINE R == [alpha : Nat, ewkb : Seq(Nat)]
               s == v.levels
    <2>1. s \in Seq(R)
      BY DEF Payload
    <2> HIDE DEF R
    <2>2. k \in 1..Len(s)
      OBVIOUS
    <2> HIDE DEF s
    <2>3. s[k] \in R
      BY <2>1, <2>2
    <2> QED
      BY <2>3 DEF R, s
  <1>2. /\ v.levels[k].alpha \in Nat
        /\ v.levels[k].ewkb \in Seq(Nat)
        /\ v.levels[k] = [alpha |-> v.levels[k].alpha, ewkb |-> v.levels[k].ewkb]
    BY <1>1
  <1> QED
    BY <1>2, LevelUnits

\* What a payload that could be built is known to be.
LEMMA BuiltPayload ==
    ASSUME NEW v \in Payload, NewStored(v).kind = "Ok"
    PROVE  /\ NewStored(v) = Decoded(v)
           /\ ValidateLevels(v) = Decoded(v)
           /\ \A k \in 1..Len(v.levels) : StoredLevelError(v.levels[k].ewkb) = "None"
           /\ AsU32(Len(v.levels)) = Len(v.levels)
           /\ Len(v.levels) > 0 => v.srid # NoSrid
  <1> DEFINE bad == {k \in 1..Len(v.levels) : StoredLevelError(v.levels[k].ewkb) # "None"}
             first == SelectInSeq(v.levels, LAMBDA l : StoredLevelError(l.ewkb) # "None")
  <1>1. Len(v.levels) \in Nat
    BY DEF Payload
  <1>2. first = IF bad # {} THEN Min(bad) ELSE 0
    BY Zenon DEF SelectInSeq
  <1>3. bad # {} => Min(bad) \in bad
    <2>1. bad \subseteq Nat
      BY <1>1
    <2> HIDE DEF bad
    <2> QED
      BY <2>1, LeastExists DEF Min
  <1>4. \A k \in bad : k # 0 /\ StoredLevelError(v.levels[k].ewkb) # "None"
    BY <1>1
  <1>5. NewStored(v) = IF first # 0 THEN Failed(StoredLevelError(v.levels[first].ewkb))
                       ELSE ValidateLevels(v)
    BY Zenon DEF NewStored
  <1>6. \A e : StoredLevelError(e) # "Ok" /\ Failed(StoredLevelError(e)).kind = StoredLevelError(e)
    BY DEF StoredLevelError, Failed
  <1>7. \A k \in 1..Len(v.levels) : k \notin bad => StoredLevelError(v.levels[k].ewkb) = "None"
    OBVIOUS
  <1> HIDE DEF bad, first
  <1>8. bad = {}
    BY <1>2, <1>3, <1>4, <1>5, <1>6
  <1>9. NewStored(v) = ValidateLevels(v)
    BY <1>2, <1>5, <1>8
  <1>10. /\ ValidateLevels(v) = Decoded(v)
         /\ Len(v.levels) > 0 => v.srid # NoSrid
         /\ Len(v.levels) <= MaxU32
    BY <1>1, <1>9, PayloadAssumption DEF ValidateLevels, Decoded, Failed
  <1> QED
    BY <1>1, <1>7, <1>8, <1>9, <1>10, U32Fits

\* A payload of levels that are let through is validated by with_version only.
LEMMA BuiltFromLevels ==
    ASSUME NEW v, \A k \in 1..Len(v.levels) : StoredLevelError(v.levels[k].ewkb) = "None"
    PROVE  NewStored(v) = ValidateLevels(v)
  <1>1. {k \in 1..Len(v.levels) : StoredLevelError(v.levels[k].ewkb) # "None"} = {}
    BY Zenon
  <1>2. SelectInSeq(v.levels, LAMBDA l : StoredLevelError(l.ewkb) # "None") = 0
    BY <1>1, Zenon DEF SelectInSeq
  <1> QED
    BY <1>2, Zenon DEF NewStored

LEMMA HeaderUnits ==
    ASSUME NEW id \in Nat \cup {NoSrid}, NEW n \in Nat
    PROVE  /\ HeaderOf(id, n) \in Seq(Nat)
           /\ Len(HeaderOf(id, n)) = IF id = NoSrid THEN 5 ELSE 6
           /\ HeaderOf(id, n)[1] = Magic
           /\ HeaderOf(id, n)[2] = Version
           /\ HeaderOf(id, n)[3] = IF id = NoSrid THEN 0 ELSE 1
           /\ HeaderOf(id, n)[4] = 0
           /\ HeaderOf(id, n)[5] = n
           /\ id # NoSrid => HeaderOf(id, n)[6] = id
  <1> DEFINE flag == IF id = NoSrid THEN 0 ELSE 1
             fixed == <<Magic, Version, flag, 0, n>>
             optional == IF id = NoSrid THEN <<>> ELSE <<id>>
  <1>1. fixed \in Seq(Nat) /\ Len(fixed) = 5
    BY StorageAssumption
  <1>2. fixed[1] = Magic /\ fixed[2] = Version /\ fixed[3] = flag /\ fixed[4] = 0 /\ fixed[5] = n
    OBVIOUS
  <1>3. optional \in Seq(Nat) /\ Len(optional) = IF id = NoSrid THEN 0 ELSE 1
    OBVIOUS
  <1>4. id # NoSrid => optional[1] = id
    OBVIOUS
  <1>5. HeaderOf(id, n) = fixed \o optional
    BY DEF HeaderOf
  <1> HIDE DEF fixed, optional, flag
  <1>6. /\ fixed \o optional \in Seq(Nat)
        /\ Len(fixed \o optional) = 5 + Len(optional)
        /\ \A i \in 1..5 + Len(optional) :
               (fixed \o optional)[i] = IF i <= 5 THEN fixed[i] ELSE optional[i - 5]
    <2>1. /\ fixed \o optional \in Seq(Nat)
          /\ Len(fixed \o optional) = Len(fixed) + Len(optional)
          /\ \A i \in 1..Len(fixed) + Len(optional) :
                 (fixed \o optional)[i] =
                 IF i <= Len(fixed) THEN fixed[i] ELSE optional[i - Len(fixed)]
      BY <1>1, <1>3, ConcatProperties, Zenon
    <2> QED
      BY <1>1, <2>1
  <1>7. \A i \in 1..5 : (fixed \o optional)[i] = fixed[i]
    BY <1>3, <1>6
  <1>8. id # NoSrid => (fixed \o optional)[6] = optional[1]
    BY <1>3, <1>6
  <1>9. /\ HeaderOf(id, n)[1] = fixed[1]
        /\ HeaderOf(id, n)[2] = fixed[2]
        /\ HeaderOf(id, n)[3] = fixed[3]
        /\ HeaderOf(id, n)[4] = fixed[4]
        /\ HeaderOf(id, n)[5] = fixed[5]
    <2>1. 1 \in 1..5 /\ 2 \in 1..5 /\ 3 \in 1..5 /\ 4 \in 1..5 /\ 5 \in 1..5
      OBVIOUS
    <2> DEFINE h == HeaderOf(id, n)
    <2>2. \A i \in 1..5 : h[i] = fixed[i]
      BY <1>5, <1>7, Zenon
    <2> HIDE DEF h
    <2>3. h[1] = fixed[1] /\ h[2] = fixed[2] /\ h[3] = fixed[3] /\ h[4] = fixed[4] /\ h[5] = fixed[5]
      BY <2>1, <2>2
    <2> QED
      BY <2>3 DEF h
  <1>10. HeaderOf(id, n) \in Seq(Nat) /\ Len(HeaderOf(id, n)) = IF id = NoSrid THEN 5 ELSE 6
    BY <1>3, <1>5, <1>6
  <1>11. id # NoSrid => HeaderOf(id, n)[6] = id
    BY <1>4, <1>5, <1>8
  <1> QED
    BY <1>2, <1>9, <1>10, <1>11 DEF flag

\* A body is its header and the encoding of its levels.
LEMMA BodyParts ==
    ASSUME NEW v \in Payload
    PROVE  /\ EncodeBody(v) = HeaderOf(v.srid, AsU32(Len(v.levels))) \o Encoded(v.levels, Len(v.levels))
           /\ EncodeBody(v) \in Seq(Nat)
           /\ Len(EncodeBody(v)) = Len(HeaderOf(v.srid, AsU32(Len(v.levels))))
                                   + Len(Encoded(v.levels, Len(v.levels)))
  <1>1. /\ Len(v.levels) \in Nat /\ DOMAIN v.levels = 1..Len(v.levels)
        /\ v.srid \in Nat \cup {NoSrid}
    BY DEF Payload
  <1>2. EncodeBody(v) = HeaderOf(v.srid, AsU32(Len(v.levels))) \o Encoded(v.levels, Len(v.levels))
    BY <1>1, Zenon DEF EncodeBody, HeaderOf, Encoded, EncodedUnits
  <1>3. AsU32(Len(v.levels)) \in Nat
    BY <1>1, U32Fits
  <1>4. HeaderOf(v.srid, AsU32(Len(v.levels))) \in Seq(Nat)
    BY <1>1, <1>3, HeaderUnits
  <1>5. Encoded(v.levels, Len(v.levels)) \in Seq(Nat)
    <2>1. \A k \in 1..Len(v.levels) : EncodeLevel(v.levels[k]) \in Units
      BY PayloadLevels
    <2>2. Len(v.levels) \in 0..Len(v.levels)
      BY <1>1
    <2> QED
      BY <1>1, <2>1, <2>2, EncodedSplit DEF Units
  <1> QED
    BY <1>2, <1>4, <1>5, ConcatProperties

-----------------------------------------------------------------------------
\* The inductive invariant.

ReadLevel == [alpha : Nat, len : Nat, ewkb : Seq(Nat)]
ReadLevels == Seq(ReadLevel)

\* The units of the header.
HeaderLen == IF hasSrid THEN 6 ELSE 5

ReaderTypes ==
    /\ offset \in Nat /\ offset <= Len(body)
    /\ hasSrid \in BOOLEAN
    /\ count \in Nat
    /\ srid \in Nat \cup {NoSrid}
    /\ got \in ReadLevels
    /\ Len(got) <= count

\* Nothing is read of the levels before the header is.
HeaderInv ==
    /\ field \in {"magic", "version", "flags", "reserved", "count", "srid"} =>
           got = <<>> /\ srid = NoSrid
    /\ field = "none" /\ result = Unread => offset = 0 /\ got = <<>> /\ srid = NoSrid
    /\ field = "version" => offset >= 1
    /\ field = "flags" => offset >= 2
    /\ field = "reserved" => offset >= 3
    /\ field = "count" => offset >= 4
    /\ field = "srid" => offset >= 5 /\ hasSrid
    /\ srid # NoSrid => hasSrid

\* Each level read has moved the reader by three units at least.
LevelInv ==
    /\ field \in {"alpha", "end"} => offset >= HeaderLen + 3 * Len(got)
    /\ field = "alpha" => Len(got) < count
    /\ field = "len" => Len(got) > 0 /\ offset >= HeaderLen + 3 * (Len(got) - 1) + 1
    /\ field = "ewkb" => Len(got) > 0 /\ offset >= HeaderLen + 3 * (Len(got) - 1) + 2

StorageInv ==
    /\ StorageTypeOK
    /\ ReaderTypes
    /\ HeaderInv
    /\ LevelInv
    /\ field # "none" => result = Unread
    /\ LevelsFitBody

-----------------------------------------------------------------------------
\* What the constructors answer.

\* with_version returns the payload it was given, and only with an SRID when it
\* has levels.
LEMMA ValidatedPayload ==
    ASSUME NEW v, ValidateLevels(v).kind = "Ok"
    PROVE  /\ ValidateLevels(v) = Decoded(v)
           /\ Len(v.levels) > 0 => v.srid # NoSrid
  BY DEF ValidateLevels, Decoded, Failed

\* A result of the constructor is never the pending one.
LEMMA ValidatedIsFinal ==
    ASSUME NEW v
    PROVE  ValidateLevels(v) # Unread
  BY DEF ValidateLevels, Decoded, Failed, Unread

-----------------------------------------------------------------------------
\* The steps.

\* The first field is read from the first unit.
LEMMA WriteKeepsInv ==
    ASSUME StorageInv, NEW v \in Payloads, Write(v)
    PROVE  StorageInv'
  <1> USE DEF StorageInv, StorageTypeOK, ReaderTypes, HeaderInv, LevelInv, HeaderLen, ReadLevels, readVars
  <1>1. CASE NewStored(v).kind = "Ok"
    <2>1. body' \in Seq(Nat)
      BY <1>1, WrittenPayload, BodyParts DEF Write
    <2>2. /\ field' = "magic" /\ field = "none" /\ result = Unread
          /\ UNCHANGED <<offset, hasSrid, count, srid, got, result>>
      BY <1>1 DEF Write
    <2>3. offset' \in 0..Len(body') /\ LevelsFitBody'
      BY <2>1, <2>2 DEF LevelsFitBody, Unread
    <2> QED
      BY <2>1, <2>2, <2>3
  <1>2. CASE NewStored(v).kind # "Ok"
    <2>1. NewStored(v) # Unread
      BY DEF NewStored, Failed, Unread, ValidateLevels, Decoded, StoredLevelError
    <2>2. /\ field' = "none" /\ result' = NewStored(v)
          /\ UNCHANGED <<written, body, offset, hasSrid, count, srid, got>>
      BY <1>2 DEF Write, Finish
    <2>3. LevelsFitBody'
      BY <1>2, <2>2 DEF LevelsFitBody
    <2> QED
      BY <2>1, <2>2, <2>3
  <1> QED
    BY <1>1, <1>2

LEMMA ReadKeepsInv ==
    ASSUME StorageInv, NEW units \in Bodies, Read(units)
    PROVE  StorageInv'
  <1> USE DEF StorageInv, StorageTypeOK, ReaderTypes, HeaderInv, LevelInv, HeaderLen, ReadLevels, readVars
  <1>1. body' \in Seq(Nat)
    BY StorageAssumption DEF Read
  <1>2. /\ field' = "magic" /\ field = "none" /\ result = Unread
        /\ UNCHANGED <<offset, hasSrid, count, srid, got, result>>
    BY DEF Read
  <1>3. offset' \in 0..Len(body') /\ LevelsFitBody'
    BY <1>1, <1>2 DEF LevelsFitBody, Unread
  <1> QED
    BY <1>1, <1>2, <1>3

\* An error ends the call without a value.
LEMMA ErrorKeepsInv ==
    ASSUME StorageInv, field' = "none", result' # Unread, result'.kind # "Ok", body' = body,
           ReaderTypes', srid' # NoSrid => hasSrid'
    PROVE  StorageInv'
  BY DEF StorageInv, StorageTypeOK, ReaderTypes, HeaderInv, LevelInv, LevelsFitBody

\* A unit read is an unsigned number, and moves the reader inside the body.
LEMMA UnitRead ==
    ASSUME StorageInv, offset < Len(body), offset' = offset + 1, body' = body
    PROVE  /\ Unit \in Nat
           /\ offset' \in Nat /\ offset' <= Len(body)
           /\ offset' \in 0..Len(body')
  BY DEF StorageInv, StorageTypeOK, ReaderTypes, Unit

\* The fields of the header before the count: each is accepted and the next one
\* follows, or the call ends with its error.
LEMMA HeaderKeepsInv ==
    ASSUME StorageInv, body' = body, offset < Len(body), offset' = offset + 1,
           UNCHANGED <<count, srid, got>>, hasSrid' \in BOOLEAN, srid = NoSrid, got = <<>>,
           \/ field' = "none" /\ result' # Unread /\ result'.kind # "Ok"
           \/ /\ result' = result /\ result = Unread
              /\ \/ field = "magic" /\ field' = "version"
                 \/ field = "version" /\ field' = "flags"
                 \/ field = "flags" /\ field' = "reserved"
                 \/ field = "reserved" /\ field' = "count"
    PROVE  StorageInv'
  <1>1. ReaderTypes'
    BY UnitRead DEF StorageInv, ReaderTypes, ReadLevels
  <1>2. CASE field' = "none" /\ result' # Unread /\ result'.kind # "Ok"
    BY <1>1, <1>2, ErrorKeepsInv
  <1>3. CASE /\ result' = result /\ result = Unread
             /\ \/ field = "magic" /\ field' = "version"
                \/ field = "version" /\ field' = "flags"
                \/ field = "flags" /\ field' = "reserved"
                \/ field = "reserved" /\ field' = "count"
    <2>1. StorageTypeOK'
      BY <1>1, <1>3, UnitRead DEF StorageInv, StorageTypeOK, ReaderTypes
    <2>2. HeaderInv' /\ LevelInv'
      BY <1>3 DEF StorageInv, HeaderInv, LevelInv, ReaderTypes
    <2>3. LevelsFitBody'
      BY <1>3 DEF LevelsFitBody, Unread
    <2> QED
      BY <1>1, <1>3, <2>1, <2>2, <2>3 DEF StorageInv
  <1> QED
    BY <1>2, <1>3

LEMMA HeaderStepKeepsInv ==
    ASSUME StorageInv, ReadMagic \/ ReadVersion \/ ReadFlags \/ ReadReserved
    PROVE  StorageInv'
  <1>1. /\ field \in {"magic", "version", "flags", "reserved"}
        /\ body' = body /\ offset < Len(body) /\ offset' = offset + 1
        /\ UNCHANGED <<count, srid, got>>
        /\ hasSrid' = hasSrid \/ hasSrid' = (Unit = 1)
    BY DEF ReadMagic, ReadVersion, ReadFlags, ReadReserved, ReadUnit
  <1>2. /\ srid = NoSrid /\ got = <<>> /\ result = Unread /\ hasSrid' \in BOOLEAN
    BY <1>1 DEF StorageInv, HeaderInv, ReaderTypes
  <1>3. \/ field' = "none" /\ result' # Unread /\ result'.kind # "Ok"
        \/ /\ result' = result
           /\ \/ field = "magic" /\ field' = "version"
              \/ field = "version" /\ field' = "flags"
              \/ field = "flags" /\ field' = "reserved"
              \/ field = "reserved" /\ field' = "count"
    BY DEF ReadMagic, ReadVersion, ReadFlags, ReadReserved, ReadUnit, Finish, Failed, Unread
  <1> QED
    BY <1>1, <1>2, <1>3, HeaderKeepsInv

LEMMA CountKeepsInv ==
    ASSUME StorageInv, ReadCount
    PROVE  StorageInv'
  <1> USE DEF StorageInv, StorageTypeOK, ReaderTypes, HeaderInv, LevelInv, HeaderLen
  <1>1. /\ Unit \in Nat /\ count' = Unit /\ UNCHANGED <<hasSrid, srid, got, body, result>>
        /\ field = "count" /\ field' = IF hasSrid THEN "srid" ELSE LevelOrEnd(Unit, 0)
        /\ offset' = offset + 1 /\ offset' \in Nat /\ offset' <= Len(body)
    BY UnitRead DEF ReadCount, ReadUnit
  <1>2. got = <<>> /\ Len(got) = 0 /\ offset' >= 5
    BY <1>1
  <1>3. LevelOrEnd(Unit, 0) = IF 0 < Unit THEN "alpha" ELSE "end"
    BY DEF LevelOrEnd
  <1> QED
    BY <1>1, <1>2, <1>3 DEF LevelsFitBody

LEMMA SridKeepsInv ==
    ASSUME StorageInv, ReadSrid
    PROVE  StorageInv'
  <1> USE DEF StorageInv, StorageTypeOK, ReaderTypes, HeaderInv, LevelInv, HeaderLen
  <1>1. /\ Unit \in Nat /\ srid' = Unit /\ UNCHANGED <<hasSrid, count, got, body, result>>
        /\ field = "srid" /\ field' = LevelOrEnd(count, 0)
        /\ offset' = offset + 1 /\ offset' \in Nat /\ offset' <= Len(body)
    BY UnitRead DEF ReadSrid, ReadUnit
  <1>2. got = <<>> /\ Len(got) = 0 /\ offset' >= 6 /\ hasSrid
    BY <1>1
  <1>3. LevelOrEnd(count, 0) = IF 0 < count THEN "alpha" ELSE "end"
    BY DEF LevelOrEnd
  <1> QED
    BY <1>1, <1>2, <1>3 DEF LevelsFitBody

LEMMA AlphaKeepsInv ==
    ASSUME StorageInv, ReadAlpha
    PROVE  StorageInv'
  <1> USE DEF StorageInv, StorageTypeOK, ReaderTypes, HeaderInv, LevelInv, HeaderLen
  <1>1. /\ Unit \in Nat /\ UNCHANGED <<hasSrid, count, srid, body>> /\ field = "alpha"
        /\ offset' = offset + 1 /\ offset' \in Nat /\ offset' <= Len(body)
        /\ got' = Append(got, [alpha |-> Unit, len |-> 0, ewkb |-> <<>>])
    BY UnitRead DEF ReadAlpha, ReadUnit
  <1>2. [alpha |-> Unit, len |-> 0, ewkb |-> <<>>] \in ReadLevel
    BY <1>1 DEF ReadLevel
  <1>3. got' \in ReadLevels /\ Len(got') = Len(got) + 1 /\ Len(got') <= count'
    BY <1>1, <1>2, AppendProperties DEF ReadLevels
  <1>4. ReaderTypes' /\ (srid' # NoSrid => hasSrid')
    BY <1>1, <1>3
  <1>5. CASE Unit \in AlphaUnits
    <2>1. field' = "len" /\ result' = result
      BY <1>5 DEF ReadAlpha, ReadUnit
    <2> QED
      BY <1>1, <1>3, <2>1 DEF LevelsFitBody
  <1>6. CASE Unit \notin AlphaUnits
    <2>1. field' = "none" /\ result' # Unread /\ result'.kind # "Ok"
      BY <1>6 DEF ReadAlpha, ReadUnit, Finish, Failed, Unread
    <2> QED
      BY <1>1, <1>4, <2>1, ErrorKeepsInv
  <1> QED
    BY <1>5, <1>6

\* The record of the level that is being read.
LEMMA LastLevel ==
    ASSUME NEW levels \in ReadLevels, Len(levels) > 0
    PROVE  /\ levels[Len(levels)] \in ReadLevel
           /\ levels[Len(levels)].len \in Nat
           /\ \A new \in ReadLevel :
                  /\ [levels EXCEPT ![Len(levels)] = new] \in ReadLevels
                  /\ Len([levels EXCEPT ![Len(levels)] = new]) = Len(levels)
  <1>1. levels \in Seq(ReadLevel) /\ Len(levels) \in DOMAIN levels
    BY DEF ReadLevels
  <1>2. levels[Len(levels)] \in ReadLevel
    BY <1>1
  <1>3. ASSUME NEW new \in ReadLevel
        PROVE  /\ [levels EXCEPT ![Len(levels)] = new] \in Seq(ReadLevel)
               /\ Len([levels EXCEPT ![Len(levels)] = new]) = Len(levels)
    BY <1>1, ExceptSeq
  <1> QED
    BY <1>2, <1>3 DEF ReadLevels, ReadLevel

LEMMA LenKeepsInv ==
    ASSUME StorageInv, ReadLen
    PROVE  StorageInv'
  <1> USE DEF StorageInv, StorageTypeOK, ReaderTypes, HeaderInv, LevelInv, HeaderLen
  <1>1. /\ Unit \in Nat /\ UNCHANGED <<hasSrid, count, srid, body, result>>
        /\ field = "len" /\ field' = "ewkb"
        /\ offset' = offset + 1 /\ offset' \in Nat /\ offset' <= Len(body)
        /\ got' = [got EXCEPT ![Len(got)].len = Unit]
    BY UnitRead DEF ReadLen, ReadUnit
  <1>2. got \in ReadLevels /\ Len(got) > 0
    BY <1>1
  <1>3. [got[Len(got)] EXCEPT !.len = Unit] \in ReadLevel
    BY <1>1, <1>2, LastLevel DEF ReadLevel
  <1>4. got' = [got EXCEPT ![Len(got)] = [got[Len(got)] EXCEPT !.len = Unit]]
    BY <1>1
  <1>5. got' \in ReadLevels /\ Len(got') = Len(got)
    BY <1>2, <1>3, <1>4, LastLevel
  <1> QED
    BY <1>1, <1>5 DEF LevelsFitBody

\* What read_vec takes from the body.
LEMMA PartOfBody ==
    ASSUME NEW s \in Seq(Nat), NEW i \in Nat, NEW n \in Nat, i + n <= Len(s)
    PROVE  /\ SubSeq(s, i + 1, i + n) \in Seq(Nat)
           /\ Len(SubSeq(s, i + 1, i + n)) = n
           /\ \A k \in 1..n : SubSeq(s, i + 1, i + n)[k] = s[i + k]
  OBVIOUS

\* The bytes of a level end its record: at least one, or StoredLevel::new refuses.
LEMMA EwkbKeepsInv ==
    ASSUME StorageInv, ReadEwkb
    PROVE  StorageInv'
  <1> USE DEF StorageInv, StorageTypeOK, ReaderTypes, HeaderInv, LevelInv, HeaderLen
  <1> DEFINE len == got[Len(got)].len
             ewkb == SubSeq(body, offset + 1, offset + len)
  <1>1. /\ field = "ewkb" /\ body' = body /\ UNCHANGED <<hasSrid, count, srid>>
        /\ offset + len <= Len(body) /\ offset' = offset + len
        /\ got' = [got EXCEPT ![Len(got)].ewkb = ewkb]
    BY DEF ReadEwkb
  <1>2. got \in ReadLevels /\ Len(got) > 0 /\ len \in Nat
    BY <1>1, LastLevel
  <1>3. ewkb \in Seq(Nat) /\ Len(ewkb) = len
    BY <1>1, <1>2, PartOfBody
  <1> HIDE DEF ewkb
  <1>4. got' \in ReadLevels /\ Len(got') = Len(got)
    <2>1. [got[Len(got)] EXCEPT !.ewkb = ewkb] \in ReadLevel
      BY <1>2, <1>3, LastLevel DEF ReadLevel
    <2>2. got' = [got EXCEPT ![Len(got)] = [got[Len(got)] EXCEPT !.ewkb = ewkb]]
      BY <1>1
    <2> QED
      BY <1>2, <2>1, <2>2, LastLevel
  <1>5. ReaderTypes' /\ (srid' # NoSrid => hasSrid')
    BY <1>1, <1>2, <1>4
  <1>6. CASE StoredLevelError(ewkb) = "None"
    <2>1. field' = LevelOrEnd(count, Len(got)) /\ result' = result
      BY <1>6 DEF ReadEwkb, ewkb
    <2>2. len >= 1
      BY <1>3, <1>6, StoredLevelBytes
    <2>3. offset' >= HeaderLen + 3 * Len(got)
      BY <1>1, <1>2, <2>2
    <2>4. LevelOrEnd(count, Len(got)) = IF Len(got) < count THEN "alpha" ELSE "end"
      BY DEF LevelOrEnd
    <2> QED
      BY <1>1, <1>4, <1>5, <2>1, <2>3, <2>4 DEF LevelsFitBody
  <1>7. CASE StoredLevelError(ewkb) # "None"
    <2>1. field' = "none" /\ result' = Failed(StoredLevelError(ewkb))
      BY <1>7 DEF ReadEwkb, ewkb, Finish
    <2>2. StoredLevelError(ewkb) = "EmptyEwkb" \/ StoredLevelError(ewkb) = "EwkbTooLarge"
      BY <1>7 DEF StoredLevelError
    <2>3. result' # Unread /\ result'.kind # "Ok"
      BY <2>1, <2>2 DEF Failed, Unread
    <2> QED
      BY <1>1, <1>5, <2>1, <2>3, ErrorKeepsInv
  <1> QED
    BY <1>6, <1>7

\* The body may end anywhere.
LEMMA TruncatedKeepsInv ==
    ASSUME StorageInv, Truncated
    PROVE  StorageInv'
  <1>1. /\ field' = "none" /\ result' # Unread /\ result'.kind # "Ok"
        /\ body' = body /\ UNCHANGED readVars
    BY DEF Truncated, Finish, Failed, Unread
  <1>2. ReaderTypes' /\ (srid' # NoSrid => hasSrid')
    BY <1>1 DEF StorageInv, ReaderTypes, HeaderInv, readVars, ReadLevels
  <1> QED
    BY <1>1, <1>2, ErrorKeepsInv

\* At the end the levels read are the levels returned.
LEMMA EndKeepsInv ==
    ASSUME StorageInv, EndOfBody
    PROVE  StorageInv'
  <1>1. /\ field = "end" /\ field' = "none" /\ body' = body /\ UNCHANGED readVars
        /\ result' = IF offset # Len(body) THEN Failed("TrailingBytes")
                     ELSE ValidateLevels(ReadPayload)
    BY DEF EndOfBody, Finish
  <1>2. /\ ReaderTypes /\ offset >= HeaderLen + 3 * Len(got)
        /\ srid # NoSrid => hasSrid
    BY <1>1 DEF StorageInv, LevelInv, HeaderInv
  <1>3. ReaderTypes' /\ (srid' # NoSrid => hasSrid')
    BY <1>1, <1>2 DEF ReaderTypes, readVars, ReadLevels
  <1>4. CASE offset # Len(body)
    <2>1. result' # Unread /\ result'.kind # "Ok"
      BY <1>1, <1>4 DEF Failed, Unread
    <2> QED
      BY <1>1, <1>3, <2>1, ErrorKeepsInv
  <1>5. CASE offset = Len(body)
    <2>1. result' = ValidateLevels(ReadPayload) /\ result' # Unread
      BY <1>1, <1>5, ValidatedIsFinal
    <2>2. ReadPayload.srid = srid /\ Len(ReadPayload.levels) = Len(got)
      <3>1. got \in ReadLevels /\ DOMAIN got = 1..Len(got) /\ Len(got) \in Nat
        BY <1>2 DEF ReaderTypes, ReadLevels
      <3> QED
        BY <3>1 DEF ReadPayload
    <2>3. ReadPayload.levels # <<>> => got # <<>>
      BY DEF ReadPayload
    <2>4. ASSUME result'.kind = "Ok", result'.value.levels # <<>>
          PROVE  3 * Len(result'.value.levels) + 6 <= Len(body)
      <3> DEFINE payload == ReadPayload
      <3>0. ValidateLevels(payload).kind = "Ok"
        BY <2>1, <2>4
      <3> HIDE DEF payload
      <3>1. ValidateLevels(payload) = Decoded(payload) /\ (Len(payload.levels) > 0 => payload.srid # NoSrid)
        BY <3>0, ValidatedPayload
      <3> USE DEF payload
      <3>4. result'.value = ReadPayload /\ (Len(ReadPayload.levels) > 0 => srid # NoSrid)
        BY <2>1, <2>2, <3>1 DEF Decoded
      <3>2. Len(got) > 0
        BY <1>2, <2>3, <2>4, <3>4 DEF ReaderTypes, ReadLevels
      <3>3. HeaderLen = 6
        BY <1>2, <2>2, <3>4, <3>2 DEF HeaderLen
      <3> QED
        BY <1>2, <1>5, <2>2, <3>4, <3>3 DEF ReaderTypes, ReadLevels
    <2>5. LevelsFitBody'
      BY <1>1, <2>4 DEF LevelsFitBody
    <2> QED
      BY <1>1, <1>3, <2>1, <2>5
         DEF StorageInv, StorageTypeOK, ReaderTypes, HeaderInv, LevelInv, readVars
  <1> QED
    BY <1>4, <1>5

-----------------------------------------------------------------------------

LEMMA StorageInitInv ==
    StorageInit => StorageInv
  <1> SUFFICES ASSUME StorageInit
               PROVE  StorageInv
    OBVIOUS
  <1>1. Len(body) = 0 /\ body \in Seq(Nat) /\ got \in ReadLevels /\ Len(got) = 0
    BY DEF StorageInit, ReadLevels
  <1>2. LevelsFitBody
    BY DEF StorageInit, LevelsFitBody, Unread
  <1>3. ReaderTypes
    <2>1. hasSrid \in BOOLEAN /\ srid \in Nat \cup {NoSrid}
      BY Zenon DEF StorageInit
    <2>2. offset = 0 /\ count = 0
      BY DEF StorageInit
    <2> QED
      BY <1>1, <2>1, <2>2 DEF ReaderTypes
  <1>4. StorageTypeOK
    BY <1>1 DEF StorageInit, StorageTypeOK
  <1> QED
    BY <1>2, <1>3, <1>4 DEF StorageInit, StorageInv, HeaderInv, LevelInv

LEMMA StorageStepInv ==
    StorageInv /\ [StorageNext]_storageVars => StorageInv'
  <1> SUFFICES ASSUME StorageInv, [StorageNext]_storageVars
               PROVE  StorageInv'
    OBVIOUS
  <1>1. ASSUME NEW v \in Payloads, Write(v)
        PROVE  StorageInv'
    BY <1>1, WriteKeepsInv
  <1>2. ASSUME NEW units \in Bodies, Read(units)
        PROVE  StorageInv'
    BY <1>2, ReadKeepsInv
  <1>3. CASE DecodeStep
    BY <1>3, TruncatedKeepsInv, HeaderStepKeepsInv, CountKeepsInv, SridKeepsInv, AlphaKeepsInv,
       LenKeepsInv, EwkbKeepsInv, EndKeepsInv DEF DecodeStep
  <1>4. CASE UNCHANGED storageVars
    BY <1>4 DEF storageVars, readVars, StorageInv, StorageTypeOK, ReaderTypes, HeaderInv,
       LevelInv, HeaderLen, ReadLevels, LevelsFitBody
  <1> QED
    BY <1>1, <1>2, <1>3, <1>4 DEF StorageNext

LEMMA StorageInvariant == StorageSpec => []StorageInv
  BY StorageInitInv, StorageStepInv, PTL DEF StorageSpec

-----------------------------------------------------------------------------
\* What has been read is what the value read so far is encoded to.

Flag == IF hasSrid THEN 1 ELSE 0

Taken == SubSeq(body, 1, offset)

LevelField == field \in {"alpha", "len", "ewkb", "end"}

\* The levels whose bytes have been read.
LevelsDone == IF field \in {"len", "ewkb"} THEN Len(got) - 1 ELSE Len(got)

LastRead == got[Len(got)]

EncodedSoFar == HeaderOf(srid, count) \o Encoded(got, LevelsDone)

HeaderTaken ==
    /\ field = "magic" => offset = 0
    /\ field = "version" => offset = 1 /\ body[1] = Magic
    /\ field = "flags" => offset = 2 /\ body[1] = Magic /\ body[2] = Version
    /\ field = "reserved" =>
           /\ offset = 3
           /\ body[1] = Magic /\ body[2] = Version /\ body[3] = Flag
    /\ field = "count" =>
           /\ offset = 4
           /\ body[1] = Magic /\ body[2] = Version /\ body[3] = Flag /\ body[4] = 0
    /\ field = "srid" =>
           /\ offset = 5
           /\ body[1] = Magic /\ body[2] = Version /\ body[3] = Flag /\ body[4] = 0
           /\ body[5] = count

LevelsTaken ==
    /\ LevelField => (hasSrid => srid # NoSrid)
    /\ field \in {"alpha", "end"} => Taken = EncodedSoFar
    /\ field = "len" => Taken = EncodedSoFar \o <<LastRead.alpha>>
    /\ field = "ewkb" => Taken = EncodedSoFar \o <<LastRead.alpha, LastRead.len>>
    /\ LevelField => \A k \in 1..LevelsDone : StoredLevelError(got[k].ewkb) = "None"
    /\ field = "end" => Len(got) = count

TakenInv ==
    /\ HeaderTaken
    /\ LevelsTaken
    /\ AcceptsOnlyEncodings

\* An error ends the call without a value.
LEMMA ErrorKeepsTaken ==
    ASSUME field' = "none", result'.kind # "Ok"
    PROVE  TakenInv'
  BY DEF TakenInv, HeaderTaken, LevelsTaken, LevelField, AcceptsOnlyEncodings

\* Reading takes the next units of the body.
LEMMA TakesMore ==
    ASSUME StorageInv, NEW n \in Nat, offset + n <= Len(body), body' = body, offset' = offset + n
    PROVE  /\ Taken \in Seq(Nat) /\ Len(Taken) = offset
           /\ Taken' = Taken \o SubSeq(body, offset + 1, offset + n)
  <1>1. body \in Seq(Nat) /\ offset \in Nat /\ offset <= Len(body) /\ Len(body) \in Nat
    BY DEF StorageInv, StorageTypeOK, ReaderTypes
  <1>2. /\ 1 \in 1..Len(body) + 1 /\ offset \in (1 - 1)..Len(body)
        /\ offset + n \in offset..Len(body)
    BY <1>1
  <1>3. SubSeq(body, 1, offset) \o SubSeq(body, offset + 1, offset + n) = SubSeq(body, 1, offset + n)
    BY <1>1, <1>2, ConcatAdjacentSubSeq, Zenon
  <1>4. Taken \in Seq(Nat) /\ Len(Taken) = offset
    BY <1>1 DEF Taken
  <1> QED
    BY <1>3, <1>4 DEF Taken

LEMMA TakesUnit ==
    ASSUME StorageInv, offset < Len(body), body' = body, offset' = offset + 1
    PROVE  Taken' = Taken \o <<Unit>>
  <1>1. body \in Seq(Nat) /\ offset \in Nat /\ offset + 1 <= Len(body)
    BY DEF StorageInv, StorageTypeOK, ReaderTypes
  <1>2. SubSeq(body, offset + 1, offset + 1) = <<body[offset + 1]>>
    BY <1>1, SubSeqOfOne
  <1> QED
    BY <1>1, <1>2, TakesMore DEF Unit

LEMMA HeaderStepTakes ==
    ASSUME StorageInv, TakenInv, ReadMagic \/ ReadVersion \/ ReadFlags \/ ReadReserved
    PROVE  TakenInv'
  <1>1. body' = body /\ offset' = offset + 1
    BY DEF ReadMagic, ReadVersion, ReadFlags, ReadReserved, ReadUnit
  <1>2. CASE field' = "none"
    <2>1. result'.kind # "Ok"
      BY <1>2 DEF ReadMagic, ReadVersion, ReadFlags, ReadReserved, ReadUnit, Finish, Failed
    <2> QED
      BY <1>2, <2>1, ErrorKeepsTaken
  <1>3. CASE field' # "none"
    <2>1. result' = result /\ result = Unread
      BY <1>3 DEF ReadMagic, ReadVersion, ReadFlags, ReadReserved, ReadUnit, Finish, StorageInv
    <2>2. AcceptsOnlyEncodings'
      BY <2>1 DEF AcceptsOnlyEncodings, Unread
    <2>3. CASE ReadMagic
      <3>1. field = "magic" /\ field' = "version" /\ Unit = Magic
        BY <1>3, <2>3 DEF ReadMagic, ReadUnit, Finish
      <3> QED
        BY <1>1, <2>2, <3>1 DEF TakenInv, HeaderTaken, LevelsTaken, LevelField, Unit
    <2>4. CASE ReadVersion
      <3>1. field = "version" /\ field' = "flags" /\ Unit = Version
        BY <1>3, <2>4 DEF ReadVersion, ReadUnit, Finish
      <3> QED
        BY <1>1, <2>2, <3>1 DEF TakenInv, HeaderTaken, LevelsTaken, LevelField, Unit
    <2>5. CASE ReadFlags
      <3>1. field = "flags" /\ field' = "reserved" /\ Unit \in {0, 1} /\ hasSrid' = (Unit = 1)
        BY <1>3, <2>5 DEF ReadFlags, ReadUnit, Finish
      <3>2. Unit = Flag'
        BY <3>1 DEF Flag
      <3> QED
        BY <1>1, <2>2, <3>1, <3>2 DEF TakenInv, HeaderTaken, LevelsTaken, LevelField, Unit
    <2>6. CASE ReadReserved
      <3>1. field = "reserved" /\ field' = "count" /\ Unit = 0 /\ hasSrid' = hasSrid
        BY <1>3, <2>6 DEF ReadReserved, ReadUnit, Finish
      <3>2. Flag' = Flag
        BY <3>1 DEF Flag
      <3> QED
        BY <1>1, <2>2, <3>1, <3>2 DEF TakenInv, HeaderTaken, LevelsTaken, LevelField, Unit
    <2> QED
      BY <2>3, <2>4, <2>5, <2>6
  <1> QED
    BY <1>2, <1>3

\* A body that begins with the fields of a header begins with that header.
LEMMA TakenIsHeader ==
    ASSUME NEW b \in Seq(Nat), NEW id \in Nat \cup {NoSrid}, NEW n \in Nat,
           b[1] = Magic, b[2] = Version, b[3] = IF id = NoSrid THEN 0 ELSE 1, b[4] = 0, b[5] = n,
           id # NoSrid => b[6] = id,
           NEW k \in Nat, k = (IF id = NoSrid THEN 5 ELSE 6), k <= Len(b)
    PROVE  SubSeq(b, 1, k) = HeaderOf(id, n)
  <1> DEFINE h == HeaderOf(id, n)
             s == SubSeq(b, 1, k)
  <1>1. s \in Seq(Nat) /\ Len(s) = k /\ \A i \in 1..k : s[i] = b[i]
    BY SMTT(40)
  <1>2. /\ h \in Seq(Nat) /\ Len(h) = k
        /\ h[1] = Magic /\ h[2] = Version /\ h[3] = (IF id = NoSrid THEN 0 ELSE 1)
        /\ h[4] = 0 /\ h[5] = n /\ (id # NoSrid => h[6] = id)
    BY HeaderUnits
  <1> HIDE DEF h, s
  <1>3. ASSUME NEW i \in 1..k
        PROVE  s[i] = h[i]
    <2>1. s[i] = b[i]
      BY <1>1
    <2>2. i = 1 \/ i = 2 \/ i = 3 \/ i = 4 \/ i = 5 \/ (i = 6 /\ id # NoSrid)
      OBVIOUS
    <2> QED
      BY <1>2, <2>1, <2>2
  <1>4. s = h
    BY <1>1, <1>2, <1>3, SeqEqual
  <1> QED
    BY <1>4 DEF s, h

\* The first level begins after the header.
LEMMA NothingEncodedYet ==
    ASSUME NEW id, NEW n, HeaderOf(id, n) \in Seq(Nat)
    PROVE  HeaderOf(id, n) \o Encoded(<<>>, 0) = HeaderOf(id, n)
  BY EncodedNothing, ConcatEmptySeq

LEMMA CountTakes ==
    ASSUME StorageInv, TakenInv, ReadCount
    PROVE  TakenInv'
  <1>1. /\ field = "count" /\ count' = Unit /\ UNCHANGED <<hasSrid, srid, got, result>>
        /\ field' = IF hasSrid THEN "srid" ELSE LevelOrEnd(Unit, 0)
        /\ body' = body /\ offset < Len(body) /\ offset' = offset + 1
    BY DEF ReadCount, ReadUnit
  <1>2. /\ got = <<>> /\ srid = NoSrid /\ result = Unread /\ hasSrid \in BOOLEAN
        /\ Unit \in Nat
    BY <1>1, UnitRead DEF StorageInv, HeaderInv, ReaderTypes
  <1>3. /\ offset' = 5 /\ body[1] = Magic /\ body[2] = Version /\ body[3] = Flag /\ body[4] = 0
        /\ body[5] = count' /\ Flag' = Flag
    BY <1>1 DEF TakenInv, HeaderTaken, Flag, Unit
  <1>4. AcceptsOnlyEncodings'
    BY <1>1, <1>2 DEF AcceptsOnlyEncodings, Unread
  <1>5. CASE hasSrid
    BY <1>1, <1>3, <1>4, <1>5 DEF TakenInv, HeaderTaken, LevelsTaken, LevelField
  <1>6. CASE ~hasSrid
    <2>1. field' = (IF 0 < count' THEN "alpha" ELSE "end") /\ field' \in {"alpha", "end"}
      BY <1>1, <1>6 DEF LevelOrEnd
    <2>2. Taken' = HeaderOf(srid', count')
      <3>1. body \in Seq(Nat) /\ 5 <= Len(body)
        BY <1>1, <1>3 DEF StorageInv, StorageTypeOK
      <3>2. body[3] = 0 /\ srid' = NoSrid /\ count' \in Nat
        BY <1>1, <1>2, <1>3, <1>6 DEF Flag
      <3>3. SubSeq(body, 1, 5) = HeaderOf(srid', count')
        BY <1>3, <3>1, <3>2, TakenIsHeader
      <3> QED
        BY <1>1, <1>3, <3>3 DEF Taken
    <2>3. HeaderOf(srid', count') \in Seq(Nat)
      BY <1>1, <1>2, HeaderUnits
    <2>4. EncodedSoFar' = HeaderOf(srid', count') /\ LevelsDone' = 0
      BY <1>1, <1>2, <2>1, <2>3, NothingEncodedYet DEF EncodedSoFar, LevelsDone
    <2>5. field' = "end" => Len(got') = count'
      BY <1>1, <1>2, <2>1
    <2>6. HeaderTaken'
      BY <2>1 DEF HeaderTaken
    <2>7. LevelsTaken'
      BY <1>1, <1>6, <2>1, <2>2, <2>4, <2>5 DEF LevelsTaken
    <2> QED
      BY <1>4, <2>6, <2>7 DEF TakenInv
  <1> QED
    BY <1>5, <1>6

LEMMA SridTakes ==
    ASSUME StorageInv, TakenInv, ReadSrid
    PROVE  TakenInv'
  <1>1. /\ field = "srid" /\ srid' = Unit /\ UNCHANGED <<hasSrid, count, got, result>>
        /\ field' = LevelOrEnd(count, 0)
        /\ body' = body /\ offset < Len(body) /\ offset' = offset + 1
    BY DEF ReadSrid, ReadUnit
  <1>2. /\ got = <<>> /\ result = Unread /\ hasSrid = TRUE /\ count \in Nat
        /\ Unit \in Nat /\ Unit # NoSrid
    BY <1>1, UnitRead, PayloadAssumption DEF StorageInv, HeaderInv, ReaderTypes
  <1>3. Taken' = HeaderOf(srid', count')
    <2>1. /\ offset' = 6 /\ body[1] = Magic /\ body[2] = Version /\ body[3] = 1 /\ body[4] = 0
          /\ body[5] = count' /\ body[6] = srid'
      BY <1>1, <1>2 DEF TakenInv, HeaderTaken, Flag, Unit
    <2>2. body \in Seq(Nat) /\ 6 <= Len(body) /\ srid' \in Nat /\ srid' # NoSrid /\ count' \in Nat
      BY <1>1, <1>2, <2>1 DEF StorageInv, StorageTypeOK
    <2>3. SubSeq(body, 1, 6) = HeaderOf(srid', count')
      <3>1. /\ body[3] = IF srid' = NoSrid THEN 0 ELSE 1
            /\ 6 = (IF srid' = NoSrid THEN 5 ELSE 6) /\ 6 \in Nat
            /\ srid' \in Nat \cup {NoSrid}
        BY <2>1, <2>2
      <3> QED
        BY <2>1, <2>2, <3>1, TakenIsHeader, ZenonT(40)
    <2> QED
      BY <1>1, <2>1, <2>3 DEF Taken
  <1>4. AcceptsOnlyEncodings'
    BY <1>1, <1>2 DEF AcceptsOnlyEncodings, Unread
  <1>5. field' = (IF 0 < count THEN "alpha" ELSE "end") /\ field' \in {"alpha", "end"}
    BY <1>1 DEF LevelOrEnd
  <1>6. HeaderOf(srid', count') \in Seq(Nat)
    BY <1>1, <1>2, HeaderUnits
  <1>7. EncodedSoFar' = HeaderOf(srid', count') /\ LevelsDone' = 0
    BY <1>1, <1>2, <1>5, <1>6, NothingEncodedYet DEF EncodedSoFar, LevelsDone
  <1>8. HeaderTaken'
    BY <1>5 DEF HeaderTaken
  <1>9. field' = "end" => Len(got') = count'
    BY <1>1, <1>2, <1>5
  <1>10. LevelsTaken'
    BY <1>1, <1>2, <1>3, <1>5, <1>7, <1>9 DEF LevelsTaken
  <1> QED
    BY <1>4, <1>8, <1>10 DEF TakenInv

LEMMA LevelRead ==
    ASSUME NEW levels \in ReadLevels, NEW k \in 1..Len(levels)
    PROVE  /\ levels[k] \in ReadLevel
           /\ levels[k].alpha \in Nat
           /\ levels[k].len \in Nat
           /\ levels[k].ewkb \in Seq(Nat)
           /\ EncodeLevel(levels[k]) \in Units
  <1>1. levels[k] \in ReadLevel
    BY DEF ReadLevels
  <1>2. levels[k].alpha \in Nat /\ levels[k].len \in Nat /\ levels[k].ewkb \in Seq(Nat)
    BY <1>1 DEF ReadLevel
  <1> QED
    BY <1>1, <1>2, LevelUnits

\* The encoding is one of the alphas and bytes.
LEMMA EncodedSame ==
    ASSUME NEW levels, NEW other, NEW n \in Nat,
           \A k \in 1..n : levels[k].alpha = other[k].alpha /\ levels[k].ewkb = other[k].ewkb
    PROVE  Encoded(levels, n) = Encoded(other, n)
  <1>1. \A k \in 1..n : EncodeLevel(levels[k]) = EncodeLevel(other[k])
    BY DEF EncodeLevel
  <1>2. EncodedUnits(levels, n) = EncodedUnits(other, n)
    BY <1>1, Zenon DEF EncodedUnits
  <1> QED
    BY <1>2 DEF Encoded

LEMMA EncodedIsUnits ==
    ASSUME NEW levels \in ReadLevels, NEW n \in 0..Len(levels)
    PROVE  Encoded(levels, n) \in Seq(Nat)
  <1>1. Len(levels) \in Nat
    BY DEF ReadLevels
  <1>2. \A k \in 1..Len(levels) : EncodeLevel(levels[k]) \in Units
    BY LevelRead
  <1> QED
    BY <1>1, <1>2, EncodedSplit DEF Units

LEMMA SoFarIsUnits ==
    ASSUME StorageInv, LevelsDone \in 0..Len(got)
    PROVE  HeaderOf(srid, count) \in Seq(Nat) /\ EncodedSoFar \in Seq(Nat)
  <1>1. srid \in Nat \cup {NoSrid} /\ count \in Nat /\ got \in ReadLevels
    BY DEF StorageInv, ReaderTypes
  <1>2. HeaderOf(srid, count) \in Seq(Nat)
    BY <1>1, HeaderUnits
  <1>3. Encoded(got, LevelsDone) \in Seq(Nat)
    BY <1>1, EncodedIsUnits
  <1> QED
    BY <1>2, <1>3, ConcatProperties DEF EncodedSoFar

LEMMA AlphaTakes ==
    ASSUME StorageInv, TakenInv, ReadAlpha
    PROVE  TakenInv'
  <1> DEFINE level == [alpha |-> Unit, len |-> 0, ewkb |-> <<>>]
             n == Len(got)
  <1>1. /\ field = "alpha" /\ UNCHANGED <<hasSrid, count, srid>> /\ body' = body
        /\ offset < Len(body) /\ offset' = offset + 1 /\ got' = Append(got, level)
    BY DEF ReadAlpha, ReadUnit
  <1>2. CASE Unit \notin AlphaUnits
    <2>1. field' = "none" /\ result'.kind # "Ok"
      BY <1>2 DEF ReadAlpha, ReadUnit, Finish, Failed
    <2> QED
      BY <2>1, ErrorKeepsTaken
  <1>3. CASE Unit \in AlphaUnits
    <2>1. field' = "len" /\ result' = result /\ result = Unread
      BY <1>1, <1>3 DEF ReadAlpha, ReadUnit, StorageInv
    <2>2. AcceptsOnlyEncodings'
      BY <2>1 DEF AcceptsOnlyEncodings, Unread
    <2>3. got \in ReadLevels /\ n \in Nat /\ level \in ReadLevel
      <3>1. Unit \in Nat
        BY <1>1, UnitRead
      <3> QED
        BY <3>1 DEF StorageInv, ReaderTypes, ReadLevels, ReadLevel
    <2> HIDE DEF level
    <2>4. Len(got') = n + 1 /\ got'[n + 1] = level /\ \A k \in 1..n : got'[k] = got[k]
      BY <1>1, <2>3, AppendProperties DEF ReadLevels
    <2> HIDE DEF n
    <2>5. LevelsDone = n /\ LevelsDone' = n
      BY <1>1, <2>1, <2>3, <2>4 DEF LevelsDone, n
    <2>6. Encoded(got', n) = Encoded(got, n)
      BY <2>3, <2>4, EncodedSame
    <2>7. EncodedSoFar' = EncodedSoFar
      BY <1>1, <2>5, <2>6 DEF EncodedSoFar
    <2>8. LastRead' = level /\ level.alpha = Unit
      BY <2>4 DEF LastRead, level
    <2>9. Taken' = EncodedSoFar' \o <<LastRead'.alpha>>
      <3>1. Taken = EncodedSoFar
        BY <1>1 DEF TakenInv, LevelsTaken
      <3> QED
        BY <1>1, <2>7, <2>8, <3>1, TakesUnit
    <2>10. \A k \in 1..LevelsDone' : StoredLevelError(got'[k].ewkb) = "None"
      BY <1>1, <2>4, <2>5 DEF TakenInv, LevelsTaken, LevelField
    <2>11. hasSrid' => srid' # NoSrid
      BY <1>1 DEF TakenInv, LevelsTaken, LevelField
    <2>12. HeaderTaken'
      BY <2>1 DEF HeaderTaken
    <2>13. LevelsTaken'
      BY <2>1, <2>9, <2>10, <2>11 DEF LevelsTaken
    <2> QED
      BY <2>2, <2>12, <2>13 DEF TakenInv
  <1> QED
    BY <1>2, <1>3

LEMMA LenTakes ==
    ASSUME StorageInv, TakenInv, ReadLen
    PROVE  TakenInv'
  <1> DEFINE n == Len(got) - 1
  <1>1. /\ field = "len" /\ field' = "ewkb" /\ UNCHANGED <<hasSrid, count, srid, body, result>>
        /\ offset < Len(body) /\ offset' = offset + 1
        /\ got' = [got EXCEPT ![Len(got)].len = Unit]
    BY DEF ReadLen, ReadUnit
  <1>2. result = Unread /\ Unit \in Nat /\ got \in ReadLevels /\ Len(got) > 0
    BY <1>1, UnitRead DEF StorageInv, ReaderTypes, LevelInv
  <1>3. AcceptsOnlyEncodings'
    BY <1>1, <1>2 DEF AcceptsOnlyEncodings, Unread
  <1>4. n \in Nat /\ Len(got) = n + 1 /\ n \in 0..Len(got) /\ Len(got) \in 1..Len(got)
    BY <1>2 DEF ReadLevels
  <1>5. /\ Len(got') = Len(got)
        /\ \A k \in 1..n : got'[k] = got[k]
        /\ LastRead' = [LastRead EXCEPT !.len = Unit]
    <2>1. got \in Seq(ReadLevel) /\ DOMAIN got = 1..Len(got)
      BY <1>2 DEF ReadLevels
    <2>2. DOMAIN got' = DOMAIN got
      BY <1>1
    <2>3. Len(got') = Len(got)
      BY <1>1, <2>1, <2>2
    <2>4. got'[Len(got)] = [got[Len(got)] EXCEPT !.len = Unit]
      BY <1>1, <1>4, <2>1
    <2>5. \A k \in 1..n : got'[k] = got[k]
      BY <1>1, <1>4, <2>1
    <2> QED
      BY <2>3, <2>4, <2>5 DEF LastRead
  <1>6. LastRead'.alpha = LastRead.alpha /\ LastRead'.len = Unit /\ LastRead.alpha \in Nat
    <2>1. LastRead \in ReadLevel
      BY <1>2, <1>4, LevelRead DEF LastRead
    <2> QED
      BY <1>5, <2>1 DEF ReadLevel
  <1>7. LevelsDone = n /\ LevelsDone' = n
    BY <1>1, <1>5 DEF LevelsDone
  <1> HIDE DEF n
  <1>8. Encoded(got', n) = Encoded(got, n) /\ Encoded(got, n) \in Seq(Nat)
    BY <1>2, <1>4, <1>5, EncodedSame, EncodedIsUnits
  <1>9. EncodedSoFar' = EncodedSoFar
    BY <1>1, <1>7, <1>8 DEF EncodedSoFar
  <1>10. Taken' = EncodedSoFar' \o <<LastRead'.alpha, LastRead'.len>>
    <2>1. Taken = EncodedSoFar \o <<LastRead.alpha>>
      BY <1>1 DEF TakenInv, LevelsTaken
    <2>2. Taken' = (EncodedSoFar \o <<LastRead.alpha>>) \o <<Unit>>
      BY <1>1, <2>1, TakesUnit
    <2>3. EncodedSoFar \in Seq(Nat)
      BY <1>4, <1>7, SoFarIsUnits
    <2>4. <<LastRead.alpha>> \in Seq(Nat) /\ <<Unit>> \in Seq(Nat)
      BY <1>2, <1>6
    <2>5. Taken' = EncodedSoFar \o (<<LastRead.alpha>> \o <<Unit>>)
      BY <2>2, <2>3, <2>4, UnitsAssociate
    <2>6. <<LastRead.alpha>> \o <<Unit>> = <<LastRead.alpha, Unit>>
      BY <1>2, <1>6, TwoUnits
    <2> QED
      BY <1>6, <1>9, <2>5, <2>6
  <1>11. \A k \in 1..LevelsDone' : StoredLevelError(got'[k].ewkb) = "None"
    BY <1>1, <1>5, <1>7 DEF TakenInv, LevelsTaken, LevelField
  <1>12. hasSrid' => srid' # NoSrid
    BY <1>1 DEF TakenInv, LevelsTaken, LevelField
  <1>13. HeaderTaken'
    BY <1>1 DEF HeaderTaken
  <1>14. LevelsTaken'
    BY <1>1, <1>10, <1>11, <1>12 DEF LevelsTaken
  <1> QED
    BY <1>3, <1>13, <1>14 DEF TakenInv

LEMMA EwkbTakes ==
    ASSUME StorageInv, TakenInv, ReadEwkb
    PROVE  TakenInv'
  <1> DEFINE len == LastRead.len
             ewkb == SubSeq(body, offset + 1, offset + len)
             n == Len(got) - 1
             header == HeaderOf(srid, count)
             prefix == <<LastRead.alpha, len>>
  <1>1. /\ field = "ewkb" /\ body' = body /\ UNCHANGED <<hasSrid, count, srid>>
        /\ offset + len <= Len(body) /\ offset' = offset + len
        /\ got' = [got EXCEPT ![Len(got)].ewkb = ewkb]
        /\ IF StoredLevelError(ewkb) = "None"
           THEN field' = LevelOrEnd(count, Len(got)) /\ UNCHANGED result
           ELSE Finish(Failed(StoredLevelError(ewkb)))
    BY DEF ReadEwkb, LastRead
  <1>2. CASE StoredLevelError(ewkb) # "None"
    <2>1. field' = "none" /\ result' = Failed(StoredLevelError(ewkb))
      BY <1>1, <1>2 DEF Finish
    <2>2. result'.kind # "Ok"
      BY <2>1 DEF Failed, StoredLevelError
    <2> QED
      BY <2>1, <2>2, ErrorKeepsTaken
  <1>3. CASE StoredLevelError(ewkb) = "None"
    <2>1. /\ result' = result /\ result = Unread
          /\ field' = (IF Len(got) < count THEN "alpha" ELSE "end")
      BY <1>1, <1>3 DEF LevelOrEnd, StorageInv
    <2>2. AcceptsOnlyEncodings'
      BY <2>1 DEF AcceptsOnlyEncodings, Unread
    <2>3. /\ got \in ReadLevels /\ Len(got) > 0 /\ body \in Seq(Nat) /\ offset \in Nat
          /\ count \in Nat /\ Len(got) <= count
      BY <1>1 DEF StorageInv, ReaderTypes, LevelInv, StorageTypeOK
    <2>4. n \in Nat /\ Len(got) = n + 1 /\ n \in 0..Len(got) /\ Len(got) \in 1..Len(got)
      BY <2>3 DEF ReadLevels
    <2>5. LastRead \in ReadLevel /\ LastRead.alpha \in Nat /\ len \in Nat
      BY <2>3, <2>4, LevelRead DEF LastRead
    <2>6. ewkb \in Seq(Nat) /\ Len(ewkb) = len
      BY <1>1, <2>3, <2>5, PartOfBody
    <2>7. AsU32(len) = len
      BY <1>3, <2>6, StoredLevelBytes
    <2>8. Taken' = (EncodedSoFar \o prefix) \o ewkb
      <3>1. Taken = EncodedSoFar \o prefix
        BY <1>1 DEF TakenInv, LevelsTaken
      <3> QED
        BY <1>1, <2>5, <3>1, TakesMore
    <2> HIDE DEF ewkb, len
    <2>9. /\ Len(got') = n + 1
          /\ \A k \in 1..n : got'[k] = got[k]
          /\ got'[n + 1] = [LastRead EXCEPT !.ewkb = ewkb]
      <3>1. got \in Seq(ReadLevel) /\ DOMAIN got = 1..Len(got)
        BY <2>3 DEF ReadLevels
      <3>2. DOMAIN got' = DOMAIN got
        BY <1>1
      <3>3. Len(got') = Len(got)
        BY <1>1, <3>1, <3>2
      <3>4. got'[Len(got)] = [got[Len(got)] EXCEPT !.ewkb = ewkb]
        BY <1>1, <2>4, <3>1
      <3>5. \A k \in 1..n : got'[k] = got[k]
        BY <1>1, <2>4, <3>1
      <3> QED
        BY <2>4, <3>3, <3>4, <3>5 DEF LastRead
    <2>10. got'[n + 1].alpha = LastRead.alpha /\ got'[n + 1].ewkb = ewkb
      BY <2>5, <2>9 DEF ReadLevel
    <2>11. LevelsDone = n /\ LevelsDone' = n + 1
      BY <1>1, <2>1, <2>9 DEF LevelsDone
    <2>12. EncodedSoFar = header \o Encoded(got, n)
      BY <2>11 DEF EncodedSoFar
    <2>13. header \in Seq(Nat) /\ Encoded(got, n) \in Seq(Nat) /\ EncodedSoFar \in Seq(Nat)
      BY <2>3, <2>4, <2>11, SoFarIsUnits, EncodedIsUnits
    <2>14. prefix \in Seq(Nat)
      BY <2>5
    <2>15. EncodeLevel(got'[n + 1]) = prefix \o ewkb
      BY <2>6, <2>7, <2>10 DEF EncodeLevel
    <2>16. header' = header
      BY <1>1
    <2> HIDE DEF n, prefix, header
    <2>17. Encoded(got', n) = Encoded(got, n)
      <3> DEFINE after == got'
      <3>1. n \in Nat /\ \A k \in 1..n : after[k] = got[k]
        BY <2>4, <2>9
      <3> HIDE DEF after
      <3>2. \A k \in 1..n : after[k].alpha = got[k].alpha /\ after[k].ewkb = got[k].ewkb
        BY <3>1, Zenon
      <3>3. Encoded(after, n) = Encoded(got, n)
        BY <3>1, <3>2, EncodedSame, Zenon
      <3> QED
        BY <3>3, Zenon DEF after
    <2>18. Encoded(got', n + 1) = Encoded(got, n) \o (prefix \o ewkb)
      <3>1. ASSUME NEW k \in 1..n + 1
            PROVE  EncodeLevel(got'[k]) \in Units
        <4>1. CASE k = n + 1
          BY <2>6, <2>14, <2>15, <4>1, ConcatProperties DEF Units
        <4>2. CASE k # n + 1
          <5>1. k \in 1..n /\ k \in 1..Len(got)
            BY <2>4, <4>2
          <5> QED
            BY <2>3, <2>9, <5>1, LevelRead
        <4> QED
          BY <4>1, <4>2
      <3> QED
        BY <2>4, <2>15, <2>17, <3>1, EncodedNext
    <2>19. Taken' = EncodedSoFar'
      <3>1. EncodedSoFar' = header \o (Encoded(got, n) \o (prefix \o ewkb))
        BY <1>1, <2>11, <2>18 DEF EncodedSoFar, header
      <3>2. (EncodedSoFar \o prefix) \o ewkb = EncodedSoFar \o (prefix \o ewkb)
        <4>1. EncodedSoFar \in Seq(Nat) /\ prefix \in Seq(Nat) /\ ewkb \in Seq(Nat)
          BY <2>6, <2>13, <2>14
        <4> QED
          BY <4>1, UnitsAssociate, Zenon
      <3>3. prefix \o ewkb \in Seq(Nat)
        BY <2>6, <2>14, ConcatProperties
      <3>4. EncodedSoFar \o (prefix \o ewkb) = header \o (Encoded(got, n) \o (prefix \o ewkb))
        <4> DEFINE last == prefix \o ewkb
                   done == Encoded(got, n)
        <4>1. header \in Seq(Nat) /\ done \in Seq(Nat) /\ last \in Seq(Nat)
          BY <2>13, <3>3
        <4> HIDE DEF last, done
        <4>2. (header \o done) \o last = header \o (done \o last)
          BY <4>1, UnitsAssociate
        <4> QED
          BY <2>12, <4>2 DEF last, done
      <3> QED
        BY <2>8, <3>1, <3>2, <3>4
    <2>20. ASSUME NEW k \in 1..n + 1
           PROVE  StoredLevelError(got'[k].ewkb) = "None"
      <3>1. CASE k = n + 1
        BY <1>3, <2>10, <3>1
      <3>2. CASE k # n + 1
        <4>1. k \in 1..n
          BY <2>4, <3>2
        <4> QED
          BY <1>1, <2>9, <2>11, <4>1 DEF TakenInv, LevelsTaken, LevelField
      <3> QED
        BY <3>1, <3>2
    <2>21. hasSrid' => srid' # NoSrid
      BY <1>1 DEF TakenInv, LevelsTaken, LevelField
    <2>22. HeaderTaken'
      BY <2>1 DEF HeaderTaken
    <2>23. field' = "end" => Len(got') = count'
      BY <1>1, <2>1, <2>3, <2>4, <2>9
    <2>24. LevelsTaken'
      BY <2>1, <2>11, <2>19, <2>20, <2>21, <2>23 DEF LevelsTaken
    <2> QED
      BY <2>2, <2>22, <2>24 DEF TakenInv
  <1> QED
    BY <1>2, <1>3

\* At the end of the body there is a payload, and the body is its encoding.
LEMMA EndOfBodyPayload ==
    ASSUME StorageInv, TakenInv, field = "end", offset = Len(body),
           ValidateLevels(ReadPayload).kind = "Ok"
    PROVE  /\ NewStored(ReadPayload).kind = "Ok"
           /\ EncodeBody(ReadPayload) = body
           /\ ValidateLevels(ReadPayload) = Decoded(ReadPayload)
  <1> DEFINE payload == ReadPayload
  <1>1. /\ got \in ReadLevels /\ DOMAIN got = 1..Len(got) /\ Len(got) \in Nat
        /\ srid \in Nat \cup {NoSrid} /\ body \in Seq(Nat) /\ Len(got) = count
        /\ LevelsDone = Len(got) /\ Taken = EncodedSoFar
    BY DEF StorageInv, StorageTypeOK, ReaderTypes, ReadLevels, TakenInv, LevelsTaken, LevelsDone
  <1>2. \A k \in 1..Len(got) : StoredLevelError(got[k].ewkb) = "None"
    BY <1>1 DEF TakenInv, LevelsTaken, LevelField
  <1>3. /\ payload.srid = srid
        /\ payload.levels = [k \in 1..Len(got) |-> [alpha |-> got[k].alpha, ewkb |-> got[k].ewkb]]
    BY <1>1 DEF ReadPayload
  <1>4. \A k \in 1..Len(got) : got[k].alpha \in Nat /\ got[k].ewkb \in Seq(Nat)
    BY <1>1, LevelRead
  <1>5. payload \in Payload
    <2>1. payload.levels \in Seq([alpha : Nat, ewkb : Seq(Nat)])
      <3> DEFINE R == [alpha : Nat, ewkb : Seq(Nat)]
                 n == Len(got)
                 e(k) == [alpha |-> got[k].alpha, ewkb |-> got[k].ewkb]
      <3>1. \A k \in 1..n : e(k) \in R
        BY <1>4
      <3>2. n \in Nat
        BY <1>1
      <3> HIDE DEF R, n, e
      <3>3. [k \in 1..n |-> e(k)] \in Seq(R)
        BY <3>1, <3>2
      <3> QED
        BY <1>3, <3>3 DEF R, n, e
    <2>2. payload = [srid |-> payload.srid, levels |-> payload.levels]
      BY DEF ReadPayload
    <2> HIDE DEF payload
    <2> QED
      BY <1>1, <1>3, <2>1, <2>2 DEF Payload
  <1>6. Len(payload.levels) = Len(got)
    BY <1>1, <1>3
  <1>7. \A k \in 1..Len(got) : payload.levels[k].alpha = got[k].alpha /\ payload.levels[k].ewkb = got[k].ewkb
    BY <1>3
  <1> SUFFICES /\ NewStored(payload).kind = "Ok"
               /\ EncodeBody(payload) = body
               /\ ValidateLevels(payload) = Decoded(payload)
    OBVIOUS
  <1>8. ValidateLevels(payload).kind = "Ok"
    OBVIOUS
  <1> HIDE DEF payload
  <1>9. NewStored(payload) = ValidateLevels(payload)
    BY <1>2, <1>6, <1>7, BuiltFromLevels
  <1>10. NewStored(payload).kind = "Ok" /\ AsU32(Len(payload.levels)) = count
    BY <1>1, <1>5, <1>6, <1>8, <1>9, BuiltPayload
  <1>11. EncodeBody(payload) = HeaderOf(srid, count) \o Encoded(payload.levels, Len(got))
    BY <1>3, <1>5, <1>6, <1>10, BodyParts
  <1>12. Encoded(payload.levels, Len(got)) = Encoded(got, Len(got))
    BY <1>1, <1>7, EncodedSame
  <1>13. EncodedSoFar = HeaderOf(srid, count) \o Encoded(got, Len(got))
    BY <1>1 DEF EncodedSoFar
  <1>14. Taken = body
    BY <1>1, SubSeqFull DEF Taken
  <1> QED
    BY <1>1, <1>8, <1>10, <1>11, <1>12, <1>13, <1>14, ValidatedPayload

LEMMA EndTakes ==
    ASSUME StorageInv, TakenInv, EndOfBody
    PROVE  TakenInv'
  <1>1. /\ field = "end" /\ field' = "none" /\ body' = body
        /\ result' = IF offset # Len(body) THEN Failed("TrailingBytes")
                     ELSE ValidateLevels(ReadPayload)
    BY DEF EndOfBody, Finish
  <1>2. CASE result'.kind # "Ok"
    BY <1>1, <1>2, ErrorKeepsTaken
  <1>3. CASE result'.kind = "Ok"
    <2>1. offset = Len(body) /\ result' = ValidateLevels(ReadPayload)
      BY <1>1, <1>3 DEF Failed
    <2>2. /\ NewStored(ReadPayload).kind = "Ok" /\ EncodeBody(ReadPayload) = body
          /\ result' = Decoded(ReadPayload)
      BY <1>1, <1>3, <2>1, EndOfBodyPayload
    <2>3. result'.value = ReadPayload
      BY <2>2 DEF Decoded
    <2>4. AcceptsOnlyEncodings'
      <3> DEFINE payload == ReadPayload
      <3>1. NewStored(payload).kind = "Ok" /\ EncodeBody(payload) = body /\ result'.value = payload
        BY <2>2, <2>3
      <3> HIDE DEF payload
      <3> QED
        BY <1>1, <3>1 DEF AcceptsOnlyEncodings
    <2> QED
      BY <1>1, <2>4 DEF TakenInv, HeaderTaken, LevelsTaken, LevelField
  <1> QED
    BY <1>2, <1>3

-----------------------------------------------------------------------------

LEMMA StartTakes ==
    ASSUME StorageInv, TakenInv,
           (\E v \in Payloads : Write(v)) \/ (\E units \in Bodies : Read(units))
    PROVE  TakenInv'
  <1>1. field = "none" /\ result = Unread /\ offset = 0
    BY DEF Write, Read, StorageInv, HeaderInv
  <1>2. CASE field' = "magic" /\ offset' = offset /\ result' = result
    BY <1>1, <1>2 DEF TakenInv, HeaderTaken, LevelsTaken, LevelField, AcceptsOnlyEncodings, Unread
  <1>3. CASE field' = "none" /\ result'.kind # "Ok"
    BY <1>3, ErrorKeepsTaken
  <1> QED
    BY <1>2, <1>3 DEF Write, Read, Finish, readVars

LEMMA TakenInitInv == StorageInit => TakenInv
  BY DEF StorageInit, TakenInv, HeaderTaken, LevelsTaken, LevelField, AcceptsOnlyEncodings, Unread

LEMMA TakenStepInv ==
    StorageInv /\ TakenInv /\ [StorageNext]_storageVars => TakenInv'
  <1> SUFFICES ASSUME StorageInv, TakenInv, [StorageNext]_storageVars
               PROVE  TakenInv'
    OBVIOUS
  <1>1. CASE Truncated
    <2>1. field' = "none" /\ result'.kind # "Ok"
      BY <1>1 DEF Truncated, Finish, Failed
    <2> QED
      BY <2>1, ErrorKeepsTaken
  <1>2. CASE DecodeStep /\ ~Truncated
    BY <1>2, HeaderStepTakes, CountTakes, SridTakes, AlphaTakes, LenTakes, EwkbTakes, EndTakes
       DEF DecodeStep
  <1>3. CASE UNCHANGED storageVars
    <2>1. UNCHANGED <<body, field, offset, hasSrid, count, srid, got, result>>
      BY <1>3 DEF storageVars, readVars
    <2>2. HeaderTaken'
      BY <2>1 DEF TakenInv, HeaderTaken, Flag
    <2>3. /\ Taken' = Taken /\ LevelsDone' = LevelsDone /\ LastRead' = LastRead
          /\ EncodedSoFar' = EncodedSoFar /\ LevelField' = LevelField
      BY <2>1 DEF Taken, LevelsDone, LastRead, EncodedSoFar, LevelField
    <2>4. LevelsTaken'
      BY <2>1, <2>3 DEF TakenInv, LevelsTaken
    <2> QED
      BY <2>1, <2>2, <2>4 DEF TakenInv, AcceptsOnlyEncodings
  <1> QED
    BY <1>1, <1>2, <1>3, StartTakes DEF StorageNext

LEMMA TakenInvariant == StorageSpec => [](StorageInv /\ TakenInv)
  BY StorageInitInv, TakenInitInv, StorageStepInv, TakenStepInv, PTL DEF StorageSpec

-----------------------------------------------------------------------------
\* A body that was written here is read as it was written.

\* The units of a header, in the body of any payload.
LEMMA BodyHeader ==
    ASSUME NEW v \in Payload, NewStored(v).kind = "Ok"
    PROVE  /\ EncodeBody(v)[1] = Magic
           /\ EncodeBody(v)[2] = Version
           /\ EncodeBody(v)[3] = IF v.srid = NoSrid THEN 0 ELSE 1
           /\ EncodeBody(v)[4] = 0
           /\ EncodeBody(v)[5] = Len(v.levels)
           /\ v.srid # NoSrid => EncodeBody(v)[6] = v.srid
           /\ Len(EncodeBody(v)) >= IF v.srid = NoSrid THEN 5 ELSE 6
  <1> DEFINE id == v.srid
             n == Len(v.levels)
             h == HeaderOf(id, n)
             e == Encoded(v.levels, n)
             b == EncodeBody(v)
  <1>1. id \in Nat \cup {NoSrid} /\ n \in Nat /\ AsU32(n) = n
    BY BuiltPayload DEF Payload
  <1>2. b = h \o e /\ e \in Seq(Nat)
    <2>1. n \in 0..n
      BY <1>1
    <2>3. \A k \in 1..n : EncodeLevel(v.levels[k]) \in Units
      BY PayloadLevels
    <2>2. e \in Seq(Nat)
      BY <1>1, <2>1, <2>3, EncodedSplit DEF Units
    <2> QED
      BY <1>1, <2>2, BodyParts
  <1> SUFFICES /\ b[1] = Magic /\ b[2] = Version /\ b[3] = (IF id = NoSrid THEN 0 ELSE 1)
               /\ b[4] = 0 /\ b[5] = n /\ (id # NoSrid => b[6] = id)
               /\ Len(b) >= IF id = NoSrid THEN 5 ELSE 6
    OBVIOUS
  <1> HIDE DEF id, n, e, b
  <1>3. /\ h \in Seq(Nat) /\ Len(h) = (IF id = NoSrid THEN 5 ELSE 6)
        /\ h[1] = Magic /\ h[2] = Version /\ h[3] = (IF id = NoSrid THEN 0 ELSE 1)
        /\ h[4] = 0 /\ h[5] = n /\ (id # NoSrid => h[6] = id)
    BY <1>1, HeaderUnits
  <1> HIDE DEF h
  <1>4. Len(b) = Len(h) + Len(e) /\ \A i \in 1..Len(h) : b[i] = h[i]
    BY <1>2, <1>3, PrefixUnits
  <1>5. Len(e) \in Nat
    BY <1>2
  <1>6. 1 \in 1..Len(h) /\ 2 \in 1..Len(h) /\ 3 \in 1..Len(h) /\ 4 \in 1..Len(h) /\ 5 \in 1..Len(h)
    BY <1>3
  <1>7. id # NoSrid => 6 \in 1..Len(h)
    BY <1>3
  <1>8. b[1] = h[1] /\ b[2] = h[2] /\ b[3] = h[3] /\ b[4] = h[4] /\ b[5] = h[5]
    BY <1>4, <1>6
  <1>9. id # NoSrid => b[6] = h[6]
    BY <1>4, <1>7
  <1>10. Len(b) >= Len(h)
    BY <1>3, <1>4, <1>5
  <1> QED
    BY <1>3, <1>8, <1>9, <1>10

\* What precedes the level after the first n.
Before(v, n) == HeaderOf(v.srid, Len(v.levels)) \o Encoded(v.levels, n)

LEMMA BeforeIsUnits ==
    ASSUME NEW v \in Payload, NEW n \in 0..Len(v.levels)
    PROVE  /\ HeaderOf(v.srid, Len(v.levels)) \in Seq(Nat)
           /\ Encoded(v.levels, n) \in Seq(Nat)
           /\ Before(v, n) \in Seq(Nat)
  <1>1. v.srid \in Nat \cup {NoSrid} /\ Len(v.levels) \in Nat
    BY DEF Payload
  <1>2. HeaderOf(v.srid, Len(v.levels)) \in Seq(Nat)
    BY <1>1, HeaderUnits
  <1>3. Encoded(v.levels, n) \in Seq(Nat)
    BY <1>1, PayloadLevels, EncodedSplit DEF Units
  <1> QED
    BY <1>2, <1>3, ConcatProperties DEF Before

LEMMA BodyEnd ==
    ASSUME NEW v \in Payload, NewStored(v).kind = "Ok"
    PROVE  Before(v, Len(v.levels)) = EncodeBody(v)
  BY BuiltPayload, BodyParts DEF Before

\* The fields of a level, in the body of any payload.
LEMMA BodyLevel ==
    ASSUME NEW v \in Payload, NewStored(v).kind = "Ok", NEW n \in Nat, n < Len(v.levels)
    PROVE  /\ Len(Before(v, n)) + 2 + Len(v.levels[n + 1].ewkb) <= Len(EncodeBody(v))
           /\ EncodeBody(v)[Len(Before(v, n)) + 1] = v.levels[n + 1].alpha
           /\ EncodeBody(v)[Len(Before(v, n)) + 2] = Len(v.levels[n + 1].ewkb)
           /\ SubSeq(EncodeBody(v), Len(Before(v, n)) + 3,
                     Len(Before(v, n)) + 2 + Len(v.levels[n + 1].ewkb)) = v.levels[n + 1].ewkb
  <1> DEFINE m == Len(v.levels)
             h == HeaderOf(v.srid, m)
             e == Encoded(v.levels, n)
             l == EncodeLevel(v.levels[n + 1])
             alpha == v.levels[n + 1].alpha
             ewkb == v.levels[n + 1].ewkb
             b == EncodeBody(v)
             p == Before(v, n)
  <1>1. m \in Nat /\ n \in 0..m /\ n + 1 \in 1..m /\ n + 1 \in 0..m
    BY DEF Payload
  <1>2. \A k \in 1..m : EncodeLevel(v.levels[k]) \in Units
    BY PayloadLevels
  <1>3. ewkb \in Seq(Nat) /\ alpha \in Nat /\ l \in Seq(Nat) /\ AsU32(Len(ewkb)) = Len(ewkb)
    <2>1. StoredLevelError(ewkb) = "None"
      BY <1>1, BuiltPayload
    <2>2. ewkb \in Seq(Nat) /\ alpha \in Nat /\ l \in Units
      BY <1>1, PayloadLevels
    <2> QED
      BY <2>1, <2>2, StoredLevelBytes DEF Units
  <1>4. l = <<alpha, Len(ewkb)>> \o ewkb
    BY <1>3 DEF EncodeLevel
  <1>5. h \in Seq(Nat) /\ e \in Seq(Nat) /\ p \in Seq(Nat) /\ p = h \o e
    BY <1>1, BeforeIsUnits DEF Before
  <1>6. PICK rest \in Seq(Nat) : Encoded(v.levels, m) = Encoded(v.levels, n + 1) \o rest
    BY <1>1, <1>2, EncodedSplit DEF Units
  <1>7. Encoded(v.levels, n + 1) = e \o l
    <2>1. \A k \in 1..n + 1 : EncodeLevel(v.levels[k]) \in Units
      BY <1>1, <1>2
    <2> QED
      BY <2>1, EncodedNext
  <1>8. b = h \o ((e \o l) \o rest)
    BY <1>6, <1>7, BodyEnd DEF Before
  <1> SUFFICES /\ Len(p) + 2 + Len(ewkb) <= Len(b)
               /\ b[Len(p) + 1] = alpha /\ b[Len(p) + 2] = Len(ewkb)
               /\ SubSeq(b, Len(p) + 3, Len(p) + 2 + Len(ewkb)) = ewkb
    OBVIOUS
  <1> HIDE DEF m, h, e, l, alpha, ewkb, b, p
  <1>9. b = (p \o l) \o rest /\ p \o l \in Seq(Nat)
    <2>0. l \o rest \in Seq(Nat)
      BY <1>3, <1>6, ConcatProperties
    <2>1. (e \o l) \o rest = e \o (l \o rest)
      <3>1. e \in Seq(Nat) /\ l \in Seq(Nat) /\ rest \in Seq(Nat)
        BY <1>3, <1>5
      <3> QED
        BY <3>1, UnitsAssociate
    <2>2. h \o (e \o (l \o rest)) = p \o (l \o rest)
      <3> DEFINE tail == l \o rest
      <3>1. h \in Seq(Nat) /\ e \in Seq(Nat) /\ tail \in Seq(Nat)
        BY <1>5, <2>0
      <3> HIDE DEF tail
      <3>2. (h \o e) \o tail = h \o (e \o tail)
        BY <3>1, UnitsAssociate, Zenon
      <3>3. p \o tail = h \o (e \o tail)
        BY <1>5, <3>2, Zenon
      <3> QED
        BY <3>3, Zenon DEF tail
    <2>3. p \o (l \o rest) = (p \o l) \o rest
      <3>1. p \in Seq(Nat) /\ l \in Seq(Nat) /\ rest \in Seq(Nat)
        BY <1>3, <1>5
      <3>2. (p \o l) \o rest = p \o (l \o rest)
        BY <3>1, UnitsAssociate, Zenon
      <3> QED
        BY <3>2, Zenon
    <2>4. p \o l \in Seq(Nat)
      BY <1>3, <1>5, ConcatProperties
    <2> QED
      BY <1>8, <2>1, <2>2, <2>3, <2>4
  <1> DEFINE start == <<alpha, Len(ewkb)>>
  <1>10. start \in Seq(Nat) /\ Len(start) = 2 /\ start[1] = alpha /\ start[2] = Len(ewkb)
    BY <1>3
  <1>11. l = start \o ewkb
    BY <1>4
  <1> HIDE DEF start
  <1>12. Len(l) = 2 + Len(ewkb) /\ l[1] = alpha /\ l[2] = Len(ewkb)
         /\ \A i \in 1..Len(ewkb) : l[i + 2] = ewkb[i]
    <2>1. Len(l) = Len(start) + Len(ewkb) /\ \A i \in 1..Len(start) : l[i] = start[i]
      BY <1>3, <1>10, <1>11, PrefixUnits
    <2>2. \A i \in 1..Len(ewkb) : l[Len(start) + i] = ewkb[i]
      BY <1>3, <1>10, <1>11, SuffixUnits
    <2>3. 1 \in 1..Len(start) /\ 2 \in 1..Len(start)
      BY <1>10
    <2>4. \A i \in 1..Len(ewkb) : l[i + 2] = ewkb[i]
      BY <1>10, <2>2
    <2> QED
      BY <1>10, <2>1, <2>3, <2>4
  <1>13. /\ Len(b) = Len(p \o l) + Len(rest)
         /\ \A i \in 1..Len(p \o l) : b[i] = (p \o l)[i]
    BY <1>6, <1>9, PrefixUnits
  <1>14. /\ Len(p \o l) = Len(p) + Len(l)
         /\ \A i \in 1..Len(l) : (p \o l)[Len(p) + i] = l[i]
    BY <1>3, <1>5, PrefixUnits, SuffixUnits
  <1>15. Len(p) \in Nat /\ Len(l) \in Nat /\ Len(rest) \in Nat /\ Len(ewkb) \in Nat
    BY <1>3, <1>5, <1>6
  <1>16. \A i \in 1..Len(l) : b[Len(p) + i] = l[i]
    <2>1. \A i \in 1..Len(l) : Len(p) + i \in 1..Len(p \o l)
      BY <1>14, <1>15
    <2> QED
      BY <1>13, <1>14, <2>1
  <1>17. 1 \in 1..Len(l) /\ 2 \in 1..Len(l)
    BY <1>12, <1>15
  <1>18. Len(p) + 2 + Len(ewkb) <= Len(b)
    BY <1>12, <1>13, <1>14, <1>15
  <1>19. SubSeq(b, Len(p) + 3, Len(p) + 2 + Len(ewkb)) = ewkb
    <2> DEFINE s == SubSeq(b, Len(p) + 3, Len(p) + 2 + Len(ewkb))
    <2>1. b \in Seq(Nat)
      BY <1>6, <1>9, ConcatProperties
    <2>2. s \in Seq(Nat) /\ Len(s) = Len(ewkb) /\ \A i \in 1..Len(ewkb) : s[i] = b[Len(p) + 2 + i]
      <3> DEFINE q == Len(p) + 2
      <3>1. q \in Nat /\ q + Len(ewkb) <= Len(b) /\ Len(ewkb) \in Nat /\ q + 1 = Len(p) + 3
        BY <1>15, <1>18
      <3>2. s = SubSeq(b, q + 1, q + Len(ewkb))
        BY <3>1
      <3> HIDE DEF q, s
      <3>3. s \in Seq(Nat) /\ Len(s) = Len(ewkb) /\ \A i \in 1..Len(ewkb) : s[i] = b[q + i]
        BY <2>1, <3>1, <3>2, PartOfBody, SMTT(40)
      <3> QED
        BY <3>3 DEF q
    <2>3. \A i \in 1..Len(ewkb) : b[Len(p) + (i + 2)] = l[i + 2] /\ Len(p) + 2 + i = Len(p) + (i + 2)
      BY <1>12, <1>15, <1>16
    <2> HIDE DEF s
    <2>4. \A i \in 1..Len(s) : s[i] = ewkb[i]
      BY <1>12, <2>2, <2>3
    <2>5. s = ewkb
      BY <1>3, <2>2, <2>4, SeqEqual
    <2> QED
      BY <2>5 DEF s
  <1> QED
    BY <1>12, <1>16, <1>17, <1>18, <1>19

-----------------------------------------------------------------------------
\* The invariant of a body that was written here.

Source == written[1]

\* What has been read agrees with what was written.
AgreesWithSource ==
    /\ Source \in Payloads /\ NewStored(Source).kind = "Ok" /\ body = EncodeBody(Source)
    /\ field = "none" => result # Unread
    /\ result # Unread => result = Decoded(Source)
    /\ count = 0 \/ count = Len(Source.levels)
    /\ field \in {"reserved", "count", "srid"} => hasSrid = (Source.srid # NoSrid)
    /\ field = "srid" => count = Len(Source.levels)
    /\ LevelField => srid = Source.srid /\ count = Len(Source.levels)
    /\ LevelField =>
           \A k \in 1..LevelsDone :
               got[k].alpha = Source.levels[k].alpha /\ got[k].ewkb = Source.levels[k].ewkb
    /\ field \in {"len", "ewkb"} => LastRead.alpha = Source.levels[Len(got)].alpha
    /\ field = "ewkb" => LastRead.len = Len(Source.levels[Len(got)].ewkb)

WrittenInv ==
    /\ field = "none" /\ result = Unread => written = <<>> /\ count = 0
    /\ written # <<>> => AgreesWithSource

SourceBuilt == Source \in Payload /\ NewStored(Source).kind = "Ok" /\ body = EncodeBody(Source)

LEMMA SourceIsPayload ==
    ASSUME AgreesWithSource
    PROVE  /\ SourceBuilt
           /\ \A k \in 1..Len(Source.levels) :
                  /\ Source.levels[k].alpha \in AlphaUnits
                  /\ StoredLevelError(Source.levels[k].ewkb) = "None"
           /\ Len(Source.levels) \in Nat
  <1>1. SourceBuilt /\ \A k \in 1..Len(Source.levels) : Source.levels[k].alpha \in AlphaUnits
    BY WrittenPayload DEF AgreesWithSource, SourceBuilt
  <1> DEFINE v == Source
  <1>2. v \in Payload /\ NewStored(v).kind = "Ok"
    BY <1>1 DEF SourceBuilt
  <1> HIDE DEF v
  <1>3. \A k \in 1..Len(v.levels) : StoredLevelError(v.levels[k].ewkb) = "None"
    BY <1>2, BuiltPayload
  <1>4. Len(v.levels) \in Nat
    BY <1>2 DEF Payload
  <1> QED
    BY <1>1, <1>3, <1>4 DEF v

\* At a level the reader stands where the encoding of the levels read ends.
LEMMA Position ==
    ASSUME StorageInv, TakenInv, AgreesWithSource, LevelField
    PROVE  /\ LevelsDone \in 0..Len(Source.levels)
           /\ field \in {"alpha", "len", "ewkb"} =>
                  LevelsDone < Len(Source.levels) /\ Len(got) = IF field = "alpha" THEN LevelsDone ELSE LevelsDone + 1
           /\ field \in {"len", "ewkb"} => LevelsDone + 1 = Len(got)
           /\ field = "end" => LevelsDone = Len(Source.levels) /\ LevelsDone = Len(got)
           /\ EncodedSoFar = Before(Source, LevelsDone)
           /\ field \in {"alpha", "end"} => offset = Len(Before(Source, LevelsDone))
           /\ field = "len" => offset = Len(Before(Source, LevelsDone)) + 1
           /\ field = "ewkb" => offset = Len(Before(Source, LevelsDone)) + 2
  <1> DEFINE n == LevelsDone
             m == Len(Source.levels)
  <1>1. /\ got \in ReadLevels /\ Len(got) \in Nat /\ count = m /\ Len(got) <= count /\ m \in Nat
        /\ field = "alpha" => Len(got) < count
        /\ field \in {"len", "ewkb"} => Len(got) > 0
        /\ field = "end" => Len(got) = count
        /\ srid = Source.srid /\ body \in Seq(Nat) /\ offset \in Nat /\ offset <= Len(body)
    BY SourceIsPayload DEF StorageInv, StorageTypeOK, ReaderTypes, ReadLevels, LevelInv, TakenInv, LevelsTaken,
       AgreesWithSource, LevelField
  <1>2. n = IF field \in {"len", "ewkb"} THEN Len(got) - 1 ELSE Len(got)
    BY DEF LevelsDone
  <1>3. n \in 0..Len(got) /\ n \in 0..m /\ n \in Nat
    BY <1>1, <1>2 DEF LevelField
  <1>4. \A k \in 1..n : got[k].alpha = Source.levels[k].alpha /\ got[k].ewkb = Source.levels[k].ewkb
    BY DEF AgreesWithSource
  <1> HIDE DEF n
  <1>5. Encoded(got, n) = Encoded(Source.levels, n)
    BY <1>3, <1>4, EncodedSame
  <1>6. EncodedSoFar = Before(Source, n)
    BY <1>1, <1>5 DEF EncodedSoFar, Before, n
  <1>7. Before(Source, n) \in Seq(Nat)
    BY <1>3, SourceIsPayload, BeforeIsUnits DEF SourceBuilt
  <1>8. Len(Taken) = offset
    BY <1>1 DEF Taken
  <1>9. LastRead.alpha \in Nat \/ field \notin {"len", "ewkb"}
    BY <1>1, LevelRead DEF LastRead
  <1>10. LastRead.len \in Nat \/ field \notin {"len", "ewkb"}
    BY <1>1, LevelRead DEF LastRead
  <1>11. field \in {"alpha", "end"} => offset = Len(Before(Source, n))
    BY <1>6, <1>8 DEF TakenInv, LevelsTaken
  <1>12. field = "len" => offset = Len(Before(Source, n)) + 1
    <2>1. field = "len" => Taken = Before(Source, n) \o <<LastRead.alpha>>
      BY <1>6 DEF TakenInv, LevelsTaken
    <2>2. field = "len" => <<LastRead.alpha>> \in Seq(Nat) /\ Len(<<LastRead.alpha>>) = 1
      BY <1>9
    <2> QED
      BY <1>7, <1>8, <2>1, <2>2, PrefixUnits
  <1>13. field = "ewkb" => offset = Len(Before(Source, n)) + 2
    <2>1. field = "ewkb" => Taken = Before(Source, n) \o <<LastRead.alpha, LastRead.len>>
      BY <1>6 DEF TakenInv, LevelsTaken
    <2>2. field = "ewkb" =>
              /\ <<LastRead.alpha, LastRead.len>> \in Seq(Nat)
              /\ Len(<<LastRead.alpha, LastRead.len>>) = 2
      BY <1>9, <1>10
    <2> QED
      BY <1>7, <1>8, <2>1, <2>2, PrefixUnits
  <1> QED
    BY <1>1, <1>2, <1>3, <1>6, <1>11, <1>12, <1>13 DEF n

\* The fields of the next level are in the body.
LEMMA NextLevel ==
    ASSUME StorageInv, TakenInv, AgreesWithSource, field \in {"alpha", "len", "ewkb"},
           NEW l, l = Source.levels[LevelsDone + 1]
    PROVE  /\ field = "alpha" => offset + 1 <= Len(body) /\ Unit = l.alpha
           /\ field = "len" => offset + 1 <= Len(body) /\ Unit = Len(l.ewkb)
           /\ field = "ewkb" =>
                  /\ offset + Len(l.ewkb) <= Len(body)
                  /\ SubSeq(body, offset + 1, offset + Len(l.ewkb)) = l.ewkb
           /\ l.alpha \in AlphaUnits
           /\ l.ewkb \in Seq(Nat)
           /\ StoredLevelError(l.ewkb) = "None"
  <1> DEFINE n == LevelsDone
             p == Len(Before(Source, n))
  <1>1. /\ n \in 0..Len(Source.levels) /\ n < Len(Source.levels)
        /\ field = "alpha" => offset = p
        /\ field = "len" => offset = p + 1
        /\ field = "ewkb" => offset = p + 2
    BY Position DEF LevelField
  <1>2. SourceBuilt /\ Len(Source.levels) \in Nat
    BY SourceIsPayload
  <1>3. n \in Nat /\ n + 1 \in 1..Len(Source.levels)
    BY <1>1, <1>2
  <1>4. /\ p + 2 + Len(l.ewkb) <= Len(body)
        /\ body[p + 1] = l.alpha
        /\ body[p + 2] = Len(l.ewkb)
        /\ SubSeq(body, p + 3, p + 2 + Len(l.ewkb)) = l.ewkb
    BY <1>1, <1>2, <1>3, BodyLevel DEF SourceBuilt
  <1>5. l.alpha \in AlphaUnits /\ StoredLevelError(l.ewkb) = "None"
    BY <1>3, SourceIsPayload
  <1>6. l.ewkb \in Seq(Nat)
    BY <1>2, <1>3, PayloadLevels DEF SourceBuilt
  <1>7. p \in Nat /\ Len(l.ewkb) \in Nat /\ Len(body) \in Nat
    <2>1. Before(Source, n) \in Seq(Nat)
      BY <1>1, <1>2, BeforeIsUnits DEF SourceBuilt
    <2>2. body \in Seq(Nat)
      BY DEF StorageInv, StorageTypeOK
    <2> QED
      BY <1>6, <2>1, <2>2
  <1> HIDE DEF n, p
  <1>8. p + 1 <= Len(body) /\ p + 2 <= Len(body) /\ (p + 1) + 1 = p + 2
    <2> DEFINE e == Len(l.ewkb)
               m == Len(body)
    <2>1. p \in Nat /\ e \in Nat /\ m \in Nat /\ p + 2 + e <= m
      BY <1>4, <1>7
    <2> HIDE DEF e, m
    <2>2. p + 1 <= m /\ p + 2 <= m /\ (p + 1) + 1 = p + 2
      BY <2>1
    <2> QED
      BY <2>2 DEF m
  <1>9. CASE field = "alpha"
    <2>1. offset + 1 <= Len(body) /\ Unit = l.alpha
      BY <1>1, <1>4, <1>8, <1>9 DEF Unit
    <2> QED
      BY <1>5, <1>6, <1>9, <2>1
  <1>11. CASE field = "len"
    <2>1. Unit = body[p + 2] /\ offset + 1 <= Len(body)
      BY <1>1, <1>8, <1>11 DEF Unit
    <2> QED
      BY <1>4, <1>5, <1>6, <1>11, <2>1
  <1>10. field = "ewkb" =>
             /\ offset + Len(l.ewkb) <= Len(body)
             /\ SubSeq(body, offset + 1, offset + Len(l.ewkb)) = l.ewkb
    <2>1. (p + 2) + 1 = p + 3
      BY <1>7
    <2> QED
      BY <1>1, <1>4, <1>7, <2>1
  <1> QED
    BY <1>5, <1>6, <1>9, <1>10, <1>11

\* The fields of the header are in the body.
LEMMA NextHeaderField ==
    ASSUME StorageInv, TakenInv, AgreesWithSource,
           field \in {"magic", "version", "flags", "reserved", "count", "srid"}
    PROVE  /\ offset + 1 <= Len(body)
           /\ field = "magic" => Unit = Magic
           /\ field = "version" => Unit = Version
           /\ field = "flags" => Unit = IF Source.srid = NoSrid THEN 0 ELSE 1
           /\ field = "reserved" => Unit = 0
           /\ field = "count" => Unit = Len(Source.levels)
           /\ field = "srid" => Unit = Source.srid
  <1>1. /\ body[1] = Magic
        /\ body[2] = Version
        /\ body[3] = IF Source.srid = NoSrid THEN 0 ELSE 1
        /\ body[4] = 0
        /\ body[5] = Len(Source.levels)
        /\ Source.srid # NoSrid => body[6] = Source.srid
        /\ Len(body) >= IF Source.srid = NoSrid THEN 5 ELSE 6
    BY SourceIsPayload, BodyHeader DEF SourceBuilt
  <1>2. /\ field = "magic" => offset = 0
        /\ field = "version" => offset = 1
        /\ field = "flags" => offset = 2
        /\ field = "reserved" => offset = 3
        /\ field = "count" => offset = 4
        /\ field = "srid" => offset = 5
    BY DEF TakenInv, HeaderTaken
  <1>3. field = "srid" => Source.srid # NoSrid
    BY DEF AgreesWithSource, StorageInv, HeaderInv
  <1>0. body \in Seq(Nat) /\ Len(body) \in Nat
    BY DEF StorageInv, StorageTypeOK
  <1>4. /\ field = "magic" => Unit = body[1]
        /\ field = "version" => Unit = body[2]
        /\ field = "flags" => Unit = body[3]
        /\ field = "reserved" => Unit = body[4]
        /\ field = "count" => Unit = body[5]
        /\ field = "srid" => Unit = body[6]
    BY <1>2 DEF Unit
  <1> HIDE DEF Source
  <1>5. field = "srid" => body[6] = Source.srid
    BY <1>1, <1>3
  <1>6. offset + 1 <= Len(body)
    <2> DEFINE m == Len(body)
    <2>1. m \in Nat /\ m >= 5 /\ (field = "srid" => m >= 6)
      BY <1>0, <1>1, <1>3
    <2> HIDE DEF m
    <2>2. offset + 1 <= m
      BY <1>2, <2>1
    <2> QED
      BY <2>2 DEF m
  <1> QED
    BY <1>1, <1>4, <1>5, <1>6

-----------------------------------------------------------------------------
\* Each step of the reader reads what was written.

\* decode_body leaves the body alone and ends with a result.
LEMMA DecodeAnswers ==
    ASSUME DecodeStep, result \in {Unread}
    PROVE  /\ written' = written /\ body' = body
           /\ field # "none"
           /\ field' = "none" => result' # Unread
  <1>1. \A e : Failed(e) = Unread => e = "Pending"
    BY DEF Failed, Unread
  <1>2. \A e : StoredLevelError(e) # "Pending"
    BY DEF StoredLevelError
  <1>3. written' = written /\ body' = body /\ field # "none"
    BY DEF DecodeStep, Truncated, ReadMagic, ReadVersion, ReadFlags, ReadReserved, ReadCount, ReadSrid,
           ReadAlpha, ReadLen, ReadEwkb, EndOfBody, ReadUnit
  <1>4. CASE Truncated \/ ReadMagic \/ ReadVersion \/ ReadFlags \/ ReadReserved \/ ReadCount \/ ReadSrid
             \/ ReadAlpha \/ ReadLen
    <2>1. field' = "none" => result' # Unread
      BY <1>1, <1>4 DEF Truncated, ReadMagic, ReadVersion, ReadFlags, ReadReserved, ReadCount, ReadSrid,
             ReadAlpha, ReadLen, ReadUnit, LevelOrEnd, Finish
    <2> QED
      BY <1>3, <2>1
  <1>5. CASE ReadEwkb
    <2>1. field' = "none" => result' # Unread
      BY <1>1, <1>2, <1>5 DEF ReadEwkb, LevelOrEnd, Finish
    <2> QED
      BY <1>3, <2>1
  <1>6. CASE EndOfBody
    <2>1. result' = Failed("TrailingBytes") \/ result' = ValidateLevels(ReadPayload)
      BY <1>6 DEF EndOfBody, Finish
    <2>2. Failed("TrailingBytes") # Unread
      BY <1>1
    <2>3. result' # Unread
      BY <2>1, <2>2, ValidatedIsFinal
    <2> QED
      BY <1>3, <2>3
  <1> QED
    BY <1>4, <1>5, <1>6 DEF DecodeStep

\* No field of it is missing.
LEMMA NothingTruncated ==
    ASSUME StorageInv, TakenInv, AgreesWithSource
    PROVE  ~Truncated
  <1> SUFFICES ASSUME Truncated PROVE FALSE
    OBVIOUS
  <1>1. /\ field \notin {"none", "end"}
        /\ field # "ewkb" => offset + 1 > Len(body)
        /\ field = "ewkb" => offset + LastRead.len > Len(body)
    BY DEF Truncated, LastRead
  <1>2. offset \in Nat /\ Len(body) \in Nat
    BY DEF StorageInv, ReaderTypes, StorageTypeOK
  <1>3. CASE field \in {"magic", "version", "flags", "reserved", "count", "srid"}
    BY <1>1, <1>2, <1>3, NextHeaderField
  <1>4. CASE field \in {"alpha", "len"}
    BY <1>1, <1>2, <1>4, NextLevel
  <1>5. CASE field = "ewkb"
    <2>1. LevelsDone + 1 = Len(got)
      BY <1>5, Position DEF LevelField
    <2> DEFINE l == Source.levels[LevelsDone + 1]
    <2>2. LastRead.len = Len(l.ewkb)
      BY <1>5, <2>1 DEF AgreesWithSource
    <2>3. offset + Len(l.ewkb) <= Len(body) /\ l.ewkb \in Seq(Nat)
      BY <1>5, NextLevel
    <2>4. Len(l.ewkb) \in Nat
      BY <2>3
    <2> HIDE DEF l
    <2> QED
      BY <1>1, <1>2, <1>5, <2>2, <2>3, <2>4
  <1> QED
    BY <1>1, <1>3, <1>4, <1>5 DEF StorageInv, StorageTypeOK

LEMMA HeaderAgrees ==
    ASSUME StorageInv, TakenInv, AgreesWithSource, ReadMagic \/ ReadVersion \/ ReadFlags \/ ReadReserved
    PROVE  AgreesWithSource'
  <1>1. field \in {"magic", "version", "flags", "reserved"} /\ result = Unread
    BY DEF ReadMagic, ReadVersion, ReadFlags, ReadReserved, ReadUnit, StorageInv
  <1>2. /\ field = "magic" => Unit = Magic
        /\ field = "version" => Unit = Version
        /\ field = "flags" => Unit = IF Source.srid = NoSrid THEN 0 ELSE 1
        /\ field = "reserved" => Unit = 0
    BY <1>1, NextHeaderField
  <1>3. UNCHANGED <<written, body, count, srid, got>> /\ Source' = Source
    BY DEF ReadMagic, ReadVersion, ReadFlags, ReadReserved, ReadUnit, Source
  <1>4. \/ field = "magic" /\ field' = "version" /\ result' = result
        \/ field = "version" /\ field' = "flags" /\ result' = result
        \/ field = "flags" /\ field' = "reserved" /\ result' = result /\ hasSrid' = (Source.srid # NoSrid)
        \/ field = "reserved" /\ field' = "count" /\ result' = result /\ hasSrid' = hasSrid
    <2>1. CASE ReadMagic
      BY <1>2, <2>1 DEF ReadMagic, ReadUnit
    <2>2. CASE ReadVersion
      BY <1>2, <2>2 DEF ReadVersion, ReadUnit
    <2>3. CASE ReadFlags
      BY <1>2, <2>3 DEF ReadFlags, ReadUnit
    <2>4. CASE ReadReserved
      BY <1>2, <2>4 DEF ReadReserved, ReadUnit
    <2> QED
      BY <2>1, <2>2, <2>3, <2>4
  <1> QED
    BY <1>1, <1>3, <1>4 DEF AgreesWithSource, LevelField

LEMMA CountAgrees ==
    ASSUME StorageInv, TakenInv, AgreesWithSource, ReadCount \/ ReadSrid
    PROVE  AgreesWithSource'
  <1>1. /\ field \in {"count", "srid"} /\ result = Unread /\ result' = result /\ got = <<>> /\ srid = NoSrid
        /\ UNCHANGED <<written, body, hasSrid, got>> /\ Source' = Source
    BY DEF ReadCount, ReadSrid, ReadUnit, StorageInv, HeaderInv, Source
  <1>2. /\ field = "count" => Unit = Len(Source.levels)
        /\ field = "srid" => Unit = Source.srid
    BY <1>1, NextHeaderField
  <1>3. hasSrid = (Source.srid # NoSrid)
    BY <1>1 DEF AgreesWithSource
  <1>4. count' = Len(Source.levels)
    BY <1>2 DEF ReadCount, ReadSrid, ReadUnit, AgreesWithSource
  <1>5. field' \in {"srid", "alpha", "end"}
    BY DEF ReadCount, ReadSrid, ReadUnit, LevelOrEnd
  <1>6. field' \in {"alpha", "end"} => srid' = Source.srid
    <2>1. CASE ReadCount
      <3>1. /\ field = "count" /\ srid' = srid
            /\ field' = IF hasSrid THEN "srid" ELSE LevelOrEnd(Unit, 0)
        BY <2>1 DEF ReadCount, ReadUnit
      <3>2. hasSrid <=> Source.srid # NoSrid
        BY <1>3
      <3> QED
        BY <1>1, <3>1, <3>2
    <2>2. CASE ReadSrid
      <3>1. field = "srid" /\ srid' = Unit
        BY <2>2 DEF ReadSrid, ReadUnit
      <3> QED
        BY <1>2, <3>1
    <2> QED
      BY <2>1, <2>2
  <1>7. field' \in {"alpha", "end"} => LevelsDone' = 0
    BY <1>1 DEF LevelsDone
  <1> QED
    BY <1>1, <1>3, <1>4, <1>5, <1>6, <1>7 DEF AgreesWithSource, LevelField

LEMMA AlphaAgrees ==
    ASSUME StorageInv, TakenInv, AgreesWithSource, ReadAlpha
    PROVE  AgreesWithSource'
  <1> DEFINE level == [alpha |-> Unit, len |-> 0, ewkb |-> <<>>]
             n == Len(got)
             l == Source.levels[n + 1]
  <1>1. /\ field = "alpha" /\ UNCHANGED <<hasSrid, count, srid>> /\ body' = body
        /\ written' = written /\ Source' = Source /\ got' = Append(got, level) /\ result = Unread
    BY DEF ReadAlpha, ReadUnit, StorageInv, Source
  <1>2. LevelsDone = n
    BY <1>1 DEF LevelsDone
  <1>3. Unit = l.alpha /\ l.alpha \in AlphaUnits
    BY <1>1, <1>2, NextLevel
  <1>4. field' = "len" /\ result' = result
    BY <1>3 DEF ReadAlpha, ReadUnit
  <1>5. got \in ReadLevels /\ n \in Nat /\ level \in ReadLevel
    <2>1. Unit \in Nat
      BY <1>3, StorageAssumption
    <2> QED
      BY <2>1 DEF StorageInv, ReaderTypes, ReadLevels, ReadLevel
  <1> HIDE DEF level
  <1>6. Len(got') = n + 1 /\ got'[n + 1] = level /\ \A k \in 1..n : got'[k] = got[k]
    BY <1>1, <1>5, AppendProperties DEF ReadLevels
  <1> HIDE DEF n
  <1>7. LevelsDone' = n
    BY <1>4, <1>5, <1>6 DEF LevelsDone
  <1>8. LastRead' = level
    BY <1>6 DEF LastRead
  <1>9. LastRead'.alpha = Source'.levels[Len(got')].alpha
    BY <1>1, <1>3, <1>6, <1>8 DEF level
  <1>10. \A k \in 1..LevelsDone' :
             got'[k].alpha = Source'.levels[k].alpha /\ got'[k].ewkb = Source'.levels[k].ewkb
    BY <1>1, <1>2, <1>6, <1>7 DEF AgreesWithSource, LevelField
  <1>11. srid' = Source'.srid /\ count' = Len(Source'.levels)
    BY <1>1 DEF AgreesWithSource, LevelField
  <1>12. Source' \in Payloads /\ NewStored(Source').kind = "Ok" /\ body' = EncodeBody(Source')
    BY <1>1 DEF AgreesWithSource
  <1> QED
    BY <1>1, <1>4, <1>9, <1>10, <1>11, <1>12 DEF AgreesWithSource, LevelField

LEMMA LenAgrees ==
    ASSUME StorageInv, TakenInv, AgreesWithSource, ReadLen
    PROVE  AgreesWithSource'
  <1> DEFINE n == Len(got) - 1
             l == Source.levels[n + 1]
  <1>1. /\ field = "len" /\ field' = "ewkb" /\ UNCHANGED <<hasSrid, count, srid, body, result>>
        /\ written' = written /\ Source' = Source /\ got' = [got EXCEPT ![Len(got)].len = Unit]
        /\ result = Unread
    BY DEF ReadLen, ReadUnit, StorageInv, Source
  <1>2. got \in ReadLevels /\ Len(got) > 0 /\ LevelsDone = n
    BY <1>1 DEF StorageInv, ReaderTypes, LevelInv, LevelsDone
  <1>3. n \in Nat /\ Len(got) = n + 1 /\ Len(got) \in 1..Len(got)
    BY <1>2 DEF ReadLevels
  <1>4. Unit = Len(l.ewkb)
    BY <1>1, <1>2, NextLevel
  <1>5. /\ Len(got') = Len(got)
        /\ \A k \in 1..n : got'[k] = got[k]
        /\ LastRead' = [LastRead EXCEPT !.len = Unit]
    <2>1. got \in Seq(ReadLevel) /\ DOMAIN got = 1..Len(got)
      BY <1>2 DEF ReadLevels
    <2>2. DOMAIN got' = DOMAIN got
      BY <1>1
    <2>3. Len(got') = Len(got)
      BY <1>1, <2>1, <2>2
    <2>4. got'[Len(got)] = [got[Len(got)] EXCEPT !.len = Unit]
      BY <1>1, <1>3, <2>1
    <2>5. \A k \in 1..n : got'[k] = got[k]
      BY <1>1, <1>3, <2>1
    <2> QED
      BY <2>3, <2>4, <2>5 DEF LastRead
  <1>6. LastRead'.alpha = LastRead.alpha /\ LastRead'.len = Unit
    <2>1. LastRead \in ReadLevel
      BY <1>2, <1>3, LevelRead DEF LastRead
    <2> QED
      BY <1>5, <2>1 DEF ReadLevel
  <1>7. LevelsDone' = n
    BY <1>1, <1>5 DEF LevelsDone
  <1>8. LastRead'.alpha = Source'.levels[Len(got')].alpha
    BY <1>1, <1>5, <1>6 DEF AgreesWithSource
  <1>9. LastRead'.len = Len(Source'.levels[Len(got')].ewkb)
    BY <1>1, <1>3, <1>4, <1>5, <1>6
  <1> HIDE DEF n, l
  <1>10. \A k \in 1..LevelsDone' :
             got'[k].alpha = Source'.levels[k].alpha /\ got'[k].ewkb = Source'.levels[k].ewkb
    BY <1>1, <1>2, <1>5, <1>7 DEF AgreesWithSource, LevelField
  <1>11. srid' = Source'.srid /\ count' = Len(Source'.levels)
    BY <1>1 DEF AgreesWithSource, LevelField
  <1>12. Source' \in Payloads /\ NewStored(Source').kind = "Ok" /\ body' = EncodeBody(Source')
    BY <1>1 DEF AgreesWithSource
  <1> QED
    BY <1>1, <1>8, <1>9, <1>10, <1>11, <1>12 DEF AgreesWithSource, LevelField

LEMMA EwkbAgrees ==
    ASSUME StorageInv, TakenInv, AgreesWithSource, ReadEwkb
    PROVE  AgreesWithSource'
  <1> DEFINE n == Len(got) - 1
             l == Source.levels[n + 1]
             ewkb == SubSeq(body, offset + 1, offset + LastRead.len)
  <1>1. /\ field = "ewkb" /\ body' = body /\ UNCHANGED <<hasSrid, count, srid>>
        /\ written' = written /\ Source' = Source /\ result = Unread
        /\ got' = [got EXCEPT ![Len(got)].ewkb = ewkb]
        /\ IF StoredLevelError(ewkb) = "None"
           THEN field' = LevelOrEnd(count, Len(got)) /\ UNCHANGED result
           ELSE Finish(Failed(StoredLevelError(ewkb)))
    BY DEF ReadEwkb, LastRead, StorageInv, Source
  <1>2. got \in ReadLevels /\ Len(got) > 0 /\ LevelsDone = n
    BY <1>1 DEF StorageInv, ReaderTypes, LevelInv, LevelsDone
  <1>3. n \in Nat /\ Len(got) = n + 1 /\ Len(got) \in 1..Len(got)
    BY <1>2 DEF ReadLevels
  <1>4. LastRead.len = Len(l.ewkb) /\ LastRead.alpha = l.alpha
    BY <1>1, <1>3 DEF AgreesWithSource
  <1>5. /\ SubSeq(body, offset + 1, offset + Len(l.ewkb)) = l.ewkb
        /\ StoredLevelError(l.ewkb) = "None" /\ l.ewkb \in Seq(Nat)
    BY <1>1, <1>2, NextLevel
  <1>6. ewkb = l.ewkb
    BY <1>4, <1>5
  <1>7. field' \in {"alpha", "end"} /\ result' = result
    BY <1>1, <1>5, <1>6 DEF LevelOrEnd
  <1> HIDE DEF ewkb
  <1>8. /\ Len(got') = Len(got)
        /\ \A k \in 1..n : got'[k] = got[k]
        /\ got'[n + 1] = [LastRead EXCEPT !.ewkb = ewkb]
    <2>1. got \in Seq(ReadLevel) /\ DOMAIN got = 1..Len(got)
      BY <1>2 DEF ReadLevels
    <2>2. DOMAIN got' = DOMAIN got
      BY <1>1
    <2>3. Len(got') = Len(got)
      BY <1>1, <2>1, <2>2
    <2>4. got'[Len(got)] = [got[Len(got)] EXCEPT !.ewkb = ewkb]
      BY <1>1, <1>3, <2>1
    <2>5. \A k \in 1..n : got'[k] = got[k]
      BY <1>1, <1>3, <2>1
    <2> QED
      BY <1>3, <2>3, <2>4, <2>5 DEF LastRead
  <1>9. got'[n + 1].alpha = l.alpha /\ got'[n + 1].ewkb = l.ewkb
    <2>1. LastRead \in ReadLevel
      BY <1>2, <1>3, LevelRead DEF LastRead
    <2>2. got'[n + 1].alpha = LastRead.alpha /\ got'[n + 1].ewkb = ewkb
      BY <1>8, <2>1 DEF ReadLevel
    <2> QED
      BY <1>4, <1>6, <2>2
  <1>10. LevelsDone' = n + 1
    BY <1>3, <1>7, <1>8 DEF LevelsDone
  <1> HIDE DEF n
  <1>11. ASSUME NEW k \in 1..n + 1
         PROVE  got'[k].alpha = Source.levels[k].alpha /\ got'[k].ewkb = Source.levels[k].ewkb
    <2>1. CASE k = n + 1
      BY <1>9, <2>1 DEF l
    <2>2. CASE k # n + 1
      <3>1. k \in 1..n
        BY <1>3, <2>2
      <3> QED
        BY <1>1, <1>2, <1>8, <3>1 DEF AgreesWithSource, LevelField
    <2> QED
      BY <2>1, <2>2
  <1> HIDE DEF l
  <1>12. \A k \in 1..LevelsDone' :
             got'[k].alpha = Source'.levels[k].alpha /\ got'[k].ewkb = Source'.levels[k].ewkb
    BY <1>1, <1>10, <1>11
  <1>13. srid' = Source'.srid /\ count' = Len(Source'.levels)
    BY <1>1 DEF AgreesWithSource, LevelField
  <1>14. Source' \in Payloads /\ NewStored(Source').kind = "Ok" /\ body' = EncodeBody(Source')
    BY <1>1 DEF AgreesWithSource
  <1> QED
    BY <1>1, <1>7, <1>12, <1>13, <1>14 DEF AgreesWithSource, LevelField

\* At the end the payload read is the one written, and validated as it was.
LEMMA ReadPayloadIsSource ==
    ASSUME StorageInv, TakenInv, AgreesWithSource, field = "end"
    PROVE  ReadPayload = Source /\ offset = Len(body)
  <1> DEFINE m == Len(Source.levels)
             s == Source.levels
             R == [alpha : Nat, ewkb : Seq(Nat)]
  <1>1. /\ LevelsDone = m /\ Len(got) = m
        /\ offset = Len(Before(Source, m))
    BY Position DEF LevelField
  <1>2. Source \in Payload /\ NewStored(Source).kind = "Ok" /\ body = EncodeBody(Source)
    BY SourceIsPayload DEF SourceBuilt
  <1>3. offset = Len(body)
    BY <1>1, <1>2, BodyEnd
  <1>4. srid = Source.srid /\ \A k \in 1..m : got[k].alpha = s[k].alpha /\ got[k].ewkb = s[k].ewkb
    BY <1>1 DEF AgreesWithSource, LevelField
  <1>5. \A k \in 1..m : s[k] = [alpha |-> s[k].alpha, ewkb |-> s[k].ewkb]
    BY <1>2, PayloadLevels
  <1>6. DOMAIN got = 1..m /\ DOMAIN s = 1..m /\ s = [k \in 1..m |-> s[k]]
        /\ Source = [srid |-> Source.srid, levels |-> s]
    <2>1. DOMAIN got = 1..Len(got)
      BY DEF StorageInv, ReaderTypes, ReadLevels
    <2>2. s \in Seq(R) /\ Source = [srid |-> Source.srid, levels |-> s]
      BY <1>2 DEF Payload
    <2> HIDE DEF R
    <2>3. DOMAIN s = 1..m /\ s = [k \in 1..m |-> s[k]]
      BY <2>2
    <2> QED
      BY <1>1, <2>1, <2>2, <2>3
  <1> HIDE DEF m, s
  <1>7. [k \in 1..m |-> [alpha |-> got[k].alpha, ewkb |-> got[k].ewkb]] = [k \in 1..m |-> s[k]]
    BY <1>4, <1>5
  <1>8. ReadPayload = [srid |-> srid,
                       levels |-> [k \in 1..m |-> [alpha |-> got[k].alpha, ewkb |-> got[k].ewkb]]]
    BY <1>6 DEF ReadPayload
  <1> QED
    BY <1>3, <1>4, <1>6, <1>7, <1>8

LEMMA EndAgrees ==
    ASSUME StorageInv, TakenInv, AgreesWithSource, EndOfBody
    PROVE  AgreesWithSource'
  <1>1. /\ field = "end" /\ field' = "none" /\ UNCHANGED <<written, body, count>> /\ Source' = Source
        /\ result' = IF offset # Len(body) THEN Failed("TrailingBytes")
                     ELSE ValidateLevels(ReadPayload)
    BY DEF EndOfBody, Finish, readVars, Source
  <1>2. result' = ValidateLevels(Source)
    BY <1>1, ReadPayloadIsSource
  <1>3. ValidateLevels(Source) = Decoded(Source)
    <2> DEFINE v == Source
    <2>1. v \in Payload /\ NewStored(v).kind = "Ok"
      BY SourceIsPayload DEF SourceBuilt
    <2> HIDE DEF v
    <2>2. ValidateLevels(v) = Decoded(v)
      BY <2>1, BuiltPayload
    <2> QED
      BY <2>2 DEF v
  <1>4. result' # Unread
    BY <1>2, ValidatedIsFinal
  <1> QED
    BY <1>1, <1>2, <1>3, <1>4 DEF AgreesWithSource, LevelField

-----------------------------------------------------------------------------

LEMMA WrittenInitInv == StorageInit => WrittenInv
  BY DEF StorageInit, WrittenInv

LEMMA StartWrites ==
    ASSUME StorageInv, WrittenInv, NEW v \in Payloads, Write(v)
    PROVE  WrittenInv'
  <1>1. field = "none" /\ result = Unread /\ written = <<>> /\ count = 0
    BY DEF Write, WrittenInv
  <1>2. CASE NewStored(v).kind = "Ok"
    <2>1. /\ written' = <<v>> /\ body' = EncodeBody(v) /\ field' = "magic"
          /\ UNCHANGED <<offset, hasSrid, count, srid, got, result>>
      BY <1>2 DEF Write, readVars
    <2>2. Source' = v
      BY <2>1 DEF Source
    <2>3. AgreesWithSource'
      BY <1>1, <1>2, <2>1, <2>2 DEF AgreesWithSource, LevelField
    <2> QED
      BY <2>1, <2>3 DEF WrittenInv
  <1>3. CASE NewStored(v).kind # "Ok"
    <2>1. result' = NewStored(v) /\ written' = <<>>
      BY <1>1, <1>3 DEF Write, Finish
    <2>2. NewStored(v) # Unread
      BY DEF NewStored, Failed, Unread, ValidateLevels, Decoded, StoredLevelError
    <2> QED
      BY <2>1, <2>2 DEF WrittenInv
  <1> QED
    BY <1>2, <1>3

LEMMA WrittenStepInv ==
    StorageInv /\ TakenInv /\ WrittenInv /\ [StorageNext]_storageVars => WrittenInv'
  <1> SUFFICES ASSUME StorageInv, TakenInv, WrittenInv, [StorageNext]_storageVars
               PROVE  WrittenInv'
    OBVIOUS
  <1>1. CASE \E v \in Payloads : Write(v)
    BY <1>1, StartWrites
  <1>2. CASE \E units \in Bodies : Read(units)
    BY <1>2 DEF Read, WrittenInv
  <1>3. CASE DecodeStep
    <2>1. result = Unread
      BY <1>3 DEF DecodeStep, Truncated, ReadMagic, ReadVersion, ReadFlags, ReadReserved, ReadCount,
             ReadSrid, ReadAlpha, ReadLen, ReadEwkb, EndOfBody, ReadUnit, StorageInv
    <2>2. written' = written /\ (field' = "none" => result' # Unread)
      BY <1>3, <2>1, DecodeAnswers
    <2>3. written # <<>> => AgreesWithSource'
      BY <1>3, NothingTruncated, HeaderAgrees, CountAgrees, AlphaAgrees, LenAgrees, EwkbAgrees, EndAgrees
         DEF DecodeStep, WrittenInv
    <2> QED
      BY <2>2, <2>3 DEF WrittenInv
  <1>4. CASE UNCHANGED storageVars
    <2>1. UNCHANGED <<written, body, field, offset, hasSrid, count, srid, got, result>>
      BY <1>4 DEF storageVars, readVars
    <2>2. /\ Source' = Source /\ LevelsDone' = LevelsDone /\ LastRead' = LastRead
          /\ LevelField' = LevelField
      BY <2>1 DEF Source, LevelsDone, LastRead, LevelField
    <2>3. AgreesWithSource => AgreesWithSource'
      BY <2>1, <2>2 DEF AgreesWithSource
    <2> QED
      BY <2>1, <2>3 DEF WrittenInv
  <1> QED
    BY <1>1, <1>2, <1>3, <1>4 DEF StorageNext

LEMMA WrittenInvariant == StorageSpec => [](StorageInv /\ TakenInv /\ WrittenInv)
  BY StorageInitInv, TakenInitInv, WrittenInitInv, StorageStepInv, TakenStepInv, WrittenStepInv, PTL
     DEF StorageSpec

\* What the header of a written body asks for is there.
LEMMA WrittenReserves ==
    ASSUME WrittenInv
    PROVE  ReservesForItsLevels
  <1> SUFFICES ASSUME written # <<>>, count # 0
               PROVE  3 * count + 6 <= Len(body)
    BY DEF ReservesForItsLevels
  <1>1. AgreesWithSource
    BY DEF WrittenInv
  <1> DEFINE v == Source
             m == Len(v.levels)
             h == HeaderOf(v.srid, m)
             e == Encoded(v.levels, m)
  <1>2. v \in Payload /\ NewStored(v).kind = "Ok" /\ body = EncodeBody(v) /\ m \in Nat
    BY <1>1, SourceIsPayload DEF SourceBuilt
  <1>3. count = m
    BY <1>1 DEF AgreesWithSource
  <1> HIDE DEF v
  <1>4. AsU32(m) = m /\ (m > 0 => v.srid # NoSrid)
        /\ \A k \in 1..m : StoredLevelError(v.levels[k].ewkb) = "None"
    BY <1>2, BuiltPayload
  <1>5. Len(body) = Len(h) + Len(e)
    BY <1>2, <1>4, BodyParts
  <1>6. Len(h) = 6
    <2>1. v.srid # NoSrid /\ v.srid \in Nat \cup {NoSrid}
      BY <1>2, <1>3, <1>4 DEF Payload
    <2> QED
      BY <1>2, <2>1, HeaderUnits
  <1>7. ASSUME NEW k \in 1..m
        PROVE  EncodeLevel(v.levels[k]) \in Units /\ Len(EncodeLevel(v.levels[k])) >= 3
    <2> DEFINE ewkb == v.levels[k].ewkb
    <2>1. /\ EncodeLevel(v.levels[k]) \in Units /\ ewkb \in Seq(Nat)
          /\ Len(EncodeLevel(v.levels[k])) = 2 + Len(ewkb)
      BY <1>2, PayloadLevels
    <2>2. Len(ewkb) >= 1 /\ Len(ewkb) \in Nat
      BY <1>4, <2>1, StoredLevelBytes
    <2> QED
      BY <2>1, <2>2
  <1>8. Len(e) >= 3 * m
    BY <1>2, <1>7, EncodedLength
  <1>9. Len(e) \in Nat
    <2>1. m \in 0..m
      BY <1>2
    <2>2. e \in Seq(Nat)
      BY <1>2, <1>7, <2>1, EncodedSplit DEF Units
    <2> QED
      BY <2>2
  <1> HIDE DEF m, h, e
  <1> QED
    BY <1>2, <1>3, <1>5, <1>6, <1>8, <1>9

\* Whatever the body, the reader stays inside it and its variables have their
\* types.
THEOREM StorageTypeCorrect == StorageSpec => []StorageTypeOK
  BY StorageInvariant, PTL DEF StorageInv

\* Whatever the body, each level of the value returned was three of its units.
THEOREM LevelsAreInTheBody == StorageSpec => []LevelsFitBody
  BY StorageInvariant, PTL DEF StorageInv

\* A body that decodes is the encoding of the value it decodes to, so no two
\* bodies stand for one value and nothing in a body goes unread.
THEOREM BodiesAreEncodings == StorageSpec => []AcceptsOnlyEncodings
  BY TakenInvariant, PTL DEF TakenInv

\* decode_body after encode_body gives back the payload that was built, whatever
\* its SRID, its alphas and the bytes of its levels are.
THEOREM PayloadsRoundTrip == StorageSpec => []RoundTrip
  <1>1. WrittenInv => RoundTrip
    BY DEF WrittenInv, AgreesWithSource, RoundTrip, Source
  <1> QED
    BY <1>1, WrittenInvariant, PTL

\* The level count decode_body reserves memory for is that of the levels the body
\* holds, when the body was written by encode_body.
THEOREM ReservationsFit == StorageSpec => []ReservesForItsLevels
  BY WrittenInvariant, WrittenReserves, PTL
=============================================================================
