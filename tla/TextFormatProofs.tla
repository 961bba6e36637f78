--------------------------- MODULE TextFormatProofs ---------------------------
(***************************************************************************)
(* Theorems about TextFormat, for every way to write numbers that meets    *)
(* NumeralAssumption, every set of payloads and of given texts: what       *)
(* to_text writes is read back as it was written, what parse_text answers  *)
(* can be stored, and it has read all of the text it accepts.              *)
(*                                                                         *)
(* The argument: the recursive FlattenSeq and the splits are pinned down   *)
(* first, by lemmas on how their results grow with the text; so splitting  *)
(* undoes joining and the other way round (SplitJoin, JoinSplit), and      *)
(* likewise for hex digits.  An accepted envelope is all of the trimmed    *)
(* text (EnvelopeWraps), an entry with its colon all of its entry.         *)
(* ParseInv says what has been read of the envelope at every point of a    *)
(* call and what is still to read.  Texts are compared from left to right: *)
(* two that are alike stay so when a separator and a piece follow          *)
(* (AlikeMore), which makes the accepted text and the one written for its  *)
(* value alike.                                                            *)
(***************************************************************************)
EXTENDS TextFormat, SequenceTheorems, WellFoundedInduction, TLAPS

-----------------------------------------------------------------------------
\* Sequences.

LEMMA Associate ==
    ASSUME NEW R, NEW a \in Seq(R), NEW b \in Seq(R), NEW c \in Seq(R)
    PROVE  (a \o b) \o c = a \o (b \o c)
  BY ConcatAssociative, SMTT(40)

\* A set of natural numbers that is not empty has a least element.
LEMMA LeastExists ==
    ASSUME NEW S, S \subseteq Nat, S # {}
    PROVE  \E m \in S : \A k \in S : m <= k
  <1>1. PICK m \in S : \A k \in S : ~(<<k, m>> \in OpToRel(<, Nat))
    BY NatLessThanWellFounded, WFMin, Zenon
  <1>2. ASSUME NEW k \in S, ~(m <= k)
        PROVE  FALSE
    <2>1. k < m /\ k \in Nat /\ m \in Nat
      BY <1>2
    <2> QED
      BY <1>1, <2>1 DEF OpToRel
  <1> QED
    BY <1>2

\* f[i] is the concatenation of the first i sequences of s, up to the n-th.
IsParts(f, s, n) ==
    /\ f[0] = <<>>
    /\ \A i \in 1..n : f[i] = f[i - 1] \o s[i]

\* There are such parts of s: the least number of sequences without them would get
\* them from those of one sequence less.
LEMMA PartsExist ==
    ASSUME NEW R, NEW s \in Seq(Seq(R))
    PROVE  \E f : IsParts(f, s, Len(s)) /\ \A i \in 0..Len(s) : f[i] \in Seq(R)
  <1> DEFINE Parted(f, n) == IsParts(f, s, n) /\ \A i \in 0..n : f[i] \in Seq(R)
             missing == {n \in 0..Len(s) : ~\E f : Parted(f, n)}
  <1>1. Len(s) \in Nat /\ \A i \in 1..Len(s) : s[i] \in Seq(R)
    OBVIOUS
  <1>2. ASSUME missing # {}
        PROVE  FALSE
    <2>1. missing \subseteq Nat
      BY <1>1
    <2> HIDE DEF missing
    <2>2. PICK n \in missing : \A k \in missing : n <= k
      BY <1>2, <2>1, LeastExists
    <2>3. n \in 0..Len(s) /\ ~\E f : Parted(f, n)
      BY DEF missing
    <2>4. n \in Nat
      BY <2>3
    <2>5. CASE n = 0
      <3> DEFINE f == [i \in 0..0 |-> <<>>]
      <3>1. (\A i \in 0..n : f[i] \in Seq(R)) /\ f[0] = <<>> /\ 1..n = {}
        BY <2>5
      <3>2. Parted(f, n)
        BY <3>1, Zenon DEF IsParts
      <3> QED
        BY <2>3, <3>2, Zenon
    <2>6. CASE n # 0
      <3>1. n - 1 \in 0..Len(s) /\ ~(n <= n - 1) /\ n \in 1..Len(s)
        BY <1>1, <2>3, <2>4, <2>6
      <3>2. n - 1 \notin missing
        BY <2>2, <3>1
      <3>3. PICK f : Parted(f, n - 1)
        BY <3>1, <3>2 DEF missing
      <3>4. /\ (\A i \in 0..n - 1 : f[i] \in Seq(R)) /\ f[0] = <<>>
            /\ \A i \in 1..n - 1 : f[i] = f[i - 1] \o s[i]
        BY <3>3, Zenon DEF IsParts
      <3> DEFINE g == [i \in 0..n |-> IF i = n THEN f[n - 1] \o s[n] ELSE f[i]]
      <3>5. s[n] \in Seq(R) /\ f[n - 1] \in Seq(R)
        BY <1>1, <2>4, <2>6, <3>1, <3>4
      <3>6. f[n - 1] \o s[n] \in Seq(R)
        BY <3>5
      <3>7. \A i \in 0..n : g[i] \in Seq(R)
        <4>1. ASSUME NEW i \in 0..n, i # n
              PROVE  f[i] \in Seq(R)
          <5>1. i \in 0..n - 1
            BY <2>4, <4>1
          <5> QED
            BY <3>4, <5>1
        <4> QED
          BY <3>6, <4>1
      <3>8. g[0] = <<>>
        BY <2>4, <2>6, <3>4
      <3>9. ASSUME NEW i \in 1..n
            PROVE  g[i] = g[i - 1] \o s[i]
        <4>1. i - 1 \in 0..n /\ i - 1 # n /\ i \in 0..n /\ (i # n => i \in 1..n - 1)
          BY <2>4
        <4>2. g[i - 1] = f[i - 1]
          BY <4>1
        <4>3. CASE i = n
          BY <4>1, <4>2, <4>3
        <4>4. CASE i # n
          BY <3>4, <4>1, <4>2, <4>4
        <4> QED
          BY <4>3, <4>4
      <3> HIDE DEF g
      <3>10. Parted(g, n)
        BY <3>7, <3>8, <3>9, Zenon DEF IsParts
      <3> QED
        BY <2>3, <3>10, Zenon
    <2> QED
      BY <2>5, <2>6
  <1>3. Len(s) \in 0..Len(s)
    BY <1>1
  <1> QED
    BY <1>2, <1>3

SameUpTo(s, t, i, n) == \A k \in i..n : s[k] = t[k]

\* Lists that begin with the same sequences have the same first parts.
LEMMA PartsAgree ==
    ASSUME NEW s, NEW t, NEW f, NEW g, NEW n \in Nat, NEW m \in Nat, n <= m,
           IsParts(f, s, n), IsParts(g, t, m), SameUpTo(s, t, 1, n)
    PROVE  SameUpTo(f, g, 0, n)
  <1> DEFINE differ == {i \in 0..n : f[i] # g[i]}
  <1>1. ASSUME differ # {}
        PROVE  FALSE
    <2>1. differ \subseteq Nat /\ \A i \in differ : i \in 0..n /\ f[i] # g[i]
      OBVIOUS
    <2>2. \A i \in 0..n : i \notin differ => f[i] = g[i]
      OBVIOUS
    <2> HIDE DEF differ
    <2>3. PICK i \in differ : \A j \in differ : i <= j
      BY <1>1, <2>1, LeastExists
    <2>4. i \in 0..n /\ f[i] # g[i]
      BY <2>1
    <2>5. i # 0
      BY <2>4 DEF IsParts
    <2>6. i \in 1..n /\ i - 1 \in 0..n /\ ~(i <= i - 1) /\ i \in 1..m
      BY <2>4, <2>5
    <2>7. f[i - 1] = g[i - 1]
      BY <2>2, <2>3, <2>6
    <2>8. f[i] = f[i - 1] \o s[i] /\ g[i] = g[i - 1] \o t[i] /\ s[i] = t[i]
      BY <2>6, Zenon DEF IsParts, SameUpTo
    <2> QED
      BY <2>4, <2>7, <2>8
  <1> QED
    BY <1>1 DEF SameUpTo

\* The last part is the list flattened.
LEMMA FlattenIs ==
    ASSUME NEW R, NEW s \in Seq(Seq(R)), NEW f, IsParts(f, s, Len(s))
    PROVE  FlattenSeq(s) = f[Len(s)]
  <1> DEFINE n == Len(s)
  <1>1. n \in Nat /\ \A i \in 1..n : s[i] \in Seq(R)
    OBVIOUS
  <1>2. f[0] = <<>> /\ \A i \in 1..n : f[i] = f[i - 1] \o s[i]
    BY Zenon DEF IsParts
  <1>3. CASE n = 0
    <2>1. s = <<>> /\ Len(s) = 0
      BY <1>3
    <2>2. FlattenSeq(s) = s
      BY <2>1, Zenon DEF FlattenSeq
    <2> QED
      BY <1>2, <1>3, <2>1, <2>2
  <1>4. CASE n # 0
    <2> DEFINE Rec(g) == g = [i \in 1..n |-> IF i = 1 THEN s[i] ELSE g[i - 1] \o s[i]]
               h == CHOOSE g : Rec(g)
               f1 == [i \in 1..n |-> f[i]]
    <2>1. FlattenSeq(s) = h[n]
      <3>1. ~(Len(s) = 0)
        BY <1>4
      <3> QED
        BY <3>1, Zenon DEF FlattenSeq
    <2>2. 1 \in 1..n /\ n \in 1..n
      BY <1>1, <1>4
    <2>3. f[1] = s[1]
      <3>1. f[1] = f[0] \o s[1]
        <4>1. f[1] = f[1 - 1] \o s[1]
          BY <1>2, <2>2
        <4> QED
          BY <4>1
      <3>2. <<>> \o s[1] = s[1]
        BY <1>1, <2>2
      <3> QED
        BY <1>2, <3>1, <3>2
    <2>4. \A i \in 1..n : i # 1 => i - 1 \in 1..n
      BY <1>1
    <2>5. Rec(f1)
      <3>1. ASSUME NEW i \in 1..n
            PROVE  f1[i] = IF i = 1 THEN s[i] ELSE f1[i - 1] \o s[i]
        <4>1. CASE i = 1
          BY <2>2, <2>3, <4>1
        <4>2. CASE i # 1
          BY <1>2, <2>4, <4>2
        <4> QED
          BY <4>1, <4>2
      <3>2. f1 = [i \in 1..n |-> f1[i]]
        BY Zenon
      <3> HIDE DEF f1
      <3> QED
        BY <3>1, <3>2
    <2>6. Rec(h)
      <3> HIDE DEF f1, Rec
      <3> QED
        BY <2>5
    <2> HIDE DEF h
    <2>7. \A i \in 1..n : h[i] = IF i = 1 THEN s[i] ELSE h[i - 1] \o s[i]
      BY <2>6
    <2> DEFINE differ == {i \in 1..n : h[i] # f[i]}
    <2>8. ASSUME differ # {}
          PROVE  FALSE
      <3>1. differ \subseteq Nat /\ \A i \in differ : i \in 1..n /\ h[i] # f[i]
        BY <1>1
      <3>2. \A i \in 1..n : i \notin differ => h[i] = f[i]
        OBVIOUS
      <3> HIDE DEF differ
      <3>3. PICK i \in differ : \A j \in differ : i <= j
        BY <2>8, <3>1, LeastExists
      <3>4. i \in 1..n /\ h[i] # f[i]
        BY <3>1
      <3>5. i # 1
        BY <2>3, <2>7, <3>4
      <3>6. i - 1 \in 1..n /\ ~(i <= i - 1)
        BY <1>1, <2>4, <3>4, <3>5
      <3>7. h[i - 1] = f[i - 1]
        BY <3>2, <3>3, <3>6
      <3> QED
        BY <1>2, <2>7, <3>4, <3>5, <3>7
    <2>9. h[n] = f[n]
      BY <2>2, <2>8
    <2> QED
      BY <2>1, <2>9
  <1> QED
    BY <1>3, <1>4

\* What is flattened grows with the list.
LEMMA FlattenNothing == FlattenSeq(<<>>) = <<>>
  <1>1. Len(<<>>) = 0
    OBVIOUS
  <1> QED
    BY <1>1, Zenon DEF FlattenSeq

LEMMA FlattenAppend ==
    ASSUME NEW R, NEW s \in Seq(Seq(R)), NEW e \in Seq(R)
    PROVE  /\ FlattenSeq(s) \in Seq(R)
           /\ FlattenSeq(Append(s, e)) = FlattenSeq(s) \o e
  <1> DEFINE n == Len(s)
             t == Append(s, e)
  <1>1. n \in Nat /\ t \in Seq(Seq(R)) /\ Len(t) = n + 1 /\ t[n + 1] = e /\ \A i \in 1..n : s[i] = t[i]
    OBVIOUS
  <1>2. PICK f : IsParts(f, s, Len(s)) /\ \A i \in 0..Len(s) : f[i] \in Seq(R)
    BY PartsExist
  <1>3. PICK g : IsParts(g, t, Len(t))
    BY <1>1, PartsExist
  <1>4. FlattenSeq(s) = f[n] /\ FlattenSeq(t) = g[Len(t)]
    BY <1>1, <1>2, <1>3, FlattenIs
  <1>5. f[n] \in Seq(R)
    BY <1>1, <1>2
  <1> HIDE DEF t
  <1>6. n <= Len(t) /\ Len(t) \in Nat /\ n \in 0..n /\ n + 1 \in 1..Len(t) /\ (n + 1) - 1 = n
    BY <1>1
  <1>7. f[n] = g[n]
    <2>1. SameUpTo(s, t, 1, n)
      BY <1>1 DEF SameUpTo
    <2>2. n \in Nat /\ IsParts(f, s, n)
      BY <1>1, <1>2
    <2> DEFINE m == Len(t)
    <2>3. m \in Nat /\ n <= m /\ IsParts(g, t, m)
      BY <1>3, <1>6
    <2> HIDE DEF n, m
    <2>4. n \in 0..n
      BY <1>6
    <2>5. SameUpTo(f, g, 0, n)
      BY <2>1, <2>2, <2>3, PartsAgree
    <2> QED
      BY <2>4, <2>5, Zenon DEF SameUpTo
  <1>8. g[n + 1] = g[n] \o t[n + 1]
    BY <1>3, <1>6 DEF IsParts
  <1> QED
    BY <1>1, <1>4, <1>5, <1>7, <1>8 DEF t

\* Induction along a sequence, for a set of sequences.
LEMMA SequenceInduction ==
    ASSUME NEW R, NEW G, <<>> \in G,
           \A s \in Seq(R) : s \in G => \A c \in R : Append(s, c) \in G
    PROVE  Seq(R) \subseteq G
  <1> SUFFICES ASSUME NEW s \in Seq(R), s \notin G
               PROVE  FALSE
    OBVIOUS
  <1> DEFINE part(n) == SubSeq(s, 1, n)
             missing == {n \in 0..Len(s) : part(n) \notin G}
  <1>1. Len(s) \in Nat /\ part(Len(s)) = s /\ Len(s) \in 0..Len(s)
    <2>1. SubSeq(s, 1, Len(s)) = s
      BY SubSeqFull
    <2> QED
      BY <2>1
  <1>2. missing \subseteq Nat /\ missing # {}
    <2>1. part(Len(s)) \notin G
      BY <1>1
    <2> HIDE DEF part
    <2> QED
      BY <1>1, <2>1
  <1>3. \A n \in 0..Len(s) : n \notin missing => part(n) \in G
    OBVIOUS
  <1>4. \A n \in missing : n \in 0..Len(s) /\ part(n) \notin G
    OBVIOUS
  <1> HIDE DEF missing
  <1>5. PICK n \in missing : \A k \in missing : n <= k
    BY <1>2, LeastExists
  <1>6. n \in 0..Len(s) /\ part(n) \notin G
    BY <1>4
  <1>7. n # 0
    <2>1. part(0) = <<>>
      OBVIOUS
    <2> QED
      BY <1>6, <2>1
  <1>8. n - 1 \in 0..Len(s) /\ ~(n <= n - 1) /\ n \in 1..Len(s)
    BY <1>6, <1>7
  <1>9. part(n - 1) \in G
    BY <1>3, <1>5, <1>8
  <1>10. part(n - 1) \in Seq(R) /\ s[n] \in R
    BY <1>8
  <1>11. part(n) = Append(part(n - 1), s[n])
    BY <1>8
  <1> HIDE DEF part
  <1> QED
    BY <1>6, <1>9, <1>10, <1>11

-----------------------------------------------------------------------------
\* Places and pieces.

LEMMA AppendFacts ==
    ASSUME NEW R, NEW s \in Seq(R), NEW c \in R
    PROVE  /\ Len(s) \in Nat /\ DOMAIN s = 1..Len(s)
           /\ Append(s, c) \in Seq(R) /\ Len(Append(s, c)) = Len(s) + 1
           /\ DOMAIN Append(s, c) = 1..Len(s) + 1
           /\ Append(s, c)[Len(s) + 1] = c
           /\ \A k \in 1..Len(s) : Append(s, c)[k] = s[k]
  OBVIOUS

LEMMA AppendText ==
    ASSUME NEW s \in Text, NEW c \in Token
    PROVE  /\ Len(s) \in Nat /\ DOMAIN s = 1..Len(s)
           /\ Append(s, c) \in Text /\ Len(Append(s, c)) = Len(s) + 1
           /\ DOMAIN Append(s, c) = 1..Len(s) + 1
           /\ Append(s, c)[Len(s) + 1] = c
           /\ \A k \in 1..Len(s) : Append(s, c)[k] = s[k]
  BY AppendFacts DEF Text

LEMMA PlacesEmpty ==
    ASSUME NEW separators
    PROVE  Places(<<>>, separators) = <<>>
  <1>1. [k \in DOMAIN <<>> |-> IF <<>>[k] \in separators THEN <<k>> ELSE <<>>] = <<>>
    OBVIOUS
  <1> QED
    BY <1>1, FlattenNothing DEF Places

\* A token more is a place more if it is a separator.
LEMMA PlacesAppend ==
    ASSUME NEW separators, NEW s \in Text, NEW c \in Token
    PROVE  /\ Places(s, separators) \in Seq(Nat)
           /\ Places(Append(s, c), separators)
                  = Places(s, separators) \o (IF c \in separators THEN <<Len(s) + 1>> ELSE <<>>)
  <1> DEFINE n == Len(s)
             t == Append(s, c)
             mark(x) == [k \in DOMAIN x |-> IF x[k] \in separators THEN <<k>> ELSE <<>>]
             e == IF c \in separators THEN <<n + 1>> ELSE <<>>
  <1>1. /\ n \in Nat /\ DOMAIN s = 1..n /\ DOMAIN t = 1..n + 1
        /\ t[n + 1] = c /\ \A k \in 1..n : t[k] = s[k]
    BY AppendText
  <1>2. mark(s) \in Seq(Seq(Nat)) /\ Len(mark(s)) = n
    BY <1>1
  <1>3. e \in Seq(Nat)
    <2>1. <<n + 1>> \in Seq(Nat) /\ <<>> \in Seq(Nat)
      BY <1>1
    <2> QED
      BY <2>1, Zenon
  <1>4. mark(t) = Append(mark(s), e)
    <2>1. /\ mark(t) = [k \in 1..n + 1 |-> mark(t)[k]]
          /\ \A k \in 1..n : mark(t)[k] = mark(s)[k]
          /\ mark(t)[n + 1] = e
      <3>1. mark(t)[n + 1] = e
        <4> HIDE DEF t
        <4>1. n + 1 \in DOMAIN t
          BY <1>1
        <4>2. mark(t)[n + 1] = IF t[n + 1] \in separators THEN <<n + 1>> ELSE <<>>
          BY <4>1, Zenon
        <4> QED
          BY <1>1, <4>2, Zenon
      <3>2. ASSUME NEW k \in 1..n
            PROVE  mark(t)[k] = mark(s)[k]
        BY <1>1
      <3> QED
        BY <1>1, <3>1, <3>2
    <2> HIDE DEF mark, t, e
    <2> DEFINE M == mark(s)
               A == Append(M, e)
               N == mark(t)
    <2>2. M \in Seq(Seq(Nat)) /\ Len(M) = n
      BY <1>2
    <2>3. N = [k \in 1..n + 1 |-> N[k]] /\ (\A k \in 1..n : N[k] = M[k]) /\ N[n + 1] = e
      BY <2>1
    <2> HIDE DEF M, N
    <2>4. /\ A \in Seq(Seq(Nat)) /\ Len(A) = n + 1
          /\ A[n + 1] = e /\ \A k \in 1..n : A[k] = M[k]
      BY <1>3, <2>2, AppendProperties
    <2> HIDE DEF A
    <2>5. ASSUME NEW k \in 1..n + 1
          PROVE  N[k] = A[k]
      <3>1. k = n + 1 \/ k \in 1..n
        BY <1>1
      <3> QED
        BY <2>3, <2>4, <3>1
    <2>6. A = [k \in 1..n + 1 |-> A[k]]
      <3>1. DOMAIN A = 1..n + 1
        BY <2>4
      <3> QED
        BY <2>4, <3>1
    <2>7. N = A
      BY <2>3, <2>5, <2>6
    <2> QED
      BY <2>7 DEF M, N, A
  <1> HIDE DEF mark, t, e
  <1>5. FlattenSeq(mark(s)) \in Seq(Nat) /\ FlattenSeq(mark(t)) = FlattenSeq(mark(s)) \o e
    BY <1>2, <1>3, <1>4, FlattenAppend
  <1> QED
    BY <1>5 DEF Places, mark, t, e

\* The places of separators are places of the text.
LEMMA PlacesAreInside ==
    ASSUME NEW separators, NEW s \in Text
    PROVE  /\ Places(s, separators) \in Seq(Nat)
           /\ \A i \in 1..Len(Places(s, separators)) : Places(s, separators)[i] \in 1..Len(s)
  <1> DEFINE Inside(x) == /\ Places(x, separators) \in Seq(Nat)
                          /\ \A i \in 1..Len(Places(x, separators)) : Places(x, separators)[i] \in 1..Len(x)
             G == {x \in Text : Inside(x)}
  <1>1. <<>> \in G
    <2>1. Places(<<>>, separators) = <<>> /\ <<>> \in Text /\ <<>> \in Seq(Nat) /\ Len(<<>>) = 0
      BY PlacesEmpty DEF Text
    <2>2. 1..0 = {}
      OBVIOUS
    <2>3. Inside(<<>>)
      BY <2>1, <2>2, Zenon
    <2> QED
      BY <2>1, <2>3, Zenon
  <1>2. ASSUME NEW x \in Text, x \in G, NEW c \in Token
        PROVE  Append(x, c) \in G
    <2> DEFINE P == Places(x, separators)
               y == Append(x, c)
               e == IF c \in separators THEN <<Len(x) + 1>> ELSE <<>>
               Q == Places(y, separators)
    <2>1. y \in Text /\ Len(y) = Len(x) + 1 /\ Len(x) \in Nat
      BY AppendText
    <2>2. P \in Seq(Nat) /\ Q = P \o e
      BY PlacesAppend
    <2>3. \A i \in 1..Len(P) : P[i] \in 1..Len(x)
      BY <1>2
    <2>4. e \in Seq(Nat) /\ (Len(e) = 0 \/ Len(e) = 1) /\ \A i \in 1..Len(e) : e[i] = Len(x) + 1
      <3>1. CASE c \in separators
        <4>1. e = <<Len(x) + 1>>
          BY <3>1
        <4> HIDE DEF e
        <4> QED
          BY <2>1, <4>1
      <3>2. CASE c \notin separators
        <4>1. e = <<>>
          BY <3>2
        <4> HIDE DEF e
        <4> QED
          BY <4>1
      <3> QED
        BY <3>1, <3>2
    <2> HIDE DEF P, Q, e, y
    <2>5. /\ Q \in Seq(Nat) /\ Len(Q) = Len(P) + Len(e)
          /\ \A i \in 1..Len(P) + Len(e) : Q[i] = IF i <= Len(P) THEN P[i] ELSE e[i - Len(P)]
      BY <2>2, <2>4, ConcatProperties
    <2>6. ASSUME NEW i \in 1..Len(Q)
          PROVE  Q[i] \in 1..Len(y)
      <3>1. CASE i <= Len(P)
        <4>1. Q[i] = P[i] /\ i \in 1..Len(P)
          BY <2>2, <2>5, <3>1
        <4> QED
          BY <2>1, <2>3, <4>1
      <3>2. CASE ~(i <= Len(P))
        <4>1. Q[i] = e[i - Len(P)] /\ i - Len(P) \in 1..Len(e)
          BY <2>2, <2>4, <2>5, <3>2
        <4> QED
          BY <2>1, <2>4, <4>1, SMTT(40)
      <3> QED
        BY <3>1, <3>2
    <2>7. Inside(y)
      BY <2>5, <2>6 DEF Q
    <2> QED
      BY <2>1, <2>7 DEF y
  <1>3. Text \subseteq G
    <2> HIDE DEF G
    <2> QED
      BY <1>1, <1>2, SequenceInduction DEF Text
  <1> QED
    BY <1>3

Ends(s, separators) == Append(Places(s, separators), Len(s) + 1)

\* The piece that the i-th of ends closes.
Cut(s, ends, i) == SubSeq(s, IF i = 1 THEN 1 ELSE ends[i - 1] + 1, ends[i] - 1)

LEMMA PiecesAreCuts ==
    ASSUME NEW s, NEW separators
    PROVE  Pieces(s, separators) = [i \in DOMAIN Ends(s, separators) |-> Cut(s, Ends(s, separators), i)]
  BY Zenon DEF Pieces, Ends, Cut

\* A token more changes no part before it.
LEMMA PartOfAppend ==
    ASSUME NEW R, NEW s \in Seq(R), NEW c \in R, NEW i \in 1..Len(s) + 1
    PROVE  /\ \A j \in 0..Len(s) : SubSeq(Append(s, c), i, j) = SubSeq(s, i, j)
           /\ SubSeq(Append(s, c), i, Len(s) + 1) = Append(SubSeq(s, i, Len(s)), c)
           /\ SubSeq(Append(s, c), Len(s) + 2, Len(s) + 1) = <<>>
           /\ SubSeq(s, i, Len(s)) \in Seq(R)
  <1> DEFINE t == Append(s, c)
             n == Len(s)
  <1>1. /\ n \in Nat /\ t \in Seq(R) /\ Len(t) = n + 1 /\ t[n + 1] = c
        /\ \A k \in 1..n : t[k] = s[k]
    BY AppendFacts
  <1>2. \A k \in 1..n : s[k] \in R
    OBVIOUS
  <1> HIDE DEF t, n
  <1>3. ASSUME NEW j \in 0..n
        PROVE  SubSeq(t, i, j) = SubSeq(s, i, j)
    <2> DEFINE a == SubSeq(t, i, j)
               b == SubSeq(s, i, j)
    <2>1. i \in Int /\ j \in Int /\ \A k \in i..j : k \in 1..n /\ t[k] \in R /\ s[k] \in R /\ t[k] = s[k]
      BY <1>1, <1>2 DEF n
    <2>2. /\ a \in Seq(R) /\ Len(a) = (IF i <= j THEN j - i + 1 ELSE 0)
          /\ \A k \in 1..j - i + 1 : a[k] = t[i + k - 1]
      BY <2>1, SubSeqProperties
    <2>3. /\ b \in Seq(R) /\ Len(b) = (IF i <= j THEN j - i + 1 ELSE 0)
          /\ \A k \in 1..j - i + 1 : b[k] = s[i + k - 1]
      BY <2>1, SubSeqProperties
    <2> HIDE DEF a, b
    <2>4. ASSUME NEW k \in 1..Len(a)
          PROVE  a[k] = b[k]
      <3>1. k \in 1..j - i + 1 /\ i + k - 1 \in i..j
        BY <2>1, <2>2
      <3> QED
        BY <2>1, <2>2, <2>3, <3>1
    <2>5. Len(a) = Len(b)
      BY <2>2, <2>3
    <2>6. a = b
      BY <2>2, <2>3, <2>4, <2>5, SeqEqual
    <2> QED
      BY <2>6 DEF a, b
  <1>4. SubSeq(t, n + 2, n + 1) = <<>>
    BY <1>1, SubSeqEmpty
  <1>5. SubSeq(s, i, n) \in Seq(R)
    <2>1. i \in Int /\ n \in Int /\ \A k \in i..n : s[k] \in R
      BY <1>1, <1>2 DEF n
    <2> QED
      BY <2>1, SubSeqProperties
  <1>6. SubSeq(t, i, n + 1) = Append(SubSeq(s, i, n), c)
    <2>1. i \in 1..Len(t) /\ n + 1 \in i..Len(t)
      BY <1>1 DEF n
    <2>2. SubSeq(t, i, n + 1) = SubSeq(t, i, (n + 1) - 1) \o <<t[n + 1]>>
      BY <1>1, <2>1, SubSeqRecursiveSecond
    <2>3. (n + 1) - 1 = n /\ n \in 0..n
      BY <1>1
    <2>4. SubSeq(t, i, n) = SubSeq(s, i, n)
      BY <1>3, <2>3
    <2>5. SubSeq(t, i, n + 1) = SubSeq(s, i, n) \o <<c>>
      BY <1>1, <2>2, <2>3, <2>4
    <2>6. Append(SubSeq(s, i, n), c) = SubSeq(s, i, n) \o <<c>>
      BY <1>5, AppendIsConcat
    <2> QED
      BY <2>5, <2>6
  <1> QED
    BY <1>3, <1>4, <1>5, <1>6 DEF t, n

\* The ends of the pieces, and where a piece begins.
LEMMA EndsAreInside ==
    ASSUME NEW separators, NEW s \in Text
    PROVE  /\ Len(s) \in Nat /\ Places(s, separators) \in Seq(Nat)
           /\ Ends(s, separators) \in Seq(Nat)
           /\ Len(Ends(s, separators)) = Len(Places(s, separators)) + 1
           /\ DOMAIN Ends(s, separators) = 1..Len(Places(s, separators)) + 1
           /\ Ends(s, separators)[Len(Places(s, separators)) + 1] = Len(s) + 1
           /\ \A i \in 1..Len(Places(s, separators)) :
                  /\ Ends(s, separators)[i] = Places(s, separators)[i]
                  /\ Ends(s, separators)[i] \in 1..Len(s)
  <1> DEFINE P == Places(s, separators)
             n == Len(s)
  <1>1. P \in Seq(Nat) /\ \A i \in 1..Len(P) : P[i] \in 1..n
    BY PlacesAreInside
  <1>2. n \in Nat /\ n + 1 \in Nat
    BY DEF Text
  <1> HIDE DEF P, n
  <1>3. /\ Append(P, n + 1) \in Seq(Nat) /\ Len(Append(P, n + 1)) = Len(P) + 1
        /\ DOMAIN Append(P, n + 1) = 1..Len(P) + 1
        /\ Append(P, n + 1)[Len(P) + 1] = n + 1
        /\ \A k \in 1..Len(P) : Append(P, n + 1)[k] = P[k]
    BY <1>1, <1>2, AppendFacts
  <1>4. Ends(s, separators) = Append(P, n + 1)
    BY Zenon DEF Ends, P, n
  <1> QED
    BY <1>1, <1>2, <1>3, <1>4 DEF P, n

Start(ends, i) == IF i = 1 THEN 1 ELSE ends[i - 1] + 1

\* The pieces are texts, and there is one at least.
LEMMA PiecesAre ==
    ASSUME NEW separators, NEW s \in Text
    PROVE  /\ Pieces(s, separators) \in Seq(Text)
           /\ Len(Pieces(s, separators)) = Len(Places(s, separators)) + 1
           /\ Len(Places(s, separators)) \in Nat
           /\ \A i \in 1..Len(Places(s, separators)) + 1 :
                  /\ Start(Ends(s, separators), i) \in 1..Len(s) + 1
                  /\ Ends(s, separators)[i] - 1 \in 0..Len(s)
                  /\ Pieces(s, separators)[i]
                         = SubSeq(s, Start(Ends(s, separators), i), Ends(s, separators)[i] - 1)
  <1> DEFINE P == Places(s, separators)
             E == Ends(s, separators)
             Q == Pieces(s, separators)
             n == Len(s)
             m == Len(P) + 1
  <1>1. /\ n \in Nat /\ P \in Seq(Nat) /\ DOMAIN E = 1..m /\ E[m] = n + 1
        /\ \A i \in 1..Len(P) : E[i] \in 1..n
    BY EndsAreInside
  <1>2. Q = [i \in 1..m |-> Cut(s, E, i)]
    BY <1>1, PiecesAreCuts, Zenon
  <1>3. \A k \in 1..n : s[k] \in Token
    BY DEF Text
  <1> HIDE DEF P, E, Q, n
  <1>4. ASSUME NEW i \in 1..m
        PROVE  /\ Start(E, i) \in 1..n + 1 /\ E[i] - 1 \in 0..n
               /\ Q[i] = SubSeq(s, Start(E, i), E[i] - 1)
               /\ Q[i] \in Text
    <2>1. Len(P) \in Nat /\ (i # m => i \in 1..Len(P)) /\ (i # 1 => i - 1 \in 1..Len(P))
      BY <1>1
    <2>2. E[i] - 1 \in 0..n
      <3>1. CASE i = m
        BY <1>1, <3>1
      <3>2. CASE i # m
        BY <1>1, <2>1, <3>2
      <3> QED
        BY <3>1, <3>2
    <2>3. Start(E, i) \in 1..n + 1
      <3>1. CASE i = 1
        BY <1>1, <3>1 DEF Start
      <3>2. CASE i # 1
        BY <1>1, <2>1, <3>2, SMTT(40) DEF Start
      <3> QED
        BY <3>1, <3>2
    <2>4. Q[i] = Cut(s, E, i)
      BY <1>2, Zenon
    <2>5. Cut(s, E, i) = SubSeq(s, Start(E, i), E[i] - 1)
      BY Zenon DEF Cut, Start
    <2> DEFINE a == Start(E, i)
               b == E[i] - 1
    <2>6. a \in Int /\ b \in Int /\ \A k \in a..b : s[k] \in Token
      BY <1>1, <1>3, <2>2, <2>3
    <2> HIDE DEF a, b
    <2>7. SubSeq(s, a, b) \in Seq(Token)
      BY <2>6, SubSeqProperties
    <2> QED
      BY <2>2, <2>3, <2>4, <2>5, <2>7 DEF Text, a, b
  <1>5. Q \in Seq(Text) /\ Len(Q) = m
    BY <1>1, <1>2, <1>4
  <1> QED
    BY <1>1, <1>4, <1>5 DEF P, E, Q, n

\* A separator more ends the last piece and begins one.
LEMMA PiecesSeparator ==
    ASSUME NEW separators, NEW s \in Text, NEW c \in Token, c \in separators
    PROVE  Pieces(Append(s, c), separators) = Append(Pieces(s, separators), <<>>)
  <1> DEFINE n == Len(s)
             t == Append(s, c)
             P == Places(s, separators)
             R == Places(t, separators)
             E == Ends(s, separators)
             F == Ends(t, separators)
             Q == Pieces(s, separators)
             U == Pieces(t, separators)
             m == Len(P) + 1
  <1>1. n \in Nat /\ t \in Text /\ Len(t) = n + 1
    BY AppendText
  <1>2. P \in Seq(Nat) /\ R = P \o <<n + 1>>
    BY PlacesAppend
  <1>3. R = E
    <2>1. Append(P, n + 1) = P \o <<n + 1>>
      BY <1>1, <1>2, AppendIsConcat
    <2> QED
      BY <1>2, <2>1 DEF Ends
  <1>4. /\ Q \in Seq(Text) /\ Len(Q) = m /\ m - 1 \in Nat
        /\ \A i \in 1..m : Start(E, i) \in 1..n + 1 /\ E[i] - 1 \in 0..n
                           /\ Q[i] = SubSeq(s, Start(E, i), E[i] - 1)
    BY PiecesAre
  <1>5. Len(R) = m /\ E[m] = n + 1
    <2>1. Len(E) = m /\ E[m] = n + 1
      BY EndsAreInside
    <2> QED
      BY <1>3, <2>1
  <1>6. /\ U \in Seq(Text) /\ Len(U) = m + 1
        /\ \A i \in 1..m + 1 : U[i] = SubSeq(t, Start(F, i), F[i] - 1)
    <2> HIDE DEF t
    <2> QED
      BY <1>1, <1>5, PiecesAre
  <1>7. F[m + 1] = n + 2 /\ \A i \in 1..m : F[i] = E[i]
    <2> HIDE DEF t
    <2>1. F[Len(R) + 1] = Len(t) + 1 /\ \A i \in 1..Len(R) : F[i] = R[i]
      BY <1>1, EndsAreInside
    <2>2. (n + 1) + 1 = n + 2
      BY <1>1
    <2> HIDE DEF F, R, E, n, m
    <2> QED
      BY <1>1, <1>3, <1>5, <2>1, <2>2
  <1>8. /\ \A i \in 1..n + 1 : \A j \in 0..n : SubSeq(t, i, j) = SubSeq(s, i, j)
        /\ SubSeq(t, n + 2, n + 1) = <<>>
    <2>1. 1 \in 1..n + 1
      BY <1>1
    <2> QED
      BY <2>1, PartOfAppend DEF Text
  <1> HIDE DEF n, t, P, R, E, F, Q, U
  <1>9. ASSUME NEW i \in 1..m
        PROVE  U[i] = Q[i]
    <2>1. i \in 1..m + 1 /\ (i # 1 => i - 1 \in 1..m)
      BY <1>4
    <2>2. Start(F, i) = Start(E, i) /\ F[i] = E[i]
      BY <1>7, <2>1 DEF Start
    <2> QED
      BY <1>4, <1>6, <1>8, <2>1, <2>2
  <1>10. U[m + 1] = <<>>
    <2>1. m + 1 \in 1..m + 1 /\ m + 1 # 1 /\ (m + 1) - 1 = m /\ m \in 1..m
      BY <1>4
    <2>2. Start(F, m + 1) = n + 2 /\ F[m + 1] - 1 = n + 1
      BY <1>1, <1>5, <1>7, <2>1 DEF Start
    <2> QED
      BY <1>6, <1>8, <2>1, <2>2
  <1>11. /\ Append(Q, <<>>) \in Seq(Text) /\ Len(Append(Q, <<>>)) = m + 1
         /\ Append(Q, <<>>)[m + 1] = <<>> /\ \A k \in 1..m : Append(Q, <<>>)[k] = Q[k]
    <2>1. <<>> \in Text
      BY DEF Text
    <2> QED
      BY <1>4, <2>1, AppendFacts
  <1> DEFINE V == Append(Q, <<>>)
  <1> HIDE DEF V
  <1>12. ASSUME NEW i \in 1..m + 1
         PROVE  U[i] = V[i]
    <2>1. i = m + 1 \/ i \in 1..m
      BY <1>4
    <2> QED
      BY <1>9, <1>10, <1>11, <2>1 DEF V
  <1>13. U = V
    <2>1. V \in Seq(Text) /\ Len(V) = m + 1
      BY <1>11 DEF V
    <2> QED
      BY <1>6, <1>12, <2>1, SeqEqual
  <1> QED
    BY <1>13 DEF U, V, Q, t

\* The first pieces of q are those of p, all but the last, which is longer by c.
LastGrows(p, q, c) ==
    /\ Len(q) = Len(p)
    /\ \A i \in 1..Len(p) - 1 : q[i] = p[i]
    /\ q[Len(p)] = Append(p[Len(p)], c)

\* Any other token more is at the end of the last piece.
LEMMA PiecesGrow ==
    ASSUME NEW separators, NEW s \in Text, NEW c \in Token, c \notin separators
    PROVE  LastGrows(Pieces(s, separators), Pieces(Append(s, c), separators), c)
  <1> DEFINE n == Len(s)
             t == Append(s, c)
             P == Places(s, separators)
             E == Ends(s, separators)
             F == Ends(t, separators)
             Q == Pieces(s, separators)
             U == Pieces(t, separators)
             m == Len(P) + 1
  <1>1. n \in Nat /\ t \in Text /\ Len(t) = n + 1
    BY AppendText
  <1>2. P \in Seq(Nat) /\ Places(t, separators) = P
    <2>1. P \in Seq(Nat) /\ Places(t, separators) = P \o <<>>
      BY PlacesAppend
    <2> HIDE DEF P, t
    <2> QED
      BY <2>1
  <1>3. /\ Q \in Seq(Text) /\ Len(Q) = m /\ m - 1 \in Nat
        /\ \A i \in 1..m : Start(E, i) \in 1..n + 1 /\ E[i] - 1 \in 0..n
                           /\ Q[i] = SubSeq(s, Start(E, i), E[i] - 1)
    BY PiecesAre
  <1>4. E[m] = n + 1 /\ \A i \in 1..Len(P) : E[i] = P[i]
    BY EndsAreInside
  <1>5. /\ U \in Seq(Text) /\ Len(U) = m
        /\ \A i \in 1..m : U[i] = SubSeq(t, Start(F, i), F[i] - 1)
    <2> HIDE DEF t
    <2> QED
      BY <1>1, <1>2, PiecesAre
  <1>6. F[m] = n + 2 /\ \A i \in 1..Len(P) : F[i] = P[i]
    <2> HIDE DEF t
    <2>1. LET R == Places(t, separators)
          IN F[Len(R) + 1] = Len(t) + 1 /\ \A i \in 1..Len(R) : F[i] = R[i]
      BY <1>1, EndsAreInside
    <2>2. (n + 1) + 1 = n + 2
      BY <1>1
    <2> HIDE DEF F, P, n
    <2> QED
      BY <1>1, <1>2, <2>1, <2>2
  <1>7. \A i \in 1..n + 1 : /\ \A j \in 0..n : SubSeq(t, i, j) = SubSeq(s, i, j)
                            /\ SubSeq(t, i, n + 1) = Append(SubSeq(s, i, n), c)
    BY PartOfAppend DEF Text
  <1> HIDE DEF n, t, E, F, Q, U
  <1>8. \A i \in 1..m : Start(F, i) = Start(E, i)
    BY <1>2, <1>4, <1>6 DEF Start
  <1> HIDE DEF P
  <1>9. ASSUME NEW i \in 1..m - 1
        PROVE  U[i] = Q[i]
    <2>1. i \in 1..m /\ i \in 1..Len(P)
      BY <1>2
    <2>2. F[i] = E[i]
      BY <1>4, <1>6, <2>1
    <2> QED
      BY <1>3, <1>5, <1>7, <1>8, <2>1, <2>2
  <1>10. U[m] = Append(Q[m], c)
    <2>1. m \in 1..m /\ F[m] - 1 = n + 1 /\ E[m] - 1 = n
      BY <1>1, <1>3, <1>4, <1>6
    <2> DEFINE i == Start(E, m)
    <2>2. i \in 1..n + 1 /\ Q[m] = SubSeq(s, i, E[m] - 1)
      BY <1>3, <2>1
    <2>3. Start(F, m) = i
      BY <1>8, <2>1
    <2>4. U[m] = SubSeq(t, Start(F, m), F[m] - 1)
      BY <1>5, <2>1
    <2> HIDE DEF i
    <2>5. SubSeq(t, i, n + 1) = Append(SubSeq(s, i, n), c)
      BY <1>7, <2>2
    <2> QED
      BY <2>1, <2>2, <2>3, <2>4, <2>5, Zenon
  <1>11. LastGrows(Q, U, c)
    BY <1>3, <1>5, <1>9, <1>10, Zenon DEF LastGrows
  <1> QED
    BY <1>11 DEF Q, U, t

LEMMA PiecesEmpty ==
    ASSUME NEW separators
    PROVE  Pieces(<<>>, separators) = <<<<>>>>
  <1>1. Places(<<>>, separators) = <<>> /\ Len(<<>>) = 0 /\ <<>> \in Text
    BY PlacesEmpty DEF Text
  <1> DEFINE Q == Pieces(<<>>, separators)
             e == Ends(<<>>, separators)
  <1>2. e = <<1>>
    <2>1. Append(<<>>, 0 + 1) = <<1>>
      OBVIOUS
    <2> QED
      BY <1>1, <2>1, Zenon DEF Ends
  <1>3. /\ Q \in Seq(Text) /\ Len(Q) = 1
        /\ Q[1] = SubSeq(<<>>, Start(e, 1), e[1] - 1)
    <2>1. 0 + 1 = 1 /\ 1 \in 1..0 + 1
      OBVIOUS
    <2> HIDE DEF e, Q
    <2>2. /\ Q \in Seq(Text) /\ Len(Q) = 0 + 1
          /\ \A i \in 1..0 + 1 : Q[i] = SubSeq(<<>>, Start(e, i), e[i] - 1)
      BY <1>1, PiecesAre, Zenon DEF e, Q
    <2> QED
      BY <2>1, <2>2, Zenon
  <1> HIDE DEF Q, e
  <1>4. Q[1] = <<>>
    <2>1. Start(e, 1) = 1 /\ e[1] - 1 = 0
      BY <1>2 DEF Start
    <2> QED
      BY <1>3, <2>1
  <1>5. Q = <<<<>>>>
    BY <1>3, <1>4
  <1> QED
    BY <1>5 DEF Q

\* Tokens that are no separators are added to the last piece.
LEMMA PiecesGlue ==
    ASSUME NEW separators, NEW x \in Text, NEW ps \in Seq(Text),
           Pieces(x, separators) = Append(ps, <<>>),
           NEW p \in Seq(Token \ separators)
    PROVE  Pieces(x \o p, separators) = Append(ps, p)
  <1> DEFINE R == Token \ separators
             Glued(q) == Pieces(x \o q, separators) = Append(ps, q)
             G == {q \in Seq(R) : Glued(q)}
  <1>1. <<>> \in G
    <2>1. x \o <<>> = x
      BY DEF Text
    <2>2. Glued(<<>>)
      BY <2>1
    <2> HIDE DEF Glued, R
    <2> QED
      BY <2>2
  <1>2. ASSUME NEW q \in Seq(R), q \in G, NEW c \in R
        PROVE  Append(q, c) \in G
    <2> DEFINE y == x \o q
               P == Pieces(y, separators)
               Q == Pieces(Append(y, c), separators)
    <2>1. q \in Text /\ c \in Token /\ c \notin separators /\ Append(q, c) \in Seq(R)
      BY DEF Text
    <2>2. y \in Text
      BY <2>1 DEF Text
    <2>3. x \o Append(q, c) = Append(y, c)
      <3>1. x \in Seq(Token) /\ q \in Seq(Token)
        BY <2>1 DEF Text
      <3> QED
        BY <2>1, <3>1
    <2>4. LastGrows(P, Q, c)
      <3> HIDE DEF y
      <3> QED
        BY <2>1, <2>2, PiecesGrow
    <2>5. Q \in Seq(Text)
      <3>1. Append(y, c) \in Text
        BY <2>1, <2>2, AppendText
      <3> QED
        BY <3>1, PiecesAre
    <2>6. P = Append(ps, q)
      BY <1>2
    <2> HIDE DEF P, Q, y
    <2>7. Append(q, c) \in Text
      BY <2>1, AppendText
    <2>8. Q = Append(ps, Append(q, c))
      <3> DEFINE m == Len(ps) + 1
                 V == Append(ps, Append(q, c))
      <3>1. /\ V \in Seq(Text) /\ Len(V) = m /\ V[m] = Append(q, c) /\ \A k \in 1..Len(ps) : V[k] = ps[k]
            /\ Len(P) = m /\ P[m] = q /\ \A k \in 1..Len(ps) : P[k] = ps[k]
            /\ Len(ps) \in Nat
        BY <2>1, <2>6, <2>7, AppendFacts
      <3> HIDE DEF V
      <3>2. Len(P) - 1 = Len(ps)
        BY <3>1
      <3>3. Len(Q) = m /\ Q[m] = Append(q, c) /\ \A k \in 1..Len(ps) : Q[k] = ps[k]
        BY <2>4, <3>1, <3>2, Zenon DEF LastGrows
      <3>4. ASSUME NEW k \in 1..Len(Q)
            PROVE  Q[k] = V[k]
        <4>1. k = m \/ k \in 1..Len(ps)
          BY <3>1, <3>3
        <4> QED
          BY <3>1, <3>3, <4>1
      <3>5. Q = V
        BY <2>5, <3>1, <3>3, <3>4, SeqEqual
      <3> QED
        BY <3>5 DEF V
    <2>9. Glued(Append(q, c))
      BY <2>3, <2>8, Zenon DEF Q
    <2> HIDE DEF Glued, R
    <2> QED
      BY <2>1, <2>9
  <1>3. Seq(R) \subseteq G
    <2> HIDE DEF G, R
    <2> QED
      BY <1>1, <1>2, SequenceInduction
  <1> QED
    BY <1>3

\* A text without separators is one piece, and after a separator it is the last one.
LEMMA OnePiece ==
    ASSUME NEW separators, NEW p \in Seq(Token \ separators)
    PROVE  Pieces(p, separators) = <<p>>
  <1>1. <<>> \in Text /\ <<>> \in Seq(Text)
    BY DEF Text
  <1>2. Pieces(<<>>, separators) = Append(<<>>, <<>>)
    <2>1. Append(<<>>, <<>>) = <<<<>>>>
      OBVIOUS
    <2> QED
      BY <2>1, PiecesEmpty
  <1>3. Pieces(<<>> \o p, separators) = Append(<<>>, p)
    BY <1>1, <1>2, PiecesGlue
  <1> QED
    BY <1>3

LEMMA PieceMore ==
    ASSUME NEW separators, NEW s \in Text, NEW c \in Token, c \in separators,
           NEW p \in Seq(Token \ separators)
    PROVE  Pieces(Append(s, c) \o p, separators) = Append(Pieces(s, separators), p)
  <1>1. Pieces(s, separators) \in Seq(Text) /\ Append(s, c) \in Text
    BY PiecesAre, AppendText
  <1>2. Pieces(Append(s, c), separators) = Append(Pieces(s, separators), <<>>)
    BY PiecesSeparator
  <1> QED
    BY <1>1, <1>2, PiecesGlue

\* The separators of a text.
LEMMA SkeletonAppend ==
    ASSUME NEW s \in Text, NEW c \in Token
    PROVE  /\ Skeleton(s) \in Seq(Token)
           /\ c \in Separators => Skeleton(Append(s, c)) = Append(Skeleton(s), c)
           /\ c \notin Separators => Skeleton(Append(s, c)) = Skeleton(s)
  <1> DEFINE n == Len(s)
             t == Append(s, c)
             P == Places(s, Separators)
             R == Places(t, Separators)
             K == Skeleton(s)
  <1>1. /\ n \in Nat /\ t[n + 1] = c /\ \A k \in 1..n : t[k] = s[k] /\ s[k] \in Token
        /\ t \in Text
    BY AppendText DEF Text
  <1>2. P \in Seq(Nat) /\ \A i \in 1..Len(P) : P[i] \in 1..n
    BY PlacesAreInside
  <1>3. R = P \o (IF c \in Separators THEN <<n + 1>> ELSE <<>>)
    BY PlacesAppend
  <1> HIDE DEF n, t, P, R
  <1>4. K = [i \in DOMAIN P |-> s[P[i]]] /\ Skeleton(t) = [i \in DOMAIN R |-> t[R[i]]]
    BY Zenon DEF Skeleton, P, R
  <1>5. DOMAIN P = 1..Len(P) /\ Len(P) \in Nat
    BY <1>2
  <1> HIDE DEF K
  <1>6. K \in Seq(Token) /\ Len(K) = Len(P) /\ \A i \in 1..Len(P) : K[i] = t[P[i]]
    <2>1. K = [i \in 1..Len(P) |-> s[P[i]]]
      BY <1>4, <1>5
    <2> QED
      BY <1>1, <1>2, <1>5, <2>1
  <1>7. ASSUME c \notin Separators
        PROVE  Skeleton(t) = K
    <2>1. R = P
      <3>1. R = P \o <<>>
        BY <1>3, <1>7, Zenon
      <3> QED
        BY <1>2, <3>1
    <2>2. K = [i \in DOMAIN P |-> t[P[i]]]
      BY <1>1, <1>2, <1>4, <1>5
    <2> QED
      BY <1>4, <2>1, <2>2
  <1>8. ASSUME c \in Separators
        PROVE  Skeleton(t) = Append(K, c)
    <2> DEFINE m == Len(P) + 1
               A == Append(K, c)
    <2>1. R = P \o <<n + 1>>
      BY <1>3, <1>8, Zenon
    <2>2. /\ DOMAIN R = 1..m /\ R[m] = n + 1 /\ \A i \in 1..Len(P) : R[i] = P[i]
      BY <1>1, <1>2, <2>1
    <2>3. /\ A \in Seq(Token) /\ Len(A) = m /\ A[m] = c /\ \A i \in 1..Len(P) : A[i] = K[i]
      BY <1>5, <1>6, AppendFacts
    <2> HIDE DEF A
    <2>4. ASSUME NEW i \in 1..m
          PROVE  t[R[i]] = A[i]
      <3>1. i = m \/ i \in 1..Len(P)
        BY <1>5
      <3> QED
        BY <1>1, <1>6, <2>2, <2>3, <3>1
    <2>5. A = [i \in 1..m |-> A[i]]
      BY <2>3
    <2>6. Skeleton(t) = [i \in 1..m |-> t[R[i]]]
      BY <1>4, <2>2
    <2>7. Skeleton(t) = A
      BY <2>4, <2>5, <2>6
    <2> QED
      BY <2>7 DEF A
  <1> QED
    BY <1>6, <1>7, <1>8 DEF K, t

LEMMA SkeletonGlue ==
    ASSUME NEW x \in Text, NEW p \in Clean
    PROVE  Skeleton(x \o p) = Skeleton(x)
  <1> DEFINE R == Token \ Separators
             Same(q) == Skeleton(x \o q) = Skeleton(x)
             G == {q \in Seq(R) : Same(q)}
  <1>1. <<>> \in G
    <2>1. x \o <<>> = x
      BY DEF Text
    <2>2. Same(<<>>)
      BY <2>1
    <2> HIDE DEF Same, R
    <2> QED
      BY <2>2
  <1>2. ASSUME NEW q \in Seq(R), q \in G, NEW c \in R
        PROVE  Append(q, c) \in G
    <2> DEFINE y == x \o q
    <2>1. q \in Text /\ c \in Token /\ c \notin Separators /\ Append(q, c) \in Seq(R)
      BY DEF Text
    <2>2. y \in Text
      BY <2>1 DEF Text
    <2>3. x \o Append(q, c) = Append(y, c)
      <3>1. x \in Seq(Token) /\ q \in Seq(Token)
        BY <2>1 DEF Text
      <3> QED
        BY <2>1, <3>1
    <2>4. Skeleton(Append(y, c)) = Skeleton(y)
      <3> HIDE DEF y
      <3> QED
        BY <2>1, <2>2, SkeletonAppend
    <2>5. Skeleton(y) = Skeleton(x)
      BY <1>2
    <2>6. Same(Append(q, c))
      BY <2>3, <2>4, <2>5, Zenon
    <2> HIDE DEF Same, R
    <2> QED
      BY <2>1, <2>6
  <1>3. Seq(R) \subseteq G
    <2> HIDE DEF G, R
    <2> QED
      BY <1>1, <1>2, SequenceInduction
  <1> QED
    BY <1>3 DEF Clean

-----------------------------------------------------------------------------
\* Joining and splitting.

LEMMA Tokens ==
    /\ Separators \subseteq Token
    /\ Comma \in Token /\ Colon \in Token /\ Bracket \in Token
    /\ Prefix \in Token /\ LevelsMarker \in Token
    /\ Space \in Token /\ Null \in Token
    /\ Space \notin Separators /\ Null \notin Separators
    /\ Prefix \in Separators /\ LevelsMarker \in Separators /\ Comma \in Separators
    /\ Colon \in Separators /\ Bracket \in Separators
    /\ Prefix # LevelsMarker /\ Comma # LevelsMarker /\ Colon # LevelsMarker
    /\ Bracket # LevelsMarker /\ Comma # Colon
    /\ Prefix # Space /\ Bracket # Space
  <1>1. Separators \subseteq Token /\ Space \in Token /\ Null \in Token
    BY TokenAssumption, Zenon
  <1>2. /\ Prefix # LevelsMarker /\ Comma # LevelsMarker /\ Colon # LevelsMarker
        /\ Bracket # LevelsMarker /\ Comma # Colon
        /\ Prefix # Space /\ Bracket # Space
        /\ Space # LevelsMarker /\ Space # Comma /\ Space # Colon
        /\ Null # Prefix /\ Null # LevelsMarker /\ Null # Comma /\ Null # Colon /\ Null # Bracket
    BY DEF Comma, Colon, Bracket, Prefix, LevelsMarker, Space, Null
  <1> QED
    BY <1>1, <1>2, Zenon DEF Separators

LEMMA JoinEmpty == Join(<<>>) = <<>>
  <1>1. [k \in DOMAIN <<>> |-> IF k = 1 THEN <<>>[k] ELSE <<Comma>> \o <<>>[k]] = <<>>
    OBVIOUS
  <1> QED
    BY <1>1, FlattenNothing DEF Join

\* The next entry follows a comma, if it is not the first.
LEMMA JoinAppend ==
    ASSUME NEW es \in Seq(Text), NEW e \in Text
    PROVE  /\ Join(es) \in Text
           /\ es = <<>> => Join(Append(es, e)) = e
           /\ es # <<>> => Join(Append(es, e)) = Append(Join(es), Comma) \o e
  <1> DEFINE n == Len(es)
             fs == Append(es, e)
             piece(x) == [k \in DOMAIN x |-> IF k = 1 THEN x[k] ELSE <<Comma>> \o x[k]]
             d == IF es = <<>> THEN e ELSE <<Comma>> \o e
  <1>1. /\ n \in Nat /\ DOMAIN es = 1..n /\ DOMAIN fs = 1..n + 1 /\ fs \in Seq(Text)
        /\ fs[n + 1] = e /\ \A k \in 1..n : fs[k] = es[k] /\ es[k] \in Text
        /\ (n = 0 <=> es = <<>>)
    BY AppendFacts
  <1>2. Comma \in Token
    BY Tokens
  <1>3. \A x \in Text : <<Comma>> \o x \in Text
    BY <1>2 DEF Text
  <1>4. ASSUME NEW x \in Seq(Text)
        PROVE  piece(x) \in Seq(Text) /\ Len(piece(x)) = Len(x)
    <2>1. DOMAIN x = 1..Len(x) /\ Len(x) \in Nat /\ \A k \in 1..Len(x) : x[k] \in Text
      OBVIOUS
    <2>2. \A k \in 1..Len(x) : (IF k = 1 THEN x[k] ELSE <<Comma>> \o x[k]) \in Text
      BY <1>3, <2>1
    <2> QED
      BY <2>1, <2>2
  <1>5. d \in Text
    <2> HIDE DEF n, fs
    <2> QED
      BY <1>3
  <1>6. piece(fs) = Append(piece(es), d)
    <2>1. piece(fs)[n + 1] = d
      <3> HIDE DEF fs
      <3>1. n + 1 \in DOMAIN fs
        BY <1>1
      <3>2. piece(fs)[n + 1] = IF n + 1 = 1 THEN fs[n + 1] ELSE <<Comma>> \o fs[n + 1]
        BY <3>1, Zenon
      <3>3. n + 1 = 1 <=> es = <<>>
        BY <1>1
      <3> QED
        BY <1>1, <3>2, <3>3, Zenon
    <2>2. ASSUME NEW k \in 1..n
          PROVE  piece(fs)[k] = piece(es)[k]
      BY <1>1
    <2>3. piece(fs) \in Seq(Text) /\ Len(piece(fs)) = n + 1
      <3>1. Len(fs) = n + 1
        BY AppendFacts
      <3> HIDE DEF fs
      <3> QED
        BY <1>1, <1>4, <3>1
    <2>4. piece(es) \in Seq(Text) /\ Len(piece(es)) = n
      BY <1>4
    <2> DEFINE M == piece(es)
               N == piece(fs)
               A == Append(M, d)
    <2>5. /\ M \in Seq(Text) /\ Len(M) = n /\ N \in Seq(Text) /\ Len(N) = n + 1
          /\ N[n + 1] = d /\ \A k \in 1..n : N[k] = M[k]
      BY <2>1, <2>2, <2>3, <2>4
    <2> HIDE DEF M, N, d, n
    <2>6. /\ A \in Seq(Text) /\ Len(A) = n + 1 /\ A[n + 1] = d /\ \A k \in 1..n : A[k] = M[k]
      BY <1>5, <2>5, AppendFacts
    <2> HIDE DEF A
    <2>7. ASSUME NEW k \in 1..Len(N)
          PROVE  N[k] = A[k]
      <3>1. k = n + 1 \/ k \in 1..n
        BY <1>1, <2>5
      <3> QED
        BY <2>5, <2>6, <3>1
    <2>8. N = A
      BY <2>5, <2>6, <2>7, SeqEqual
    <2> QED
      BY <2>8 DEF N, A, M
  <1>7. piece(es) \in Seq(Seq(Token)) /\ d \in Seq(Token)
    BY <1>4, <1>5 DEF Text
  <1> HIDE DEF d
  <1>8. FlattenSeq(piece(es)) \in Seq(Token) /\ FlattenSeq(piece(fs)) = FlattenSeq(piece(es)) \o d
    <2> HIDE DEF piece, fs
    <2> QED
      BY <1>6, <1>7, FlattenAppend
  <1>9. Join(es) = FlattenSeq(piece(es)) /\ Join(fs) = FlattenSeq(piece(fs))
    BY Zenon DEF Join
  <1> HIDE DEF piece, fs, n
  <1>10. Join(es) \in Seq(Token) /\ Join(fs) = Join(es) \o d
    BY <1>8, <1>9
  <1>11. ASSUME es = <<>>
         PROVE  Join(fs) = e
    <2>1. Join(es) = <<>> /\ d = e
      BY <1>11, JoinEmpty DEF d
    <2>2. <<>> \o e = e
      BY DEF Text
    <2> QED
      BY <1>10, <2>1, <2>2
  <1>12. ASSUME es # <<>>
         PROVE  Join(fs) = Append(Join(es), Comma) \o e
    <2>1. d = <<Comma>> \o e
      BY <1>12, Zenon DEF d
    <2>2. (Join(es) \o <<Comma>>) \o e = Join(es) \o (<<Comma>> \o e)
      <3>1. <<Comma>> \in Seq(Token) /\ e \in Seq(Token)
        BY <1>2 DEF Text
      <3> QED
        BY <1>10, <3>1, Associate
    <2>3. Append(Join(es), Comma) = Join(es) \o <<Comma>>
      BY <1>2, <1>10, AppendIsConcat
    <2> QED
      BY <1>10, <2>1, <2>2, <2>3
  <1> QED
    BY <1>10, <1>11, <1>12 DEF fs, Text

LEMMA JoinOne ==
    ASSUME NEW e \in Text
    PROVE  Join(<<e>>) = e
  <1>1. Append(<<>>, e) = <<e>> /\ <<>> \in Seq(Text)
    OBVIOUS
  <1> QED
    BY <1>1, JoinAppend, Zenon

\* Splitting what was joined, and joining what was split.
LEMMA SplitJoin ==
    ASSUME NEW es \in Seq(Seq(Token \ {Comma})), es # <<>>
    PROVE  Pieces(Join(es), {Comma}) = es
  <1> DEFINE R == Seq(Token \ {Comma})
             Back(x) == x # <<>> => Pieces(Join(x), {Comma}) = x
             G == {x \in Seq(R) : Back(x)}
  <1>1. <<>> \in G
    OBVIOUS
  <1>2. ASSUME NEW x \in Seq(R), x \in G, NEW e \in R
        PROVE  Append(x, e) \in G
    <2>1. e \in Text /\ x \in Seq(Text) /\ Append(x, e) \in Seq(R)
      <3>1. R \subseteq Text
        BY DEF Text
      <3> HIDE DEF R
      <3> QED
        BY <3>1
    <2>2. Back(Append(x, e))
      <3>1. CASE x = <<>>
        <4>1. Append(x, e) = <<e>>
          BY <3>1
        <4>2. Join(<<e>>) = e
          BY <2>1, JoinOne
        <4>3. Pieces(e, {Comma}) = <<e>>
          BY OnePiece
        <4> QED
          BY <4>1, <4>2, <4>3, Zenon
      <3>2. CASE x # <<>>
        <4>1. Join(x) \in Text /\ Join(Append(x, e)) = Append(Join(x), Comma) \o e
          BY <2>1, <3>2, JoinAppend
        <4>2. Comma \in Token /\ Comma \in {Comma}
          BY Tokens
        <4>3. Pieces(Append(Join(x), Comma) \o e, {Comma}) = Append(Pieces(Join(x), {Comma}), e)
          BY <4>1, <4>2, PieceMore
        <4>4. Pieces(Join(x), {Comma}) = x
          BY <1>2, <3>2
        <4> QED
          BY <4>1, <4>3, <4>4, Zenon
      <3> QED
        BY <3>1, <3>2
    <2> HIDE DEF Back, R
    <2> QED
      BY <2>1, <2>2
  <1>3. Seq(R) \subseteq G
    <2> HIDE DEF G, R
    <2> QED
      BY <1>1, <1>2, SequenceInduction
  <1> QED
    BY <1>3

LEMMA JoinSplit ==
    ASSUME NEW s \in Text
    PROVE  Join(Pieces(s, {Comma})) = s
  <1> DEFINE Back(x) == Join(Pieces(x, {Comma})) = x
             G == {x \in Text : Back(x)}
  <1>1. <<>> \in G
    <2>1. <<>> \in Text
      BY DEF Text
    <2>2. Back(<<>>)
      BY <2>1, PiecesEmpty, JoinOne
    <2> HIDE DEF Back
    <2> QED
      BY <2>1, <2>2
  <1>2. ASSUME NEW x \in Text, x \in G, NEW c \in Token
        PROVE  Append(x, c) \in G
    <2> DEFINE P == Pieces(x, {Comma})
               y == Append(x, c)
               Q == Pieces(y, {Comma})
    <2>1. y \in Text
      BY AppendText
    <2>2. P \in Seq(Text) /\ Len(P) >= 1 /\ Join(P) = x
      <3>1. P \in Seq(Text) /\ Len(P) = Len(Places(x, {Comma})) + 1 /\ Len(Places(x, {Comma})) \in Nat
        BY PiecesAre
      <3>2. Join(P) = x
        BY <1>2
      <3> QED
        BY <3>1, <3>2
    <2>3. Q \in Seq(Text)
      BY <2>1, PiecesAre
    <2>4. CASE c = Comma
      <3>1. Q = Append(P, <<>>)
        BY <2>4, PiecesSeparator
      <3>2. <<>> \in Text /\ P # <<>>
        BY <2>2 DEF Text
      <3> HIDE DEF P, Q, y
      <3>3. Join(Append(P, <<>>)) = Append(Join(P), Comma) \o <<>>
        BY <2>2, <3>2, JoinAppend
      <3>4. y \o <<>> = y
        BY <2>1 DEF Text
      <3>5. Append(Join(P), Comma) = y
        BY <2>2, <2>4 DEF y
      <3>6. Join(Q) = y
        BY <3>1, <3>3, <3>4, <3>5
      <3>7. Back(y)
        BY <3>6 DEF Q
      <3> HIDE DEF Back
      <3> QED
        BY <2>1, <3>7 DEF y
    <2>5. CASE c # Comma
      <3>1. c \notin {Comma}
        BY <2>5
      <3>2. LastGrows(P, Q, c)
        BY <3>1, PiecesGrow
      <3> HIDE DEF P, Q, y
      <3> DEFINE m == Len(P)
                 p == SubSeq(P, 1, m - 1)
                 e == P[m]
      <3>3. /\ m \in Nat /\ m >= 1 /\ p \in Seq(Text) /\ Len(p) = m - 1 /\ e \in Text
            /\ \A k \in 1..m - 1 : p[k] = P[k]
        <4>1. m \in Nat /\ m >= 1 /\ \A k \in 1..m : P[k] \in Text
          BY <2>2
        <4> HIDE DEF m
        <4>2. 1 \in Int /\ m - 1 \in Int /\ \A k \in 1..m - 1 : P[k] \in Text
          BY <4>1
        <4>3. /\ p \in Seq(Text) /\ Len(p) = (IF 1 <= m - 1 THEN (m - 1) - 1 + 1 ELSE 0)
              /\ \A k \in 1..(m - 1) - 1 + 1 : p[k] = P[1 + k - 1]
          BY <4>2, SubSeqProperties
        <4> HIDE DEF p
        <4>4. (m - 1) - 1 + 1 = m - 1 /\ \A k \in 1..m - 1 : 1 + k - 1 = k
          BY <4>1
        <4> QED
          BY <4>1, <4>3, <4>4
      <3>4. Len(Q) = m /\ Q[m] = Append(e, c) /\ \A k \in 1..m - 1 : Q[k] = P[k]
        BY <3>2, Zenon DEF LastGrows
      <3>5. Append(e, c) \in Text
        BY <3>3, AppendText
      <3> HIDE DEF m, p, e
      <3>6. P = Append(p, e)
        <4>1. P[m] = e /\ Len(P) = m
          BY Zenon DEF e, m
        <4> DEFINE V == Append(p, e)
        <4>2. V \in Seq(Text) /\ Len(V) = (m - 1) + 1 /\ V[(m - 1) + 1] = e /\ \A k \in 1..m - 1 : V[k] = p[k]
          BY <3>3, AppendFacts
        <4> HIDE DEF V
        <4>3. ASSUME NEW k \in 1..Len(P)
              PROVE  P[k] = V[k]
          <5>1. (k = m \/ k \in 1..m - 1) /\ (m - 1) + 1 = m
            BY <3>3, <4>1
          <5> QED
            BY <3>3, <4>1, <4>2, <5>1
        <4>4. (m - 1) + 1 = m
          BY <3>3
        <4>5. P = V
          BY <2>2, <4>1, <4>2, <4>3, <4>4, SeqEqual
        <4> QED
          BY <4>5 DEF V
      <3>7. Q = Append(p, Append(e, c))
        <4> DEFINE d == Append(e, c)
                   V == Append(p, d)
        <4> HIDE DEF d
        <4>1. d \in Text /\ Q[m] = d
          BY <3>4, <3>5 DEF d
        <4>2. V \in Seq(Text) /\ Len(V) = (m - 1) + 1 /\ V[(m - 1) + 1] = d /\ \A k \in 1..m - 1 : V[k] = p[k]
          BY <3>3, <4>1, AppendFacts
        <4> HIDE DEF V
        <4>3. ASSUME NEW k \in 1..Len(Q)
              PROVE  Q[k] = V[k]
          <5>1. (k = m \/ k \in 1..m - 1) /\ (m - 1) + 1 = m
            BY <3>3, <3>4
          <5> QED
            BY <3>3, <3>4, <4>1, <4>2, <5>1
        <4>4. (m - 1) + 1 = m
          BY <3>3
        <4>5. Q = V
          BY <2>3, <3>4, <4>2, <4>3, <4>4, SeqEqual
        <4> QED
          BY <4>5 DEF V, d
      <3>8. Join(Append(p, Append(e, c))) = Append(Join(Append(p, e)), c)
        <4>1. CASE p = <<>>
          <5>1. Join(Append(p, e)) = e
            BY <3>3, <4>1, JoinAppend
          <5>2. Join(Append(p, Append(e, c))) = Append(e, c)
            BY <3>3, <3>5, <4>1, JoinAppend
          <5> QED
            BY <5>1, <5>2
        <4>2. CASE p # <<>>
          <5> DEFINE h == Append(Join(p), Comma)
          <5>1. Join(p) \in Text /\ Join(Append(p, e)) = h \o e
            BY <3>3, <4>2, JoinAppend
          <5>2. Join(Append(p, Append(e, c))) = h \o Append(e, c)
            BY <3>3, <3>5, <4>2, JoinAppend
          <5>3. h \in Seq(Token) /\ e \in Seq(Token)
            BY <3>3, <5>1, Tokens DEF Text
          <5> HIDE DEF h
          <5>4. h \o Append(e, c) = Append(h \o e, c)
            BY <5>3
          <5> QED
            BY <5>1, <5>2, <5>4
        <4> QED
          BY <4>1, <4>2
      <3>9. Join(Q) = y
        BY <2>2, <3>6, <3>7, <3>8 DEF y
      <3>10. Back(y)
        BY <3>9 DEF Q
      <3> HIDE DEF Back
      <3> QED
        BY <2>1, <3>10 DEF y
    <2> QED
      BY <2>4, <2>5
  <1>3. Text \subseteq G
    <2> HIDE DEF G
    <2> QED
      BY <1>1, <1>2, SequenceInduction DEF Text
  <1> QED
    BY <1>3

-----------------------------------------------------------------------------
\* Hex digits and bytes.

Nibble == 0..15
Byte == 0..255

\* The number of a hex digit, lower case or upper.
LEMMA HexLowerIs ==
    \A m, n \in Nibble : HexLower[m + 1] = HexLower[n + 1] => m = n
  <1> SUFFICES ASSUME NEW m \in Nibble, NEW n \in Nibble, HexLower[m + 1] = HexLower[n + 1]
               PROVE  m = n
    OBVIOUS
  <1> QED
    BY SMTT(60) DEF HexLower, Nibble

LEMMA HexUpperIs ==
    \A m, n \in Nibble : HexUpper[m + 1] = HexUpper[n + 1] => m = n
  <1> SUFFICES ASSUME NEW m \in Nibble, NEW n \in Nibble, HexUpper[m + 1] = HexUpper[n + 1]
               PROVE  m = n
    OBVIOUS
  <1> QED
    BY SMTT(60) DEF HexUpper, Nibble

LEMMA HexMixedIs ==
    \A m, n \in Nibble : HexLower[m + 1] = HexUpper[n + 1] => m = n
  <1> SUFFICES ASSUME NEW m \in Nibble, NEW n \in Nibble, HexLower[m + 1] = HexUpper[n + 1]
               PROVE  m = n
    OBVIOUS
  <1> QED
    BY SMTT(60) DEF HexLower, HexUpper, Nibble

HexDigits ==
    {"0", "1", "2", "3", "4", "5", "6", "7", "8", "9", "a", "b", "c", "d", "e", "f",
     "A", "B", "C", "D", "E", "F"}

LEMMA HexIsClean ==
    \A n \in Nibble : HexLower[n + 1] \notin Separators /\ HexUpper[n + 1] \notin Separators
  <1> SUFFICES ASSUME NEW n \in Nibble
               PROVE  HexLower[n + 1] \notin Separators /\ HexUpper[n + 1] \notin Separators
    OBVIOUS
  <1>1. HexLower[n + 1] \in HexDigits
    BY SMTT(40) DEF HexLower, Nibble, HexDigits
  <1>2. HexUpper[n + 1] \in HexDigits
    BY SMTT(40) DEF HexUpper, Nibble, HexDigits
  <1>3. Comma \notin HexDigits /\ Colon \notin HexDigits /\ Bracket \notin HexDigits
    BY Zenon DEF HexDigits, Comma, Colon, Bracket
  <1>4. Prefix \notin HexDigits /\ LevelsMarker \notin HexDigits
    BY Zenon DEF HexDigits, Prefix, LevelsMarker
  <1> QED
    BY <1>1, <1>2, <1>3, <1>4, Zenon DEF Separators

LEMMA HexIsToken ==
    \A n \in Nibble : HexLower[n + 1] \in Token /\ HexUpper[n + 1] \in Token
  <1>1. ToSet(HexLower) \subseteq Token /\ ToSet(HexUpper) \subseteq Token
    BY TokenAssumption, Zenon
  <1>2. \A n \in Nibble : n + 1 \in DOMAIN HexLower /\ n + 1 \in DOMAIN HexUpper
    BY DEF Nibble, HexLower, HexUpper
  <1> QED
    BY <1>1, <1>2, Zenon DEF ToSet

\* A hex digit stands for one number, and no separator is one.
LEMMA NibbleOf ==
    ASSUME NEW c, NEW n \in DecodeNibble(c)
    PROVE  n \in Nibble /\ DecodeNibble(c) = {n} /\ c \in Token /\ c \notin Separators
  <1>1. \A m : m \in DecodeNibble(c) <=> m \in Nibble /\ (c = HexLower[m + 1] \/ c = HexUpper[m + 1])
    BY DEF DecodeNibble, Nibble
  <1>2. n \in Nibble /\ (c = HexLower[n + 1] \/ c = HexUpper[n + 1])
    BY <1>1
  <1>3. c \in Token /\ c \notin Separators
    BY <1>2, HexIsToken, HexIsClean, Zenon
  <1>4. ASSUME NEW m \in DecodeNibble(c)
        PROVE  m = n
    <2>1. m \in Nibble /\ (c = HexLower[m + 1] \/ c = HexUpper[m + 1])
      BY <1>1
    <2> QED
      BY <1>2, <2>1, HexLowerIs, HexUpperIs, HexMixedIs, Zenon
  <1>5. DecodeNibble(c) = {n}
    BY <1>4
  <1> QED
    BY <1>2, <1>3, <1>5

LEMMA NibbleOfLower ==
    ASSUME NEW n \in Nibble
    PROVE  /\ DecodeNibble(HexLower[n + 1]) = {n}
           /\ HexLower[n + 1] \in Token /\ HexLower[n + 1] \notin Separators
  <1>1. n \in DecodeNibble(HexLower[n + 1])
    BY Zenon DEF DecodeNibble, Nibble
  <1> QED
    BY <1>1, NibbleOf

LEMMA MaxOfOne ==
    ASSUME NEW n \in Int
    PROVE  Max({n}) = n
  BY DEF Max

High(x) == HexLower[(x \div 16) + 1]
Low(x) == HexLower[(x % 16) + 1]

LEMMA ByteIs ==
    ASSUME NEW x \in Byte
    PROVE  x \div 16 \in Nibble /\ x % 16 \in Nibble /\ 16 * (x \div 16) + (x % 16) = x
  <1>1. x \in Int /\ 0 <= x /\ x <= 255
    BY DEF Byte
  <1>2. /\ x \div 16 \in Int /\ x % 16 \in Int /\ 0 <= x % 16 /\ x % 16 <= 15
        /\ x = 16 * (x \div 16) + (x % 16)
    BY <1>1
  <1> QED
    BY <1>1, <1>2 DEF Nibble

LEMMA BytesJoin ==
    ASSUME NEW a \in Nibble, NEW b \in Nibble
    PROVE  /\ 16 * a + b \in Byte
           /\ (16 * a + b) \div 16 = a /\ (16 * a + b) % 16 = b
  BY DEF Byte, Nibble

\* The digits of the k-th byte.
DigitsOf(b, h) ==
    /\ h \in Clean
    /\ Len(h) = 2 * Len(b)
    /\ \A k \in 1..Len(b) : h[2 * k - 1] = High(b[k]) /\ h[2 * k] = Low(b[k])

LEMMA EncodeHexEmpty == EncodeHex(<<>>) = <<>>
  <1>1. [k \in DOMAIN <<>> |-> <<HexLower[(<<>>[k] \div 16) + 1], HexLower[(<<>>[k] % 16) + 1]>>] = <<>>
    OBVIOUS
  <1> QED
    BY <1>1, FlattenNothing DEF EncodeHex

LEMMA EncodeHexAppend ==
    ASSUME NEW b \in Seq(Byte), NEW x \in Byte
    PROVE  /\ EncodeHex(b) \in Clean
           /\ EncodeHex(Append(b, x)) = EncodeHex(b) \o <<High(x), Low(x)>>
  <1> DEFINE n == Len(b)
             t == Append(b, x)
             R == Token \ Separators
             pair(y) == [k \in DOMAIN y |-> <<High(y[k]), Low(y[k])>>]
             e == <<High(x), Low(x)>>
  <1>1. /\ n \in Nat /\ DOMAIN b = 1..n /\ DOMAIN t = 1..n + 1 /\ Len(t) = n + 1
        /\ t \in Seq(Byte) /\ t[n + 1] = x /\ \A k \in 1..n : t[k] = b[k]
    BY AppendFacts
  <1>2. \A y \in Byte : <<High(y), Low(y)>> \in Seq(R)
    <2> SUFFICES ASSUME NEW y \in Byte
                 PROVE  <<High(y), Low(y)>> \in Seq(R)
      OBVIOUS
    <2>1. High(y) \in R /\ Low(y) \in R
      BY ByteIs, NibbleOfLower, Zenon DEF High, Low
    <2> HIDE DEF R
    <2> QED
      BY <2>1
  <1> HIDE DEF R
  <1>3. ASSUME NEW y \in Seq(Byte)
        PROVE  pair(y) \in Seq(Seq(R)) /\ Len(pair(y)) = Len(y)
    <2>1. DOMAIN y = 1..Len(y) /\ Len(y) \in Nat /\ \A k \in 1..Len(y) : y[k] \in Byte
      OBVIOUS
    <2> QED
      BY <1>2, <2>1
  <1>4. e \in Seq(R)
    BY <1>2
  <1>5. pair(t) = Append(pair(b), e)
    <2>1. pair(t)[n + 1] = e /\ \A k \in 1..n : pair(t)[k] = pair(b)[k]
      <3>1. n + 1 \in DOMAIN t /\ 1..n \subseteq DOMAIN t
        BY <1>1
      <3> HIDE DEF t
      <3> QED
        BY <1>1, <3>1
    <2> DEFINE M == pair(b)
               N == pair(t)
               A == Append(M, e)
    <2>2. /\ M \in Seq(Seq(R)) /\ Len(M) = n /\ N \in Seq(Seq(R)) /\ Len(N) = n + 1
          /\ N[n + 1] = e /\ \A k \in 1..n : N[k] = M[k]
      <3> HIDE DEF t
      <3> QED
        BY <1>1, <1>3, <2>1
    <2> HIDE DEF M, N, e, n
    <2>3. /\ A \in Seq(Seq(R)) /\ Len(A) = n + 1 /\ A[n + 1] = e /\ \A k \in 1..n : A[k] = M[k]
      BY <1>4, <2>2, AppendFacts
    <2> HIDE DEF A
    <2>4. ASSUME NEW k \in 1..Len(N)
          PROVE  N[k] = A[k]
      <3>1. k = n + 1 \/ k \in 1..n
        BY <1>1, <2>2
      <3> QED
        BY <2>2, <2>3, <3>1
    <2>5. N = A
      BY <2>2, <2>3, <2>4, SeqEqual
    <2> QED
      BY <2>5 DEF N, A, M
  <1>6. EncodeHex(b) = FlattenSeq(pair(b)) /\ EncodeHex(t) = FlattenSeq(pair(t))
    BY Zenon DEF EncodeHex, High, Low
  <1>7. FlattenSeq(pair(b)) \in Seq(R) /\ FlattenSeq(pair(t)) = FlattenSeq(pair(b)) \o e
    <2>1. pair(b) \in Seq(Seq(R))
      BY <1>3
    <2> HIDE DEF pair, e, t
    <2> QED
      BY <1>4, <1>5, <2>1, FlattenAppend
  <1> QED
    BY <1>6, <1>7 DEF Clean, R, t, e

LEMMA EncodeHexIs ==
    ASSUME NEW b \in Seq(Byte)
    PROVE  DigitsOf(b, EncodeHex(b))
  <1> DEFINE G == {y \in Seq(Byte) : DigitsOf(y, EncodeHex(y))}
  <1>1. <<>> \in G
    <2>1. EncodeHex(<<>>) = <<>> /\ <<>> \in Clean /\ <<>> \in Seq(Byte)
      BY EncodeHexEmpty DEF Clean
    <2>2. DigitsOf(<<>>, <<>>)
      BY <2>1 DEF DigitsOf
    <2> QED
      BY <2>1, <2>2
  <1>2. ASSUME NEW y \in Seq(Byte), y \in G, NEW x \in Byte
        PROVE  Append(y, x) \in G
    <2> DEFINE z == Append(y, x)
               g == EncodeHex(y)
               h == EncodeHex(z)
               n == Len(y)
    <2>1. /\ n \in Nat /\ z \in Seq(Byte) /\ Len(z) = n + 1 /\ z[n + 1] = x
          /\ \A k \in 1..n : z[k] = y[k]
      BY AppendFacts
    <2>2. g \in Clean /\ h = g \o <<High(x), Low(x)>>
      BY EncodeHexAppend
    <2>3. DigitsOf(y, g)
      BY <1>2
    <2>4. h \in Clean
      <3>1. EncodeHex(z) \in Clean
        BY <2>1, EncodeHexAppend
      <3> QED
        BY <3>1
    <2> HIDE DEF z, g, h
    <2>5. /\ Len(g) = 2 * n
          /\ \A k \in 1..n : g[2 * k - 1] = High(y[k]) /\ g[2 * k] = Low(y[k])
      BY <2>3, Zenon DEF DigitsOf
    <2>6. /\ Len(h) = 2 * n + 2 /\ h[2 * n + 1] = High(x) /\ h[2 * n + 2] = Low(x)
          /\ \A j \in 1..2 * n : h[j] = g[j]
      <3> DEFINE e == <<High(x), Low(x)>>
                 m == 2 * n
      <3>1. m \in Nat /\ m + 1 \in 1..m + 2 /\ m + 2 \in 1..m + 2 /\ \A j \in 1..m : j \in 1..m + 2 /\ j <= m
        BY <2>1
      <3> DEFINE R == Token \ Separators
      <3>2. e \in Seq(R) /\ Len(e) = 2 /\ e[1] = High(x) /\ e[2] = Low(x)
        <4>1. High(x) \in R /\ Low(x) \in R
          BY ByteIs, NibbleOfLower, Zenon DEF High, Low
        <4> HIDE DEF R
        <4> QED
          BY <4>1
      <3>3. g \in Seq(R) /\ Len(g) = m /\ h = g \o e
        BY <2>2, <2>5 DEF Clean
      <3> HIDE DEF e, m, R
      <3>4. Len(h) = m + 2 /\ \A j \in 1..m + 2 : h[j] = IF j <= m THEN g[j] ELSE e[j - m]
        <4>1. /\ Len(g \o e) = Len(g) + Len(e)
              /\ \A j \in 1..Len(g) + Len(e) :
                     (g \o e)[j] = IF j <= Len(g) THEN g[j] ELSE e[j - Len(g)]
          BY <3>2, <3>3, ConcatProperties
        <4> QED
          BY <3>2, <3>3, <4>1
      <3>5. ~(m + 1 <= m) /\ ~(m + 2 <= m) /\ (m + 1) - m = 1 /\ (m + 2) - m = 2
        BY <3>1
      <3> QED
        BY <3>1, <3>2, <3>4, <3>5 DEF m
    <2> HIDE DEF n
    <2>7. ASSUME NEW k \in 1..n + 1
          PROVE  h[2 * k - 1] = High(z[k]) /\ h[2 * k] = Low(z[k])
      <3>1. CASE k = n + 1
        <4>1. 2 * k - 1 = 2 * n + 1 /\ 2 * k = 2 * n + 2
          BY <2>1, <3>1
        <4> QED
          BY <2>1, <2>6, <3>1, <4>1
      <3>2. CASE k # n + 1
        <4>1. k \in 1..n /\ 2 * k - 1 \in 1..2 * n /\ 2 * k \in 1..2 * n
          BY <2>1, <3>2
        <4> QED
          BY <2>1, <2>5, <2>6, <4>1
      <3> QED
        BY <3>1, <3>2
    <2>8. Len(h) = 2 * Len(z)
      BY <2>1, <2>6
    <2>9. DigitsOf(z, h)
      BY <2>1, <2>4, <2>7, <2>8, Zenon DEF DigitsOf
    <2> QED
      BY <2>1, <2>9 DEF z, h
  <1>3. Seq(Byte) \subseteq G
    <2> HIDE DEF G
    <2> QED
      BY <1>1, <1>2, SequenceInduction
  <1> QED
    BY <1>3

ByteAt(h, k) == 16 * Max(DecodeNibble(h[2 * k - 1])) + Max(DecodeNibble(h[2 * k]))

\* Decoding gives back the bytes that were encoded.
LEMMA HexRoundTrip ==
    ASSUME NEW b \in Seq(Byte)
    PROVE  DecodeHex(EncodeHex(b)) = {b}
  <1> DEFINE h == EncodeHex(b)
             n == Len(b)
  <1>1. h \in Clean /\ Len(h) = 2 * n /\ \A k \in 1..n : h[2 * k - 1] = High(b[k]) /\ h[2 * k] = Low(b[k])
    BY EncodeHexIs, Zenon DEF DigitsOf
  <1>2. n \in Nat /\ b = [k \in 1..n |-> b[k]] /\ \A k \in 1..n : b[k] \in Byte
    OBVIOUS
  <1> HIDE DEF h, n
  <1>3. ASSUME NEW k \in 1..n
        PROVE  /\ DecodeNibble(h[2 * k - 1]) # {} /\ DecodeNibble(h[2 * k]) # {}
               /\ ByteAt(h, k) = b[k]
    <2>1. /\ b[k] \div 16 \in Nibble /\ b[k] % 16 \in Nibble
          /\ 16 * (b[k] \div 16) + (b[k] % 16) = b[k]
      BY <1>2, ByteIs
    <2>2. /\ DecodeNibble(h[2 * k - 1]) = {b[k] \div 16}
          /\ DecodeNibble(h[2 * k]) = {b[k] % 16}
      BY <1>1, <2>1, NibbleOfLower, Zenon DEF High, Low
    <2>3. Max({b[k] \div 16}) = b[k] \div 16 /\ Max({b[k] % 16}) = b[k] % 16
      <3>1. \A j \in Nibble : j \in Int
        BY DEF Nibble
      <3> QED
        BY <2>1, <3>1, MaxOfOne, Zenon
    <2>4. ByteAt(h, k) = 16 * (b[k] \div 16) + (b[k] % 16)
      BY <2>2, <2>3, Zenon DEF ByteAt
    <2> QED
      BY <2>1, <2>2, <2>4
  <1>4. DOMAIN h = 1..2 * n /\ Len(h) % 2 = 0 /\ Len(h) \div 2 = n
    BY <1>1, <1>2 DEF Clean
  <1>5. ASSUME NEW j \in DOMAIN h
        PROVE  DecodeNibble(h[j]) # {}
    <2>1. PICK k \in 1..n : j = 2 * k - 1 \/ j = 2 * k
      <3>1. CASE j % 2 = 0
        <4>1. j \div 2 \in 1..n /\ j = 2 * (j \div 2)
          BY <1>2, <1>4, <3>1
        <4> QED
          BY <4>1
      <3>2. CASE j % 2 # 0
        <4>1. (j + 1) \div 2 \in 1..n /\ j = 2 * ((j + 1) \div 2) - 1
          BY <1>2, <1>4, <3>2, SMTT(40)
        <4> QED
          BY <4>1
      <3> QED
        BY <3>1, <3>2
    <2> QED
      BY <1>3, <2>1
  <1>6. [k \in 1..n |-> ByteAt(h, k)] = b
    BY <1>2, <1>3
  <1>7. DecodeHex(h) = {[k \in 1..Len(h) \div 2 |-> ByteAt(h, k)]}
    <2>1. ~(Len(h) % 2 # 0 \/ \E k \in DOMAIN h : DecodeNibble(h[k]) = {})
      BY <1>4, <1>5
    <2> QED
      BY <2>1, Zenon DEF DecodeHex, ByteAt
  <1> QED
    BY <1>4, <1>6, <1>7 DEF h

\* The digits of decoded bytes, in whichever case they were.
LEMMA HexSpelling ==
    ASSUME NEW h \in Text, NEW b \in DecodeHex(h)
    PROVE  /\ h \in Clean /\ b \in Seq(Byte) /\ DecodeHex(h) = {b}
           /\ SameSpelling(h, EncodeHex(b))
  <1> DEFINE n == Len(h) \div 2
             g == EncodeHex(b)
  <1>1. Len(h) \in Nat /\ DOMAIN h = 1..Len(h)
    BY DEF Text
  <1>2. /\ Len(h) % 2 = 0 /\ (\A j \in 1..Len(h) : DecodeNibble(h[j]) # {})
        /\ DecodeHex(h) = {[k \in 1..n |-> ByteAt(h, k)]}
    <2>1. ~(Len(h) % 2 # 0 \/ \E k \in DOMAIN h : DecodeNibble(h[k]) = {})
      BY Zenon DEF DecodeHex
    <2>2. DecodeHex(h) = {[k \in 1..n |-> ByteAt(h, k)]}
      BY <2>1, Zenon DEF DecodeHex, ByteAt
    <2> QED
      BY <1>1, <2>1, <2>2
  <1>3. b = [k \in 1..n |-> ByteAt(h, k)] /\ DecodeHex(h) = {b}
    BY <1>2
  <1>4. n \in Nat /\ Len(h) = 2 * n
    <2>1. \A m \in Nat : m % 2 = 0 => m \div 2 \in Nat /\ m = 2 * (m \div 2)
      OBVIOUS
    <2> QED
      BY <1>1, <1>2, <2>1, Zenon
  <1>5. ASSUME NEW j \in 1..Len(h)
        PROVE  /\ DecodeNibble(h[j]) = {Max(DecodeNibble(h[j]))}
               /\ Max(DecodeNibble(h[j])) \in Nibble
               /\ h[j] \in Token \ Separators
    <2>1. PICK m : m \in DecodeNibble(h[j])
      BY <1>2
    <2>2. m \in Nibble /\ DecodeNibble(h[j]) = {m} /\ h[j] \in Token /\ h[j] \notin Separators
      BY <2>1, NibbleOf
    <2>3. Max({m}) = m
      BY <2>2, MaxOfOne DEF Nibble
    <2> QED
      BY <2>2, <2>3
  <1>6. h \in Clean
    <2>1. h = [j \in 1..Len(h) |-> h[j]]
      BY <1>1 DEF Text
    <2> DEFINE R == Token \ Separators
    <2>2. \A j \in 1..Len(h) : h[j] \in R
      BY <1>5
    <2> HIDE DEF R
    <2> QED
      BY <1>1, <2>1, <2>2 DEF Clean, R
  <1> HIDE DEF n, g
  <1>7. ASSUME NEW k \in 1..n
        PROVE  /\ 2 * k - 1 \in 1..Len(h) /\ 2 * k \in 1..Len(h)
               /\ b[k] \in Byte
               /\ DecodeNibble(High(b[k])) = DecodeNibble(h[2 * k - 1])
               /\ DecodeNibble(Low(b[k])) = DecodeNibble(h[2 * k])
    <2> DEFINE u == Max(DecodeNibble(h[2 * k - 1]))
               v == Max(DecodeNibble(h[2 * k]))
    <2>1. 2 * k - 1 \in 1..Len(h) /\ 2 * k \in 1..Len(h)
      BY <1>4
    <2>2. /\ u \in Nibble /\ v \in Nibble
          /\ DecodeNibble(h[2 * k - 1]) = {u} /\ DecodeNibble(h[2 * k]) = {v}
      BY <1>5, <2>1
    <2>3. b[k] = 16 * u + v
      BY <1>3 DEF ByteAt
    <2> HIDE DEF u, v
    <2>4. b[k] \in Byte /\ b[k] \div 16 = u /\ b[k] % 16 = v
      BY <2>2, <2>3, BytesJoin
    <2>5. High(b[k]) = HexLower[u + 1] /\ Low(b[k]) = HexLower[v + 1]
      BY <2>4 DEF High, Low
    <2>6. DecodeNibble(HexLower[u + 1]) = {u} /\ DecodeNibble(HexLower[v + 1]) = {v}
      BY <2>2, NibbleOfLower
    <2> QED
      BY <2>1, <2>2, <2>4, <2>5, <2>6
  <1>8. b \in Seq(Byte) /\ Len(b) = n
    BY <1>3, <1>4, <1>7
  <1>9. g \in Clean /\ Len(g) = 2 * n /\ \A k \in 1..n : g[2 * k - 1] = High(b[k]) /\ g[2 * k] = Low(b[k])
    BY <1>8, EncodeHexIs, Zenon DEF DigitsOf, g
  <1>10. ASSUME NEW j \in 1..Len(h)
         PROVE  DecodeNibble(h[j]) = DecodeNibble(g[j])
    <2>1. PICK k \in 1..n : j = 2 * k - 1 \/ j = 2 * k
      <3>1. CASE j % 2 = 0
        <4>1. j \div 2 \in 1..n /\ j = 2 * (j \div 2)
          BY <1>4, <3>1
        <4> QED
          BY <4>1
      <3>2. CASE j % 2 # 0
        <4>1. (j + 1) \div 2 \in 1..n /\ j = 2 * ((j + 1) \div 2) - 1
          BY <1>4, <3>2
        <4> QED
          BY <4>1
      <3> QED
        BY <3>1, <3>2
    <2> QED
      BY <1>7, <1>9, <2>1
  <1>11. SameSpelling(h, g)
    <2>1. Len(h) = Len(g) /\ \A k \in DOMAIN h : DecodeNibble(h[k]) = DecodeNibble(g[k]) /\ DecodeNibble(h[k]) # {}
      BY <1>1, <1>2, <1>4, <1>9, <1>10
    <2> QED
      BY <2>1, Zenon DEF SameSpelling
  <1> QED
    BY <1>3, <1>6, <1>8, <1>11 DEF g

-----------------------------------------------------------------------------
\* Parts of a text, and places in it.

LEMMA MinIs ==
    ASSUME NEW S, S \subseteq Nat, NEW m \in S, \A k \in S : m <= k
    PROVE  Min(S) = m
  <1> DEFINE Least(x) == x \in S /\ \A y \in S : x <= y
  <1>1. Least(m)
    OBVIOUS
  <1>2. Min(S) = CHOOSE x : Least(x)
    BY Zenon DEF Min
  <1>3. Least(Min(S))
    <2> HIDE DEF Least
    <2> QED
      BY <1>1, <1>2
  <1>4. m \in Nat /\ Min(S) \in Nat /\ m \in S
    BY <1>3
  <1> QED
    BY <1>3, <1>4

LEMMA MaxIs ==
    ASSUME NEW S, S \subseteq Nat, NEW m \in S, \A k \in S : k <= m
    PROVE  Max(S) = m
  <1> DEFINE Greatest(x) == x \in S /\ \A y \in S : x >= y
  <1>1. Greatest(m)
    OBVIOUS
  <1>2. Max(S) = CHOOSE x : Greatest(x)
    BY Zenon DEF Max
  <1>3. Greatest(Max(S))
    <2> HIDE DEF Greatest
    <2> QED
      BY <1>1, <1>2
  <1>4. m \in Nat /\ Max(S) \in Nat /\ m \in S
    BY <1>3
  <1> QED
    BY <1>3, <1>4

LEMMA GreatestExists ==
    ASSUME NEW n \in Nat, NEW S, S \subseteq 1..n, S # {}
    PROVE  \E m \in S : \A k \in S : k <= m
  <1> DEFINE D == {n - k : k \in S}
  <1>1. D \subseteq Nat /\ D # {}
    <2>1. \A k \in S : n - k \in Nat
      OBVIOUS
    <2>2. PICK k : k \in S
      OBVIOUS
    <2>3. n - k \in D
      BY <2>2
    <2> QED
      BY <2>1, <2>3
  <1>2. \A k \in S : n - k \in D /\ k \in Int
    OBVIOUS
  <1>3. \A d \in D : \E k \in S : d = n - k
    OBVIOUS
  <1> HIDE DEF D
  <1>4. PICK d \in D : \A x \in D : d <= x
    BY <1>1, LeastExists
  <1>5. PICK m \in S : d = n - m
    BY <1>3
  <1>6. ASSUME NEW k \in S
        PROVE  k <= m
    BY <1>2, <1>4, <1>5
  <1> QED
    BY <1>5, <1>6

LEMMA CountingUp ==
    ASSUME NEW G, 0 \in G, \A n \in Nat : n \in G => n + 1 \in G
    PROVE  \A n \in Nat : n \in G
  <1> DEFINE missing == {n \in Nat : n \notin G}
  <1>1. missing \subseteq Nat
    OBVIOUS
  <1>0. \A n \in Nat : n \in missing <=> n \notin G
    OBVIOUS
  <1> HIDE DEF missing
  <1>2. ASSUME missing # {}
        PROVE  FALSE
    <2>1. PICK n \in missing : \A k \in missing : n <= k
      BY <1>1, <1>2, LeastExists
    <2>2. n \in Nat /\ n \notin G
      BY <1>0, <1>1, <2>1
    <2>3. n # 0
      BY <2>2
    <2>4. n - 1 \in Nat /\ (n - 1) + 1 = n /\ ~(n <= n - 1)
      BY <2>2, <2>3
    <2>5. n - 1 \in G
      BY <1>0, <2>1, <2>4
    <2>6. (n - 1) + 1 \in G
      BY <2>4, <2>5
    <2> QED
      BY <2>2, <2>4, <2>6
  <1>3. ASSUME NEW n \in Nat
        PROVE  n \in G
    BY <1>0, <1>2
  <1> QED
    BY <1>3, Zenon

LEMMA ConcatText ==
    ASSUME NEW u \in Text, NEW w \in Text
    PROVE  /\ Len(u) \in Nat /\ Len(w) \in Nat
           /\ u \o w \in Text /\ Len(u \o w) = Len(u) + Len(w)
           /\ DOMAIN (u \o w) = 1..Len(u) + Len(w)
           /\ \A k \in 1..Len(u) : (u \o w)[k] = u[k]
           /\ \A k \in 1..Len(w) : (u \o w)[Len(u) + k] = w[k]
  BY DEF Text

LEMMA PartIs ==
    ASSUME NEW s \in Text, NEW i \in 1..Len(s) + 1, NEW j \in 0..Len(s), i <= j + 1
    PROVE  /\ SubSeq(s, i, j) \in Text
           /\ Len(SubSeq(s, i, j)) = j - i + 1
           /\ j - i + 1 \in Nat
           /\ \A k \in 1..j - i + 1 : SubSeq(s, i, j)[k] = s[i + k - 1]
  <1>1. Len(s) \in Nat /\ \A k \in 1..Len(s) : s[k] \in Token
    BY DEF Text
  <1>2. i \in Int /\ j \in Int /\ \A k \in i..j : s[k] \in Token
    BY <1>1
  <1>3. /\ SubSeq(s, i, j) \in Seq(Token)
        /\ Len(SubSeq(s, i, j)) = (IF i <= j THEN j - i + 1 ELSE 0)
        /\ \A k \in 1..j - i + 1 : SubSeq(s, i, j)[k] = s[i + k - 1]
    BY <1>2, SubSeqProperties
  <1> DEFINE p == SubSeq(s, i, j)
  <1> HIDE DEF p
  <1>4. Len(p) = j - i + 1 /\ j - i + 1 \in Nat
    BY <1>1, <1>3 DEF p
  <1> QED
    BY <1>3, <1>4 DEF p, Text

LEMMA PartOfPart ==
    ASSUME NEW s \in Text, NEW i \in 1..Len(s) + 1, NEW j \in 0..Len(s), i <= j + 1,
           NEW m \in 1..(j - i + 1) + 1, NEW n \in 0..j - i + 1, m <= n + 1
    PROVE  SubSeq(SubSeq(s, i, j), m, n) = SubSeq(s, i + m - 1, i + n - 1)
  <1> DEFINE p == SubSeq(s, i, j)
             a == i + m - 1
             b == i + n - 1
             q == SubSeq(p, m, n)
             r == SubSeq(s, a, b)
  <1>1. /\ p \in Text /\ Len(p) = j - i + 1 /\ j - i + 1 \in Nat
        /\ \A k \in 1..j - i + 1 : p[k] = s[i + k - 1]
    BY PartIs
  <1>2. Len(s) \in Nat
    BY DEF Text
  <1> HIDE DEF p
  <1>3. m \in 1..Len(p) + 1 /\ n \in 0..Len(p)
    BY <1>1
  <1>4. q \in Text /\ Len(q) = n - m + 1 /\ \A k \in 1..n - m + 1 : q[k] = p[m + k - 1]
    BY <1>1, <1>3, PartIs
  <1>5. a \in 1..Len(s) + 1 /\ b \in 0..Len(s) /\ a <= b + 1 /\ b - a + 1 = n - m + 1
    BY <1>1, <1>2
  <1>6. \A k \in 1..n - m + 1 : /\ m + k - 1 \in 1..j - i + 1
                                /\ i + (m + k - 1) - 1 = a + k - 1
    BY <1>1, <1>2
  <1> HIDE DEF a, b, q
  <1>7. r \in Text /\ Len(r) = n - m + 1 /\ \A k \in 1..n - m + 1 : r[k] = s[a + k - 1]
    <2>1. r \in Text /\ Len(r) = b - a + 1 /\ \A k \in 1..b - a + 1 : r[k] = s[a + k - 1]
      BY <1>5, PartIs
    <2> HIDE DEF r
    <2> QED
      BY <1>5, <2>1
  <1> HIDE DEF r
  <1>8. ASSUME NEW k \in 1..Len(q)
        PROVE  q[k] = r[k]
    <2>1. k \in 1..n - m + 1
      BY <1>4
    <2>2. q[k] = p[m + k - 1] /\ p[m + k - 1] = s[i + (m + k - 1) - 1]
      BY <1>1, <1>4, <1>6, <2>1
    <2> QED
      BY <1>6, <1>7, <2>1, <2>2
  <1>9. Len(q) = Len(r)
    BY <1>4, <1>7
  <1>10. q = r
    BY <1>4, <1>7, <1>8, <1>9, SeqEqual DEF Text
  <1> QED
    BY <1>10 DEF q, r, p, a, b

\* What is between u and w.
LEMMA Window ==
    ASSUME NEW u \in Text, NEW p \in Text, NEW w \in Text
    PROVE  SubSeq((u \o p) \o w, Len(u) + 1, Len(u) + Len(p)) = p
  <1> DEFINE x == u \o p
             t == x \o w
             a == Len(u) + 1
             b == Len(u) + Len(p)
             q == SubSeq(t, a, b)
  <1>1. /\ Len(u) \in Nat /\ Len(p) \in Nat /\ x \in Text /\ Len(x) = Len(u) + Len(p)
        /\ \A k \in 1..Len(p) : x[Len(u) + k] = p[k]
    BY ConcatText
  <1> HIDE DEF x
  <1>2. Len(w) \in Nat /\ t \in Text /\ Len(t) = Len(x) + Len(w) /\ \A k \in 1..Len(x) : t[k] = x[k]
    BY <1>1, ConcatText
  <1> HIDE DEF t
  <1>3. a \in 1..Len(t) + 1 /\ b \in 0..Len(t) /\ a <= b + 1 /\ b - a + 1 = Len(p)
    BY <1>1, <1>2
  <1>4. \A k \in 1..Len(p) : a + k - 1 = Len(u) + k /\ Len(u) + k \in 1..Len(x)
    BY <1>1
  <1> HIDE DEF a, b
  <1>5. q \in Text /\ Len(q) = b - a + 1 /\ \A k \in 1..b - a + 1 : q[k] = t[a + k - 1]
    BY <1>2, <1>3, PartIs
  <1> HIDE DEF q
  <1>6. ASSUME NEW k \in 1..Len(q)
        PROVE  q[k] = p[k]
    <2>1. k \in 1..Len(p) /\ k \in 1..b - a + 1
      BY <1>3, <1>5
    <2> QED
      BY <1>1, <1>2, <1>4, <1>5, <2>1
  <1>7. Len(q) = Len(p)
    BY <1>3, <1>5
  <1>8. q = p
    BY <1>5, <1>6, <1>7, SeqEqual DEF Text
  <1> QED
    BY <1>8 DEF q, t, x, a, b

\* A text is what is before a place, the token there, and what is after it.
LEMMA SplitAt ==
    ASSUME NEW s \in Text, NEW k \in 1..Len(s)
    PROVE  s = Append(SubSeq(s, 1, k - 1), s[k]) \o SubSeq(s, k + 1, Len(s))
  <1>1. Len(s) \in Nat /\ s \in Seq(Token) /\ s[k] \in Token
    BY DEF Text
  <1>2. 1 \in 1..Len(s) + 1 /\ k \in 1 - 1..Len(s) /\ Len(s) \in k..Len(s)
    BY <1>1
  <1>3. SubSeq(s, 1, k) \o SubSeq(s, k + 1, Len(s)) = SubSeq(s, 1, Len(s))
    BY <1>1, <1>2, ConcatAdjacentSubSeq
  <1>4. SubSeq(s, 1, Len(s)) = s
    BY <1>1, SubSeqFull
  <1>5. SubSeq(s, 1, k) = SubSeq(s, 1, k - 1) \o <<s[k]>>
    <2>1. 1 \in 1..Len(s) /\ k \in 1..Len(s)
      BY <1>1
    <2> QED
      BY <1>1, <2>1, SubSeqRecursiveSecond
  <1>6. SubSeq(s, 1, k - 1) \in Seq(Token)
    <2>1. 1 \in 1..Len(s) + 1 /\ k - 1 \in 0..Len(s) /\ 1 <= (k - 1) + 1
      BY <1>1
    <2> QED
      BY <2>1, PartIs DEF Text
  <1>7. Append(SubSeq(s, 1, k - 1), s[k]) = SubSeq(s, 1, k - 1) \o <<s[k]>>
    BY <1>1, <1>6, AppendIsConcat
  <1> QED
    BY <1>3, <1>4, <1>5, <1>7

\* p is what is between two separators of s.
IsPart(s, p) ==
    \E i, j \in {k \in DOMAIN s : s[k] \in Separators} : p = SubSeq(s, i + 1, j - 1)

LEMMA PartOfConcat ==
    ASSUME NEW u \in Text, NEW c \in Separators, NEW p \in Text, NEW d \in Separators, NEW w \in Text
    PROVE  IsPart(Append(Append(u, c) \o p, d) \o w, p)
  <1> DEFINE x == Append(u, c)
             y == x \o p
             z == Append(y, d)
             t == z \o w
             i == Len(x)
             j == Len(y) + 1
  <1>1. c \in Token /\ d \in Token
    BY Tokens
  <1>2. x \in Text /\ Len(x) \in Nat /\ Len(x) >= 1 /\ x[i] = c
    <2>1. /\ x \in Text /\ Len(x) = Len(u) + 1 /\ x[Len(u) + 1] = c /\ Len(u) \in Nat
      BY <1>1, AppendText
    <2> HIDE DEF x
    <2> QED
      BY <2>1
  <1> HIDE DEF x
  <1>3. y \in Text /\ Len(p) \in Nat /\ Len(y) = Len(x) + Len(p) /\ \A k \in 1..Len(x) : y[k] = x[k]
    BY <1>2, ConcatText
  <1> HIDE DEF y
  <1>4. /\ z \in Text /\ Len(z) = Len(y) + 1 /\ z[Len(y) + 1] = d /\ Len(y) \in Nat
        /\ \A k \in 1..Len(y) : z[k] = y[k]
    BY <1>1, <1>3, AppendText
  <1>5. z = y \o <<d>> /\ <<d>> \in Text
    BY <1>1, <1>3, AppendIsConcat DEF Text
  <1> HIDE DEF z
  <1>6. t \in Text /\ DOMAIN t = 1..Len(z) + Len(w) /\ Len(w) \in Nat /\ \A k \in 1..Len(z) : t[k] = z[k]
    BY <1>4, ConcatText
  <1>7. t = (x \o p) \o (<<d>> \o w)
    <2>1. t = (y \o <<d>>) \o w
      BY <1>5
    <2>2. (y \o <<d>>) \o w = y \o (<<d>> \o w)
      BY <1>3, <1>5, Associate DEF Text
    <2> QED
      BY <2>1, <2>2 DEF y
  <1> HIDE DEF t
  <1>8. i \in DOMAIN t /\ t[i] = c /\ j \in DOMAIN t /\ t[j] = d
    <2>1. i \in 1..Len(x) /\ i \in 1..Len(y) /\ i \in 1..Len(z) /\ j \in 1..Len(z)
      BY <1>2, <1>3, <1>4
    <2>2. i \in 1..Len(z) + Len(w) /\ j \in 1..Len(z) + Len(w)
      BY <1>4, <1>6, <2>1
    <2> QED
      BY <1>2, <1>3, <1>4, <1>6, <2>1, <2>2
  <1>9. SubSeq(t, Len(x) + 1, Len(x) + Len(p)) = p
    <2>1. <<d>> \o w \in Text
      BY <1>5, ConcatText
    <2> QED
      BY <1>2, <1>7, <2>1, Window
  <1>10. j - 1 = Len(x) + Len(p)
    BY <1>3, <1>4
  <1>11. p = SubSeq(t, i + 1, j - 1)
    BY <1>9, <1>10
  <1> HIDE DEF i, j
  <1>12. IsPart(t, p)
    BY <1>8, <1>11, Zenon DEF IsPart
  <1> QED
    BY <1>12 DEF t, z, y, x

First(s, c) ==
    LET I == {i \in 1..Len(s) : s[i] = c}
    IN IF I # {} THEN Min(I) ELSE 0

LEMMA FirstFound ==
    ASSUME NEW s \in Text, NEW c, First(s, c) # 0
    PROVE  /\ First(s, c) \in 1..Len(s) /\ s[First(s, c)] = c
           /\ \A k \in 1..First(s, c) - 1 : s[k] # c
  <1> DEFINE I == {i \in 1..Len(s) : s[i] = c}
  <1>1. Len(s) \in Nat /\ I \subseteq Nat
    BY DEF Text
  <1>2. I # {} /\ First(s, c) = Min(I)
    BY Zenon DEF First
  <1>3. \A i : i \in I <=> i \in 1..Len(s) /\ s[i] = c
    OBVIOUS
  <1> HIDE DEF I
  <1>4. PICK m \in I : \A k \in I : m <= k
    BY <1>1, <1>2, LeastExists
  <1>5. First(s, c) = m
    BY <1>1, <1>2, <1>4, MinIs
  <1>6. m \in 1..Len(s) /\ s[m] = c
    BY <1>3
  <1>7. ASSUME NEW k \in 1..m - 1, s[k] = c
        PROVE  FALSE
    <2>1. k \in 1..Len(s) /\ ~(m <= k)
      BY <1>1, <1>6
    <2> QED
      BY <1>3, <1>4, <1>7, <2>1
  <1> QED
    BY <1>5, <1>6, <1>7

LEMMA FirstIs ==
    ASSUME NEW s \in Text, NEW c, NEW m \in 1..Len(s), s[m] = c, \A k \in 1..m - 1 : s[k] # c
    PROVE  First(s, c) = m
  <1> DEFINE I == {i \in 1..Len(s) : s[i] = c}
  <1>1. Len(s) \in Nat /\ I \subseteq Nat /\ m \in I
    BY DEF Text
  <1>2. First(s, c) = Min(I)
    BY <1>1, Zenon DEF First
  <1>3. ASSUME NEW i \in I
        PROVE  m <= i
    <2>1. i \in 1..Len(s) /\ s[i] = c
      OBVIOUS
    <2>2. i \notin 1..m - 1
      BY <2>1
    <2> QED
      BY <1>1, <2>1, <2>2
  <1> HIDE DEF I
  <1> QED
    BY <1>1, <1>2, <1>3, MinIs

\* Trimming leaves a part of the text, or nothing.
LEMMA TrimmedIs ==
    ASSUME NEW s \in Text
    PROVE  \/ Trimmed(s) = <<>>
           \/ \E lo, hi \in 1..Len(s) : lo <= hi /\ Trimmed(s) = SubSeq(s, lo, hi)
  <1> DEFINE ink == {k \in DOMAIN s : s[k] # Space}
  <1>1. Len(s) \in Nat /\ ink \subseteq 1..Len(s) /\ ink \subseteq Nat
    BY DEF Text
  <1>2. Trimmed(s) = IF ink = {} THEN <<>> ELSE SubSeq(s, Min(ink), Max(ink))
    BY Zenon DEF Trimmed
  <1> HIDE DEF ink
  <1>3. ASSUME ink # {}
        PROVE  Min(ink) \in 1..Len(s) /\ Max(ink) \in 1..Len(s) /\ Min(ink) <= Max(ink)
    <2>1. PICK lo \in ink : \A k \in ink : lo <= k
      BY <1>1, <1>3, LeastExists
    <2>2. PICK hi \in ink : \A k \in ink : k <= hi
      BY <1>1, <1>3, GreatestExists
    <2>3. Min(ink) = lo /\ Max(ink) = hi
      BY <1>1, <2>1, <2>2, MinIs, MaxIs
    <2> QED
      BY <1>1, <2>1, <2>2, <2>3
  <1> QED
    BY <1>2, <1>3

\* A text that neither begins nor ends with a space is not changed.
LEMMA TrimmedSame ==
    ASSUME NEW s \in Text, s # <<>>, s[1] # Space, s[Len(s)] # Space
    PROVE  Trimmed(s) = s
  <1> DEFINE ink == {k \in DOMAIN s : s[k] # Space}
  <1>1. /\ Len(s) \in Nat /\ Len(s) >= 1 /\ ink \subseteq Nat /\ 1 \in ink /\ Len(s) \in ink
        /\ \A k \in ink : 1 <= k /\ k <= Len(s)
    BY DEF Text
  <1>2. Trimmed(s) = IF ink = {} THEN <<>> ELSE SubSeq(s, Min(ink), Max(ink))
    BY Zenon DEF Trimmed
  <1> HIDE DEF ink
  <1>3. Min(ink) = 1 /\ Max(ink) = Len(s)
    BY <1>1, MinIs, MaxIs
  <1>4. SubSeq(s, 1, Len(s)) = s
    BY SubSeqFull DEF Text
  <1> QED
    BY <1>1, <1>2, <1>3, <1>4

\* A part of what is left by trimming is a part of the text.
LEMMA PartOfTrimmed ==
    ASSUME NEW s \in Text, NEW p, IsPart(Trimmed(s), p)
    PROVE  IsPart(s, p)
  <1> DEFINE t == Trimmed(s)
  <1>1. PICK i, j \in {k \in DOMAIN t : t[k] \in Separators} : p = SubSeq(t, i + 1, j - 1)
    BY Zenon DEF IsPart
  <1>2. i \in DOMAIN t /\ j \in DOMAIN t /\ t[i] \in Separators /\ t[j] \in Separators
    OBVIOUS
  <1>3. Len(s) \in Nat /\ DOMAIN s = 1..Len(s)
    BY DEF Text
  <1> HIDE DEF t
  <1>4. t # <<>>
    BY <1>2
  <1>5. PICK lo, hi \in 1..Len(s) : lo <= hi /\ t = SubSeq(s, lo, hi)
    BY <1>4, TrimmedIs DEF t
  <1>6. lo \in 1..Len(s) + 1 /\ hi \in 0..Len(s) /\ lo <= hi + 1
    BY <1>3, <1>5
  <1>7. /\ t \in Text /\ Len(t) = hi - lo + 1 /\ hi - lo + 1 \in Nat
        /\ \A k \in 1..hi - lo + 1 : t[k] = s[lo + k - 1]
    BY <1>5, <1>6, PartIs
  <1>8. i \in 1..hi - lo + 1 /\ j \in 1..hi - lo + 1
    BY <1>2, <1>7 DEF Text
  <1> DEFINE a == lo + i - 1
             b == lo + j - 1
  <1>9. /\ a \in DOMAIN s /\ b \in DOMAIN s /\ s[a] = t[i] /\ s[b] = t[j]
        /\ a \in Int /\ b \in Int
    BY <1>3, <1>5, <1>7, <1>8, SMTT(40)
  <1>0. /\ lo \in Int /\ hi \in Int /\ i \in Int /\ j \in Int
        /\ 1 <= i /\ i <= hi - lo + 1 /\ 1 <= j /\ j <= hi - lo + 1
    BY <1>3, <1>5, <1>8
  <1>10. p = SubSeq(s, a + 1, b - 1)
    <2>1. CASE i + 1 <= j
      <3>1. /\ i + 1 \in 1..(hi - lo + 1) + 1 /\ j - 1 \in 0..hi - lo + 1 /\ i + 1 <= (j - 1) + 1
            /\ lo + (i + 1) - 1 = a + 1 /\ lo + (j - 1) - 1 = b - 1
        BY <1>0, <2>1
      <3>2. SubSeq(SubSeq(s, lo, hi), i + 1, j - 1) = SubSeq(s, lo + (i + 1) - 1, lo + (j - 1) - 1)
        BY <1>6, <3>1, PartOfPart
      <3> QED
        BY <1>1, <1>5, <3>1, <3>2
    <2>2. CASE ~(i + 1 <= j)
      <3>1. i + 1 \in Int /\ j - 1 \in Int /\ j - 1 < i + 1
        BY <1>0, <2>2
      <3>2. a + 1 \in Int /\ b - 1 \in Int /\ b - 1 < a + 1
        BY <1>0, <2>2
      <3> HIDE DEF a, b
      <3>3. SubSeq(t, i + 1, j - 1) = <<>> /\ SubSeq(s, a + 1, b - 1) = <<>>
        BY <3>1, <3>2, SubSeqEmpty
      <3> QED
        BY <1>1, <3>3
    <2> QED
      BY <2>1, <2>2
  <1> HIDE DEF a, b
  <1> QED
    BY <1>2, <1>9, <1>10, Zenon DEF IsPart

-----------------------------------------------------------------------------
\* The envelope.

\* What is between the marker and the parts around it.
Wrap(a, list) == Append(Append(<<Prefix>> \o a, LevelsMarker) \o list, Bracket)

Marker(s) == First(s, LevelsMarker)

LEMMA EnvelopeIs ==
    ASSUME NEW s
    PROVE  Envelope(s) =
               IF Trimmed(s) = <<>> \/ Marker(Trimmed(s)) = 0 THEN {}
               ELSE IF Head(Trimmed(s)) # Prefix \/ Last(Trimmed(s)) # Bracket THEN {}
               ELSE {[srid |-> SubSeq(Trimmed(s), 2, Marker(Trimmed(s)) - 1),
                      levels |-> SubSeq(Trimmed(s), Marker(Trimmed(s)) + 1, Len(Trimmed(s)) - 1)]}
  BY Zenon DEF Envelope, SelectInSeq, Marker, First

\* An accepted envelope is all of the trimmed text.
LEMMA EnvelopeWraps ==
    ASSUME NEW s \in Text, NEW e \in Envelope(s)
    PROVE  /\ Envelope(s) = {e}
           /\ e.srid \in Text /\ e.levels \in Text
           /\ Trimmed(s) = Wrap(e.srid, e.levels)
  <1> DEFINE t == Trimmed(s)
             n == Len(t)
             m == Marker(t)
  <1>1. /\ t # <<>> /\ m # 0 /\ Head(t) = Prefix /\ Last(t) = Bracket
        /\ Envelope(s) = {[srid |-> SubSeq(t, 2, m - 1), levels |-> SubSeq(t, m + 1, n - 1)]}
    <2> HIDE DEF t, m, n
    <2>1. Envelope(s) =
               IF t = <<>> \/ m = 0 THEN {}
               ELSE IF Head(t) # Prefix \/ Last(t) # Bracket THEN {}
               ELSE {[srid |-> SubSeq(t, 2, m - 1), levels |-> SubSeq(t, m + 1, n - 1)]}
      BY EnvelopeIs, Zenon DEF t, m, n
    <2> QED
      BY <2>1, Zenon
  <1>2. e = [srid |-> SubSeq(t, 2, m - 1), levels |-> SubSeq(t, m + 1, n - 1)]
    BY <1>1
  <1>3. t \in Text
    <2>1. Len(s) \in Nat
      BY DEF Text
    <2>2. PICK lo, hi \in 1..Len(s) : lo <= hi /\ t = SubSeq(s, lo, hi)
      BY <1>1, TrimmedIs
    <2> HIDE DEF t
    <2>3. lo \in 1..Len(s) + 1 /\ hi \in 0..Len(s) /\ lo <= hi + 1
      BY <2>1, <2>2
    <2> QED
      BY <2>2, <2>3, PartIs
  <1> HIDE DEF t
  <1>4. n \in Nat /\ n >= 1 /\ t[1] = Prefix /\ t[n] = Bracket
    <2>1. Head(t) = t[1]
      BY <1>1, <1>3 DEF Text
    <2> QED
      BY <1>1, <1>3, <2>1 DEF Text, Last
  <1>5. m \in 1..n /\ t[m] = LevelsMarker
    BY <1>1, <1>3, FirstFound DEF Marker
  <1>6. m # 1 /\ m # n
    BY <1>4, <1>5, Tokens
  <1> HIDE DEF m
  <1> DEFINE x == SubSeq(t, 1, n - 1)
  <1>7. m \in 2..n - 1 /\ 1 \in 1..n - 1 /\ n - 1 \in 1..n
    BY <1>4, <1>5, <1>6
  <1>8. t = Append(x, Bracket)
    <2>1. t = Append(x, t[n]) \o SubSeq(t, n + 1, n)
      <3>1. Len(t) \in 1..Len(t)
        BY <1>4
      <3>2. \A k \in 1..Len(t) : t = Append(SubSeq(t, 1, k - 1), t[k]) \o SubSeq(t, k + 1, Len(t))
        BY <1>3, SplitAt
      <3> QED
        BY <3>1, <3>2, Zenon
    <2>2. SubSeq(t, n + 1, n) = <<>>
      BY <1>4, SubSeqEmpty
    <2>3. Append(x, Bracket) \in Text
      <3>1. n - 1 \in 0..n /\ 1 \in 1..n + 1 /\ 1 <= (n - 1) + 1
        BY <1>4
      <3>2. x \in Text
        BY <1>3, <3>1, PartIs
      <3> HIDE DEF x
      <3> QED
        BY <3>2, Tokens, AppendText
    <2>4. Append(x, Bracket) \o <<>> = Append(x, Bracket)
      <3> HIDE DEF x, n
      <3> QED
        BY <2>3 DEF Text
    <2> QED
      BY <1>4, <2>1, <2>2, <2>4
  <1>9. /\ x \in Text /\ Len(x) = n - 1 /\ \A k \in 1..n - 1 : x[k] = t[k]
    <2>1. /\ 1 \in 1..n + 1 /\ n - 1 \in 0..n /\ 1 <= (n - 1) + 1 /\ (n - 1) - 1 + 1 = n - 1
          /\ \A k \in 1..n - 1 : 1 + k - 1 = k
      BY <1>4
    <2>2. /\ x \in Text /\ Len(x) = (n - 1) - 1 + 1
          /\ \A k \in 1..(n - 1) - 1 + 1 : x[k] = t[1 + k - 1]
      BY <1>3, <2>1, PartIs
    <2> HIDE DEF x, n
    <2> QED
      BY <2>1, <2>2
  <1>10. /\ SubSeq(x, 1, m - 1) = SubSeq(t, 1, m - 1)
         /\ SubSeq(x, m + 1, Len(x)) = SubSeq(t, m + 1, n - 1)
    <2>1. /\ 1 \in 1..n + 1 /\ n - 1 \in 0..n /\ 1 <= (n - 1) + 1
          /\ 1 \in 1..((n - 1) - 1 + 1) + 1 /\ m - 1 \in 0..(n - 1) - 1 + 1 /\ 1 <= (m - 1) + 1
          /\ m + 1 \in 1..((n - 1) - 1 + 1) + 1 /\ n - 1 \in 0..(n - 1) - 1 + 1
          /\ m + 1 <= (n - 1) + 1
          /\ 1 + 1 - 1 = 1 /\ 1 + (m - 1) - 1 = m - 1 /\ 1 + (m + 1) - 1 = m + 1 /\ 1 + (n - 1) - 1 = n - 1
      BY <1>4, <1>7
    <2> HIDE DEF n
    <2>2. SubSeq(x, 1, m - 1) = SubSeq(t, 1 + 1 - 1, 1 + (m - 1) - 1)
      BY <1>3, <2>1, PartOfPart DEF n
    <2>3. SubSeq(x, m + 1, n - 1) = SubSeq(t, 1 + (m + 1) - 1, 1 + (n - 1) - 1)
      BY <1>3, <2>1, PartOfPart DEF n
    <2> HIDE DEF x
    <2> QED
      BY <1>9, <2>1, <2>2, <2>3
  <1>11. SubSeq(t, 1, m - 1) = <<Prefix>> \o SubSeq(t, 2, m - 1)
    <2>1. /\ 1 \in 1..n + 1 /\ 1 \in 1 - 1..n /\ m - 1 \in 1..n /\ 1 + 1 = 2
      BY <1>4, <1>7
    <2>2. SubSeq(t, 1, 1) \o SubSeq(t, 1 + 1, m - 1) = SubSeq(t, 1, m - 1)
      BY <1>3, <2>1, ConcatAdjacentSubSeq DEF Text
    <2>3. SubSeq(t, 1, 1) = <<Prefix>>
      <3>1. /\ 1 \in 1..n + 1 /\ 1 \in 0..n /\ 1 <= 1 + 1 /\ 1 - 1 + 1 = 1 /\ 1 + 1 - 1 = 1
        BY <1>4
      <3>2. SubSeq(t, 1, 1) \in Text /\ Len(SubSeq(t, 1, 1)) = 1 /\ SubSeq(t, 1, 1)[1] = t[1]
        BY <1>3, <3>1, PartIs
      <3> DEFINE q == SubSeq(t, 1, 1)
      <3> HIDE DEF q
      <3>3. q \in Seq(Token) /\ Len(q) = 1 /\ q[1] = Prefix
        BY <1>4, <3>2 DEF Text, q
      <3>4. q = <<Prefix>>
        BY <3>3
      <3> QED
        BY <3>4 DEF q
    <2> QED
      BY <2>1, <2>2, <2>3
  <1>12. x = Append(SubSeq(x, 1, m - 1), x[m]) \o SubSeq(x, m + 1, Len(x))
    <2>1. m \in 1..Len(x)
      BY <1>7, <1>9
    <2> HIDE DEF x
    <2> QED
      BY <1>9, <2>1, SplitAt
  <1>13. x[m] = LevelsMarker
    <2>1. m \in 1..n - 1
      BY <1>7
    <2> QED
      BY <1>5, <1>9, <2>1
  <1>14. e.srid = SubSeq(t, 2, m - 1) /\ e.levels = SubSeq(t, m + 1, n - 1)
    BY <1>2
  <1>15. e.srid \in Text /\ e.levels \in Text
    <2>1. /\ 2 \in 1..n + 1 /\ m - 1 \in 0..n /\ 2 <= (m - 1) + 1
          /\ m + 1 \in 1..n + 1 /\ n - 1 \in 0..n /\ m + 1 <= (n - 1) + 1
      BY <1>4, <1>7
    <2> QED
      BY <1>3, <1>14, <2>1, PartIs
  <1>16. t = Wrap(e.srid, e.levels)
    <2> HIDE DEF x, n
    <2> QED
      BY <1>8, <1>10, <1>11, <1>12, <1>13, <1>14, Zenon DEF Wrap
  <1> QED
    BY <1>1, <1>2, <1>15, <1>16 DEF t

LEMMA WrapIsText ==
    ASSUME NEW a \in Text, NEW list \in Text
    PROVE  /\ <<Prefix>> \o a \in Text
           /\ Append(<<Prefix>> \o a, LevelsMarker) \in Text
           /\ Append(<<Prefix>> \o a, LevelsMarker) \o list \in Text
           /\ Wrap(a, list) \in Text
  <1>1. <<Prefix>> \in Text
    BY Tokens DEF Text
  <1>2. <<Prefix>> \o a \in Text
    BY <1>1, ConcatText
  <1>3. Append(<<Prefix>> \o a, LevelsMarker) \in Text
    BY <1>2, Tokens, AppendText
  <1>4. Append(<<Prefix>> \o a, LevelsMarker) \o list \in Text
    BY <1>3, ConcatText
  <1> QED
    BY <1>2, <1>3, <1>4, Tokens, AppendText DEF Wrap

\* The first marker of what was wrapped is the one around which it was.
LEMMA EnvelopeOfWrap ==
    ASSUME NEW a \in Clean, NEW list \in Text
    PROVE  /\ Trimmed(Wrap(a, list)) = Wrap(a, list)
           /\ Envelope(Wrap(a, list)) = {[srid |-> a, levels |-> list]}
  <1> DEFINE u == <<Prefix>> \o a
             x == Append(u, LevelsMarker)
             y == x \o list
             t == Wrap(a, list)
             p == <<Prefix>>
             m == Len(a) + 2
             n == Len(a) + Len(list) + 3
  <1>1. a \in Text /\ \A k \in 1..Len(a) : a[k] \notin Separators
    BY DEF Clean, Text
  <1>2. p \in Text /\ Len(p) = 1 /\ p[1] = Prefix
    BY Tokens DEF Text
  <1> HIDE DEF p
  <1>3. u = p \o a /\ u \in Text
    BY <1>1, WrapIsText DEF p
  <1>4. /\ Len(a) \in Nat /\ Len(u) = Len(a) + 1 /\ u[1] = Prefix
        /\ \A k \in 1..Len(a) : u[1 + k] = a[k]
    <2>1. 1 \in 1..Len(p)
      BY <1>2
    <2>2. /\ Len(a) \in Nat /\ Len(p \o a) = Len(p) + Len(a)
          /\ \A k \in 1..Len(p) : (p \o a)[k] = p[k]
          /\ \A k \in 1..Len(a) : (p \o a)[Len(p) + k] = a[k]
      BY <1>1, <1>2, ConcatText
    <2> HIDE DEF u
    <2> QED
      BY <1>2, <1>3, <2>1, <2>2
  <1> HIDE DEF u
  <1>5. /\ x \in Text /\ Len(x) = m /\ x[m] = LevelsMarker
        /\ \A k \in 1..Len(a) + 1 : x[k] = u[k]
    <2>1. /\ x \in Text /\ Len(x) = Len(u) + 1 /\ x[Len(u) + 1] = LevelsMarker
          /\ \A k \in 1..Len(u) : x[k] = u[k]
      BY <1>3, Tokens, AppendText
    <2>2. (Len(a) + 1) + 1 = Len(a) + 2
      BY <1>4
    <2> HIDE DEF x
    <2> QED
      BY <1>4, <2>1, <2>2
  <1> HIDE DEF x
  <1>6. /\ y \in Text /\ Len(list) \in Nat /\ Len(y) = m + Len(list)
        /\ \A k \in 1..m : y[k] = x[k]
    <2> HIDE DEF m
    <2> QED
      BY <1>5, ConcatText
  <1> HIDE DEF y
  <1>7. t = Append(y, Bracket)
    BY Zenon DEF Wrap, y, x, u
  <1>8. /\ t \in Text /\ Len(t) = n /\ t[n] = Bracket
        /\ \A k \in 1..n - 1 : t[k] = y[k]
    <2>1. /\ Append(y, Bracket) \in Text /\ Len(Append(y, Bracket)) = Len(y) + 1
          /\ Append(y, Bracket)[Len(y) + 1] = Bracket
          /\ \A k \in 1..Len(y) : Append(y, Bracket)[k] = y[k]
      BY <1>6, Tokens, AppendText
    <2>2. Len(y) + 1 = n /\ Len(y) = n - 1
      BY <1>4, <1>6
    <2> HIDE DEF n
    <2> QED
      BY <1>7, <2>1, <2>2
  <1> HIDE DEF t
  <1>9. /\ m \in 1..n /\ m \in 1..n - 1 /\ 1 \in 1..n - 1 /\ n \in Nat /\ 1 \in 1..m
        /\ 1..m \subseteq 1..n - 1 /\ 1 \in 1..Len(a) + 1
    BY <1>4, <1>6
  <1>10. t[1] = Prefix /\ t[m] = LevelsMarker
    <2>1. m \in 1..m
      BY <1>9
    <2> QED
      BY <1>4, <1>5, <1>6, <1>8, <1>9, <2>1
  <1>11. ASSUME NEW k \in 1..m - 1
         PROVE  t[k] # LevelsMarker
    <2>1. k \in 1..n - 1 /\ k \in 1..m /\ k \in 1..Len(a) + 1 /\ (k # 1 => k - 1 \in 1..Len(a) /\ 1 + (k - 1) = k)
      BY <1>4, <1>6
    <2>2. t[k] = u[k]
      BY <1>5, <1>6, <1>8, <2>1
    <2>3. CASE k = 1
      BY <1>4, <2>2, <2>3, Tokens
    <2>4. CASE k # 1
      <3>1. u[k] = a[k - 1]
        BY <1>4, <2>1, <2>4
      <3>2. a[k - 1] \notin Separators
        BY <1>1, <2>1, <2>4
      <3> QED
        BY <2>2, <3>1, <3>2, Tokens
    <2> QED
      BY <2>3, <2>4
  <1> HIDE DEF n
  <1>12. Marker(t) = m
    BY <1>8, <1>9, <1>10, <1>11, FirstIs DEF Marker
  <1>13. t # <<>> /\ t[Len(t)] = Bracket /\ Head(t) = t[1]
    BY <1>8, <1>9 DEF Text
  <1>14. Trimmed(t) = t
    BY <1>8, <1>10, <1>13, Tokens, TrimmedSame
  <1>15. SubSeq(t, 2, m - 1) = a
    <2> DEFINE w == Append(<<LevelsMarker>> \o list, Bracket)
    <2>1. <<LevelsMarker>> \in Seq(Token) /\ list \in Seq(Token) /\ u \in Seq(Token) /\ <<Bracket>> \in Seq(Token)
      BY <1>3, Tokens DEF Text
    <2>2. w \in Text /\ w = (<<LevelsMarker>> \o list) \o <<Bracket>>
      <3>1. <<LevelsMarker>> \o list \in Text
        BY <2>1 DEF Text
      <3> QED
        BY <3>1, Tokens, AppendText, AppendIsConcat DEF Text
    <2>3. x = u \o <<LevelsMarker>>
      BY <1>3, Tokens, AppendIsConcat DEF x, Text
    <2>4. y = u \o (<<LevelsMarker>> \o list)
      BY <2>1, <2>3, Associate DEF y
    <2>5. t = y \o <<Bracket>>
      BY <1>6, <1>7, Tokens, AppendIsConcat DEF Text
    <2>6. (u \o (<<LevelsMarker>> \o list)) \o <<Bracket>> = u \o w
      <3> DEFINE z == <<LevelsMarker>> \o list
      <3>1. z \in Seq(Token)
        BY <2>1
      <3> HIDE DEF z, w
      <3>2. (u \o z) \o <<Bracket>> = u \o (z \o <<Bracket>>)
        BY <2>1, <3>1, Associate
      <3> QED
        BY <2>2, <3>2 DEF z
    <2>7. t = (p \o a) \o w
      BY <1>3, <2>4, <2>5, <2>6
    <2>8. Len(p) + 1 = 2 /\ Len(p) + Len(a) = m - 1
      BY <1>2, <1>4
    <2> HIDE DEF w, m
    <2>9. SubSeq(t, Len(p) + 1, Len(p) + Len(a)) = a
      BY <1>1, <1>2, <2>2, <2>7, Window
    <2> QED
      BY <2>8, <2>9
  <1>16. SubSeq(t, m + 1, Len(t) - 1) = list
    <2>1. <<Bracket>> \in Text
      BY Tokens DEF Text
    <2>2. t = (x \o list) \o <<Bracket>>
      BY <1>6, <1>7, Tokens, AppendIsConcat DEF Text, y
    <2>3. Len(t) - 1 = m + Len(list)
      BY <1>4, <1>6, <1>8 DEF n
    <2> HIDE DEF m
    <2>4. SubSeq(t, Len(x) + 1, Len(x) + Len(list)) = list
      BY <1>5, <2>1, <2>2, Window
    <2> QED
      BY <1>5, <2>3, <2>4
  <1>17. m # 0
    BY <1>4
  <1> HIDE DEF m
  <1>18. Envelope(t) = {[srid |-> SubSeq(t, 2, m - 1), levels |-> SubSeq(t, m + 1, Len(t) - 1)]}
    <2>1. ~(t = <<>> \/ m = 0) /\ ~(Head(t) # Prefix \/ Last(t) # Bracket)
      BY <1>10, <1>13, <1>17 DEF Last
    <2> QED
      BY <1>12, <1>14, <2>1, EnvelopeIs, Zenon
  <1> QED
    BY <1>14, <1>15, <1>16, <1>18 DEF t

-----------------------------------------------------------------------------
\* The parts of a value: its alphas, its SRID, what can be stored.

Level == [alpha : 1..One, ewkb : Seq(Byte)]
Payload == [srid : I32 \cup {NoSrid}, levels : Seq(Level)]

LEMMA AlphaIs ==
    ASSUME NEW x \in F64
    PROVE  AlphaError(x) = "None" <=> x \in 1..One
  <1>1. One \in Int /\ Infinity \in Int /\ 0 < One /\ One < Infinity /\ x \in Int
    BY FloatRangeAssumption DEF F64
  <1>2. AlphaError(x) = "None" <=> IsFinite(x) /\ ~FloatLeq(x, 0) /\ FloatLeq(x, One)
    BY DEF AlphaError
  <1>3. CASE x < 0
    BY <1>1, <1>2, <1>3 DEF IsFinite, FloatLeq, IsNan, Value
  <1>4. CASE ~(x < 0)
    <2>1. Value(x) = x /\ Value(0) = 0 /\ Value(One) = One
      BY <1>1, <1>4 DEF Value
    <2> QED
      BY <1>1, <1>2, <1>4, <2>1 DEF IsFinite, FloatLeq, IsNan
  <1> QED
    BY <1>3, <1>4

LEMMA OnlyIs ==
    ASSUME NEW x
    PROVE  Only({x}) = x
  BY DEF Only

\* What a value that could be built is known to be.
LEMMA BuiltValue ==
    ASSUME NEW v, v.levels \in Seq(Level), NewStored(v).kind = "Ok"
    PROVE  /\ NewStored(v) = Decoded(v)
           /\ \A k \in 1..Len(v.levels) : StoredLevelError(v.levels[k].ewkb) = "None"
           /\ Len(v.levels) > 0 => v.srid # NoSrid
           /\ \A k \in 1..Len(v.levels) - 1 : v.levels[k + 1].alpha < v.levels[k].alpha
  <1> DEFINE bad == {k \in 1..Len(v.levels) : StoredLevelError(v.levels[k].ewkb) # "None"}
             first == SelectInSeq(v.levels, LAMBDA l : StoredLevelError(l.ewkb) # "None")
             pair == {k \in 1..Len(v.levels) - 1 : v.levels[k].alpha <= v.levels[k + 1].alpha}
  <1>1. Len(v.levels) \in Nat
    OBVIOUS
  <1>2. first = IF bad # {} THEN Min(bad) ELSE 0
    BY Zenon DEF SelectInSeq
  <1>3. bad # {} => Min(bad) \in bad
    <2>1. bad \subseteq Nat
      BY <1>1
    <2> HIDE DEF bad
    <2> QED
      BY <2>1, LeastExists, MinIs
  <1>4. \A k \in bad : k # 0 /\ StoredLevelError(v.levels[k].ewkb) # "None"
    BY <1>1
  <1>5. NewStored(v) = IF first # 0 THEN Failed(StoredLevelError(v.levels[first].ewkb))
                       ELSE ValidateLevels(v)
    BY Zenon DEF NewStored
  <1>6. \A b : StoredLevelError(b) # "Ok" /\ Failed(StoredLevelError(b)).kind = StoredLevelError(b)
    BY DEF StoredLevelError, Failed
  <1>7. \A k \in 1..Len(v.levels) : k \notin bad => StoredLevelError(v.levels[k].ewkb) = "None"
    OBVIOUS
  <1> HIDE DEF bad, first
  <1>8. bad = {}
    BY <1>2, <1>3, <1>4, <1>5, <1>6
  <1>9. NewStored(v) = ValidateLevels(v)
    BY <1>2, <1>5, <1>8
  <1>10. /\ ValidateLevels(v) = Decoded(v)
         /\ Len(v.levels) > 0 => v.srid # NoSrid
         /\ pair = {}
    <2> HIDE DEF pair
    <2>1. ValidateLevels(v) =
              IF Len(v.levels) > 0 /\ v.srid = NoSrid THEN Failed("MissingSrid")
              ELSE IF Len(v.levels) > MaxU32 THEN Failed("TooManyLevels")
              ELSE IF pair = {} THEN Decoded(v)
              ELSE IF v.levels[Min(pair)].alpha = v.levels[Min(pair) + 1].alpha
                   THEN Failed("DuplicateAlpha")
                   ELSE Failed("LevelsOutOfOrder")
      BY Zenon DEF ValidateLevels, pair
    <2> QED
      BY <1>9, <2>1 DEF Failed
  <1>11. \A k \in 1..Len(v.levels) - 1 : v.levels[k + 1].alpha < v.levels[k].alpha
    <2> SUFFICES ASSUME NEW k \in 1..Len(v.levels) - 1
                 PROVE  v.levels[k + 1].alpha < v.levels[k].alpha
      OBVIOUS
    <2>1. k \in 1..Len(v.levels) /\ k + 1 \in 1..Len(v.levels)
      BY <1>1
    <2>2. v.levels[k] \in Level /\ v.levels[k + 1] \in Level
      BY <2>1
    <2>3. v.levels[k].alpha \in Int /\ v.levels[k + 1].alpha \in Int
      BY <2>2, FloatRangeAssumption, SMTT(40) DEF Level
    <2>4. ~(v.levels[k].alpha <= v.levels[k + 1].alpha)
      BY <1>10
    <2> QED
      BY <2>3, <2>4
  <1> QED
    BY <1>7, <1>8, <1>9, <1>10, <1>11

\* Alphas that fall from each level to the next fall from any to any later one.
LEMMA FallingAlphas ==
    ASSUME NEW ls \in Seq(Level), \A k \in 1..Len(ls) - 1 : ls[k + 1].alpha < ls[k].alpha
    PROVE  \A j, k \in 1..Len(ls) : j < k => ls[k].alpha < ls[j].alpha
  <1> DEFINE Below(d) == \A j \in 1..Len(ls) : j + d + 1 <= Len(ls) => ls[j + d + 1].alpha < ls[j].alpha
             G == {d \in Nat : Below(d)}
  <1>1. Len(ls) \in Nat /\ \A k \in 1..Len(ls) : ls[k].alpha \in Int
    <2>1. Len(ls) \in Nat /\ \A k \in 1..Len(ls) : ls[k] \in Level
      OBVIOUS
    <2>2. \A l \in Level : l.alpha \in Int
      BY FloatRangeAssumption DEF Level
    <2> QED
      BY <2>1, <2>2
  <1>2. 0 \in G
    <2>1. Below(0)
      <3> SUFFICES ASSUME NEW j \in 1..Len(ls), j + 0 + 1 <= Len(ls)
                   PROVE  ls[j + 0 + 1].alpha < ls[j].alpha
        OBVIOUS
      <3>1. j \in 1..Len(ls) - 1 /\ j + 0 + 1 = j + 1
        BY <1>1
      <3> QED
        BY <3>1
    <2> HIDE DEF Below
    <2> QED
      BY <2>1
  <1>3. ASSUME NEW d \in Nat, d \in G
        PROVE  d + 1 \in G
    <2>1. Below(d + 1)
      <3> SUFFICES ASSUME NEW j \in 1..Len(ls), j + (d + 1) + 1 <= Len(ls)
                   PROVE  ls[j + (d + 1) + 1].alpha < ls[j].alpha
        OBVIOUS
      <3>1. /\ j + d + 1 <= Len(ls) /\ j + d + 1 \in 1..Len(ls) - 1 /\ j + d + 1 \in 1..Len(ls)
            /\ j + (d + 1) + 1 = (j + d + 1) + 1 /\ j + (d + 1) + 1 \in 1..Len(ls)
        BY <1>1
      <3>2. ls[j + d + 1].alpha < ls[j].alpha
        BY <1>3, <3>1
      <3>3. ls[(j + d + 1) + 1].alpha < ls[j + d + 1].alpha
        BY <3>1
      <3>4. ls[j].alpha \in Int /\ ls[j + d + 1].alpha \in Int /\ ls[(j + d + 1) + 1].alpha \in Int
        BY <1>1, <3>1
      <3> QED
        BY <3>1, <3>2, <3>3, <3>4
    <2> HIDE DEF Below
    <2> QED
      BY <2>1
  <1>4. \A d \in Nat : d \in G
    <2> HIDE DEF G
    <2> QED
      BY <1>2, <1>3, CountingUp
  <1>5. ASSUME NEW j \in 1..Len(ls), NEW k \in 1..Len(ls), j < k
        PROVE  ls[k].alpha < ls[j].alpha
    <2>1. k - j - 1 \in Nat /\ j + (k - j - 1) + 1 = k /\ k <= Len(ls)
      BY <1>1, <1>5
    <2>2. Below(k - j - 1)
      BY <1>4, <2>1
    <2> QED
      BY <2>1, <2>2
  <1> QED
    BY <1>5

-----------------------------------------------------------------------------
\* The SRID and the entries.

ShowSrid(v) == IF v.srid = NoSrid THEN <<Null>> ELSE ShowInt(v.srid)
ShowEntry(l) == ShowFloat(l.alpha) \o <<Colon>> \o EncodeHex(l.ewkb)
ShowEntries(v) == [k \in DOMAIN v.levels |-> ShowEntry(v.levels[k])]

LEMMA SridIs ==
    ASSUME NEW v, v.srid \in I32 \cup {NoSrid}
    PROVE  ShowSrid(v) \in Clean /\ ReadSrid(ShowSrid(v)) = {v.srid}
  <1>1. CASE v.srid = NoSrid
    <2>1. ShowSrid(v) = <<Null>>
      BY <1>1, Zenon DEF ShowSrid
    <2>2. <<Null>> \in Clean
      <3>1. Null \in Token \ Separators
        BY Tokens
      <3> DEFINE R == Token \ Separators
      <3> HIDE DEF R
      <3>2. <<Null>> \in Seq(R)
        BY <3>1 DEF R
      <3> QED
        BY <3>2 DEF Clean, R
    <2> QED
      BY <1>1, <2>1, <2>2, Zenon DEF ReadSrid
  <1>2. CASE v.srid # NoSrid
    <2>1. v.srid \in I32 /\ ShowSrid(v) = ShowInt(v.srid)
      BY <1>2, Zenon DEF ShowSrid
    <2>2. ShowInt(v.srid) \in Clean /\ ReadInt(ShowInt(v.srid)) = {v.srid} /\ ReadInt(<<Null>>) = {}
      BY <2>1, NumeralAssumption, Zenon
    <2>3. ShowInt(v.srid) # <<Null>>
      BY <2>2, Zenon
    <2> QED
      BY <2>1, <2>2, <2>3, Zenon DEF ReadSrid
  <1> QED
    BY <1>1, <1>2

\* An entry is split at its first colon.
LEMMA EntrySplit ==
    ASSUME NEW entry \in Text, First(entry, Colon) # 0
    PROVE  LET c == First(entry, Colon)
           IN /\ SubSeq(entry, 1, c - 1) \in Text /\ SubSeq(entry, c + 1, Len(entry)) \in Text
              /\ entry = Append(SubSeq(entry, 1, c - 1), Colon) \o SubSeq(entry, c + 1, Len(entry))
  <1> DEFINE c == First(entry, Colon)
  <1>1. c \in 1..Len(entry) /\ entry[c] = Colon
    BY FirstFound
  <1> HIDE DEF c
  <1>2. Len(entry) \in Nat
    BY DEF Text
  <1>3. /\ 1 \in 1..Len(entry) + 1 /\ c - 1 \in 0..Len(entry) /\ 1 <= (c - 1) + 1
        /\ c + 1 \in 1..Len(entry) + 1 /\ Len(entry) \in 0..Len(entry) /\ c + 1 <= Len(entry) + 1
    BY <1>1, <1>2
  <1>4. SubSeq(entry, 1, c - 1) \in Text /\ SubSeq(entry, c + 1, Len(entry)) \in Text
    BY <1>3, PartIs
  <1>5. entry = Append(SubSeq(entry, 1, c - 1), Colon) \o SubSeq(entry, c + 1, Len(entry))
    BY <1>1, SplitAt
  <1> QED
    BY <1>4, <1>5, Zenon DEF c

LEMMA EntryOf ==
    ASSUME NEW a \in Clean, NEW h \in Text
    PROVE  LET entry == Append(a, Colon) \o h
           IN /\ entry \in Text
              /\ First(entry, Colon) = Len(a) + 1 /\ Len(a) \in Nat
              /\ SubSeq(entry, 1, Len(a)) = a
              /\ SubSeq(entry, Len(a) + 2, Len(entry)) = h
  <1> DEFINE x == Append(a, Colon)
             entry == x \o h
             m == Len(a) + 1
  <1>1. a \in Text /\ \A k \in 1..Len(a) : a[k] # Colon
    <2>1. a \in Text /\ \A k \in 1..Len(a) : a[k] \notin Separators
      BY DEF Clean, Text
    <2> QED
      BY <2>1, Tokens
  <1>2. /\ x \in Text /\ Len(x) = m /\ x[m] = Colon /\ Len(a) \in Nat
        /\ \A k \in 1..Len(a) : x[k] = a[k]
    BY <1>1, Tokens, AppendText
  <1>3. x = a \o <<Colon>> /\ <<Colon>> \in Text /\ <<>> \in Text
    BY <1>1, Tokens, AppendIsConcat DEF Text
  <1> HIDE DEF x
  <1>4. /\ entry \in Text /\ Len(entry) = Len(x) + Len(h) /\ Len(h) \in Nat
        /\ \A k \in 1..Len(x) : entry[k] = x[k]
    BY <1>2, ConcatText
  <1>5. entry = (<<>> \o a) \o (<<Colon>> \o h)
    <2>1. (a \o <<Colon>>) \o h = a \o (<<Colon>> \o h)
      BY <1>1, <1>3, Associate DEF Text
    <2>2. <<>> \o a = a
      BY <1>1 DEF Text
    <2> QED
      BY <1>3, <2>1, <2>2
  <1>6. entry = (x \o h) \o <<>>
    BY <1>4 DEF Text
  <1> HIDE DEF entry
  <1>7. First(entry, Colon) = m
    <2>1. m \in 1..Len(entry) /\ m \in 1..Len(x) /\ \A k \in 1..m - 1 : k \in 1..Len(a) /\ k \in 1..Len(x)
      BY <1>2, <1>4
    <2>2. entry[m] = Colon /\ \A k \in 1..m - 1 : entry[k] # Colon
      BY <1>1, <1>2, <1>4, <2>1
    <2> HIDE DEF m
    <2> QED
      BY <1>4, <2>1, <2>2, FirstIs
  <1>8. SubSeq(entry, 1, Len(a)) = a
    <2>1. <<Colon>> \o h \in Text
      BY <1>3, ConcatText
    <2>2. SubSeq(entry, Len(<<>>) + 1, Len(<<>>) + Len(a)) = a
      BY <1>1, <1>3, <1>5, <2>1, Window
    <2>3. Len(<<>>) + 1 = 1 /\ Len(<<>>) + Len(a) = Len(a)
      BY <1>2
    <2> QED
      BY <2>2, <2>3
  <1>9. SubSeq(entry, Len(a) + 2, Len(entry)) = h
    <2>1. SubSeq(entry, Len(x) + 1, Len(x) + Len(h)) = h
      BY <1>2, <1>3, <1>6, Window
    <2>2. Len(x) + 1 = Len(a) + 2
      BY <1>2
    <2> QED
      BY <1>4, <2>1, <2>2
  <1> QED
    BY <1>2, <1>4, <1>7, <1>8, <1>9 DEF entry, x

LEMMA ReadEntryIs ==
    ASSUME NEW entry
    PROVE  LET c == First(entry, Colon)
               alpha == ReadFloat(SubSeq(entry, 1, c - 1))
               ewkb == DecodeHex(SubSeq(entry, c + 1, Len(entry)))
           IN ReadEntry(entry) =
                  IF c = 0 THEN Failed("InvalidLevelEntry")
                  ELSE IF alpha = {} THEN Failed("InvalidAlpha")
                  ELSE IF AlphaError(Only(alpha)) # "None" THEN Failed(AlphaError(Only(alpha)))
                  ELSE IF ewkb = {} THEN Failed("InvalidHex")
                  ELSE IF StoredLevelError(Only(ewkb)) # "None" THEN Failed(StoredLevelError(Only(ewkb)))
                  ELSE Decoded([alpha |-> Only(alpha), ewkb |-> Only(ewkb)])
  BY Zenon DEF ReadEntry, SelectInSeq, First

\* A level is read from the entry that was written for it.
LEMMA EntryRoundTrip ==
    ASSUME NEW l \in Level, StoredLevelError(l.ewkb) = "None"
    PROVE  /\ ShowFloat(l.alpha) \in Clean /\ EncodeHex(l.ewkb) \in Clean
           /\ ShowEntry(l) = Append(ShowFloat(l.alpha), Colon) \o EncodeHex(l.ewkb)
           /\ ShowEntry(l) \in Text
           /\ ReadEntry(ShowEntry(l)) = Decoded(l)
  <1> DEFINE a == ShowFloat(l.alpha)
             h == EncodeHex(l.ewkb)
             entry == ShowEntry(l)
             c == First(entry, Colon)
  <1>1. l.alpha \in 1..One /\ l.ewkb \in Seq(Byte) /\ l = [alpha |-> l.alpha, ewkb |-> l.ewkb]
    BY DEF Level
  <1>2. a \in Clean /\ ReadFloat(a) = {l.alpha}
    BY <1>1, NumeralAssumption, Zenon
  <1>3. h \in Clean /\ DecodeHex(h) = {l.ewkb}
    BY <1>1, EncodeHexIs, HexRoundTrip, Zenon DEF DigitsOf
  <1>4. a \in Text /\ h \in Text
    BY <1>2, <1>3 DEF Clean, Text
  <1>5. entry = Append(a, Colon) \o h
    <2>1. Append(a, Colon) = a \o <<Colon>>
      BY <1>4, Tokens, AppendIsConcat DEF Text
    <2> QED
      BY <2>1, Zenon DEF ShowEntry
  <1> HIDE DEF a, h, entry
  <1>6. /\ entry \in Text
        /\ c = Len(a) + 1 /\ Len(a) \in Nat
        /\ SubSeq(entry, 1, Len(a)) = a
        /\ SubSeq(entry, Len(a) + 2, Len(entry)) = h
    BY <1>2, <1>4, <1>5, EntryOf, Zenon
  <1>7. c - 1 = Len(a) /\ c + 1 = Len(a) + 2 /\ c # 0
    BY <1>6
  <1>8. ReadFloat(SubSeq(entry, 1, c - 1)) = {l.alpha} /\ DecodeHex(SubSeq(entry, c + 1, Len(entry))) = {l.ewkb}
    BY <1>2, <1>3, <1>6, <1>7
  <1>9. AlphaError(l.alpha) = "None"
    <2>1. l.alpha \in F64
      BY <1>1, FloatRangeAssumption DEF F64
    <2> QED
      BY <1>1, <2>1, AlphaIs
  <1> HIDE DEF c
  <1>10. Only({l.alpha}) = l.alpha /\ Only({l.ewkb}) = l.ewkb /\ {l.alpha} # {} /\ {l.ewkb} # {}
    BY OnlyIs, Zenon
  <1>11. ReadEntry(entry) = Decoded([alpha |-> l.alpha, ewkb |-> l.ewkb])
    BY <1>7, <1>8, <1>9, <1>10, ReadEntryIs, Zenon DEF c
  <1> QED
    BY <1>1, <1>2, <1>3, <1>5, <1>6, <1>11, Zenon DEF a, h, entry

\* A value is written as an envelope around entries without commas.
LEMMA EntryHasNoComma ==
    ASSUME NEW a \in Clean, NEW h \in Clean
    PROVE  /\ Append(a, Colon) \o h \in Seq(Token \ {Comma})
           /\ Append(a, Colon) \o h # <<>>
  <1> DEFINE R == Token \ {Comma}
             x == Append(a, Colon)
  <1>1. Token \ Separators \subseteq R /\ Colon \in R
    BY Tokens, Zenon
  <1>2. a \in Seq(R) /\ h \in Seq(R)
    <2> DEFINE C == Token \ Separators
    <2>1. a \in Seq(C) /\ h \in Seq(C) /\ C \subseteq R
      BY <1>1 DEF Clean
    <2> HIDE DEF C, R
    <2> QED
      BY <2>1
  <1> HIDE DEF R
  <1>3. x \in Seq(R) /\ Len(x) = Len(a) + 1 /\ Len(a) \in Nat
    BY <1>1, <1>2, AppendFacts
  <1> HIDE DEF x
  <1>4. x \o h \in Seq(R) /\ Len(x \o h) = Len(x) + Len(h) /\ Len(h) \in Nat
    BY <1>2, <1>3
  <1>5. x \o h # <<>>
    BY <1>3, <1>4
  <1> QED
    BY <1>4, <1>5 DEF x, R

LEMMA ToTextIs ==
    ASSUME NEW v \in Payload, NewStored(v).kind = "Ok"
    PROVE  /\ ShowSrid(v) \in Clean /\ ReadSrid(ShowSrid(v)) = {v.srid}
           /\ ShowEntries(v) \in Seq(Text) /\ Len(ShowEntries(v)) = Len(v.levels)
           /\ Join(ShowEntries(v)) \in Text
           /\ Entries(Join(ShowEntries(v))) = ShowEntries(v)
           /\ ToText(v) = Wrap(ShowSrid(v), Join(ShowEntries(v)))
           /\ \A k \in 1..Len(v.levels) :
                  /\ v.levels[k] \in Level
                  /\ ShowEntries(v)[k] = ShowEntry(v.levels[k])
                  /\ ReadEntry(ShowEntries(v)[k]) = Decoded(v.levels[k])
  <1> DEFINE n == Len(v.levels)
             es == ShowEntries(v)
             a == ShowSrid(v)
             R == Seq(Token \ {Comma})
  <1>1. v.levels \in Seq(Level) /\ v.srid \in I32 \cup {NoSrid}
    BY DEF Payload
  <1>2. n \in Nat /\ DOMAIN v.levels = 1..n /\ \A k \in 1..n : v.levels[k] \in Level
    BY <1>1
  <1>3. \A k \in 1..n : StoredLevelError(v.levels[k].ewkb) = "None"
    BY <1>1, BuiltValue
  <1> HIDE DEF n
  <1>4. es = [k \in 1..n |-> ShowEntry(v.levels[k])]
    BY <1>2 DEF ShowEntries
  <1>5. ASSUME NEW k \in 1..n
        PROVE  /\ es[k] = ShowEntry(v.levels[k])
               /\ ReadEntry(es[k]) = Decoded(v.levels[k])
               /\ es[k] \in R /\ es[k] # <<>> /\ es[k] \in Text
    <2> DEFINE l == v.levels[k]
    <2>1. es[k] = ShowEntry(l)
      BY <1>4, Zenon
    <2>2. l \in Level /\ StoredLevelError(l.ewkb) = "None"
      BY <1>2, <1>3
    <2> HIDE DEF l
    <2>3. /\ ShowFloat(l.alpha) \in Clean /\ EncodeHex(l.ewkb) \in Clean
          /\ ShowEntry(l) = Append(ShowFloat(l.alpha), Colon) \o EncodeHex(l.ewkb)
          /\ ShowEntry(l) \in Text
          /\ ReadEntry(ShowEntry(l)) = Decoded(l)
      BY <2>2, EntryRoundTrip
    <2>4. ShowEntry(l) \in R /\ ShowEntry(l) # <<>>
      BY <2>3, EntryHasNoComma, Zenon
    <2> QED
      BY <2>1, <2>3, <2>4 DEF l
  <1>6. es \in Seq(R) /\ es \in Seq(Text) /\ Len(es) = n
    <2> HIDE DEF R, es
    <2>1. \A k \in 1..n : ShowEntry(v.levels[k]) \in R /\ ShowEntry(v.levels[k]) \in Text
      BY <1>5
    <2> QED
      BY <1>2, <1>4, <2>1
  <1>7. Join(es) \in Text
    <2>1. <<>> \in Text
      BY DEF Text
    <2> HIDE DEF es
    <2> QED
      BY <1>6, <2>1, JoinAppend
  <1>8. Entries(Join(es)) = es
    <2>1. CASE es = <<>>
      BY <2>1, JoinEmpty, Zenon DEF Entries
    <2>2. CASE es # <<>>
      <3> HIDE DEF es
      <3>1. Pieces(Join(es), {Comma}) = es
        BY <1>6, <2>2, SplitJoin
      <3>2. Join(es) # <<>>
        <4> SUFFICES ASSUME Join(es) = <<>>
                     PROVE  FALSE
          OBVIOUS
        <4>1. es = <<<<>>>>
          BY <3>1, PiecesEmpty, Zenon
        <4>2. 1 \in 1..n /\ es[1] = <<>>
          BY <1>2, <1>6, <4>1
        <4> QED
          BY <1>5, <4>2
      <3> QED
        BY <3>1, <3>2, Zenon DEF Entries
    <2> QED
      BY <2>1, <2>2
  <1>9. a \in Clean /\ ReadSrid(a) = {v.srid}
    BY <1>1, SridIs
  <1> HIDE DEF es, a
  <1>10. ToText(v) = Wrap(a, Join(es))
    <2> DEFINE j == Join(es)
               u == <<Prefix>> \o a
               x == u \o <<LevelsMarker>>
               y == x \o j
    <2>1. ToText(v) = y \o <<Bracket>>
      BY Zenon DEF ToText, ShowSrid, ShowEntries, ShowEntry, a, es
    <2>2. a \in Text
      BY <1>9 DEF Clean, Text
    <2> HIDE DEF j
    <2>3. u \in Text /\ Append(u, LevelsMarker) \in Text /\ Append(u, LevelsMarker) \o j \in Text
      BY <1>7, <2>2, WrapIsText DEF j
    <2>4. Append(u, LevelsMarker) = x
      BY <2>3, Tokens, AppendIsConcat DEF Text
    <2> HIDE DEF u, x
    <2>5. y \in Text
      BY <2>3, <2>4
    <2>6. Append(y, Bracket) = y \o <<Bracket>>
      BY <2>5, Tokens, AppendIsConcat DEF Text
    <2> QED
      BY <2>1, <2>4, <2>6, Zenon DEF Wrap, u, j
  <1> QED
    BY <1>2, <1>5, <1>6, <1>7, <1>8, <1>9, <1>10 DEF es, a, n

-----------------------------------------------------------------------------
\* The steps of parse_text, for a text of either kind.

\* How far the list all has been read: done of it, and rest.
Progress(all, done, rest) ==
    /\ Len(done) + Len(rest) = Len(all)
    /\ \A i \in 1..Len(rest) : rest[i] = all[Len(done) + i]

LEMMA ProgressStarts ==
    ASSUME NEW R, NEW all \in Seq(R)
    PROVE  Progress(all, <<>>, all)
  BY DEF Progress

LEMMA ProgressStep ==
    ASSUME NEW D, NEW R, NEW done \in Seq(D), NEW all \in Seq(R), NEW rest \in Seq(R), rest # <<>>,
           NEW l \in D, Progress(all, done, rest)
    PROVE  /\ Len(done) + 1 \in 1..Len(all) /\ Head(rest) = all[Len(done) + 1]
           /\ Tail(rest) \in Seq(R) /\ Append(done, l) \in Seq(D)
           /\ Progress(all, Append(done, l), Tail(rest))
  <1> DEFINE d == Append(done, l)
             r == Tail(rest)
  <1>1. Len(done) \in Nat /\ Len(rest) \in Nat /\ Len(rest) >= 1 /\ Len(all) \in Nat
    BY HeadTailProperties
  <1>2. Len(done) + Len(rest) = Len(all) /\ \A i \in 1..Len(rest) : rest[i] = all[Len(done) + i]
    BY DEF Progress
  <1>3. d \in Seq(D) /\ Len(d) = Len(done) + 1
    BY AppendFacts
  <1>4. /\ r \in Seq(R) /\ Len(r) = Len(rest) - 1 /\ Head(rest) = rest[1]
        /\ \A i \in 1..Len(r) : r[i] = rest[i + 1]
    BY HeadTailProperties
  <1> HIDE DEF d, r
  <1>5. ASSUME NEW i \in 1..Len(r)
        PROVE  r[i] = all[Len(d) + i]
    <2>1. i + 1 \in 1..Len(rest) /\ Len(done) + (i + 1) = Len(d) + i
      BY <1>1, <1>3, <1>4
    <2> QED
      BY <1>2, <1>4, <2>1
  <1>6. Len(d) + Len(r) = Len(all)
    <2>1. Len(done) + Len(rest) = Len(all)
      BY <1>2
    <2>2. Len(r) = Len(rest) - 1
      BY <1>4
    <2> QED
      BY <1>1, <1>3, <2>1, <2>2
  <1>7. Progress(all, d, r)
    BY <1>5, <1>6, Zenon DEF Progress
  <1>8. Len(done) + 1 \in 1..Len(all) /\ 1 \in 1..Len(rest)
    BY <1>1, <1>2
  <1> QED
    BY <1>2, <1>3, <1>4, <1>7, <1>8 DEF d, r

\* The entries of a list are texts.
LEMMA EntriesAre ==
    ASSUME NEW s \in Text
    PROVE  Entries(s) \in Seq(Text) /\ Join(Entries(s)) = s
  <1>1. CASE s = <<>>
    <2>1. Entries(s) = <<>>
      BY <1>1, Zenon DEF Entries
    <2>2. <<>> \in Seq(Text)
      OBVIOUS
    <2> QED
      BY <1>1, <2>1, <2>2, JoinEmpty, Zenon
  <1>2. CASE s # <<>>
    <2>1. Entries(s) = Pieces(s, {Comma})
      BY <1>2, Zenon DEF Entries
    <2>2. Pieces(s, {Comma}) \in Seq(Text)
      BY PiecesAre
    <2> QED
      BY <2>1, <2>2, JoinSplit, Zenon
  <1> QED
    BY <1>1, <1>2

\* An entry has a separator before it in the text, and the rest of the text after it.
EntryPlace(s, entry) ==
    \E u \in Text, c \in Separators, w \in Text : s = (Append(u, c) \o entry) \o w

\* Where the k-th entry is in the joined list: at its beginning, or after a comma.
JoinPlace(es, k) ==
    \E w \in Text : \/ k = 1 /\ Join(es) = es[1] \o w
                    \/ \E u \in Text : Join(es) = (Append(u, Comma) \o es[k]) \o w

LEMMA ConcatAppend ==
    ASSUME NEW p \in Text, NEW w \in Text, NEW c \in Token
    PROVE  Append(p \o w, c) = p \o Append(w, c)
  BY DEF Text

Associates(a, b, c) == (a \o b) \o c = a \o (b \o c)

LEMMA AssociateText ==
    ASSUME NEW a \in Text, NEW b \in Text, NEW c \in Text
    PROVE  Associates(a, b, c)
  BY Associate DEF Text, Associates

Spreads(p, q, e, w) == p \o ((q \o e) \o w) = ((p \o q) \o e) \o w

LEMMA Spread ==
    ASSUME NEW p \in Text, NEW q \in Text, NEW e \in Text, NEW w \in Text
    PROVE  Spreads(p, q, e, w)
  <1>1. q \o e \in Text /\ p \o q \in Text
    BY ConcatText
  <1>2. Associates(p, q, e)
    BY AssociateText
  <1> DEFINE r == q \o e
  <1>3. r \in Text
    BY <1>1
  <1> HIDE DEF r
  <1>4. Associates(p, r, w)
    BY <1>3, AssociateText
  <1> QED
    BY <1>2, <1>4, Zenon DEF r, Spreads, Associates

Follows(p, w, c, e) == Append(p \o w, c) \o e = p \o (Append(w, c) \o e)

LEMMA ConcatMore ==
    ASSUME NEW p \in Text, NEW w \in Text, NEW c \in Token, NEW e \in Text
    PROVE  Follows(p, w, c, e)
  <1>1. Append(p \o w, c) = p \o Append(w, c)
    BY ConcatAppend
  <1> DEFINE x == Append(w, c)
  <1>2. x \in Text
    BY AppendText
  <1> HIDE DEF x
  <1>3. (p \o x) \o e = p \o (x \o e)
    BY <1>2, Associate DEF Text
  <1> QED
    BY <1>1, <1>3 DEF x, Follows

LEMMA EntryInJoin ==
    ASSUME NEW es \in Seq(Text)
    PROVE  \A k \in 1..Len(es) : JoinPlace(es, k)
  <1> DEFINE Placed(x) == \A k \in 1..Len(x) : JoinPlace(x, k)
             G == {x \in Seq(Text) : Placed(x)}
  <1>1. <<>> \in G
    <2>1. <<>> \in Seq(Text) /\ 1..Len(<<>>) = {}
      OBVIOUS
    <2>2. Placed(<<>>)
      BY <2>1, Zenon
    <2> HIDE DEF Placed
    <2> QED
      BY <2>1, <2>2
  <1>2. ASSUME NEW x \in Seq(Text), x \in G, NEW e \in Text
        PROVE  Append(x, e) \in G
    <2> DEFINE y == Append(x, e)
               n == Len(x)
    <2>1. /\ n \in Nat /\ y \in Seq(Text) /\ Len(y) = n + 1 /\ y[n + 1] = e
          /\ \A k \in 1..n : y[k] = x[k] /\ x[k] \in Text
      BY AppendFacts
    <2>2. Placed(x)
      BY <1>2
    <2>3. <<>> \in Text /\ Comma \in Token /\ \A z \in Text : z \o <<>> = z
      BY Tokens DEF Text
    <2> HIDE DEF y
    <2>4. CASE x = <<>>
      <3>1. n = 0 /\ Join(y) = e
        BY <2>4, JoinAppend DEF y
      <3>2. y[1] = e /\ Len(y) = 1
        BY <2>1, <3>1
      <3>3. Join(y) = y[1] \o <<>>
        BY <2>3, <3>1, <3>2
      <3>4. JoinPlace(y, 1)
        BY <2>3, <3>3, Zenon DEF JoinPlace
      <3>5. \A k \in 1..Len(y) : k = 1
        BY <3>2
      <3> QED
        BY <2>1, <3>4, <3>5, Zenon DEF y
    <2>5. CASE x # <<>>
      <3>1. Join(x) \in Text /\ Join(y) = Append(Join(x), Comma) \o e
        BY <2>5, JoinAppend DEF y
      <3>2. JoinPlace(y, n + 1)
        <4> DEFINE z == Append(Join(x), Comma) \o e
        <4>1. z \in Text
          BY <2>3, <3>1, AppendText, ConcatText
        <4>2. Join(y) = z \o <<>>
          <5> HIDE DEF z
          <5>1. Join(y) = z
            BY <3>1 DEF z
          <5> QED
            BY <2>3, <4>1, <5>1
        <4> QED
          BY <2>1, <2>3, <3>1, <4>2, Zenon DEF JoinPlace
      <3>3. ASSUME NEW k \in 1..n
            PROVE  JoinPlace(y, k)
        <4>1. JoinPlace(x, k) /\ y[k] = x[k] /\ x[k] \in Text
          BY <2>1, <2>2
        <4>2. PICK w \in Text : \/ k = 1 /\ Join(x) = x[1] \o w
                                \/ \E u \in Text : Join(x) = (Append(u, Comma) \o x[k]) \o w
          BY <4>1, Zenon DEF JoinPlace
        <4> DEFINE r == Append(w, Comma) \o e
        <4>3. r \in Text
          BY <2>3, AppendText, ConcatText
        <4>4. ASSUME NEW p \in Text, Join(x) = p \o w
              PROVE  Join(y) = p \o r
          <5>1. Join(y) = Append(p \o w, Comma) \o e
            BY <3>1, <4>4
          <5>2. Follows(p, w, Comma, e)
            BY <2>3, ConcatMore
          <5> QED
            BY <5>1, <5>2, Zenon DEF Follows
        <4> HIDE DEF r
        <4>5. CASE k = 1 /\ Join(x) = x[1] \o w
          <5>1. Join(y) = y[1] \o r
            BY <4>1, <4>4, <4>5
          <5> QED
            BY <4>3, <4>5, <5>1, Zenon DEF JoinPlace
        <4>6. CASE \E u \in Text : Join(x) = (Append(u, Comma) \o x[k]) \o w
          <5>1. PICK u \in Text : Join(x) = (Append(u, Comma) \o x[k]) \o w
            BY <4>6
          <5>2. Append(u, Comma) \o x[k] \in Text
            BY <2>3, <4>1, AppendText, ConcatText
          <5>3. Join(y) = (Append(u, Comma) \o y[k]) \o r
            BY <4>1, <4>4, <5>1, <5>2
          <5> QED
            BY <4>3, <5>3, Zenon DEF JoinPlace
        <4> QED
          BY <4>2, <4>5, <4>6
      <3>4. \A k \in 1..Len(y) : k = n + 1 \/ k \in 1..n
        BY <2>1
      <3>5. Placed(y)
        BY <3>2, <3>3, <3>4, Zenon
      <3> HIDE DEF Placed
      <3> QED
        BY <2>1, <3>5 DEF y
    <2> QED
      BY <2>4, <2>5
  <1>3. Seq(Text) \subseteq G
    <2> HIDE DEF G
    <2> QED
      BY <1>1, <1>2, SequenceInduction
  <1> QED
    BY <1>3

\* Every entry has its place in the text around the list.
LEMMA EntryInWrap ==
    ASSUME NEW a \in Text, NEW list \in Text, NEW k \in 1..Len(Entries(list))
    PROVE  EntryPlace(Wrap(a, list), Entries(list)[k])
  <1> DEFINE es == Entries(list)
             e == es[k]
             q == <<Prefix>> \o a
             x == Append(q, LevelsMarker)
             t == Wrap(a, list)
  <1>1. es \in Seq(Text) /\ Join(es) = list /\ e \in Text
    BY EntriesAre
  <1>2. q \in Text /\ x \in Text
    BY WrapIsText
  <1>3. JoinPlace(es, k)
    BY <1>1, EntryInJoin
  <1>4. t = Append(x \o list, Bracket)
    BY Zenon DEF Wrap
  <1>5. Bracket \in Token /\ Comma \in Token /\ LevelsMarker \in Separators /\ Comma \in Separators
    BY Tokens
  <1> HIDE DEF es, e, q, t
  <1>6. PICK w \in Text : \/ k = 1 /\ list = es[1] \o w
                          \/ \E u \in Text : list = (Append(u, Comma) \o es[k]) \o w
    BY <1>1, <1>3, Zenon DEF JoinPlace
  <1> DEFINE r == Append(w, Bracket)
  <1>7. r \in Text
    BY <1>5, AppendText
  <1>8. ASSUME NEW p \in Text, x \o list = p \o w
        PROVE  t = p \o r
    <2>1. t = Append(p \o w, Bracket)
      BY <1>4, <1>8
    <2>2. Append(p \o w, Bracket) = p \o Append(w, Bracket)
      BY <1>5, ConcatAppend
    <2> QED
      BY <2>1, <2>2
  <1> HIDE DEF r
  <1>9. CASE k = 1 /\ list = es[1] \o w
    <2>1. list = e \o w
      BY <1>9 DEF e
    <2>2. x \o list = (x \o e) \o w
      <3> HIDE DEF x
      <3>1. x \in Text /\ e \in Text /\ w \in Text
        BY <1>1, <1>2
      <3>2. Associates(x, e, w)
        BY <3>1, AssociateText
      <3> QED
        BY <2>1, <3>2, Zenon DEF Associates
    <2>3. x \o e \in Text
      BY <1>1, <1>2, ConcatText
    <2>4. t = (x \o e) \o r
      BY <1>8, <2>2, <2>3
    <2>5. EntryPlace(t, e)
      BY <1>2, <1>5, <1>7, <2>4, Zenon DEF EntryPlace
    <2> QED
      BY <2>5 DEF t, e, es
  <1>10. CASE \E u \in Text : list = (Append(u, Comma) \o es[k]) \o w
    <2>1. PICK u \in Text : list = (Append(u, Comma) \o e) \o w
      BY <1>10 DEF e
    <2> DEFINE y == Append(u, Comma)
               z == Append(x \o u, Comma)
    <2>2. y \in Text /\ y \o e \in Text
      BY <1>1, <1>5, AppendText, ConcatText
    <2>3. z = x \o y /\ x \o u \in Text
      <3> HIDE DEF x
      <3>1. x \in Text /\ u \in Text /\ Comma \in Token
        BY <1>2, <1>5
      <3>2. Append(x \o u, Comma) = x \o Append(u, Comma)
        BY <3>1, ConcatAppend
      <3>3. x \o u \in Text
        BY <3>1, ConcatText
      <3> QED
        BY <3>2, <3>3
    <2>0. list = (y \o e) \o w
      BY <2>1
    <2> HIDE DEF y, x, z
    <2>4. x \in Text /\ y \in Text /\ e \in Text /\ w \in Text
      BY <1>1, <1>2, <2>2
    <2>5. Spreads(x, y, e, w)
      BY <2>4, Spread
    <2>6. x \o list = (z \o e) \o w
      BY <2>0, <2>3, <2>5 DEF Spreads
    <2>7. z \o e \in Text
      BY <2>3, <2>4, ConcatText
    <2>8. t = (z \o e) \o r
      <3> HIDE DEF z
      <3> QED
        BY <1>8, <2>6, <2>7
    <2>9. EntryPlace(t, e)
      BY <1>5, <1>7, <2>3, <2>8, Zenon DEF EntryPlace, z
    <2> QED
      BY <2>9 DEF t, e, es
  <1> QED
    BY <1>6, <1>9, <1>10

\* The number before the colon of an entry is between two separators.
LEMMA NumberIsPart ==
    ASSUME NEW s, NEW a \in Text, NEW h \in Text, EntryPlace(s, Append(a, Colon) \o h)
    PROVE  IsPart(s, a)
  <1> DEFINE x == Append(a, Colon)
  <1>1. PICK u \in Text, c \in Separators, w \in Text : s = (Append(u, c) \o (x \o h)) \o w
    BY Zenon DEF EntryPlace
  <1> DEFINE y == Append(u, c)
             z == Append(y \o a, Colon)
  <1>2. Colon \in Token /\ Colon \in Separators /\ c \in Token
    BY Tokens
  <1>3. x \in Text /\ y \in Text /\ y \o a \in Text
    <2>1. x \in Text /\ y \in Text
      BY <1>2, AppendText
    <2> HIDE DEF y
    <2> QED
      BY <2>1, ConcatText
  <1>4. z = y \o x
    <2> HIDE DEF x, y, z
    <2>1. y \in Text /\ a \in Text /\ Colon \in Token
      BY <1>2, <1>3
    <2>2. Append(y \o a, Colon) = y \o Append(a, Colon)
      BY <2>1, ConcatAppend
    <2> QED
      BY <2>2 DEF x, z
  <1> HIDE DEF x, y
  <1>10. x \in Text /\ y \in Text /\ h \in Text
    BY <1>3
  <1>5. Associates(y, x, h)
    BY <1>10, AssociateText
  <1>6. z \in Text /\ h \o w \in Text
    BY <1>3, <1>4, ConcatText
  <1>7. s = (z \o h) \o w
    BY <1>1, <1>4, <1>5, Zenon DEF y, Associates
  <1> HIDE DEF z
  <1>8. Associates(z, h, w)
    BY <1>6, AssociateText
  <1>9. IsPart(Append(Append(u, c) \o a, Colon) \o (h \o w), a)
    BY <1>2, <1>6, PartOfConcat
  <1> QED
    BY <1>7, <1>8, <1>9, Zenon DEF z, y, Associates

LEMMA SridIsPart ==
    ASSUME NEW a \in Text, NEW list \in Text
    PROVE  IsPart(Wrap(a, list), a)
  <1> DEFINE x == Append(<<Prefix>> \o a, LevelsMarker)
             w == Append(list, Bracket)
  <1>1. x \in Text
    BY WrapIsText
  <1>2. Bracket \in Token /\ Prefix \in Separators /\ LevelsMarker \in Separators
    BY Tokens
  <1>3. w \in Text
    BY <1>2, AppendText
  <1>4. Wrap(a, list) = x \o w
    <2> HIDE DEF x
    <2>1. Append(x \o list, Bracket) = x \o Append(list, Bracket)
      BY <1>1, <1>2, ConcatAppend
    <2> QED
      BY <2>1, Zenon DEF Wrap, x
  <1>5. <<>> \in Text /\ Append(<<>>, Prefix) = <<Prefix>>
    BY DEF Text
  <1> HIDE DEF w
  <1>6. IsPart(Append(Append(<<>>, Prefix) \o a, LevelsMarker) \o w, a)
    BY <1>2, <1>3, <1>5, PartOfConcat
  <1> QED
    BY <1>4, <1>5, <1>6

NumbersOf(p) ==
    /\ \A n \in ReadInt(p) : n \in I32 /\ ReadInt(p) = {n} /\ p \in Clean
    /\ \A x \in ReadFloat(p) : x \in F64 /\ ReadFloat(p) = {x} /\ p \in Clean

LEMMA GivenNumbers ==
    ASSUME NEW t \in Texts, NEW p, IsPart(t, p)
    PROVE  NumbersOf(p)
  <1>1. PICK i, j \in {k \in DOMAIN t : t[k] \in Separators} : p = SubSeq(t, i + 1, j - 1)
    BY Zenon DEF IsPart
  <1> DEFINE part == SubSeq(t, i + 1, j - 1)
  <1>2. NumbersOf(part)
    BY TextsAssumption, Zenon DEF NumbersOf
  <1> QED
    BY <1>1, <1>2, Zenon

\* The SRID read from a given text.
SridAs(a, id) ==
    /\ a \in Clean
    /\ \/ id = NoSrid /\ a = <<Null>>
       \/ id \in I32 /\ ReadInt(a) = {id}

LEMMA GivenSrid ==
    ASSUME NEW t \in Texts, NEW e \in Envelope(t), NEW id \in ReadSrid(e.srid)
    PROVE  SridAs(e.srid, id)
  <1> DEFINE a == e.srid
  <1>1. t \in Text
    BY TextsAssumption, Zenon
  <1>2. a \in Text /\ e.levels \in Text /\ Trimmed(t) = Wrap(a, e.levels)
    BY <1>1, EnvelopeWraps
  <1> HIDE DEF a
  <1>3. NumbersOf(a)
    BY <1>1, <1>2, SridIsPart, PartOfTrimmed, GivenNumbers
  <1>4. CASE a = <<Null>>
    <2>1. id = NoSrid
      BY <1>4 DEF ReadSrid, a
    <2>2. Null \in Token /\ Null \notin Separators
      BY Tokens
    <2> DEFINE R == Token \ Separators
    <2>3. Null \in R
      BY <2>2
    <2> HIDE DEF R
    <2>4. <<Null>> \in Seq(R)
      BY <2>3
    <2> QED
      BY <1>4, <2>1, <2>4 DEF SridAs, Clean, R, a
  <1>5. CASE a # <<Null>>
    <2>1. id \in ReadInt(a)
      BY <1>5 DEF ReadSrid, a
    <2> QED
      BY <1>3, <2>1, Zenon DEF SridAs, NumbersOf, a
  <1> QED
    BY <1>4, <1>5

\* The level read from an entry of a given text.
EntryAs(entry, l) ==
    \E a, h \in Clean :
        /\ entry = Append(a, Colon) \o h
        /\ ReadFloat(a) = {l.alpha}
        /\ SameSpelling(h, EncodeHex(l.ewkb))

LEMMA EntryReads ==
    ASSUME NEW entry \in Text, NEW s \in Text, NEW t \in Texts, s = Trimmed(t),
           EntryPlace(s, entry), ReadEntry(entry).kind = "Ok"
    PROVE  \E l \in Level : /\ ReadEntry(entry) = Decoded(l)
                            /\ StoredLevelError(l.ewkb) = "None"
                            /\ EntryAs(entry, l)
  <1> DEFINE c == First(entry, Colon)
             a == SubSeq(entry, 1, c - 1)
             h == SubSeq(entry, c + 1, Len(entry))
             alpha == ReadFloat(a)
             ewkb == DecodeHex(h)
             x == Only(alpha)
             b == Only(ewkb)
             l == [alpha |-> x, ewkb |-> b]
  <1>1. /\ c # 0 /\ alpha # {} /\ AlphaError(x) = "None"
        /\ ewkb # {} /\ StoredLevelError(b) = "None"
        /\ ReadEntry(entry) = Decoded(l)
    <2> HIDE DEF c, alpha, ewkb, x, b, l
    <2>1. ReadEntry(entry) =
              IF c = 0 THEN Failed("InvalidLevelEntry")
              ELSE IF alpha = {} THEN Failed("InvalidAlpha")
              ELSE IF AlphaError(x) # "None" THEN Failed(AlphaError(x))
              ELSE IF ewkb = {} THEN Failed("InvalidHex")
              ELSE IF StoredLevelError(b) # "None" THEN Failed(StoredLevelError(b))
              ELSE Decoded(l)
      BY ReadEntryIs, Zenon DEF c, alpha, ewkb, x, b, l
    <2>2. AlphaError(x) # "Ok" /\ StoredLevelError(b) # "Ok"
      BY DEF AlphaError, StoredLevelError
    <2>3. \A error : Failed(error).kind = error
      BY DEF Failed
    <2>4. "InvalidLevelEntry" # "Ok" /\ "InvalidAlpha" # "Ok" /\ "InvalidHex" # "Ok"
      OBVIOUS
    <2> QED
      BY <2>1, <2>2, <2>3, <2>4, Zenon
  <1>2. a \in Text /\ h \in Text /\ entry = Append(a, Colon) \o h
    BY <1>1, EntrySplit
  <1> HIDE DEF c, a, h
  <1>3. t \in Text
    BY TextsAssumption, Zenon
  <1>4. NumbersOf(a)
    <2>1. IsPart(s, a)
      BY <1>2, NumberIsPart
    <2> QED
      BY <1>3, <2>1, PartOfTrimmed, GivenNumbers
  <1>5. x \in F64 /\ alpha = {x} /\ a \in Clean
    <2>1. PICK y : y \in alpha
      BY <1>1, Zenon
    <2>2. y \in F64 /\ alpha = {y} /\ a \in Clean
      BY <1>4, <2>1, Zenon DEF NumbersOf
    <2>3. Only({y}) = y
      BY OnlyIs
    <2> QED
      BY <2>2, <2>3
  <1>6. x \in 1..One
    BY <1>1, <1>5, AlphaIs
  <1>7. h \in Clean /\ b \in Seq(Byte) /\ SameSpelling(h, EncodeHex(b))
    <2>1. PICK y : y \in ewkb
      BY <1>1, Zenon
    <2>2. h \in Clean /\ y \in Seq(Byte) /\ ewkb = {y} /\ SameSpelling(h, EncodeHex(y))
      BY <1>2, <2>1, HexSpelling
    <2>3. Only({y}) = y
      BY OnlyIs
    <2> QED
      BY <2>2, <2>3
  <1> HIDE DEF x, b, alpha, ewkb
  <1>8. l \in Level /\ l.alpha = x /\ l.ewkb = b
    BY <1>6, <1>7 DEF Level
  <1> HIDE DEF l
  <1>9. EntryAs(entry, l)
    BY <1>2, <1>5, <1>7, <1>8, Zenon DEF EntryAs, alpha
  <1> QED
    BY <1>1, <1>8, <1>9

LEMMA GivenEntry ==
    ASSUME NEW t \in Texts, NEW e \in Envelope(t), NEW k \in 1..Len(Entries(e.levels)),
           ReadEntry(Entries(e.levels)[k]).kind = "Ok"
    PROVE  \E l \in Level : /\ ReadEntry(Entries(e.levels)[k]) = Decoded(l)
                            /\ StoredLevelError(l.ewkb) = "None"
                            /\ EntryAs(Entries(e.levels)[k], l)
  <1> DEFINE entry == Entries(e.levels)[k]
             s == Trimmed(t)
  <1>1. t \in Text
    BY TextsAssumption, Zenon
  <1>2. e.srid \in Text /\ e.levels \in Text /\ s = Wrap(e.srid, e.levels)
    BY <1>1, EnvelopeWraps
  <1>3. s \in Text
    BY <1>2, WrapIsText
  <1>4. entry \in Text /\ EntryPlace(s, entry)
    BY <1>2, EntriesAre, EntryInWrap
  <1> HIDE DEF entry, s
  <1>5. s = Trimmed(t) /\ ReadEntry(entry).kind = "Ok"
    BY DEF s, entry
  <1> QED
    BY <1>3, <1>4, <1>5, EntryReads DEF entry
-----------------------------------------------------------------------------
\* What parse_text has read, whichever text it was given.

\* The texts that are read: what to_text writes of a value, and the given ones.
Writes(v, t) == NewStored(v).kind = "Ok" /\ t = ToText(v)
Input(src, t) == (\E v \in Payload : src = <<v>> /\ Writes(v, t)) \/ (src = <<>> /\ t \in Texts)

\* The SRID and the levels ls are read of the envelope, the entries rest are not.
ReadSoFar(e, id, ls, rest) ==
    /\ id \in ReadSrid(e.srid)
    /\ ls \in Seq(Level) /\ rest \in Seq(Text)
    /\ Progress(Entries(e.levels), ls, rest)
    /\ \A k \in 1..Len(ls) : ReadEntry(Entries(e.levels)[k]) = Decoded(ls[k])

Reads(t, id, ls, rest) == \E e \in Envelope(t) : ReadSoFar(e, id, ls, rest)

\* The entries of the list that are read give v's levels.
Gives(list, v) ==
    /\ Len(Entries(list)) = Len(v.levels)
    /\ \A k \in 1..Len(v.levels) : v.levels[k] \in Level /\ ReadEntry(Entries(list)[k]) = Decoded(v.levels[k])

\* What is written for v is read as v.
LEMMA WrittenReads ==
    ASSUME NEW v \in Payload, NEW t, Writes(v, t)
    PROVE  /\ t \in Text /\ Trimmed(t) = t
           /\ \E e \in Envelope(t) : ReadSrid(e.srid) = {v.srid}
           /\ \A e \in Envelope(t) :
                  ReadSrid(e.srid) = {v.srid} /\ e.levels \in Text /\ Gives(e.levels, v)
  <1> DEFINE a == ShowSrid(v)
             es == ShowEntries(v)
             list == Join(es)
             env == [srid |-> a, levels |-> list]
  <1>1. NewStored(v).kind = "Ok" /\ t = ToText(v)
    BY DEF Writes
  <1>2. /\ a \in Clean /\ ReadSrid(a) = {v.srid}
        /\ es \in Seq(Text) /\ Len(es) = Len(v.levels)
        /\ list \in Text /\ Entries(list) = es
        /\ t = Wrap(a, list)
        /\ \A k \in 1..Len(v.levels) : v.levels[k] \in Level /\ ReadEntry(es[k]) = Decoded(v.levels[k])
    <2> HIDE DEF Payload, Level
    <2> QED
      BY <1>1, ToTextIs
  <1> HIDE DEF a, es, list
  <1>3. Trimmed(t) = t /\ Envelope(t) = {env}
    BY <1>2, EnvelopeOfWrap
  <1>4. t \in Text
    <2>1. a \in Text
      BY <1>2 DEF Clean, Text
    <2> QED
      BY <1>2, <2>1, WrapIsText
  <1>5. env.srid = a /\ env.levels = list
    OBVIOUS
  <1>6. Gives(list, v)
    <2> HIDE DEF Level
    <2> QED
      BY <1>2 DEF Gives
  <1> HIDE DEF env
  <1>7. \A e \in Envelope(t) : ReadSrid(e.srid) = {v.srid} /\ e.levels \in Text /\ Gives(e.levels, v)
    BY <1>2, <1>3, <1>5, <1>6
  <1>8. env \in Envelope(t)
    BY <1>3
  <1> QED
    BY <1>3, <1>4, <1>7, <1>8

\* An entry that is read, of any text, gives a level with an alpha in (0, 1].
LEMMA LevelIsRead ==
    ASSUME NEW src, NEW t, Input(src, t), NEW e \in Envelope(t), NEW k \in 1..Len(Entries(e.levels)),
           ReadEntry(Entries(e.levels)[k]).kind = "Ok"
    PROVE  \E l \in Level : ReadEntry(Entries(e.levels)[k]) = Decoded(l)
  <1>1. CASE \E v \in Payload : src = <<v>> /\ Writes(v, t)
    <2>1. PICK v \in Payload : Writes(v, t)
      BY <1>1, Zenon
    <2>2. Gives(e.levels, v)
      BY <2>1, WrittenReads
    <2> QED
      BY <2>2 DEF Gives
  <1>2. CASE t \in Texts
    BY <1>2, GivenEntry
  <1> QED
    BY <1>1, <1>2 DEF Input

LEMMA TextIsText ==
    ASSUME NEW src, NEW t, Input(src, t)
    PROVE  t \in Text
  <1>1. CASE \E v \in Payload : src = <<v>> /\ Writes(v, t)
    BY <1>1, WrittenReads
  <1>2. CASE t \in Texts
    BY <1>2, TextsAssumption, Zenon
  <1> QED
    BY <1>1, <1>2 DEF Input

LEMMA ReadingStarts ==
    ASSUME NEW src, NEW t, Input(src, t), NEW e \in Envelope(t), NEW id \in ReadSrid(e.srid)
    PROVE  ReadSoFar(e, id, <<>>, Entries(e.levels))
  <1>1. e.levels \in Text
    BY TextIsText, EnvelopeWraps
  <1> DEFINE all == Entries(e.levels)
  <1>2. all \in Seq(Text)
    BY <1>1, EntriesAre
  <1>3. Progress(all, <<>>, all)
    BY <1>2, ProgressStarts
  <1> HIDE DEF all, Level
  <1>4. <<>> \in Seq(Level) /\ \A k \in 1..Len(<<>>) : ReadEntry(all[k]) = Decoded(<<>>[k])
    OBVIOUS
  <1> QED
    BY <1>2, <1>3, <1>4, Zenon DEF ReadSoFar, all

\* The next entry is the next one of the list, and is read after the ones before it.
LEMMA ReadingGoesOn ==
    ASSUME NEW src, NEW t, Input(src, t), NEW e \in Envelope(t), NEW id, NEW ls, NEW rest,
           ReadSoFar(e, id, ls, rest), rest # <<>>
    PROVE  /\ Len(ls) + 1 \in 1..Len(Entries(e.levels))
           /\ Head(rest) = Entries(e.levels)[Len(ls) + 1]
           /\ ReadEntry(Head(rest)).kind = "Ok" =>
                  ReadSoFar(e, id, Append(ls, ReadEntry(Head(rest)).value), Tail(rest))
  <1> DEFINE all == Entries(e.levels)
             head == Head(rest)
             read == ReadEntry(head)
             more == Append(ls, read.value)
  <1>1. e.levels \in Text
    BY TextIsText, EnvelopeWraps
  <1>2. all \in Seq(Text)
    BY <1>1, EntriesAre
  <1>3. /\ id \in ReadSrid(e.srid) /\ ls \in Seq(Level) /\ rest \in Seq(Text)
        /\ Progress(all, ls, rest)
        /\ \A k \in 1..Len(ls) : ReadEntry(all[k]) = Decoded(ls[k])
    BY Zenon DEF ReadSoFar
  <1>4. \A l \in Level :
            /\ Len(ls) + 1 \in 1..Len(all) /\ head = all[Len(ls) + 1]
            /\ Tail(rest) \in Seq(Text) /\ Append(ls, l) \in Seq(Level)
            /\ Progress(all, Append(ls, l), Tail(rest))
    <2> TAKE l \in Level
    <2> HIDE DEF all, Level
    <2> QED
      BY <1>2, <1>3, ProgressStep
  <1> HIDE DEF all, head, read
  <1>5. Len(ls) + 1 \in 1..Len(all) /\ head = all[Len(ls) + 1]
    <2>1. [alpha |-> 1, ewkb |-> <<>>] \in Level
      BY FloatRangeAssumption DEF Level
    <2> HIDE DEF Level
    <2> QED
      BY <1>4, <2>1
  <1>6. ASSUME read.kind = "Ok"
        PROVE  ReadSoFar(e, id, more, Tail(rest))
    <2>1. PICK l \in Level : read = Decoded(l)
      <3>1. Len(ls) + 1 \in 1..Len(Entries(e.levels)) /\ read = ReadEntry(Entries(e.levels)[Len(ls) + 1])
        BY <1>5 DEF all, read
      <3> QED
        BY <1>6, <3>1, LevelIsRead
    <2> HIDE DEF Level
    <2>2. more = Append(ls, l)
      BY <2>1 DEF Decoded
    <2>3. Tail(rest) \in Seq(Text) /\ more \in Seq(Level) /\ Progress(all, more, Tail(rest))
      BY <1>4, <2>2
    <2>4. Len(ls) \in Nat /\ Len(more) = Len(ls) + 1 /\ more[Len(ls) + 1] = l
          /\ \A k \in 1..Len(ls) : more[k] = ls[k]
      BY <1>3, <2>2
    <2>5. ReadEntry(all[Len(ls) + 1]) = Decoded(l)
      BY <1>5, <2>1 DEF read
    <2>6. \A k \in 1..Len(more) : ReadEntry(all[k]) = Decoded(more[k])
      <3> HIDE DEF more
      <3> TAKE k \in 1..Len(more)
      <3>1. CASE k = Len(ls) + 1
        BY <2>4, <2>5, <3>1
      <3>2. CASE k \in 1..Len(ls)
        BY <1>3, <2>4, <3>2
      <3> QED
        BY <2>4, <3>1, <3>2
    <2> HIDE DEF more
    <2> QED
      BY <1>3, <2>3, <2>6, Zenon DEF ReadSoFar, all
  <1> QED
    BY <1>5, <1>6 DEF all, head, read, more

\* All that is read of a written text is read, and at the end it is the value.
LEMMA WrittenIsRead ==
    ASSUME NEW v \in Payload, NEW t, Writes(v, t), NEW e \in Envelope(t), NEW id, NEW ls, NEW rest,
           ReadSoFar(e, id, ls, rest)
    PROVE  /\ rest # <<>> => ReadEntry(Head(rest)).kind = "Ok"
           /\ rest = <<>> => NewStored([srid |-> id, levels |-> ls]) = Decoded(v)
  <1>1. ReadSrid(e.srid) = {v.srid} /\ Gives(e.levels, v)
    BY WrittenReads
  <1> DEFINE all == Entries(e.levels)
             n == Len(v.levels)
  <1>2. v.levels \in Seq(Level) /\ v = [srid |-> v.srid, levels |-> v.levels] /\ n \in Nat
    <2>1. v.levels \in Seq(Level) /\ v = [srid |-> v.srid, levels |-> v.levels]
      <3> HIDE DEF Level
      <3> QED
        BY DEF Payload
    <2> QED
      BY <2>1
  <1>3. /\ id \in ReadSrid(e.srid) /\ ls \in Seq(Level) /\ rest \in Seq(Text)
        /\ Progress(all, ls, rest)
        /\ \A k \in 1..Len(ls) : ReadEntry(all[k]) = Decoded(ls[k])
    BY Zenon DEF ReadSoFar
  <1>4. Len(all) = n /\ \A k \in 1..n : ReadEntry(all[k]) = Decoded(v.levels[k])
    BY <1>1 DEF Gives
  <1>5. ASSUME rest # <<>>
        PROVE  ReadEntry(Head(rest)).kind = "Ok"
    <2>1. Input(<<v>>, t)
      BY Zenon DEF Input
    <2>2. Len(ls) + 1 \in 1..Len(Entries(e.levels)) /\ Head(rest) = Entries(e.levels)[Len(ls) + 1]
      BY <1>5, <2>1, ReadingGoesOn
    <2> DEFINE k == Len(ls) + 1
    <2>3. k \in 1..n /\ Head(rest) = all[k]
      BY <1>4, <2>2
    <2> HIDE DEF k, all, n
    <2>4. ReadEntry(Head(rest)) = Decoded(v.levels[k])
      BY <1>4, <2>3
    <2> QED
      BY <2>4 DEF Decoded
  <1>6. ASSUME rest = <<>>
        PROVE  NewStored([srid |-> id, levels |-> ls]) = Decoded(v)
    <2> HIDE DEF all, n, Level
    <2>1. Len(ls) = n
      <3>1. Len(ls) + Len(rest) = Len(all)
        BY <1>3 DEF Progress
      <3> QED
        BY <1>3, <1>4, <1>6, <3>1
    <2>2. \A k \in 1..n : ls[k] = v.levels[k]
      <3> TAKE k \in 1..n
      <3>1. Decoded(ls[k]) = Decoded(v.levels[k])
        BY <1>3, <1>4, <2>1
      <3>2. Decoded(ls[k]).value = Decoded(v.levels[k]).value
        BY <3>1
      <3> QED
        BY <3>2 DEF Decoded
    <2>3. ls = v.levels
      BY <1>2, <1>3, <2>1, <2>2, SeqEqual DEF n
    <2>4. id = v.srid
      BY <1>1, <1>3
    <2>5. [srid |-> id, levels |-> ls] = v
      BY <1>2, <2>3, <2>4
    <2>6. NewStored(v).kind = "Ok"
      BY DEF Writes
    <2>7. NewStored(v) = Decoded(v)
      BY <1>2, <2>6, BuiltValue
    <2> QED
      BY <2>5, <2>7
  <1> QED
    BY <1>5, <1>6
-----------------------------------------------------------------------------
\* The inductive invariant of parse_text.

ParseInv ==
    /\ Input(source, text)
    /\ field \in {"envelope", "entries", "done"}
    /\ field = "envelope" => levels = <<>>
    /\ field # "done" => result.kind = "Pending"
    /\ field = "entries" \/ result.kind = "Ok" => Reads(text, srid, levels, entries)
    /\ result.kind = "Ok" =>
           entries = <<>> /\ result = NewStored([srid |-> srid, levels |-> levels])
    /\ source # <<>> /\ field = "done" => result.kind = "Ok"

LEMMA FailedIsNotOk ==
    /\ Failed("InvalidEnvelope").kind # "Ok" /\ Failed("InvalidSrid").kind # "Ok"
  BY DEF Failed

LEMMA ParseInitially == TextInit => ParseInv
  <1> SUFFICES ASSUME TextInit
               PROVE  ParseInv
    OBVIOUS
  <1>1. field = "envelope" /\ levels = <<>> /\ result = [kind |-> "Pending"]
    BY Zenon DEF TextInit
  <1>2. result.kind = "Pending" /\ result.kind # "Ok"
    BY <1>1
  <1>3. Input(source, text)
    <2>1. CASE source \in {<<v>> : v \in {w \in Payloads : NewStored(w).kind = "Ok"}}
               /\ text = ToText(source[1])
      <3>1. PICK v \in Payloads : NewStored(v).kind = "Ok" /\ source = <<v>>
        BY <2>1
      <3>2. v \in Payload
        BY TextsAssumption DEF Payload, Level, Byte
      <3>3. text = ToText(v)
        BY <2>1, <3>1
      <3> QED
        BY <3>1, <3>2, <3>3, Zenon DEF Input, Writes
    <2>2. CASE source = <<>> /\ text \in Texts
      BY <2>2, Zenon DEF Input
    <2> QED
      BY <2>1, <2>2 DEF TextInit
  <1> QED
    BY <1>1, <1>2, <1>3 DEF ParseInv

LEMMA ParseEnvelope ==
    ASSUME ParseInv, ReadEnvelope
    PROVE  ParseInv'
  <1>1. Input(source, text) /\ field = "envelope" /\ levels = <<>> /\ result.kind = "Pending"
    BY DEF ParseInv, ReadEnvelope
  <1>2. UNCHANGED <<source, text, levels>>
    BY DEF ReadEnvelope
  <1>3. CASE Envelope(text) = {} /\ Reply(Failed("InvalidEnvelope")) /\ UNCHANGED <<srid, entries>>
    <2>1. source = <<>>
      <3>1. \A v \in Payload : ~Writes(v, text)
        BY <1>3, WrittenReads
      <3> QED
        BY <1>1, <3>1 DEF Input
    <2>2. result'.kind # "Ok" /\ field' = "done"
      BY <1>3, FailedIsNotOk DEF Reply
    <2>3. Input(source', text')
      BY <1>1, <1>2
    <2> QED
      BY <1>2, <2>1, <2>2, <2>3 DEF ParseInv
  <1>4. CASE \E e \in Envelope(text) :
                 \/ ReadSrid(e.srid) = {} /\ Reply(Failed("InvalidSrid")) /\ UNCHANGED <<srid, entries>>
                 \/ /\ srid' \in ReadSrid(e.srid) /\ entries' = Entries(e.levels)
                    /\ field' = "entries" /\ UNCHANGED result
    <2>1. PICK e \in Envelope(text) :
                 \/ ReadSrid(e.srid) = {} /\ Reply(Failed("InvalidSrid")) /\ UNCHANGED <<srid, entries>>
                 \/ /\ srid' \in ReadSrid(e.srid) /\ entries' = Entries(e.levels)
                    /\ field' = "entries" /\ UNCHANGED result
      BY <1>4
    <2>2. CASE ReadSrid(e.srid) = {} /\ Reply(Failed("InvalidSrid"))
      <3>1. source = <<>>
        <4>1. ASSUME NEW v \in Payload, Writes(v, text)
              PROVE  FALSE
          <5>1. ReadSrid(e.srid) = {v.srid}
            BY <4>1, WrittenReads
          <5> QED
            BY <2>2, <5>1
        <4> QED
          BY <1>1, <4>1 DEF Input
      <3>2. result'.kind # "Ok" /\ field' = "done"
        BY <2>2, FailedIsNotOk DEF Reply
      <3>3. Input(source', text')
        BY <1>1, <1>2
      <3> QED
        BY <1>2, <3>1, <3>2, <3>3 DEF ParseInv
    <2>3. CASE /\ srid' \in ReadSrid(e.srid) /\ entries' = Entries(e.levels)
               /\ field' = "entries" /\ UNCHANGED result
      <3>1. Input(source', text')
        BY <1>1, <1>2
      <3>2. ReadSoFar(e, srid', <<>>, Entries(e.levels))
        BY <1>1, <2>3, ReadingStarts
      <3>3. ReadSoFar(e, srid', levels', entries') /\ e \in Envelope(text')
        BY <1>1, <1>2, <2>3, <3>2
      <3>4. Reads(text', srid', levels', entries')
        BY <3>3, Zenon DEF Reads
      <3>5. result'.kind = "Pending" /\ result'.kind # "Ok"
        BY <1>1, <2>3
      <3> QED
        BY <2>3, <3>1, <3>4, <3>5 DEF ParseInv
    <2> QED
      BY <2>1, <2>2, <2>3
  <1> QED
    BY <1>3, <1>4 DEF ReadEnvelope

LEMMA ParseLevel ==
    ASSUME ParseInv, ReadLevel
    PROVE  ParseInv'
  <1>1. /\ Input(source, text) /\ field = "entries" /\ entries # <<>>
        /\ result.kind = "Pending" /\ Reads(text, srid, levels, entries)
    BY DEF ParseInv, ReadLevel
  <1>2. UNCHANGED <<source, text, srid>>
    BY DEF ReadLevel
  <1>3. PICK e \in Envelope(text) : ReadSoFar(e, srid, levels, entries)
    BY <1>1, Zenon DEF Reads
  <1> DEFINE read == ReadEntry(Head(entries))
  <1>4. Input(source', text')
    BY <1>1, <1>2
  <1>5. CASE read.kind = "Ok"
    <2>1. /\ levels' = Append(levels, read.value) /\ entries' = Tail(entries)
          /\ UNCHANGED <<field, result>>
      BY <1>5 DEF ReadLevel
    <2>2. ReadSoFar(e, srid, Append(levels, read.value), Tail(entries))
      BY <1>1, <1>3, <1>5, ReadingGoesOn
    <2>3. ReadSoFar(e, srid', levels', entries') /\ e \in Envelope(text')
      BY <1>2, <2>1, <2>2
    <2>4. Reads(text', srid', levels', entries')
      BY <2>3, Zenon DEF Reads
    <2>5. field' = "entries" /\ result'.kind = "Pending"
      BY <1>1, <2>1
    <2> QED
      BY <1>4, <2>4, <2>5 DEF ParseInv
  <1>6. CASE read.kind # "Ok"
    <2>1. result' = read /\ field' = "done"
      BY <1>6 DEF ReadLevel, Reply
    <2>2. source = <<>>
      <3>1. \A v \in Payload : ~Writes(v, text)
        BY <1>1, <1>3, <1>6, WrittenIsRead
      <3> QED
        BY <1>1, <3>1 DEF Input
    <2>3. result'.kind # "Ok" /\ source' = <<>>
      BY <1>2, <1>6, <2>1, <2>2
    <2> HIDE DEF read
    <2> QED
      BY <1>4, <2>1, <2>3 DEF ParseInv
  <1> QED
    BY <1>5, <1>6

LEMMA ParseEnd ==
    ASSUME ParseInv, EndOfText
    PROVE  ParseInv'
  <1> DEFINE v == [srid |-> srid, levels |-> levels]
  <1>1. /\ Input(source, text) /\ field = "entries" /\ entries = <<>>
        /\ Reads(text, srid, levels, entries)
    BY DEF ParseInv, EndOfText
  <1>2. UNCHANGED <<source, text, srid, entries, levels>> /\ result' = NewStored(v) /\ field' = "done"
    BY DEF EndOfText, Reply
  <1>3. Input(source', text') /\ Reads(text', srid', levels', entries')
    BY <1>1, <1>2
  <1>4. ASSUME source # <<>>
        PROVE  result'.kind = "Ok"
    <2>1. PICK w \in Payload : Writes(w, text)
      BY <1>1, <1>4 DEF Input
    <2>2. PICK e \in Envelope(text) : ReadSoFar(e, srid, levels, entries)
      BY <1>1, Zenon DEF Reads
    <2>3. NewStored(v) = Decoded(w)
      BY <1>1, <2>1, <2>2, WrittenIsRead
    <2> HIDE DEF v
    <2> QED
      BY <1>2, <2>3 DEF Decoded
  <1>5. entries' = <<>> /\ result' = NewStored([srid |-> srid', levels |-> levels'])
    BY <1>1, <1>2
  <1>6. source' # <<>> => result'.kind = "Ok"
    BY <1>2, <1>4
  <1> HIDE DEF v
  <1> QED
    BY <1>2, <1>3, <1>5, <1>6 DEF ParseInv

\* Once parse_text is called with a text that to_text has written or with a given one,
\* what it has read are the parts of that text, at every point of the call.
THEOREM TextReadInOrder == TextSpec => []ParseInv
  <1>1. TextInit => ParseInv
    BY ParseInitially
  <1>2. ParseInv /\ [TextNext]_textVars => ParseInv'
    <2> SUFFICES ASSUME ParseInv, [TextNext]_textVars
                 PROVE  ParseInv'
      OBVIOUS
    <2>1. CASE ReadEnvelope
      BY <2>1, ParseEnvelope
    <2>2. CASE ReadLevel
      BY <2>2, ParseLevel
    <2>3. CASE EndOfText
      BY <2>3, ParseEnd
    <2>4. CASE UNCHANGED textVars
      BY <2>4 DEF textVars, ParseInv
    <2> QED
      BY <2>1, <2>2, <2>3, <2>4 DEF TextNext, ParseStep
  <1> QED
    BY <1>1, <1>2, PTL DEF TextSpec

-----------------------------------------------------------------------------
\* A value that parse_text answers can be stored: its alphas fall, in (0, 1], it has an
\* SRID if it has levels, and each level has bytes, no more than a u32 can count.
THEOREM ParsedIsStorable == TextSpec => []ParsedValueIsStorable
  <1>1. ParseInv => ParsedValueIsStorable
    <2> SUFFICES ASSUME ParseInv, result.kind = "Ok"
                 PROVE  ParsedValueIsStorable
      BY DEF ParsedValueIsStorable
    <2> DEFINE v == [srid |-> srid, levels |-> levels]
    <2>1. Reads(text, srid, levels, entries) /\ result = NewStored(v)
      BY DEF ParseInv
    <2>2. levels \in Seq(Level)
      BY <2>1, Zenon DEF Reads, ReadSoFar
    <2>3. v.levels = levels /\ v.srid = srid
      OBVIOUS
    <2> HIDE DEF v, Level
    <2>4. v.levels \in Seq(Level) /\ NewStored(v).kind = "Ok"
      BY <2>1, <2>2, <2>3
    <2>5. /\ NewStored(v) = Decoded(v)
          /\ \A k \in 1..Len(v.levels) : StoredLevelError(v.levels[k].ewkb) = "None"
          /\ Len(v.levels) > 0 => v.srid # NoSrid
          /\ \A k \in 1..Len(v.levels) - 1 : v.levels[k + 1].alpha < v.levels[k].alpha
      BY <2>4, BuiltValue
    <2>6. result.value = v
      BY <2>1, <2>5 DEF Decoded
    <2>7. \A j, k \in DOMAIN v.levels : j < k => v.levels[k].alpha < v.levels[j].alpha
      <3>1. \A j, k \in 1..Len(v.levels) : j < k => v.levels[k].alpha < v.levels[j].alpha
        BY <2>4, <2>5, FallingAlphas
      <3>2. DOMAIN v.levels = 1..Len(v.levels)
        BY <2>4
      <3> QED
        BY <3>1, <3>2
    <2>8. \A l \in ToSet(v.levels) : l.alpha \in 1..One /\ Len(l.ewkb) \in 1..MaxU32
      <3> TAKE l \in ToSet(v.levels)
      <3>1. PICK k \in 1..Len(v.levels) : l = v.levels[k]
        BY <2>4 DEF ToSet
      <3>2. l \in Level /\ StoredLevelError(l.ewkb) = "None"
        BY <2>4, <2>5, <3>1
      <3>3. l.alpha \in 1..One /\ l.ewkb \in Seq(Byte)
        BY <3>2 DEF Level
      <3>4. l.ewkb # <<>> /\ ~(Len(l.ewkb) > MaxU32)
        BY <3>2 DEF StoredLevelError
      <3>5. Len(l.ewkb) \in 1..MaxU32
        <4> HIDE DEF Byte
        <4>1. Len(l.ewkb) \in Nat /\ Len(l.ewkb) # 0
          BY <3>3, <3>4
        <4> QED
          BY <3>4, <4>1, PayloadAssumption
      <3> QED
        BY <3>3, <3>5
    <2>9. v.levels # <<>> => v.srid # NoSrid
      <3>1. v.levels # <<>> => Len(v.levels) > 0
        BY <2>4
      <3> QED
        BY <2>5, <3>1
    <2> QED
      BY <2>6, <2>7, <2>8, <2>9 DEF ParsedValueIsStorable
  <1> QED
    BY <1>1, TextReadInOrder, PTL

\* Whatever value to_text writes, parse_text reads back.
THEOREM TextRoundTrips == TextSpec => []TextRoundTrip
  <1>1. ParseInv => TextRoundTrip
    <2> SUFFICES ASSUME ParseInv, source # <<>>, field = "done"
                 PROVE  result = Decoded(source[1])
      BY DEF TextRoundTrip
    <2>1. Input(source, text) /\ result.kind = "Ok"
      BY DEF ParseInv
    <2>2. /\ Reads(text, srid, levels, entries) /\ entries = <<>>
          /\ result = NewStored([srid |-> srid, levels |-> levels])
      BY <2>1 DEF ParseInv
    <2>3. PICK v \in Payload : source = <<v>> /\ Writes(v, text)
      BY <2>1 DEF Input
    <2>4. PICK e \in Envelope(text) : ReadSoFar(e, srid, levels, entries)
      BY <2>2, Zenon DEF Reads
    <2>5. NewStored([srid |-> srid, levels |-> levels]) = Decoded(v)
      BY <2>2, <2>3, <2>4, WrittenIsRead
    <2> QED
      BY <2>2, <2>3, <2>5
  <1> QED
    BY <1>1, TextReadInOrder, PTL
-----------------------------------------------------------------------------
\* Two texts that are alike: the same separators, and between them pieces that are
\* spellings of the same.

Alike(x, y) ==
    /\ Skeleton(x) = Skeleton(y)
    /\ Len(Pieces(x, Separators)) = Len(Pieces(y, Separators))
    /\ \A k \in 1..Len(Pieces(y, Separators)) :
           SameSpelling(Pieces(x, Separators)[k], Pieces(y, Separators)[k])

LEMMA AlikeEmpty == Alike(<<>>, <<>>)
  <1>1. \A p : SameSpelling(p, p)
    BY Zenon DEF SameSpelling
  <1> QED
    BY <1>1, Zenon DEF Alike

\* They stay alike when a separator and a piece are written after each.
LEMMA AlikeMore ==
    ASSUME NEW x \in Text, NEW y \in Text, Alike(x, y), NEW c \in Separators,
           NEW p \in Clean, NEW q \in Clean, SameSpelling(p, q)
    PROVE  Alike(Append(x, c) \o p, Append(y, c) \o q)
  <1> DEFINE X == Append(x, c) \o p
             Y == Append(y, c) \o q
             P(s) == Pieces(s, Separators)
  <1>1. c \in Token /\ Append(x, c) \in Text /\ Append(y, c) \in Text
    BY Tokens, AppendText
  <1>2. Skeleton(X) = Append(Skeleton(x), c)
    BY <1>1, SkeletonAppend, SkeletonGlue
  <1>3. Skeleton(Y) = Append(Skeleton(y), c)
    BY <1>1, SkeletonAppend, SkeletonGlue
  <1>4. P(X) = Append(P(x), p)
    BY <1>1, PieceMore DEF Clean
  <1>5. P(Y) = Append(P(y), q)
    BY <1>1, PieceMore DEF Clean
  <1>6. P(x) \in Seq(Text) /\ P(y) \in Seq(Text)
    BY PiecesAre
  <1> DEFINE px == P(x)
             py == P(y)
             n == Len(py)
  <1>7. /\ Skeleton(x) = Skeleton(y) /\ Len(px) = n
        /\ \A k \in 1..n : SameSpelling(px[k], py[k])
    BY Zenon DEF Alike
  <1>8. px \in Seq(Text) /\ py \in Seq(Text) /\ P(X) = Append(px, p) /\ P(Y) = Append(py, q)
    BY <1>4, <1>5, <1>6
  <1>9. p \in Text /\ q \in Text
    BY DEF Clean, Text
  <1>10. Skeleton(X) = Skeleton(Y)
    BY <1>2, <1>3, <1>7, Zenon
  <1> HIDE DEF px, py, X, Y
  <1>11. /\ n \in Nat /\ Len(P(X)) = n + 1 /\ Len(P(Y)) = n + 1
         /\ P(X)[n + 1] = p /\ P(Y)[n + 1] = q
         /\ \A k \in 1..n : P(X)[k] = px[k] /\ P(Y)[k] = py[k]
    <2> DEFINE S == Text
    <2>1. px \in Seq(S) /\ py \in Seq(S) /\ p \in S /\ q \in S
      BY <1>8, <1>9
    <2> HIDE DEF S
    <2>2. /\ n \in Nat /\ Len(Append(px, p)) = n + 1 /\ Len(Append(py, q)) = n + 1
          /\ Append(px, p)[n + 1] = p /\ Append(py, q)[n + 1] = q
          /\ \A k \in 1..n : Append(px, p)[k] = px[k] /\ Append(py, q)[k] = py[k]
      BY <1>7, <2>1
    <2> HIDE DEF n, P
    <2> QED
      BY <1>8, <2>2
  <1> HIDE DEF n, P
  <1>12. \A k \in 1..n + 1 : SameSpelling(P(X)[k], P(Y)[k])
    <2> TAKE k \in 1..n + 1
    <2>1. CASE k = n + 1
      BY <1>11, <2>1
    <2>2. CASE k \in 1..n
      BY <1>7, <1>11, <2>2
    <2> QED
      BY <1>11, <2>1, <2>2
  <1>13. Len(P(X)) = Len(P(Y)) /\ \A k \in 1..Len(P(Y)) : SameSpelling(P(X)[k], P(Y)[k])
    BY <1>11, <1>12
  <1>14. Alike(X, Y)
    BY <1>10, <1>13, Zenon DEF Alike, P
  <1> QED
    BY <1>14 DEF X, Y

LEMMA AlikeSeparator ==
    ASSUME NEW x \in Text, NEW y \in Text, Alike(x, y), NEW c \in Separators
    PROVE  Alike(Append(x, c), Append(y, c))
  <1>1. <<>> \in Clean /\ SameSpelling(<<>>, <<>>)
    BY DEF Clean, SameSpelling
  <1>2. Alike(Append(x, c) \o <<>>, Append(y, c) \o <<>>)
    BY <1>1, AlikeMore
  <1> DEFINE p == Append(x, c)
             q == Append(y, c)
  <1>3. p \in Text /\ q \in Text
    BY Tokens, AppendText
  <1> HIDE DEF p, q
  <1>4. p \o <<>> = p /\ q \o <<>> = q
    BY <1>3 DEF Text
  <1> QED
    BY <1>2, <1>4 DEF p, q

\* Two entries that are alike.
AlikeEntries(e, f) ==
    \E a, h, b, g \in Clean : /\ e = Append(a, Colon) \o h /\ f = Append(b, Colon) \o g
                              /\ SameSpelling(a, b) /\ SameSpelling(h, g)

LEMMA CleanIsText == \A p \in Clean : p \in Text
  BY DEF Clean, Text

LEMMA AlikeEntry ==
    ASSUME NEW x \in Text, NEW y \in Text, Alike(x, y), NEW c \in Separators,
           NEW e, NEW f, AlikeEntries(e, f)
    PROVE  Alike(Append(x, c) \o e, Append(y, c) \o f)
  <1>1. PICK a \in Clean, h \in Clean, b \in Clean, g \in Clean :
            /\ e = Append(a, Colon) \o h /\ f = Append(b, Colon) \o g
            /\ SameSpelling(a, b) /\ SameSpelling(h, g)
    BY Zenon DEF AlikeEntries
  <1> DEFINE p == Append(x, c)
             q == Append(y, c)
             u == p \o a
             w == q \o b
  <1>2. Colon \in Token /\ Colon \in Separators
    BY Tokens
  <1>3. p \in Text /\ q \in Text /\ a \in Text /\ b \in Text /\ h \in Text /\ g \in Text
    BY Tokens, AppendText, CleanIsText
  <1>4. Alike(u, w)
    BY <1>1, AlikeMore
  <1> HIDE DEF p, q
  <1>5. u \in Text /\ w \in Text
    BY <1>3, ConcatText
  <1>6. Append(u, Colon) \o h = p \o e
    <2>1. Follows(p, a, Colon, h)
      BY <1>2, <1>3, ConcatMore
    <2> QED
      BY <1>1, <2>1, Zenon DEF Follows
  <1>7. Append(w, Colon) \o g = q \o f
    <2>1. Follows(q, b, Colon, g)
      BY <1>2, <1>3, ConcatMore
    <2> QED
      BY <1>1, <2>1, Zenon DEF Follows
  <1> HIDE DEF u, w
  <1>8. Alike(Append(u, Colon) \o h, Append(w, Colon) \o g)
    BY <1>1, <1>2, <1>4, <1>5, AlikeMore
  <1> QED
    BY <1>6, <1>7, <1>8 DEF p, q

\* Two lists that are alike.
AlikeLists(es, fs) ==
    /\ es \in Seq(Text) /\ fs \in Seq(Text) /\ Len(es) = Len(fs)
    /\ \A k \in 1..Len(es) : AlikeEntries(es[k], fs[k])

\* The entries up to the n-th, joined after x.
Listed(x, es, n) == Append(x, LevelsMarker) \o Join(SubSeq(es, 1, n))

LEMMA ListedIs ==
    ASSUME NEW x \in Text, NEW es \in Seq(Text), NEW n \in 0..Len(es) - 1
    PROVE  /\ Listed(x, es, 0) = Append(x, LevelsMarker)
           /\ Listed(x, es, n) \in Text
           /\ n = 0 => Listed(x, es, n + 1) = Append(x, LevelsMarker) \o es[n + 1]
           /\ n # 0 => Listed(x, es, n + 1) = Append(Listed(x, es, n), Comma) \o es[n + 1]
  <1> DEFINE X == Append(x, LevelsMarker)
             now == SubSeq(es, 1, n)
             next == SubSeq(es, 1, n + 1)
             e == es[n + 1]
  <1>1. X \in Text /\ Comma \in Token
    BY Tokens, AppendText
  <1>2. e \in Text /\ now \in Seq(Text) /\ Len(now) = n /\ n \in Nat
    <2> DEFINE S == Text
    <2>1. es \in Seq(S)
      OBVIOUS
    <2> HIDE DEF S
    <2>2. e \in S /\ now \in Seq(S) /\ Len(now) = n
      BY <2>1, SubSeqProperties
    <2> QED
      BY <2>2 DEF S
  <1>3. next = Append(now, e)
    <2> DEFINE S == Text
    <2>1. es \in Seq(S)
      OBVIOUS
    <2> HIDE DEF S
    <2>2. SubSeq(es, 1, n + 1) = Append(SubSeq(es, 1, n), es[n + 1])
      <3>1. 1 \in Int /\ n + 1 \in Int /\ 1 <= n + 1 /\ n + 1 <= Len(es) /\ (n + 1) - 1 = n
        BY <2>1
      <3> QED
        BY <2>1, <3>1, SubSeqRecursiveSecond
    <2> QED
      BY <2>2
  <1>4. SubSeq(es, 1, 0) = <<>>
    BY SubSeqEmpty
  <1>5. n = 0 <=> now = <<>>
    BY <1>2
  <1> HIDE DEF X, now, next, e
  <1>6. /\ Join(now) \in Text
        /\ n = 0 => Join(next) = e
        /\ n # 0 => Join(next) = Append(Join(now), Comma) \o e
    BY <1>2, <1>3, <1>5, JoinAppend
  <1>7. Listed(x, es, 0) = X
    <2>1. X \o <<>> = X
      BY <1>1 DEF Text
    <2> QED
      BY <1>4, <2>1, JoinEmpty, Zenon DEF Listed, X
  <1>8. Listed(x, es, n) = X \o Join(now) /\ Listed(x, es, n + 1) = X \o Join(next)
    BY Zenon DEF Listed, X, now, next
  <1>9. X \o Join(now) \in Text
    BY <1>1, <1>6, ConcatText
  <1>10. ASSUME n # 0
         PROVE  Listed(x, es, n + 1) = Append(Listed(x, es, n), Comma) \o e
    <2> DEFINE j == Join(now)
    <2>1. j \in Text /\ Join(next) = Append(j, Comma) \o e
      BY <1>6, <1>10
    <2> HIDE DEF j
    <2>2. Follows(X, j, Comma, e)
      BY <1>1, <1>2, <2>1, ConcatMore
    <2> QED
      BY <1>8, <2>1, <2>2, Zenon DEF j, Follows
  <1> QED
    BY <1>6, <1>7, <1>8, <1>9, <1>10 DEF X, e

LEMMA AlikeListed ==
    ASSUME NEW x \in Text, NEW y \in Text, Alike(x, y), NEW es, NEW fs, AlikeLists(es, fs)
    PROVE  Alike(Append(x, LevelsMarker) \o Join(es), Append(y, LevelsMarker) \o Join(fs))
  <1> DEFINE m == Len(es)
             Same(n) == n <= m => Alike(Listed(x, es, n), Listed(y, fs, n))
             G == {n \in Nat : Same(n)}
  <1>1. /\ es \in Seq(Text) /\ fs \in Seq(Text) /\ Len(fs) = m /\ m \in Nat
        /\ \A k \in 1..m : AlikeEntries(es[k], fs[k])
    <2>1. /\ es \in Seq(Text) /\ fs \in Seq(Text) /\ Len(fs) = m
          /\ \A k \in 1..m : AlikeEntries(es[k], fs[k])
      BY Zenon DEF AlikeLists
    <2> QED
      BY <2>1
  <1>2. LevelsMarker \in Separators /\ Comma \in Separators
    BY Tokens
  <1>3. Listed(x, es, 0) = Append(x, LevelsMarker) /\ Listed(y, fs, 0) = Append(y, LevelsMarker)
    <2>1. SubSeq(es, 1, 0) = <<>> /\ SubSeq(fs, 1, 0) = <<>>
      BY SubSeqEmpty
    <2> DEFINE X == Append(x, LevelsMarker)
               Y == Append(y, LevelsMarker)
    <2>2. X \in Text /\ Y \in Text
      BY Tokens, AppendText
    <2> HIDE DEF X, Y
    <2>3. X \o <<>> = X /\ Y \o <<>> = Y
      BY <2>2 DEF Text
    <2> QED
      BY <2>1, <2>3, JoinEmpty, Zenon DEF Listed, X, Y
  <1>4. 0 \in G
    <2>1. Alike(Listed(x, es, 0), Listed(y, fs, 0))
      BY <1>2, <1>3, AlikeSeparator
    <2> QED
      BY <2>1
  <1>5. ASSUME NEW n \in Nat, n \in G
        PROVE  n + 1 \in G
    <2>1. ASSUME n + 1 <= m
          PROVE  Alike(Listed(x, es, n + 1), Listed(y, fs, n + 1))
      <3>1. n \in 0..Len(es) - 1 /\ n \in 0..Len(fs) - 1 /\ n <= m /\ n + 1 \in 1..m
        BY <1>1, <2>1
      <3>2. Alike(Listed(x, es, n), Listed(y, fs, n))
        BY <1>5, <3>1
      <3>3. AlikeEntries(es[n + 1], fs[n + 1])
        BY <1>1, <3>1
      <3> HIDE DEF m
      <3>4. /\ Listed(x, es, n) \in Text
            /\ n = 0 => Listed(x, es, n + 1) = Append(x, LevelsMarker) \o es[n + 1]
            /\ n # 0 => Listed(x, es, n + 1) = Append(Listed(x, es, n), Comma) \o es[n + 1]
        BY <1>1, <3>1, ListedIs
      <3>5. /\ Listed(y, fs, n) \in Text
            /\ n = 0 => Listed(y, fs, n + 1) = Append(y, LevelsMarker) \o fs[n + 1]
            /\ n # 0 => Listed(y, fs, n + 1) = Append(Listed(y, fs, n), Comma) \o fs[n + 1]
        BY <1>1, <3>1, ListedIs
      <3>6. CASE n = 0
        <4>1. Alike(Append(x, LevelsMarker) \o es[n + 1], Append(y, LevelsMarker) \o fs[n + 1])
          BY <1>2, <3>3, AlikeEntry
        <4> QED
          BY <3>4, <3>5, <3>6, <4>1, Zenon
      <3>7. CASE n # 0
        <4>1. Alike(Append(Listed(x, es, n), Comma) \o es[n + 1],
                    Append(Listed(y, fs, n), Comma) \o fs[n + 1])
          BY <1>2, <3>2, <3>3, <3>4, <3>5, AlikeEntry
        <4> QED
          BY <3>4, <3>5, <3>7, <4>1, Zenon
      <3> QED
        BY <3>6, <3>7
    <2> QED
      BY <2>1
  <1>6. m \in G
    <2> HIDE DEF G
    <2>1. \A n \in Nat : n \in G
      BY <1>4, <1>5, CountingUp
    <2> QED
      BY <1>1, <2>1
  <1>7. Alike(Listed(x, es, m), Listed(y, fs, m))
    BY <1>1, <1>6
  <1>8. SubSeq(es, 1, m) = es /\ SubSeq(fs, 1, m) = fs
    <2>1. SubSeq(es, 1, Len(es)) = es /\ SubSeq(fs, 1, Len(fs)) = fs
      BY <1>1, SubSeqFull
    <2> QED
      BY <1>1, <2>1
  <1> QED
    BY <1>7, <1>8, Zenon DEF Listed

LEMMA AlikeWraps ==
    ASSUME NEW a \in Clean, NEW b \in Clean, SameSpelling(a, b), NEW es, NEW fs, AlikeLists(es, fs),
           Join(es) \in Text, Join(fs) \in Text
    PROVE  Alike(Wrap(a, Join(es)), Wrap(b, Join(fs)))
  <1> DEFINE x == <<Prefix>> \o a
             y == <<Prefix>> \o b
             X == Append(x, LevelsMarker) \o Join(es)
             Y == Append(y, LevelsMarker) \o Join(fs)
  <1>1. a \in Text /\ b \in Text /\ Prefix \in Separators /\ Bracket \in Separators
    BY CleanIsText, Tokens
  <1>2. Alike(x, y)
    <2>1. <<>> \in Text /\ Append(<<>>, Prefix) = <<Prefix>>
      BY DEF Text
    <2>2. Alike(Append(<<>>, Prefix) \o a, Append(<<>>, Prefix) \o b)
      BY <1>1, <2>1, AlikeEmpty, AlikeMore
    <2> QED
      BY <2>1, <2>2
  <1>3. x \in Text /\ y \in Text /\ X \in Text /\ Y \in Text
    BY <1>1, WrapIsText
  <1> HIDE DEF x, y
  <1>4. Alike(X, Y)
    BY <1>2, <1>3, AlikeListed
  <1> HIDE DEF X, Y
  <1>5. Alike(Append(X, Bracket), Append(Y, Bracket))
    BY <1>1, <1>3, <1>4, AlikeSeparator
  <1> QED
    BY <1>5, Zenon DEF Wrap, X, Y, x, y
\* What is read of a given text is written again as the text that was read.
LEMMA GivenIsShown ==
    ASSUME NEW t \in Texts, NEW e \in Envelope(t), NEW id, NEW ls, ReadSoFar(e, id, ls, <<>>),
           NEW v, v = [srid |-> id, levels |-> ls], NewStored(v).kind = "Ok"
    PROVE  NewStored(v) = Decoded(v) /\ ToText(v) \in Text /\ Alike(Trimmed(t), ToText(v))
  <1> DEFINE a == e.srid
             es == Entries(e.levels)
             b == ShowSrid(v)
             fs == ShowEntries(v)
  <1>1. e.srid \in Text /\ e.levels \in Text /\ Trimmed(t) = Wrap(e.srid, e.levels)
    <2>1. t \in Text
      BY TextsAssumption, Zenon
    <2> QED
      BY <2>1, EnvelopeWraps
  <1>2. es \in Seq(Text) /\ Join(es) = e.levels
    BY <1>1, EntriesAre
  <1>3. /\ id \in ReadSrid(e.srid) /\ ls \in Seq(Level)
        /\ Progress(es, ls, <<>>)
        /\ \A k \in 1..Len(ls) : ReadEntry(es[k]) = Decoded(ls[k])
    BY Zenon DEF ReadSoFar
  <1>4. Len(es) = Len(ls) /\ Len(ls) \in Nat
    <2> HIDE DEF Level
    <2> QED
      BY <1>2, <1>3 DEF Progress
  <1>5. SridAs(a, id)
    BY <1>3, GivenSrid
  <1>6. v \in Payload /\ v.levels = ls /\ v.srid = id
    <2>1. id \in I32 \cup {NoSrid}
      BY <1>5 DEF SridAs
    <2> HIDE DEF Level
    <2> QED
      BY <1>3, <2>1 DEF Payload
  <1>7. NewStored(v) = Decoded(v)
    <2> HIDE DEF Level
    <2>1. v.levels \in Seq(Level)
      BY <1>3, <1>6
    <2> QED
      BY <2>1, BuiltValue
  <1>8. /\ b \in Clean /\ fs \in Seq(Text) /\ Len(fs) = Len(ls) /\ Join(fs) \in Text
        /\ ToText(v) = Wrap(b, Join(fs))
        /\ \A k \in 1..Len(ls) : fs[k] = ShowEntry(ls[k])
    <2>1. /\ b \in Clean /\ fs \in Seq(Text) /\ Len(fs) = Len(v.levels) /\ Join(fs) \in Text
          /\ ToText(v) = Wrap(b, Join(fs))
          /\ \A k \in 1..Len(v.levels) : fs[k] = ShowEntry(v.levels[k])
      BY <1>6, ToTextIs
    <2> HIDE DEF b, fs
    <2> QED
      BY <1>6, <2>1
  <1>9. a \in Clean /\ SameSpelling(a, b)
    <2>1. a \in Clean
      BY <1>5 DEF SridAs
    <2>2. CASE id = NoSrid /\ a = <<Null>>
      <3>1. b = <<Null>>
        BY <1>6, <2>2, Zenon DEF ShowSrid
      <3> QED
        BY <2>1, <2>2, <3>1, Zenon DEF SameSpelling
    <2>3. CASE id \in I32 /\ ReadInt(a) = {id}
      <3>1. id # NoSrid
        BY <2>3, PayloadAssumption, NumeralAssumption
      <3>2. b = ShowInt(id)
        BY <1>6, <3>1, Zenon DEF ShowSrid
      <3>3. ReadInt(b) = {id}
        BY <2>3, <3>2, NumeralAssumption
      <3>4. ReadInt(a) = ReadInt(b) /\ ReadInt(a) # {}
        BY <2>3, <3>3
      <3> QED
        BY <2>1, <3>4, Zenon DEF SameSpelling
    <2> QED
      BY <1>5, <2>2, <2>3 DEF SridAs
  <1>10. \A k \in 1..Len(ls) : AlikeEntries(es[k], fs[k])
    <2> TAKE k \in 1..Len(ls)
    <2>1. k \in 1..Len(Entries(e.levels)) /\ ReadEntry(Entries(e.levels)[k]) = Decoded(ls[k])
      BY <1>3, <1>4
    <2>2. ReadEntry(Entries(e.levels)[k]).kind = "Ok"
      BY <2>1 DEF Decoded
    <2>3. PICK l \in Level : /\ ReadEntry(es[k]) = Decoded(l)
                             /\ StoredLevelError(l.ewkb) = "None"
                             /\ EntryAs(es[k], l)
      BY <2>1, <2>2, GivenEntry
    <2> HIDE DEF es, fs, Level
    <2>4. l = ls[k]
      <3>1. Decoded(l).value = Decoded(ls[k]).value
        BY <1>3, <2>3
      <3> QED
        BY <3>1 DEF Decoded
    <2> DEFINE f == ShowEntry(l)
               x == ShowFloat(l.alpha)
               h == EncodeHex(l.ewkb)
    <2>5. fs[k] = f
      BY <1>8, <2>4
    <2>6. x \in Clean /\ h \in Clean /\ f = Append(x, Colon) \o h
      BY <2>3, EntryRoundTrip
    <2>7. PICK y \in Clean, g \in Clean : /\ es[k] = Append(y, Colon) \o g
                                          /\ ReadFloat(y) = {l.alpha}
                                          /\ SameSpelling(g, h)
      BY <2>3, Zenon DEF EntryAs
    <2>8. ReadFloat(x) = {l.alpha}
      <3>1. l.alpha \in 1..One
        BY <2>3 DEF Level
      <3> QED
        BY <3>1, NumeralAssumption
    <2> HIDE DEF f, x, h
    <2>9. ReadFloat(y) = ReadFloat(x) /\ ReadFloat(y) # {}
      BY <2>7, <2>8
    <2>10. SameSpelling(y, x)
      BY <2>9, Zenon DEF SameSpelling
    <2>11. AlikeEntries(es[k], f)
      BY <2>6, <2>7, <2>10, Zenon DEF AlikeEntries
    <2> QED
      BY <2>5, <2>11
  <1> HIDE DEF a, es, b, fs
  <1>11. AlikeLists(es, fs)
    BY <1>2, <1>4, <1>8, <1>10 DEF AlikeLists
  <1>12. Join(es) \in Text /\ Trimmed(t) = Wrap(a, Join(es))
    BY <1>1, <1>2 DEF a
  <1>13. Alike(Wrap(a, Join(es)), Wrap(b, Join(fs)))
    BY <1>8, <1>9, <1>11, <1>12, AlikeWraps
  <1>14. Alike(Trimmed(t), ToText(v))
    BY <1>8, <1>12, <1>13, Zenon
  <1>15. ToText(v) \in Text
    BY <1>8, CleanIsText, WrapIsText
  <1> QED
    BY <1>7, <1>14, <1>15

LEMMA AlikeSame == \A x : Alike(x, x)
  <1>1. \A p : SameSpelling(p, p)
    BY Zenon DEF SameSpelling
  <1> QED
    BY <1>1, Zenon DEF Alike

\* parse_text reads all of a text or refuses it: piece by piece, an accepted text is what
\* to_text writes of its value, but for the white space around it, the case of hex digits
\* and the spelling of numbers.
THEOREM WholeTextIsRead == TextSpec => []ReadsWholeText
  <1>1. ParseInv => ReadsWholeText
    <2> SUFFICES ASSUME ParseInv, result.kind = "Ok"
                 PROVE  ReadsWholeText
      BY DEF ReadsWholeText
    <2> DEFINE v == [srid |-> srid, levels |-> levels]
    <2>1. /\ Input(source, text) /\ entries = <<>> /\ result = NewStored(v)
          /\ Reads(text, srid, levels, entries)
      BY DEF ParseInv
    <2>2. PICK e \in Envelope(text) : ReadSoFar(e, srid, levels, <<>>)
      BY <2>1, Zenon DEF Reads
    <2>3. NewStored(v).kind = "Ok"
      BY <2>1
    <2> HIDE DEF v
    <2>4. PICK w : result = Decoded(w) /\ ToText(w) \in Text /\ Alike(Trimmed(text), ToText(w))
      <3>1. CASE \E u \in Payload : source = <<u>> /\ Writes(u, text)
        <4>1. PICK u \in Payload : Writes(u, text)
          BY <3>1
        <4>2. NewStored(v) = Decoded(u)
          BY <2>2, <4>1, WrittenIsRead DEF v
        <4>3. Trimmed(text) = text /\ text = ToText(u) /\ text \in Text
          BY <4>1, WrittenReads DEF Writes
        <4>4. Alike(Trimmed(text), ToText(u))
          BY <4>3, AlikeSame
        <4> QED
          BY <2>1, <4>2, <4>3, <4>4
      <3>2. CASE text \in Texts
        <4>1. NewStored(v) = Decoded(v) /\ ToText(v) \in Text /\ Alike(Trimmed(text), ToText(v))
          BY <2>2, <2>3, <3>2, GivenIsShown DEF v
        <4> QED
          BY <2>1, <4>1
      <3> QED
        BY <2>1, <3>1, <3>2 DEF Input
    <2>5. result.value = w
      BY <2>4 DEF Decoded
    <2> DEFINE given == Trimmed(text)
               shown == ToText(w)
    <2>6. DOMAIN Pieces(shown, Separators) = 1..Len(Pieces(shown, Separators))
      <3>1. Pieces(shown, Separators) \in Seq(Text)
        BY <2>4, PiecesAre
      <3> QED
        BY <3>1
    <2>7. /\ Skeleton(given) = Skeleton(shown)
          /\ \A k \in DOMAIN Pieces(shown, Separators) :
                 SameSpelling(Pieces(given, Separators)[k], Pieces(shown, Separators)[k])
      BY <2>4, <2>6, Zenon DEF Alike
    <2> QED
      BY <2>5, <2>7, Zenon DEF ReadsWholeText
  <1> QED
    BY <1>1, TextReadInOrder, PTL
=============================================================================
