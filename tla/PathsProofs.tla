---------------------------- MODULE PathsProofs ----------------------------
(***************************************************************************)
(* Proofs about Paths, for every set of rule paths and of requests.        *)
(***************************************************************************)
EXTENDS Paths, FiniteSetTheorems, TLAPS

----------------------------------------------------------------------------
(* Induction, by least elements: no operator has to be instantiated.       *)

LEMMA LeastOf ==
  ASSUME NEW R, NEW S, S \subseteq Nat, S # {}, IsWellFoundedOn(R, Nat),
         \A x, y \in Nat : x < y => << x, y >> \in R
  PROVE  \E m \in S : \A n \in S : m <= n
<1>1. IsWellFoundedOn(R, Nat)
  OBVIOUS
<1>2. \E m \in S : \A n \in S : << n, m >> \notin R
  BY ONLY S \subseteq Nat, S # {}, <1>1, WFMin, ZenonT(30)
<1>3. PICK m \in S : \A n \in S : << n, m >> \notin R
  BY <1>2
<1>4. ASSUME NEW n \in S
      PROVE  m <= n
  <2>1. m \in Nat /\ n \in Nat
    OBVIOUS
  <2>2. ~(n < m)
    BY <1>3, <2>1, Zenon
  <2> QED
    BY <2>1, <2>2
<1> QED
  BY <1>4

\* A set of numbers has a least one.
LEMMA Least ==
  ASSUME NEW S, S \subseteq Nat, S # {}
  PROVE  \E m \in S : \A n \in S : m <= n
<1> DEFINE R == OpToRel(<, Nat)
<1>1. IsWellFoundedOn(R, Nat)
  BY NatLessThanWellFounded
<1>2. \A x, y \in Nat : x < y => << x, y >> \in R
  BY DEF OpToRel
<1> HIDE DEF R
<1> QED
  BY <1>1, <1>2, LeastOf

LEMMA Induction ==
  ASSUME NEW S, 0 \in S, \A n \in Nat : n \in S => n + 1 \in S
  PROVE  Nat \subseteq S
<1> SUFFICES ASSUME Nat \ S # {}
             PROVE  FALSE
  OBVIOUS
<1>1. PICK m \in Nat \ S : \A n \in Nat \ S : m <= n
  BY Least
<1>2. m - 1 \in Nat
  BY <1>1
<1>3. m - 1 \in S
  BY <1>1, <1>2
<1> QED
  BY <1>1, <1>2, <1>3

\* The characters that mean something, and the items, are all different.
LEMMA Different ==
  /\ Open # Close /\ Open # Star /\ Open # Slash /\ Close # Star /\ Close # Slash /\ Star # Slash
  /\ Nothing # MatchOne /\ Nothing # MatchAny /\ Nothing # EscapedDot
  /\ MatchOne # MatchAny /\ MatchOne # EscapedDot /\ MatchAny # EscapedDot
  /\ Slash # "." /\ Open # "." /\ Close # "." /\ Star # "."
BY Zenon DEF Open, Close, Star, Slash, Nothing, MatchOne, MatchAny, EscapedDot

----------------------------------------------------------------------------
(* Sequences, character by character.                                      *)

LEMMA HasMeans ==
  ASSUME NEW T, NEW s \in Seq(T), NEW C
  PROVE  Has(s, C) <=> \E i \in 1..Len(s) : s[i] \in C
BY DEF Has, ToSet

LEMMA SubSeqMeans ==
  ASSUME NEW T, NEW s \in Seq(T), NEW p \in 1..(Len(s) + 1), NEW e \in (p - 1)..Len(s)
  PROVE  /\ SubSeq(s, p, e) \in Seq(T)
         /\ Len(SubSeq(s, p, e)) = e - p + 1
         /\ \A i \in 1..(e - p + 1) : SubSeq(s, p, e)[i] = s[p + i - 1]
OBVIOUS

LEMMA SameSeq ==
  ASSUME NEW T, NEW U, NEW s \in Seq(T), NEW t \in Seq(U)
  PROVE  s = t <=> Len(s) = Len(t) /\ \A i \in 1..Len(s) : s[i] = t[i]
OBVIOUS

LEMMA EmptySeq ==
  ASSUME NEW T, NEW s \in Seq(T)
  PROVE  s = << >> <=> Len(s) = 0
OBVIOUS

LEMMA PrefixMeans ==
  ASSUME NEW T, NEW U, NEW t \in Seq(T), NEW s \in Seq(U)
  PROVE  IsPrefix(t, s) <=> Len(t) <= Len(s) /\ \A i \in 1..Len(t) : t[i] = s[i]
<1>1. ASSUME Len(t) <= Len(s)
      PROVE  SubSeq(t, 1, Len(t)) = SubSeq(s, 1, Len(t)) <=> \A i \in 1..Len(t) : t[i] = s[i]
  <2> DEFINE a == SubSeq(t, 1, Len(t))
             b == SubSeq(s, 1, Len(t))
  <2>1. a \in Seq(T) /\ Len(a) = Len(t) /\ \A i \in 1..Len(t) : a[i] = t[i]
    OBVIOUS
  <2>2. b \in Seq(U) /\ Len(b) = Len(t) /\ \A i \in 1..Len(t) : b[i] = s[i]
    BY <1>1
  <2> HIDE DEF a, b
  <2>3. a = b <=> \A i \in 1..Len(t) : a[i] = b[i]
    BY <2>1, <2>2, SameSeq
  <2> QED
    BY <2>1, <2>2, <2>3 DEF a, b
<1> QED
  BY <1>1 DEF IsPrefix

LEMMA ReverseMeans ==
  ASSUME NEW T, NEW s \in Seq(T)
  PROVE  /\ Reverse(s) \in Seq(T)
         /\ Len(Reverse(s)) = Len(s)
         /\ \A i \in 1..Len(s) : Reverse(s)[i] = s[Len(s) - i + 1]
BY DEF Reverse

LEMMA SuffixMeans ==
  ASSUME NEW T, NEW U, NEW t \in Seq(T), NEW s \in Seq(U)
  PROVE  IsSuffix(t, s) <=>
           Len(t) <= Len(s) /\ \A i \in 1..Len(t) : t[i] = s[Len(s) - Len(t) + i]
<1> DEFINE a == Reverse(t)
           b == Reverse(s)
<1>1. a \in Seq(T) /\ Len(a) = Len(t) /\ \A i \in 1..Len(t) : a[i] = t[Len(t) - i + 1]
  BY ReverseMeans
<1>2. b \in Seq(U) /\ Len(b) = Len(s) /\ \A i \in 1..Len(s) : b[i] = s[Len(s) - i + 1]
  BY ReverseMeans
<1> HIDE DEF a, b
<1>3. IsPrefix(a, b) <=> Len(t) <= Len(s) /\ \A i \in 1..Len(t) : a[i] = b[i]
  BY <1>1, <1>2, PrefixMeans
<1>4. ASSUME Len(t) <= Len(s), \A i \in 1..Len(t) : a[i] = b[i], NEW i \in 1..Len(t)
      PROVE  t[i] = s[Len(s) - Len(t) + i]
  <2> DEFINE j == Len(t) - i + 1
  <2>1. j \in 1..Len(t) /\ j \in 1..Len(s) /\ Len(t) - j + 1 = i /\ Len(s) - j + 1 = Len(s) - Len(t) + i
    BY <1>4
  <2> HIDE DEF j
  <2>2. a[j] = t[i] /\ b[j] = s[Len(s) - Len(t) + i]
    BY <1>1, <1>2, <2>1
  <2> QED
    BY <1>4, <2>1, <2>2
<1>5. ASSUME Len(t) <= Len(s), \A i \in 1..Len(t) : t[i] = s[Len(s) - Len(t) + i], NEW i \in 1..Len(t)
      PROVE  a[i] = b[i]
  <2> DEFINE j == Len(t) - i + 1
  <2>1. j \in 1..Len(t) /\ i \in 1..Len(s) /\ Len(s) - i + 1 = Len(s) - Len(t) + j
    BY <1>5
  <2> HIDE DEF j
  <2>2. a[i] = t[j] /\ b[i] = s[Len(s) - Len(t) + j]
    BY <1>1, <1>2, <2>1 DEF j
  <2> QED
    BY <1>5, <2>1, <2>2
<1> QED
  BY <1>3, <1>4, <1>5 DEF IsSuffix, a, b

----------------------------------------------------------------------------
(* The two operators, where they stand in a path.                          *)

OneAt(s, p) == p + 2 <= Len(s) /\ s[p] = Open /\ s[p + 1] = Star /\ s[p + 2] = Close

AnyAt(s, p) ==
  p + 3 <= Len(s) /\ s[p] = Open /\ s[p + 1] = Star /\ s[p + 2] = Star /\ s[p + 3] = Close

LEMMA OneTemplate ==
  /\ matchOneTemplate \in Seq({ Open, Star, Close })
  /\ Len(matchOneTemplate) = 3
  /\ matchOneTemplate[1] = Open /\ matchOneTemplate[2] = Star /\ matchOneTemplate[3] = Close
BY DEF matchOneTemplate

LEMMA AnyTemplate ==
  /\ matchAnyTemplate \in Seq({ Open, Star, Close })
  /\ Len(matchAnyTemplate) = 4
  /\ matchAnyTemplate[1] = Open /\ matchAnyTemplate[2] = Star
  /\ matchAnyTemplate[3] = Star /\ matchAnyTemplate[4] = Close
BY DEF matchAnyTemplate

LEMMA IsOneMeans ==
  ASSUME NEW T, NEW s \in Seq(T)
  PROVE  s = matchOneTemplate <=> Len(s) = 3 /\ OneAt(s, 1)
<1>1. s = matchOneTemplate <=> Len(s) = 3 /\ \A i \in 1..3 : s[i] = matchOneTemplate[i]
  BY OneTemplate, SameSeq
<1> QED
  BY <1>1, OneTemplate DEF OneAt

LEMMA IsAnyMeans ==
  ASSUME NEW T, NEW s \in Seq(T)
  PROVE  s = matchAnyTemplate <=> Len(s) = 4 /\ AnyAt(s, 1)
<1>1. s = matchAnyTemplate <=> Len(s) = 4 /\ \A i \in 1..4 : s[i] = matchAnyTemplate[i]
  <2>1. PICK U : matchAnyTemplate \in Seq(U)
    BY AnyTemplate
  <2>2. s = matchAnyTemplate <=>
          Len(s) = Len(matchAnyTemplate) /\ \A i \in 1..Len(s) : s[i] = matchAnyTemplate[i]
    BY <2>1, SameSeq
  <2> QED
    BY <2>2, AnyTemplate
<1> QED
  BY <1>1, AnyTemplate DEF AnyAt

LEMMA EndsWithAny ==
  ASSUME NEW T, NEW s \in Seq(T)
  PROVE  IsSuffix(matchAnyTemplate, s) <=> Len(s) >= 4 /\ AnyAt(s, Len(s) - 3)
<1>0. IsSuffix(matchAnyTemplate, s) <=>
        /\ Len(matchAnyTemplate) <= Len(s)
        /\ \A i \in 1..Len(matchAnyTemplate) :
             matchAnyTemplate[i] = s[Len(s) - Len(matchAnyTemplate) + i]
  <2>1. PICK U : matchAnyTemplate \in Seq(U)
    BY AnyTemplate
  <2> QED
    BY <2>1, SuffixMeans
<1>1. IsSuffix(matchAnyTemplate, s) <=>
        4 <= Len(s) /\ \A i \in 1..4 : matchAnyTemplate[i] = s[Len(s) - 4 + i]
  BY <1>0, AnyTemplate
<1>2. Len(s) - 4 + 1 = Len(s) - 3 /\ Len(s) - 4 + 2 = Len(s) - 3 + 1
      /\ Len(s) - 4 + 3 = Len(s) - 3 + 2 /\ Len(s) - 4 + 4 = Len(s) - 3 + 3
  OBVIOUS
<1> QED
  BY <1>1, <1>2, AnyTemplate DEF AnyAt

LEMMA EndsWithChar ==
  ASSUME NEW T, NEW s \in Seq(T), NEW c
  PROVE  IsSuffix(<< c >>, s) <=> Len(s) >= 1 /\ s[Len(s)] = c
<1> DEFINE t == << c >>
<1>1. t \in Seq({ c }) /\ Len(t) = 1 /\ t[1] = c
  OBVIOUS
<1> HIDE DEF t
<1>2. IsSuffix(t, s) <=> Len(t) <= Len(s) /\ \A i \in 1..Len(t) : t[i] = s[Len(s) - Len(t) + i]
  <2>1. PICK U : t \in Seq(U)
    BY <1>1
  <2> QED
    BY <2>1, SuffixMeans
<1>3. IsSuffix(t, s) <=> 1 <= Len(s) /\ t[1] = s[Len(s)]
  BY <1>1, <1>2
<1> QED
  BY <1>1, <1>3 DEF t

LEMMA BeginsWithChar ==
  ASSUME NEW T, NEW s \in Seq(T), NEW c
  PROVE  IsPrefix(<< c >>, s) <=> Len(s) >= 1 /\ s[1] = c
<1> DEFINE t == << c >>
<1>1. t \in Seq({ c }) /\ Len(t) = 1 /\ t[1] = c
  OBVIOUS
<1> HIDE DEF t
<1>2. IsPrefix(t, s) <=> Len(t) <= Len(s) /\ \A i \in 1..Len(t) : t[i] = s[i]
  <2>1. PICK U : t \in Seq(U)
    BY <1>1
  <2> QED
    BY <2>1, PrefixMeans
<1>3. IsPrefix(t, s) <=> 1 <= Len(s) /\ t[1] = s[1]
  BY <1>1, <1>2
<1> QED
  BY <1>1, <1>3 DEF t

LEMMA TrimMeans ==
  ASSUME NEW T, NEW s \in Seq(T), NEW t, IsSuffix(t, s), NEW m \in 0..Len(s), Len(s) - Len(t) = m
  PROVE  /\ TrimSuffix(s, t) \in Seq(T)
         /\ Len(TrimSuffix(s, t)) = m
         /\ \A i \in 1..m : TrimSuffix(s, t)[i] = s[i]
<1>1. TrimSuffix(s, t) = SubSeq(s, 1, m)
  BY DEF TrimSuffix
<1>2. SubSeq(s, 1, m) \in Seq(T) /\ Len(SubSeq(s, 1, m)) = m /\ \A i \in 1..m : SubSeq(s, 1, m)[i] = s[i]
  OBVIOUS
<1> QED
  BY <1>1, <1>2

LEMMA TrimStar ==
  ASSUME NEW T, NEW s \in Seq(T), Len(s) >= 1, s[Len(s)] = Star
  PROVE  /\ IsSuffix(<< Star >>, s)
         /\ TrimSuffix(s, << Star >>) \in Seq(T)
         /\ Len(TrimSuffix(s, << Star >>)) = Len(s) - 1
         /\ \A i \in 1..(Len(s) - 1) : TrimSuffix(s, << Star >>)[i] = s[i]
<1> DEFINE t == << Star >>
           m == Len(s) - 1
<1>1. IsSuffix(t, s)
  BY EndsWithChar
<1>2. m \in 0..Len(s) /\ Len(s) - Len(t) = m
  OBVIOUS
<1> HIDE DEF t, m
<1>3. TrimSuffix(s, t) \in Seq(T) /\ Len(TrimSuffix(s, t)) = m /\ \A i \in 1..m : TrimSuffix(s, t)[i] = s[i]
  BY <1>1, <1>2, TrimMeans
<1> QED
  BY <1>1, <1>3 DEF t, m

LEMMA ContainsOne ==
  ASSUME NEW T, NEW s \in Seq(T)
  PROVE  ContainsSeq(s, matchOneTemplate) <=> \E p \in 1..Len(s) : OneAt(s, p)
<1>1. ASSUME NEW i \in 0..(Len(s) - 3)
      PROVE  SubSeq(s, i + 1, i + 3) = matchOneTemplate <=> OneAt(s, i + 1)
  <2> DEFINE t == SubSeq(s, i + 1, i + 3)
  <2>1. t \in Seq(T) /\ Len(t) = 3 /\ t[1] = s[i + 1] /\ t[2] = s[i + 2] /\ t[3] = s[i + 3]
    BY SubSeqMeans
  <2> HIDE DEF t
  <2>2. t = matchOneTemplate <=> OneAt(t, 1)
    BY <2>1, IsOneMeans
  <2>3. i + 1 + 1 = i + 2 /\ i + 1 + 2 = i + 3 /\ i + 3 <= Len(s)
    OBVIOUS
  <2> QED
    BY <2>1, <2>2, <2>3 DEF OneAt, t
<1>2. ASSUME NEW p \in 1..Len(s), OneAt(s, p)
      PROVE  p - 1 \in 0..(Len(s) - 3) /\ p - 1 + 1 = p
  BY <1>2 DEF OneAt
<1>3. ContainsSeq(s, matchOneTemplate) <=>
        \E i \in 0..(Len(s) - 3) : SubSeq(s, i + 1, i + 3) = matchOneTemplate
  BY OneTemplate DEF ContainsSeq
<1>4. ASSUME NEW i \in 0..(Len(s) - 3)
      PROVE  i + 1 \in 1..Len(s)
  OBVIOUS
<1>5. (\E i \in 0..(Len(s) - 3) : OneAt(s, i + 1)) <=> \E p \in 1..Len(s) : OneAt(s, p)
  <2> HIDE DEF OneAt
  <2> QED
    BY <1>2, <1>4, Zenon
<1> QED
  BY <1>1, <1>3, <1>5, Zenon

LEMMA ContainsAny ==
  ASSUME NEW T, NEW s \in Seq(T)
  PROVE  ContainsSeq(s, matchAnyTemplate) <=> \E p \in 1..Len(s) : AnyAt(s, p)
<1>1. ASSUME NEW i \in 0..(Len(s) - 4)
      PROVE  SubSeq(s, i + 1, i + 4) = matchAnyTemplate <=> AnyAt(s, i + 1)
  <2> DEFINE t == SubSeq(s, i + 1, i + 4)
  <2>1. /\ t \in Seq(T) /\ Len(t) = 4
        /\ t[1] = s[i + 1] /\ t[2] = s[i + 2] /\ t[3] = s[i + 3] /\ t[4] = s[i + 4]
    BY SubSeqMeans
  <2> HIDE DEF t
  <2>2. t = matchAnyTemplate <=> AnyAt(t, 1)
    BY <2>1, IsAnyMeans
  <2>3. i + 1 + 1 = i + 2 /\ i + 1 + 2 = i + 3 /\ i + 1 + 3 = i + 4 /\ i + 4 <= Len(s)
    OBVIOUS
  <2> QED
    BY <2>1, <2>2, <2>3 DEF AnyAt, t
<1>2. ASSUME NEW p \in 1..Len(s), AnyAt(s, p)
      PROVE  p - 1 \in 0..(Len(s) - 4) /\ p - 1 + 1 = p
  BY <1>2 DEF AnyAt
<1>3. ContainsSeq(s, matchAnyTemplate) <=>
        \E i \in 0..(Len(s) - 4) : SubSeq(s, i + 1, i + 4) = matchAnyTemplate
  BY AnyTemplate DEF ContainsSeq
<1>4. ASSUME NEW i \in 0..(Len(s) - 4)
      PROVE  i + 1 \in 1..Len(s)
  OBVIOUS
<1>5. (\E i \in 0..(Len(s) - 4) : AnyAt(s, i + 1)) <=> \E p \in 1..Len(s) : AnyAt(s, p)
  <2> HIDE DEF AnyAt
  <2> QED
    BY <1>2, <1>4, Zenon
<1> QED
  BY <1>1, <1>3, <1>5, Zenon

----------------------------------------------------------------------------
(* Segments.                                                               *)

\* A segment ends before the first slash, or with the path.
LEMMA EndMeans ==
  ASSUME NEW T, NEW s \in Seq(T), NEW p \in 1..(Len(s) + 1)
  PROVE  /\ SegmentEnd(s, p) \in p..(Len(s) + 1)
         /\ \A i \in p..(SegmentEnd(s, p) - 1) : s[i] # Slash
         /\ SegmentEnd(s, p) <= Len(s) => s[SegmentEnd(s, p)] = Slash
<1> DEFINE S == { i \in p..Len(s) : s[i] = Slash } \cup { Len(s) + 1 }
<1>1. S \subseteq Nat /\ S # {} /\ S \subseteq p..(Len(s) + 1)
  OBVIOUS
<1>2. \A i \in p..Len(s) : i \notin S => s[i] # Slash
  OBVIOUS
<1>3. \A i \in S : i <= Len(s) => s[i] = Slash
  OBVIOUS
<1>4. SegmentEnd(s, p) = Min(S)
  BY DEF SegmentEnd
<1> HIDE DEF S
<1>5. Min(S) \in S /\ \A i \in S : Min(S) <= i
  <2>1. \E m \in S : \A i \in S : m <= i
    BY <1>1, Least
  <2> QED
    BY <2>1 DEF Min
<1>6. Min(S) \in p..(Len(s) + 1)
  BY <1>1, <1>5
<1>7. ASSUME NEW i \in p..(Min(S) - 1)
      PROVE  s[i] # Slash
  <2>1. i \in p..Len(s) /\ ~(Min(S) <= i)
    BY <1>6
  <2> QED
    BY <2>1, <1>2, <1>5
<1> QED
  BY <1>3, <1>4, <1>5, <1>6, <1>7

\* Where the segment ends is known by any of its two marks.
LEMMA EndIs ==
  ASSUME NEW T, NEW s \in Seq(T), NEW p \in 1..(Len(s) + 1), NEW e \in p..(Len(s) + 1),
         \A i \in p..(e - 1) : s[i] # Slash,
         e <= Len(s) => s[e] = Slash
  PROVE  SegmentEnd(s, p) = e
<1> DEFINE f == SegmentEnd(s, p)
<1>1. /\ f \in p..(Len(s) + 1)
      /\ \A i \in p..(f - 1) : s[i] # Slash
      /\ f <= Len(s) => s[f] = Slash
  BY EndMeans
<1> HIDE DEF f
<1>2. ~(f < e)
  BY <1>1
<1>3. ~(e < f)
  BY <1>1
<1>4. f = e
  BY <1>1, <1>2, <1>3
<1> QED
  BY <1>4 DEF f

LEMMA SegmentMeans ==
  ASSUME NEW T, NEW s \in Seq(T), NEW p \in 1..(Len(s) + 1)
  PROVE  /\ Segment(s, p) \in Seq(T)
         /\ Len(Segment(s, p)) = SegmentEnd(s, p) - p
         /\ \A i \in 1..(SegmentEnd(s, p) - p) : Segment(s, p)[i] = s[p + i - 1]
<1>1. SegmentEnd(s, p) \in p..(Len(s) + 1)
  BY EndMeans
<1> DEFINE e == SegmentEnd(s, p)
<1> HIDE DEF e
<1>2. e \in Int /\ e - 1 \in (p - 1)..Len(s) /\ e - 1 - p + 1 = e - p
  BY <1>1 DEF e
<1>3. Segment(s, p) = SubSeq(s, p, e - 1)
  BY DEF Segment, e
<1>4. /\ SubSeq(s, p, e - 1) \in Seq(T)
      /\ Len(SubSeq(s, p, e - 1)) = e - 1 - p + 1
      /\ \A i \in 1..(e - 1 - p + 1) : SubSeq(s, p, e - 1)[i] = s[p + i - 1]
  BY <1>2, SubSeqMeans
<1> QED
  BY <1>2, <1>3, <1>4 DEF e

\* The characters of a segment are those of the path.
LEMMA SegmentChar ==
  ASSUME NEW T, NEW s \in Seq(T), NEW p \in 1..(Len(s) + 1), NEW i \in p..(SegmentEnd(s, p) - 1)
  PROVE  /\ i - p + 1 \in 1..Len(Segment(s, p))
         /\ Segment(s, p)[i - p + 1] = s[i]
<1> DEFINE e == SegmentEnd(s, p)
<1>1. e \in p..(Len(s) + 1)
  BY EndMeans
<1>2. Len(Segment(s, p)) = e - p /\ \A k \in 1..(e - p) : Segment(s, p)[k] = s[p + k - 1]
  BY SegmentMeans
<1> HIDE DEF e
<1>3. i \in p..(e - 1)
  BY DEF e
<1>4. i - p + 1 \in 1..(e - p) /\ p + (i - p + 1) - 1 = i
  BY <1>1, <1>3
<1> QED
  BY <1>2, <1>4

LEMMA SegmentHas ==
  ASSUME NEW T, NEW s \in Seq(T), NEW p \in 1..(Len(s) + 1), NEW C
  PROVE  Has(Segment(s, p), C) <=> \E i \in p..(SegmentEnd(s, p) - 1) : s[i] \in C
<1> DEFINE e == SegmentEnd(s, p)
           g == Segment(s, p)
<1>1. e \in p..(Len(s) + 1)
  BY EndMeans
<1>2. g \in Seq(T) /\ Len(g) = e - p /\ \A k \in 1..(e - p) : g[k] = s[p + k - 1]
  BY SegmentMeans
<1>3. ASSUME NEW i \in p..(e - 1)
      PROVE  i - p + 1 \in 1..Len(g) /\ g[i - p + 1] = s[i]
  BY SegmentChar
<1> HIDE DEF e, g
<1>4. Has(g, C) <=> \E k \in 1..Len(g) : g[k] \in C
  BY <1>2, HasMeans
<1>5. ASSUME NEW k \in 1..Len(g)
      PROVE  p + k - 1 \in p..(e - 1) /\ g[k] = s[p + k - 1]
  BY <1>1, <1>2
<1>6. Has(g, C) <=> \E i \in p..(e - 1) : s[i] \in C
  BY <1>3, <1>4, <1>5
<1> QED
  BY <1>6 DEF e, g

\* Literal, character by character.
LEMMA LiteralMeans ==
  ASSUME NEW T, NEW g \in Seq(T)
  PROVE  IsLiteral(g) <=> Len(g) >= 1 /\ \A i \in 1..Len(g) : g[i] \in Literal
<1>1. g = << >> <=> Len(g) = 0
  OBVIOUS
<1>2. ToSet(g) \subseteq Literal <=> \A i \in 1..Len(g) : g[i] \in Literal
  BY DEF ToSet
<1> QED
  BY <1>1, <1>2 DEF IsLiteral

LEMMA LiteralSegment ==
  ASSUME NEW T, NEW s \in Seq(T), NEW p \in 1..(Len(s) + 1), IsLiteral(Segment(s, p))
  PROVE  /\ SegmentEnd(s, p) > p
         /\ \A i \in p..(SegmentEnd(s, p) - 1) : s[i] \in Literal
<1>1. Segment(s, p) \in Seq(T) /\ Len(Segment(s, p)) = SegmentEnd(s, p) - p
  BY SegmentMeans
<1>2. Len(Segment(s, p)) >= 1 /\ \A i \in 1..Len(Segment(s, p)) : Segment(s, p)[i] \in Literal
  BY <1>1, LiteralMeans
<1>3. SegmentEnd(s, p) \in p..(Len(s) + 1)
  BY EndMeans
<1>4. \A i \in p..(SegmentEnd(s, p) - 1) : s[i] \in Literal
  BY <1>2, SegmentChar
<1> QED
  BY <1>1, <1>2, <1>3, <1>4

\* A segment that is an operator.
LEMMA OneSegment ==
  ASSUME NEW T, NEW s \in Seq(T), NEW p \in 1..(Len(s) + 1)
  PROVE  Segment(s, p) = matchOneTemplate <=> SegmentEnd(s, p) = p + 3 /\ OneAt(s, p)
<1> DEFINE e == SegmentEnd(s, p)
           g == Segment(s, p)
<1>1. e \in p..(Len(s) + 1)
  BY EndMeans
<1>2. g \in Seq(T) /\ Len(g) = e - p /\ \A k \in 1..(e - p) : g[k] = s[p + k - 1]
  BY SegmentMeans
<1> HIDE DEF e, g
<1>3. g = matchOneTemplate <=> Len(g) = 3 /\ OneAt(g, 1)
  BY <1>2, IsOneMeans
<1>4. e - p = 3 => g[1] = s[p] /\ g[2] = s[p + 1] /\ g[3] = s[p + 2] /\ p + 2 <= Len(s)
  <2> SUFFICES ASSUME e - p = 3
               PROVE  g[1] = s[p] /\ g[2] = s[p + 1] /\ g[3] = s[p + 2] /\ p + 2 <= Len(s)
    OBVIOUS
  <2>1. p + 1 - 1 = p /\ p + 2 - 1 = p + 1 /\ p + 3 - 1 = p + 2 /\ p + 2 <= Len(s)
    BY <1>1
  <2>2. g[1] = s[p + 1 - 1] /\ g[2] = s[p + 2 - 1] /\ g[3] = s[p + 3 - 1]
    BY <1>2
  <2> QED
    BY <2>1, <2>2
<1>5. g = matchOneTemplate <=> e = p + 3 /\ OneAt(s, p)
  <2>1. e - p = 3 <=> e = p + 3
    BY <1>1
  <2>2. OneAt(g, 1) /\ Len(g) = 3 <=> Len(g) = 3 /\ g[1] = Open /\ g[2] = Star /\ g[3] = Close
    BY DEF OneAt
  <2> QED
    BY <1>2, <1>3, <1>4, <2>1, <2>2 DEF OneAt
<1> QED
  BY <1>5 DEF e, g

LEMMA AnySegment ==
  ASSUME NEW T, NEW s \in Seq(T), NEW p \in 1..(Len(s) + 1)
  PROVE  Segment(s, p) = matchAnyTemplate <=> SegmentEnd(s, p) = p + 4 /\ AnyAt(s, p)
<1> DEFINE e == SegmentEnd(s, p)
           g == Segment(s, p)
<1>1. e \in p..(Len(s) + 1)
  BY EndMeans
<1>2. g \in Seq(T) /\ Len(g) = e - p /\ \A k \in 1..(e - p) : g[k] = s[p + k - 1]
  BY SegmentMeans
<1> HIDE DEF e, g
<1>3. g = matchAnyTemplate <=> Len(g) = 4 /\ AnyAt(g, 1)
  BY <1>2, IsAnyMeans
<1>4. e - p = 4 => /\ g[1] = s[p] /\ g[2] = s[p + 1] /\ g[3] = s[p + 2] /\ g[4] = s[p + 3]
                   /\ p + 3 <= Len(s)
  <2> SUFFICES ASSUME e - p = 4
               PROVE  /\ g[1] = s[p] /\ g[2] = s[p + 1] /\ g[3] = s[p + 2] /\ g[4] = s[p + 3]
                      /\ p + 3 <= Len(s)
    OBVIOUS
  <2>1. /\ p + 1 - 1 = p /\ p + 2 - 1 = p + 1 /\ p + 3 - 1 = p + 2 /\ p + 4 - 1 = p + 3
        /\ p + 3 <= Len(s)
    BY <1>1
  <2>2. /\ g[1] = s[p + 1 - 1] /\ g[2] = s[p + 2 - 1]
        /\ g[3] = s[p + 3 - 1] /\ g[4] = s[p + 4 - 1]
    BY <1>2
  <2> QED
    BY <2>1, <2>2
<1>5. g = matchAnyTemplate <=> e = p + 4 /\ AnyAt(s, p)
  <2>1. e - p = 4 <=> e = p + 4
    BY <1>1
  <2>2. AnyAt(g, 1) /\ Len(g) = 4 <=>
          Len(g) = 4 /\ g[1] = Open /\ g[2] = Star /\ g[3] = Star /\ g[4] = Close
    BY DEF AnyAt
  <2> QED
    BY <1>2, <1>3, <1>4, <2>1, <2>2 DEF AnyAt
<1> QED
  BY <1>5 DEF e, g

\* A bounded set of numbers has a greatest one.
LEMMA Greatest ==
  ASSUME NEW n \in Nat, NEW S, S \subseteq 1..n, S # {}
  PROVE  \E m \in S : \A k \in S : k <= m
<1> DEFINE D == { d \in 0..n : n - d \in S }
<1>1. D \subseteq Nat
  OBVIOUS
<1>2. \A k \in S : n - k \in D /\ k \in 1..n
  OBVIOUS
<1>3. D # {}
  BY <1>2
<1>4. \A d \in D : d \in 0..n /\ n - d \in S
  OBVIOUS
<1> HIDE DEF D
<1>5. PICK d \in D : \A x \in D : d <= x
  BY <1>1, <1>3, Least
<1>6. ASSUME NEW k \in S
      PROVE  k <= n - d
  <2>1. d <= n - k /\ k \in 1..n /\ d \in 0..n
    BY <1>2, <1>4, <1>5
  <2> QED
    BY <2>1
<1> QED
  BY <1>4, <1>6

LEMMA StartMeans ==
  ASSUME NEW T, NEW s \in Seq(T), NEW p
  PROVE  p \in SegmentStarts(s) <=> p \in 1..(Len(s) + 1) /\ (p = 1 \/ s[p - 1] = Slash)
BY DEF SegmentStarts

\* The segments after the trimming, by where they start.
Trimmed(s) == DOMAIN toPathSegments(s)

LEMMA TrimmedMeans ==
  ASSUME NEW T, NEW s \in Seq(T)
  PROVE  /\ \A p \in Trimmed(s) : p \in SegmentStarts(s) /\ p \in 1..(Len(s) + 1)
         /\ \A p \in Trimmed(s) : toPathSegments(s)[p] = Segment(s, p)
         /\ \A p \in SegmentStarts(s) :
              p \in Trimmed(s) <=>
                \E i, j \in 1..Len(s) : s[i] # Slash /\ s[j] # Slash /\ i <= p /\ p <= j
<1> DEFINE K == { i \in DOMAIN s : s[i] # Slash }
           D == { q \in SegmentStarts(s) : \E i, j \in K : i <= q /\ q <= j }
<1>1. toPathSegments(s) = [ p \in D |-> Segment(s, p) ]
  BY DEF toPathSegments
<1>2. Trimmed(s) = D /\ \A p \in D : toPathSegments(s)[p] = Segment(s, p)
  BY <1>1, Zenon DEF Trimmed
<1>3. DOMAIN s = 1..Len(s)
  OBVIOUS
<1>4. \A p \in SegmentStarts(s) :
        p \in D <=> \E i, j \in 1..Len(s) : s[i] # Slash /\ s[j] # Slash /\ i <= p /\ p <= j
  BY <1>3
<1>5. \A p \in D : p \in SegmentStarts(s) /\ p \in 1..(Len(s) + 1)
  BY StartMeans
<1> HIDE DEF D
<1> QED
  BY <1>2, <1>4, <1>5

\* Every character but a slash is in a segment, that starts with no slash.
LEMMA InSegment ==
  ASSUME NEW T, NEW s \in Seq(T), NEW i \in 1..Len(s), s[i] # Slash
  PROVE  \E p \in Trimmed(s) : p <= i /\ i < SegmentEnd(s, p)
<1> DEFINE S == { p \in 1..i : p \in SegmentStarts(s) }
<1>1. 1 \in S
  BY StartMeans
<1>2. S \subseteq 1..i /\ S # {} /\ i \in Nat
  BY <1>1
<1>3. \A q \in 1..i : q \in SegmentStarts(s) => q \in S
  OBVIOUS
<1>4. \A q \in S : q \in 1..i /\ q \in SegmentStarts(s)
  OBVIOUS
<1> HIDE DEF S
<1>5. PICK p \in S : \A q \in S : q <= p
  BY <1>2, Greatest
<1>6. p \in 1..i /\ p \in SegmentStarts(s) /\ p \in 1..(Len(s) + 1)
  BY <1>4
<1> DEFINE e == SegmentEnd(s, p)
<1>7. /\ e \in p..(Len(s) + 1)
      /\ \A k \in p..(e - 1) : s[k] # Slash
      /\ e <= Len(s) => s[e] = Slash
  BY <1>6, EndMeans
<1> HIDE DEF e
<1>8. i < e
  <2> SUFFICES ASSUME e <= i
               PROVE  FALSE
    BY <1>7
  <2>1. e <= Len(s) /\ s[e] = Slash /\ e # i
    BY <1>7
  <2>2. e + 1 \in 1..i /\ e + 1 \in 1..(Len(s) + 1) /\ e + 1 - 1 = e /\ e + 1 > p
    BY <2>1, <1>6, <1>7
  <2>3. e + 1 \in SegmentStarts(s)
    <3> DEFINE q == e + 1
    <3>0. q \in 1..(Len(s) + 1) /\ q - 1 = e
      BY <1>6, <1>7, <2>2
    <3> HIDE DEF q
    <3>1. s[q - 1] = Slash
      BY <2>1, <3>0
    <3>2. q \in SegmentStarts(s)
      BY <3>0, <3>1, StartMeans
    <3> QED
      BY <3>2 DEF q
  <2>4. e + 1 <= p
    BY <2>2, <2>3, <1>3, <1>5
  <2> QED
    BY <2>2, <2>4, <1>6, <1>7
<1>9. s[p] # Slash /\ p \in 1..Len(s)
  BY <1>6, <1>7, <1>8
<1>10. p \in Trimmed(s)
  BY <1>6, <1>9, TrimmedMeans
<1> QED
  BY <1>6, <1>8, <1>10 DEF e

----------------------------------------------------------------------------
(* What a valid path looks like.                                           *)

\* Up to n there are only slashes and literals.
PlainUpTo(s, n) == \A i \in 1..n : s[i] = Slash \/ s[i] \in Literal

SameUpTo(u, s, n) == \A i \in 1..n : u[i] = s[i]

LEMMA NotLiteral ==
  Slash \notin Literal /\ Star \notin Literal /\ Open \notin Literal /\ Close \notin Literal
BY PathsAssumption DEF Braces

LEMMA PlainLiterals ==
  ASSUME NEW T, NEW s \in Seq(T), validatePlainPathLiterals(s)
  PROVE  PlainUpTo(s, Len(s))
<1> SUFFICES ASSUME NEW i \in 1..Len(s), s[i] # Slash
             PROVE  s[i] \in Literal
  BY DEF PlainUpTo
<1>1. PICK p \in Trimmed(s) : p <= i /\ i < SegmentEnd(s, p)
  BY InSegment
<1>2. p \in 1..(Len(s) + 1) /\ toPathSegments(s)[p] = Segment(s, p)
  BY TrimmedMeans
<1>3. Segment(s, p) = << >> \/ IsLiteral(Segment(s, p))
  BY <1>2, Zenon DEF validatePlainPathLiterals, Trimmed
<1>4. SegmentEnd(s, p) \in p..(Len(s) + 1)
  BY <1>2, EndMeans
<1>5. i \in p..(SegmentEnd(s, p) - 1)
  BY <1>1, <1>2, <1>4
<1>6. Len(Segment(s, p)) = SegmentEnd(s, p) - p
  BY <1>2, SegmentMeans
<1>7. Segment(s, p) # << >>
  <2>1. Len(<< >>) = 0
    OBVIOUS
  <2>2. SegmentEnd(s, p) - p # 0
    BY <1>1, <1>2, <1>4
  <2> QED
    BY <1>6, <2>1, <2>2
<1> QED
  BY <1>2, <1>3, <1>5, <1>7, LiteralSegment

\* The segment of the last character ends with the path.
LEMMA LastSegment ==
  ASSUME NEW T, NEW s \in Seq(T), Len(s) >= 1, s[Len(s)] # Slash,
         NEW p \in Trimmed(s), \A q \in Trimmed(s) : q <= p
  PROVE  SegmentEnd(s, p) = Len(s) + 1 /\ p <= Len(s)
<1>0. Len(s) \in 1..Len(s)
  OBVIOUS
<1>1. PICK q \in Trimmed(s) : q <= Len(s) /\ Len(s) < SegmentEnd(s, q)
  BY <1>0, InSegment
<1>2. p \in 1..(Len(s) + 1) /\ q \in 1..(Len(s) + 1) /\ p \in SegmentStarts(s) /\ q <= p
  BY TrimmedMeans
<1>3. /\ SegmentEnd(s, q) \in q..(Len(s) + 1)
      /\ \A i \in q..(SegmentEnd(s, q) - 1) : s[i] # Slash
  BY <1>2, EndMeans
<1>4. SegmentEnd(s, q) = Len(s) + 1
  BY <1>1, <1>3
<1>5. ASSUME q < p
      PROVE  FALSE
  <2>1. s[p - 1] = Slash
    BY <1>2, <1>5, StartMeans
  <2>2. p - 1 \in q..(Len(s) + 1 - 1)
    BY <1>2, <1>5
  <2> QED
    BY <1>3, <1>4, <2>1, <2>2
<1> QED
  BY <1>1, <1>2, <1>4, <1>5

Operator(g) == g \in { matchOneTemplate, matchAnyTemplate }

\* A literal with {**}, at the end of a path that has no other operator.
Suffixed(s) ==
  /\ Len(s) >= 5 /\ AnyAt(s, Len(s) - 3)
  /\ PlainUpTo(s, Len(s) - 4) /\ s[Len(s) - 4] # Slash

\* Literals and operators, each a segment of its own, none after {**}.
Templated(s) ==
  /\ \A p \in Trimmed(s) : Operator(Segment(s, p)) \/ IsLiteral(Segment(s, p))
  /\ \A p, q \in Trimmed(s) : p < q /\ Segment(s, p) = matchAnyTemplate => ~Operator(Segment(s, q))

LEMMA TemplateSegment ==
  ASSUME NEW T, NEW s \in Seq(T), validateTemplatePath(s), NEW p \in Trimmed(s)
  PROVE  \/ /\ Operator(Segment(s, p))
            /\ \A q \in Trimmed(s) : q < p => Segment(s, q) # matchAnyTemplate
         \/ /\ ~Operator(Segment(s, p)) /\ IsSuffix(matchAnyTemplate, Segment(s, p))
            /\ IsLiteral(TrimSuffix(Segment(s, p), matchAnyTemplate))
            /\ \A q \in Trimmed(s) : q <= p
            /\ \A q \in Trimmed(s) : q < p => ~Operator(Segment(s, q))
         \/ IsLiteral(Segment(s, p))
<1> DEFINE segs == toPathSegments(s)
<1>1. \A q \in Trimmed(s) : segs[q] = Segment(s, q)
  BY TrimmedMeans
<1>2. DOMAIN segs = Trimmed(s)
  BY DEF Trimmed
<1>3. validateTemplatePathSegment(segs, p)
  BY <1>2, Zenon DEF validateTemplatePath
<1> HIDE DEF segs
<1>4. IF Operator(segs[p])
      THEN ~\E j \in DOMAIN segs : j < p /\ segs[j] = matchAnyTemplate
      ELSE IF IsSuffix(matchAnyTemplate, segs[p])
      THEN /\ IsLiteral(TrimSuffix(segs[p], matchAnyTemplate))
           /\ \A j \in DOMAIN segs : j <= p
           /\ ~\E j \in DOMAIN segs : j < p /\ segs[j] = matchAnyTemplate
           /\ ~\E j \in DOMAIN segs : j < p /\ segs[j] = matchOneTemplate
      ELSE IsLiteral(segs[p])
  BY <1>3, Zenon DEF validateTemplatePathSegment, Operator
<1>5. \A j : Operator(segs[j]) <=> segs[j] = matchOneTemplate \/ segs[j] = matchAnyTemplate
  BY Zenon DEF Operator
<1>6. \A q \in Trimmed(s) : Operator(segs[q]) <=> Operator(Segment(s, q))
  BY <1>1, Zenon
<1>7. CASE Operator(segs[p])
  BY <1>1, <1>2, <1>4, <1>6, <1>7, Zenon
<1>8. CASE ~Operator(segs[p]) /\ IsSuffix(matchAnyTemplate, segs[p])
  <2>1. /\ IsLiteral(TrimSuffix(segs[p], matchAnyTemplate))
        /\ \A j \in DOMAIN segs : j <= p
        /\ \A j \in DOMAIN segs : j < p => segs[j] # matchAnyTemplate /\ segs[j] # matchOneTemplate
    BY <1>4, <1>8, Zenon
  <2>2. \A q \in Trimmed(s) : q < p => ~Operator(Segment(s, q))
    BY <1>2, <1>5, <1>6, <2>1, Zenon
  <2>3. segs[p] = Segment(s, p)
    BY <1>1
  <2> QED
    BY <1>2, <1>8, <2>1, <2>2, <2>3, Zenon
<1>9. CASE ~Operator(segs[p]) /\ ~IsSuffix(matchAnyTemplate, segs[p])
  BY <1>1, <1>4, <1>9, Zenon
<1> QED
  BY <1>7, <1>8, <1>9, Zenon

LEMMA TemplateShape ==
  ASSUME NEW T, NEW s \in Seq(T), Len(s) >= 1, s[Len(s)] # Slash, validateTemplatePath(s)
  PROVE  Suffixed(s) \/ Templated(s)
<1>1. CASE \A p \in Trimmed(s) : Operator(Segment(s, p)) \/ IsLiteral(Segment(s, p))
  <2>1. ASSUME NEW p \in Trimmed(s), NEW q \in Trimmed(s), p < q,
               Segment(s, p) = matchAnyTemplate, Operator(Segment(s, q))
        PROVE  FALSE
    <3>1. \A x \in Trimmed(s) : x < q => Segment(s, x) # matchAnyTemplate
      <4>1. Segment(s, q) \in Seq(T)
        BY TrimmedMeans, SegmentMeans
      <4>2. ~IsLiteral(Segment(s, q))
        <5>1. Segment(s, q)[1] = Open /\ Len(Segment(s, q)) >= 1
          BY <2>1, OneTemplate, AnyTemplate DEF Operator
        <5>2. 1 \in 1..Len(Segment(s, q))
          BY <4>1, <5>1
        <5> QED
          BY <4>1, <5>1, <5>2, LiteralMeans, NotLiteral
      <4> QED
        BY <2>1, <4>2, TemplateSegment, Zenon
    <3> QED
      BY <2>1, <3>1
  <2> QED
    BY <1>1, <2>1, Zenon DEF Templated
<1>2. ASSUME NEW p \in Trimmed(s), ~Operator(Segment(s, p)), ~IsLiteral(Segment(s, p))
      PROVE  Suffixed(s)
  <2> DEFINE g == Segment(s, p)
             t == TrimSuffix(g, matchAnyTemplate)
  <2>1. /\ IsSuffix(matchAnyTemplate, g) /\ IsLiteral(t)
        /\ \A q \in Trimmed(s) : q <= p
        /\ \A q \in Trimmed(s) : q < p => ~Operator(Segment(s, q))
    BY <1>2, TemplateSegment, Zenon
  <2>2. SegmentEnd(s, p) = Len(s) + 1 /\ p \in 1..Len(s)
    BY <2>1, LastSegment, TrimmedMeans
  <2>3. g \in Seq(T) /\ Len(g) = Len(s) + 1 - p /\ \A k \in 1..(Len(s) + 1 - p) : g[k] = s[p + k - 1]
    BY <2>2, SegmentMeans
  <2> HIDE DEF g
  <2>4. t \in Seq(T) /\ Len(t) = Len(g) - 4 /\ \A i \in 1..(Len(g) - 4) : t[i] = g[i]
    <3> DEFINE m == Len(g) - 4
    <3>1. m \in 0..Len(g) /\ Len(g) - Len(matchAnyTemplate) = m
      BY <2>1, <2>3, EndsWithAny, AnyTemplate
    <3> HIDE DEF m
    <3>2. t \in Seq(T) /\ Len(t) = m /\ \A i \in 1..m : t[i] = g[i]
      BY <2>1, <2>3, <3>1, TrimMeans
    <3> QED
      BY <3>2 DEF m
  <2> HIDE DEF t
  <2>5. Len(t) >= 1 /\ \A i \in 1..Len(t) : t[i] \in Literal
    BY <2>1, <2>4, LiteralMeans
  <2>6. Len(g) >= 5 /\ AnyAt(g, Len(g) - 3) /\ Len(s) >= 5
    <3>1. Len(g) >= 4 /\ AnyAt(g, Len(g) - 3)
      BY <2>1, <2>3, EndsWithAny
    <3> QED
      BY <2>2, <2>3, <2>4, <2>5, <3>1
  <2>7. AnyAt(s, Len(s) - 3)
    <3> DEFINE n == Len(g) - 3
    <3>1. /\ n \in 1..(Len(s) + 1 - p) /\ n + 1 \in 1..(Len(s) + 1 - p)
          /\ n + 2 \in 1..(Len(s) + 1 - p) /\ n + 3 \in 1..(Len(s) + 1 - p)
          /\ p + n - 1 = Len(s) - 3 /\ p + (n + 1) - 1 = Len(s) - 3 + 1
          /\ p + (n + 2) - 1 = Len(s) - 3 + 2 /\ p + (n + 3) - 1 = Len(s) - 3 + 3
          /\ Len(s) - 3 + 3 <= Len(s)
      BY <2>2, <2>3, <2>6
    <3> HIDE DEF n
    <3>2. g[n] = Open /\ g[n + 1] = Star /\ g[n + 2] = Star /\ g[n + 3] = Close
      BY <2>6 DEF AnyAt, n
    <3>3. /\ g[n] = s[Len(s) - 3] /\ g[n + 1] = s[Len(s) - 3 + 1]
          /\ g[n + 2] = s[Len(s) - 3 + 2] /\ g[n + 3] = s[Len(s) - 3 + 3]
      BY <2>3, <3>1
    <3> QED
      BY <3>1, <3>2, <3>3 DEF AnyAt
  <2>8. ASSUME NEW i \in p..(Len(s) - 4)
        PROVE  s[i] \in Literal
    <3>1. i - p + 1 \in 1..(Len(s) + 1 - p) /\ i - p + 1 \in 1..Len(t) /\ p + (i - p + 1) - 1 = i
      BY <2>2, <2>3, <2>4
    <3>2. i - p + 1 \in 1..(Len(g) - 4)
      BY <3>1, <2>4
    <3>3. g[i - p + 1] = s[i]
      BY <2>3, <3>1
    <3>4. t[i - p + 1] = g[i - p + 1]
      BY <2>4, <3>2
    <3> QED
      BY <2>5, <3>1, <3>3, <3>4
  <2>9. ASSUME NEW i \in 1..(p - 1), s[i] # Slash
        PROVE  s[i] \in Literal
    <3>1. i \in 1..Len(s)
      BY <2>2
    <3>2. PICK q \in Trimmed(s) : q <= i /\ i < SegmentEnd(s, q)
      BY <2>9, <3>1, InSegment
    <3>3. q \in 1..(Len(s) + 1) /\ q < p /\ ~(p <= q)
      BY <2>2, <3>2, TrimmedMeans
    <3>4. IsLiteral(Segment(s, q))
      <4>1. ~Operator(Segment(s, q)) /\ p \in Trimmed(s)
        BY <2>1, <3>3
      <4> QED
        BY <3>3, <4>1, TemplateSegment, Zenon
    <3>5. SegmentEnd(s, q) \in q..(Len(s) + 1)
      BY <3>3, EndMeans
    <3>6. i \in q..(SegmentEnd(s, q) - 1)
      BY <3>2, <3>3, <3>5
    <3> QED
      BY <3>3, <3>4, <3>6, LiteralSegment
  <2>10. PlainUpTo(s, Len(s) - 4)
    <3> SUFFICES ASSUME NEW i \in 1..(Len(s) - 4), s[i] # Slash
                 PROVE  s[i] \in Literal
      BY DEF PlainUpTo
    <3>1. i \in p..(Len(s) - 4) \/ i \in 1..(p - 1)
      BY <2>2
    <3> QED
      BY <2>8, <2>9, <3>1
  <2>11. s[Len(s) - 4] # Slash
    <3>1. Len(s) - 4 \in p..(Len(s) - 4)
      BY <2>2, <2>3, <2>6
    <3> QED
      BY <2>8, <3>1, NotLiteral
  <2> QED
    BY <2>6, <2>7, <2>10, <2>11 DEF Suffixed
<1> QED
  BY <1>1, <1>2

\* The kinds of path, and what their validation asks.
LEMMA ValidMeans ==
  ASSUME NEW T, NEW s \in Seq(T), validatePath(s)
  PROVE  /\ Len(s) >= 1 /\ s[1] = Slash
         /\ \/ /\ ~Has(s, Braces) /\ \E i \in DOMAIN s : s[i] = Star
               /\ \A i \in DOMAIN s : s[i] = Star => i = Len(s)
               /\ validatePlainPathLiterals(TrimSuffix(s, << Star >>))
            \/ Has(s, Braces) /\ validateTemplatePath(s)
            \/ validatePlainPathLiterals(s)
<1> DEFINE kind == classifyPath(s)
           raw == hasRawAsteriskOutsideCurlyBrackets(s)
<1>1. IsPrefix(<< Slash >>, s)
  BY DEF validatePath
<1>2. (CASE kind = "error" -> FALSE
         [] kind = "legacyStar" -> validatePlainPathLiterals(TrimSuffix(s, << Star >>))
         [] kind = "template" -> validateTemplatePath(s)
         [] OTHER -> validatePlainPathLiterals(s))
  BY DEF validatePath
<1>3. \/ kind = "error"
      \/ kind = "legacyStar" /\ raw /\ ~Has(s, Braces) /\ \A i \in DOMAIN s : s[i] = Star => i = Len(s)
      \/ kind = "template" /\ Has(s, Braces)
      \/ kind = "plain"
  BY Zenon DEF classifyPath
<1>4. raw => \E i \in DOMAIN s : s[i] = Star
  BY Zenon DEF hasRawAsteriskOutsideCurlyBrackets
<1>5. Len(s) >= 1 /\ s[1] = Slash
  BY <1>1, BeginsWithChar
<1> HIDE DEF kind, raw
<1>6. /\ kind # "error"
      /\ kind = "legacyStar" => validatePlainPathLiterals(TrimSuffix(s, << Star >>))
      /\ kind = "template" => validateTemplatePath(s)
      /\ kind = "plain" => validatePlainPathLiterals(s)
  BY <1>2
<1> QED
  BY <1>3, <1>4, <1>5, <1>6, Zenon

LEMMA ValidShape ==
  ASSUME NEW T, NEW s \in Seq(T), validatePath(s), Len(s) = 1 \/ s[Len(s)] # Slash
  PROVE  /\ Len(s) >= 1 /\ s[1] = Slash
         /\ \/ PlainUpTo(s, Len(s))
            \/ Len(s) >= 2 /\ s[Len(s)] = Star /\ PlainUpTo(s, Len(s) - 1)
            \/ Suffixed(s)
            \/ Templated(s) /\ Has(s, Braces) /\ s[Len(s)] # Slash
<1>0. Len(s) >= 1 /\ s[1] = Slash
  BY ValidMeans
<1>1. CASE Len(s) = 1
  BY <1>0, <1>1 DEF PlainUpTo
<1>2. ASSUME s[Len(s)] # Slash, Has(s, Braces), validateTemplatePath(s)
      PROVE  Suffixed(s) \/ Templated(s)
  BY <1>0, <1>2, TemplateShape
<1>3. ASSUME validatePlainPathLiterals(s)
      PROVE  PlainUpTo(s, Len(s))
  BY <1>3, PlainLiterals
<1>4. ASSUME NEW i \in DOMAIN s, s[i] = Star, \A j \in DOMAIN s : s[j] = Star => j = Len(s),
             validatePlainPathLiterals(TrimSuffix(s, << Star >>))
      PROVE  Len(s) >= 2 /\ s[Len(s)] = Star /\ PlainUpTo(s, Len(s) - 1)
  <2>1. s[Len(s)] = Star
    BY <1>4
  <2>2. Len(s) >= 2
    BY <1>0, <2>1, Different
  <2> DEFINE m == Len(s) - 1
  <2>3. m \in 0..Len(s)
    BY <2>2
  <2> HIDE DEF m
  <2>4. PICK t \in Seq(T) : /\ t = TrimSuffix(s, << Star >>)
                            /\ Len(t) = m /\ \A k \in 1..m : t[k] = s[k]
    BY <2>1, <2>2, TrimStar DEF m
  <2>6. PlainUpTo(t, m)
    BY <1>4, <2>4, PlainLiterals
  <2>7. PlainUpTo(s, m)
    BY <2>4, <2>6 DEF PlainUpTo
  <2> QED
    BY <2>1, <2>2, <2>7 DEF m
<1> QED
  BY <1>0, <1>1, <1>2, <1>3, <1>4, ValidMeans

----------------------------------------------------------------------------
(* What Istio makes of it.                                                 *)

\* A path of slashes and literals, but for its last character.
LEMMA PlainHasNone ==
  ASSUME NEW T, NEW s \in Seq(T), NEW n \in 0..Len(s), PlainUpTo(s, n),
         n >= Len(s) - 1, n < Len(s) => s[Len(s)] = Star
  PROVE  /\ \A i \in 1..Len(s) : s[i] \notin Braces
         /\ ~Has(s, Braces)
         /\ ~ContainsSeq(s, matchOneTemplate) /\ ~ContainsSeq(s, matchAnyTemplate)
         /\ ~IsSuffix(matchAnyTemplate, s)
<1>1. ASSUME NEW i \in 1..Len(s)
      PROVE  s[i] # Open /\ s[i] # Close
  <2>1. CASE i <= n
    <3>1. i \in 1..n
      BY <2>1
    <3> QED
      BY <3>1, NotLiteral, Different DEF PlainUpTo
  <2>2. CASE i > n
    <3>1. i = Len(s) /\ n < Len(s)
      BY <2>2
    <3> QED
      BY <3>1, Different
  <2> QED
    BY <2>1, <2>2
<1>2. \A i \in 1..Len(s) : s[i] \notin Braces
  BY <1>1 DEF Braces
<1>3. ~Has(s, Braces)
  BY <1>2, HasMeans
<1>4. ~ContainsSeq(s, matchOneTemplate)
  BY <1>1, ContainsOne DEF OneAt
<1>5. ~ContainsSeq(s, matchAnyTemplate)
  BY <1>1, ContainsAny DEF AnyAt
<1>6. ~IsSuffix(matchAnyTemplate, s)
  <2> SUFFICES ASSUME Len(s) >= 4, AnyAt(s, Len(s) - 3)
               PROVE  FALSE
    BY EndsWithAny
  <2>1. Len(s) - 3 \in 1..Len(s) /\ s[Len(s) - 3] = Open
    BY DEF AnyAt
  <2> QED
    BY <1>1, <2>1
<1> QED
  BY <1>2, <1>3, <1>4, <1>5, <1>6

\* Braces nowhere, and no operator: there is nothing to refuse.
LEMMA PlainAccepted ==
  ASSUME NEW T, NEW s \in Seq(T), \A i \in 1..Len(s) : s[i] \notin Braces,
         ~ContainsSeq(s, matchOneTemplate), ~ContainsSeq(s, matchAnyTemplate)
  PROVE  IstioAccepts(s)
<1> DEFINE segs == toPathSegments(s)
<1>1. ASSUME NEW p \in Trimmed(s)
      PROVE  ~Operator(Segment(s, p)) /\ ~Has(Segment(s, p), Braces) /\ segs[p] = Segment(s, p)
  <2>1. p \in 1..(Len(s) + 1) /\ segs[p] = Segment(s, p)
    BY TrimmedMeans
  <2>2. SegmentEnd(s, p) \in p..(Len(s) + 1)
    BY <2>1, EndMeans
  <2>3. \A i \in p..(SegmentEnd(s, p) - 1) : i \in 1..Len(s)
    BY <2>1, <2>2
  <2>4. ~Has(Segment(s, p), Braces)
    BY <2>1, <2>3, SegmentHas
  <2>5. Segment(s, p) # matchOneTemplate
    <3> SUFFICES ASSUME OneAt(s, p)
                 PROVE  FALSE
      BY <2>1, OneSegment
    <3>1. p \in 1..Len(s) /\ s[p] = Open
      BY <2>1 DEF OneAt
    <3> QED
      BY <3>1 DEF Braces
  <2>6. Segment(s, p) # matchAnyTemplate
    <3> SUFFICES ASSUME AnyAt(s, p)
                 PROVE  FALSE
      BY <2>1, AnySegment
    <3>1. p \in 1..Len(s) /\ s[p] = Open
      BY <2>1 DEF AnyAt
    <3> QED
      BY <3>1 DEF Braces
  <2> QED
    BY <2>1, <2>4, <2>5, <2>6 DEF Operator
<1> HIDE DEF segs
<1>2. DOMAIN segs = Trimmed(s)
  BY DEF Trimmed, segs
<1>3. \A p \in DOMAIN segs : segs[p] \notin { matchOneTemplate, matchAnyTemplate } /\ ~Has(segs[p], Braces)
  BY <1>1, <1>2, Zenon DEF Operator
<1>4. ASSUME NEW i \in DOMAIN segs
      PROVE  IF segs[i] \in { matchOneTemplate, matchAnyTemplate }
             THEN \A j \in DOMAIN segs : j < i => segs[j] # matchAnyTemplate
             ELSE /\ ~Has(segs[i], Braces)
                  /\ ContainsSeq(s, matchOneTemplate) \/ ContainsSeq(s, matchAnyTemplate) => IsLiteral(segs[i])
  BY <1>3, Zenon
<1> QED
  BY <1>4, Zenon DEF IstioAccepts, segs

\* The path that is written for a literal with {**}: the same with an asterisk.
LEMMA SuffixedTransform ==
  ASSUME NEW T, NEW s \in Seq(T), Suffixed(s), NEW u, u = transformPathForIstio(s)
  PROVE  /\ u \in Seq(T \cup { Star }) /\ Len(u) = Len(s) - 3 /\ u[Len(s) - 3] = Star
         /\ SameUpTo(u, s, Len(s) - 4)
         /\ PlainUpTo(u, Len(s) - 4)
<1> DEFINE m == Len(s) - 4
           t == TrimSuffix(s, matchAnyTemplate)
<1>1. IsSuffix(matchAnyTemplate, s) /\ Len(s) >= 5
  BY EndsWithAny DEF Suffixed
<1>2. m \in 0..Len(s) /\ m >= 1 /\ Len(s) - Len(matchAnyTemplate) = m /\ m + 1 = Len(s) - 3
  BY <1>1, AnyTemplate
<1>2a. PlainUpTo(s, m) /\ s[m] # Slash
  BY DEF Suffixed
<1> HIDE DEF m
<1>3. t \in Seq(T) /\ Len(t) = m /\ \A i \in 1..m : t[i] = s[i]
  BY <1>1, <1>2, TrimMeans
<1> HIDE DEF t
<1>4. PlainUpTo(t, m)
  BY <1>2a, <1>3 DEF PlainUpTo
<1>5. ~ContainsSeq(t, matchOneTemplate) /\ ~ContainsSeq(t, matchAnyTemplate)
  BY <1>2, <1>3, <1>4, PlainHasNone
<1>6. ~IsSuffix(<< Slash >>, t)
  BY <1>2, <1>2a, <1>3, EndsWithChar
<1>7. u = Append(t, Star)
  BY <1>1, <1>5, <1>6, Zenon DEF transformPathForIstio, t
<1>8. /\ Append(t, Star) \in Seq(T \cup { Star }) /\ Len(Append(t, Star)) = m + 1
      /\ Append(t, Star)[m + 1] = Star /\ \A i \in 1..m : Append(t, Star)[i] = t[i]
  <2>1. t \in Seq(T \cup { Star }) /\ Star \in T \cup { Star }
    BY <1>3
  <2> QED
    BY <1>2, <1>3, <2>1
<1>9. u \in Seq(T \cup { Star }) /\ Len(u) = m + 1 /\ u[m + 1] = Star /\ \A i \in 1..m : u[i] = s[i]
  BY <1>3, <1>7, <1>8
<1>10. PlainUpTo(u, m)
  BY <1>2a, <1>9 DEF PlainUpTo
<1> QED
  BY <1>2, <1>9, <1>10 DEF m, SameUpTo

\* Where an operator stands, and what its segment is.
LEMMA OperatorSegment ==
  ASSUME NEW T, NEW s \in Seq(T), NEW p \in Trimmed(s)
  PROVE  /\ p \in 1..(Len(s) + 1)
         /\ Operator(Segment(s, p)) <=>
              \/ SegmentEnd(s, p) = p + 3 /\ OneAt(s, p)
              \/ SegmentEnd(s, p) = p + 4 /\ AnyAt(s, p)
BY TrimmedMeans, OneSegment, AnySegment DEF Operator

\* An opening brace begins a segment that is an operator.
LEMMA OpenStarts ==
  ASSUME NEW T, NEW s \in Seq(T), Templated(s), NEW i \in 1..Len(s), s[i] = Open
  PROVE  i \in Trimmed(s) /\ Operator(Segment(s, i))
<1>1. s[i] # Slash
  BY Different
<1>2. PICK p \in Trimmed(s) : p <= i /\ i < SegmentEnd(s, p)
  BY <1>1, InSegment
<1>3. p \in 1..(Len(s) + 1)
  BY TrimmedMeans
<1>4. SegmentEnd(s, p) \in p..(Len(s) + 1)
  BY <1>3, EndMeans
<1>5. i \in p..(SegmentEnd(s, p) - 1)
  BY <1>2, <1>3, <1>4
<1>6. ~IsLiteral(Segment(s, p))
  BY <1>3, <1>5, LiteralSegment, NotLiteral
<1>7. Operator(Segment(s, p))
  BY <1>6 DEF Templated
<1>8. i = p
  <2>1. CASE SegmentEnd(s, p) = p + 3 /\ OneAt(s, p)
    <3>1. i = p \/ i = p + 1 \/ i = p + 2
      BY <1>3, <1>5, <2>1
    <3>2. s[p + 1] # Open /\ s[p + 2] # Open
      BY <2>1, Different DEF OneAt
    <3> QED
      BY <3>1, <3>2
  <2>2. CASE SegmentEnd(s, p) = p + 4 /\ AnyAt(s, p)
    <3>1. i = p \/ i = p + 1 \/ i = p + 2 \/ i = p + 3
      BY <1>3, <1>5, <2>2
    <3>2. s[p + 1] # Open /\ s[p + 2] # Open /\ s[p + 3] # Open
      BY <2>2, Different DEF AnyAt
    <3> QED
      BY <3>1, <3>2
  <2> QED
    BY <1>7, <2>1, <2>2, OperatorSegment
<1> QED
  BY <1>7, <1>8

LEMMA TemplatedTransform ==
  ASSUME NEW T, NEW s \in Seq(T), Templated(s), s[1] = Slash
  PROVE  transformPathForIstio(s) = s
<1>1. CASE ~IsSuffix(matchAnyTemplate, s)
  BY <1>1, Zenon DEF transformPathForIstio
<1>2. CASE IsSuffix(matchAnyTemplate, s)
  <2> DEFINE m == Len(s) - 4
             t == TrimSuffix(s, matchAnyTemplate)
  <2>1. Len(s) >= 4 /\ AnyAt(s, Len(s) - 3)
    BY <1>2, EndsWithAny
  <2>2. m \in 0..Len(s) /\ Len(s) - Len(matchAnyTemplate) = m /\ m + 1 = Len(s) - 3
    BY <2>1, AnyTemplate
  <2> HIDE DEF m
  <2>3. t \in Seq(T) /\ Len(t) = m /\ \A i \in 1..m : t[i] = s[i]
    BY <1>2, <2>2, TrimMeans
  <2> HIDE DEF t
  <2>4. m + 1 \in 1..Len(s) /\ s[m + 1] = Open
    BY <2>1, <2>2 DEF AnyAt
  <2>5. m + 1 \in SegmentStarts(s)
    BY <2>4, OpenStarts, TrimmedMeans
  <2>6. m + 1 # 1
    BY <2>4, Different
  <2>7. s[m] = Slash /\ m >= 1
    <3> DEFINE q == m + 1
    <3>1. q - 1 = m /\ q # 1 /\ m >= 1
      BY <2>2, <2>6
    <3>2. q \in SegmentStarts(s)
      BY <2>5
    <3> HIDE DEF q
    <3>3. s[q - 1] = Slash
      BY <3>1, <3>2, StartMeans
    <3> QED
      BY <3>1, <3>3
  <2>8. IsSuffix(<< Slash >>, t)
    <3>1. t[m] = Slash
      BY <2>2, <2>3, <2>7
    <3> QED
      BY <2>3, <2>7, <3>1, EndsWithChar
  <2> QED
    BY <2>8, Zenon DEF transformPathForIstio, t
<1> QED
  BY <1>1, <1>2

LEMMA TemplatedAccepted ==
  ASSUME NEW T, NEW s \in Seq(T), Templated(s)
  PROVE  IstioAccepts(s)
<1> DEFINE segs == toPathSegments(s)
<1>1. ASSUME NEW p \in Trimmed(s), IsLiteral(Segment(s, p))
      PROVE  ~Has(Segment(s, p), Braces)
  <2>1. p \in 1..(Len(s) + 1)
    BY TrimmedMeans
  <2>2. \A i \in p..(SegmentEnd(s, p) - 1) : s[i] \in Literal
    BY <1>1, <2>1, LiteralSegment
  <2>3. \A c \in Literal : c \notin Braces
    BY NotLiteral DEF Braces
  <2> QED
    BY <2>1, <2>2, <2>3, SegmentHas
<1>2. \A p \in Trimmed(s) : segs[p] = Segment(s, p)
  BY TrimmedMeans
<1>3. DOMAIN segs = Trimmed(s)
  BY DEF Trimmed
<1> HIDE DEF segs
<1>4. ASSUME NEW i \in DOMAIN segs
      PROVE  IF segs[i] \in { matchOneTemplate, matchAnyTemplate }
             THEN \A j \in DOMAIN segs : j < i => segs[j] # matchAnyTemplate
             ELSE /\ ~Has(segs[i], Braces)
                  /\ ContainsSeq(s, matchOneTemplate) \/ ContainsSeq(s, matchAnyTemplate) => IsLiteral(segs[i])
  <2>1. i \in Trimmed(s) /\ segs[i] = Segment(s, i)
    BY <1>2, <1>3
  <2>2. CASE Operator(Segment(s, i))
    <3>1. \A j \in Trimmed(s) : j < i => Segment(s, j) # matchAnyTemplate
      BY <2>1, <2>2, Zenon DEF Templated
    <3>2. segs[i] \in { matchOneTemplate, matchAnyTemplate }
      BY <2>1, <2>2, Zenon DEF Operator
    <3> QED
      BY <1>2, <1>3, <3>1, <3>2, Zenon
  <2>3. CASE ~Operator(Segment(s, i))
    <3>1. segs[i] \notin { matchOneTemplate, matchAnyTemplate }
      BY <2>1, <2>3, Zenon DEF Operator
    <3>2. IsLiteral(Segment(s, i))
      BY <2>1, <2>3, Zenon DEF Templated
    <3>3. ~Has(Segment(s, i), Braces)
      BY <1>1, <2>1, <3>2
    <3> QED
      BY <2>1, <3>1, <3>2, <3>3, Zenon
  <2> QED
    BY <2>2, <2>3
<1> QED
  BY <1>4, Zenon DEF IstioAccepts, segs

\* What passed the validation, Istio takes.
LEMMA ValidAccepted ==
  ASSUME NEW T, NEW s \in Seq(T), validatePath(s), Len(s) = 1 \/ s[Len(s)] # Slash
  PROVE  IstioAccepts(transformPathForIstio(s))
<1> DEFINE u == transformPathForIstio(s)
<1>0. Len(s) >= 1 /\ s[1] = Slash
  BY ValidShape
<1>1. ASSUME NEW n \in 0..Len(s), PlainUpTo(s, n), n >= Len(s) - 1, n < Len(s) => s[Len(s)] = Star
      PROVE  IstioAccepts(s) /\ transformPathForIstio(s) = s
  <2>1. /\ \A i \in 1..Len(s) : s[i] \notin Braces
        /\ ~ContainsSeq(s, matchOneTemplate) /\ ~ContainsSeq(s, matchAnyTemplate)
        /\ ~IsSuffix(matchAnyTemplate, s)
    BY <1>1, PlainHasNone
  <2>2. transformPathForIstio(s) = s
    BY <2>1, Zenon DEF transformPathForIstio
  <2> QED
    BY <2>1, <2>2, PlainAccepted
<1>2. CASE PlainUpTo(s, Len(s))
  BY <1>1, <1>2
<1>3. CASE Len(s) >= 2 /\ s[Len(s)] = Star /\ PlainUpTo(s, Len(s) - 1)
  <2> DEFINE n == Len(s) - 1
  <2>1. n \in 0..Len(s) /\ n >= Len(s) - 1 /\ PlainUpTo(s, n)
    BY <1>3
  <2> HIDE DEF n
  <2> QED
    BY <1>1, <1>3, <2>1
<1>4. CASE Suffixed(s)
  <2> DEFINE n == Len(s) - 4
  <2>1. /\ u \in Seq(T \cup { Star }) /\ Len(u) = Len(s) - 3 /\ u[Len(s) - 3] = Star
        /\ PlainUpTo(u, n)
    BY <1>4, SuffixedTransform
  <2>2. n \in 0..Len(u) /\ n >= Len(u) - 1 /\ u[Len(u)] = Star
    BY <1>4, <2>1 DEF Suffixed
  <2> HIDE DEF n, u
  <2>3. PICK U : u \in Seq(U)
    BY <2>1
  <2>4. /\ \A i \in 1..Len(u) : u[i] \notin Braces
        /\ ~ContainsSeq(u, matchOneTemplate) /\ ~ContainsSeq(u, matchAnyTemplate)
    BY <2>1, <2>2, <2>3, PlainHasNone
  <2>5. IstioAccepts(u)
    BY <2>3, <2>4, PlainAccepted
  <2> QED
    BY <2>5 DEF u
<1>5. CASE Templated(s)
  BY <1>0, <1>5, TemplatedTransform, TemplatedAccepted
<1> QED
  BY <1>2, <1>3, <1>4, <1>5, ValidShape

----------------------------------------------------------------------------
(* The two matchers are defined by recursion: each defines something.      *)

\* A function on 1..n whose value at p follows from one further on.
Defined(n, m, V, base, next, F) ==
  \E g \in [1..n -> V] :
    \A p \in 1..n : g[p] = IF p > m THEN base ELSE F[<< p, g[next[p]] >>]

LEMMA Downward ==
  ASSUME NEW n \in Nat, NEW m \in 0..n, NEW V, NEW base \in V,
         NEW next \in [1..m -> 1..n], \A p \in 1..m : next[p] > p,
         NEW F \in [(1..m) \X V -> V]
  PROVE  Defined(n, m, V, base, next, F)
<1> DEFINE Good(g, a) ==
             \A p \in a..n : g[p] = IF p > m THEN base ELSE F[<< p, g[next[p]] >>]
           S == { k \in Nat : k <= n => \E g \in [(n - k + 1)..n -> V] : Good(g, n - k + 1) }
<1>1. 0 \in S
  <2> DEFINE g == [ p \in (n - 0 + 1)..n |-> base ]
  <2>1. g \in [(n - 0 + 1)..n -> V] /\ Good(g, n - 0 + 1)
    OBVIOUS
  <2> QED
    BY <2>1
<1>2. ASSUME NEW k \in Nat, k \in S
      PROVE  k + 1 \in S
  <2> SUFFICES ASSUME k + 1 <= n
               PROVE  \E g \in [(n - (k + 1) + 1)..n -> V] : Good(g, n - (k + 1) + 1)
    OBVIOUS
  <2> DEFINE a == n - k
  <2>1. a \in 1..n /\ n - (k + 1) + 1 = a /\ n - k + 1 = a + 1 /\ k <= n
    OBVIOUS
  <2>2. \E g \in [(n - k + 1)..n -> V] : Good(g, n - k + 1)
    BY <1>2, <2>1
  <2> HIDE DEF a
  <2>3. PICK g \in [(a + 1)..n -> V] : Good(g, a + 1)
    BY <2>1, <2>2
  <2> DEFINE v == IF a > m THEN base ELSE F[<< a, g[next[a]] >>]
             h == [ p \in a..n |-> IF p = a THEN v ELSE g[p] ]
  <2>4. a <= m => next[a] \in (a + 1)..n
    <3> SUFFICES ASSUME a <= m
                 PROVE  next[a] \in (a + 1)..n
      OBVIOUS
    <3>1. a \in 1..m
      BY <2>1
    <3>2. next[a] \in 1..n /\ next[a] > a
      BY <3>1
    <3> QED
      BY <2>1, <3>2
  <2>5. v \in V
    <3>1. CASE a > m
      BY <3>1
    <3>2. CASE ~(a > m)
      <4>1. g[next[a]] \in V /\ a \in 1..m
        BY <2>1, <2>4, <3>2
      <4>2. << a, g[next[a]] >> \in (1..m) \X V
        BY <4>1
      <4>3. F[<< a, g[next[a]] >>] \in V
        BY <4>2
      <4> QED
        BY <3>2, <4>3
    <3> QED
      BY <3>1, <3>2
  <2>v. v = IF a > m THEN base ELSE F[<< a, g[next[a]] >>]
    OBVIOUS
  <2> HIDE DEF v
  <2>6. /\ h \in [a..n -> V] /\ h[a] = v
        /\ \A p \in (a + 1)..n : h[p] = g[p]
    <3>1. \A p \in a..n : p = a \/ p \in (a + 1)..n
      BY <2>1
    <3>2. \A p \in (a + 1)..n : p # a /\ p \in a..n
      BY <2>1
    <3> QED
      BY <2>1, <2>5, <3>1, <3>2
  <2> HIDE DEF h
  <2>7. ASSUME NEW p \in a..n
        PROVE  h[p] = IF p > m THEN base ELSE F[<< p, h[next[p]] >>]
    <3>1. CASE p = a
      <4>1. a <= m => h[next[a]] = g[next[a]]
        BY <2>4, <2>6
      <4>2. CASE a > m
        BY <2>6, <2>v, <3>1, <4>2
      <4>3. CASE ~(a > m)
        <5>1. h[next[a]] = g[next[a]]
          BY <2>1, <4>1, <4>3
        <5>2. h[a] = F[<< a, g[next[a]] >>]
          BY <2>6, <2>v, <4>3
        <5>3. h[a] = F[<< a, h[next[a]] >>]
          BY ONLY <5>1, <5>2, Zenon
        <5> QED
          BY <3>1, <4>3, <5>3, Zenon
      <4> QED
        BY <4>2, <4>3
    <3>2. CASE p # a
      <4>1. p \in (a + 1)..n
        BY <2>1, <3>2
      <4>2. h[p] = IF p > m THEN base ELSE F[<< p, g[next[p]] >>]
        BY <2>3, <2>6, <4>1
      <4>3. p <= m => next[p] \in (a + 1)..n
        <5> SUFFICES ASSUME p <= m
                     PROVE  next[p] \in (a + 1)..n
          OBVIOUS
        <5>1. p \in 1..m
          BY <2>1, <4>1
        <5>2. next[p] \in 1..n /\ next[p] > p
          BY <5>1
        <5> QED
          BY <2>1, <4>1, <5>2
      <4>4. p <= m => h[next[p]] = g[next[p]]
        BY <2>6, <4>3
      <4>5. CASE p > m
        BY <4>2, <4>5
      <4>6. CASE ~(p > m)
        <5>1. h[next[p]] = g[next[p]]
          BY <2>1, <4>1, <4>4, <4>6
        <5>2. h[p] = F[<< p, g[next[p]] >>]
          BY <4>2, <4>6
        <5>3. h[p] = F[<< p, h[next[p]] >>]
          BY ONLY <5>1, <5>2, Zenon
        <5> QED
          BY <4>6, <5>3, Zenon
      <4> QED
        BY <4>5, <4>6
    <3> QED
      BY <3>1, <3>2
  <2> QED
    BY <2>1, <2>6, <2>7
<1>3. n \in S
  <2> HIDE DEF S
  <2> QED
    BY <1>1, <1>2, Induction
<1>4. n - n + 1 = 1 /\ n <= n
  OBVIOUS
<1> QED
  BY <1>3, <1>4 DEF Defined

\* The Lua matcher, one item at a time.
LEMMA LuaUnfold ==
  ASSUME NEW T, NEW items \in Seq(T), NEW U, NEW req \in Seq(U)
  PROVE  /\ LuaFrom(items, req)[Len(items) + 1] = { Len(req) + 1 }
         /\ \A i \in 1..(Len(items) + 1) : LuaFrom(items, req)[i] \subseteq 1..(Len(req) + 1)
         /\ \A i \in 1..Len(items) : \A j \in 1..(Len(req) + 1) :
              j \in LuaFrom(items, req)[i] <=>
                \E k \in LuaFrom(items, req)[i + 1] : k >= j /\ Takes(items[i], req, j, k)
<1> DEFINE m == Len(items)
           n == Len(items) + 1
           P == 1..(Len(req) + 1)
           V == SUBSET P
           Step(i, rest) == { j \in P : \E k \in rest : k >= j /\ Takes(items[i], req, j, k) }
           Body(g) == [ i \in 1..n |-> IF i > m THEN { Len(req) + 1 } ELSE Step(i, g[i + 1]) ]
           next == [ i \in 1..m |-> i + 1 ]
           F == [ x \in (1..m) \X V |-> Step(x[1], x[2]) ]
<1>1. \E h : h = Body(h)
  <2>1. n \in Nat /\ m \in 0..n /\ { Len(req) + 1 } \in V
    OBVIOUS
  <2>2. next \in [1..m -> 1..n] /\ \A p \in 1..m : next[p] > p /\ next[p] = p + 1
    OBVIOUS
  <2>3. \A i, rest : Step(i, rest) \in V
    BY Zenon
  <2>4. F \in [(1..m) \X V -> V]
    <3> HIDE DEF Step
    <3> QED
      BY <2>3, Zenon
  <2>5. \A i \in 1..m : \A v \in V : F[<< i, v >>] = Step(i, v)
    <3> HIDE DEF Step, V, m
    <3> QED
      OBVIOUS
  <2> DEFINE base == { Len(req) + 1 }
  <2> HIDE DEF n, m, V, Step, next, F, P, base
  <2>a. base \in V /\ \A p \in 1..m : next[p] > p
    BY <2>1, <2>2 DEF base
  <2>b. \E g \in [1..n -> V] :
          \A p \in 1..n : g[p] = IF p > m THEN base ELSE F[<< p, g[next[p]] >>]
    <3>1. n \in Nat
      BY <2>1
    <3>2. m \in 0..n
      BY <2>1
    <3>3. base \in V
      BY <2>a
    <3>4. next \in [1..m -> 1..n]
      BY <2>2
    <3>5. \A p \in 1..m : next[p] > p
      BY <2>a
    <3>6. Defined(n, m, V, base, next, F)
      BY ONLY <2>4, <3>1, <3>2, <3>3, <3>4, <3>5, Downward
    <3> QED
      BY <3>6, Zenon DEF Defined
  <2>6. PICK g \in [1..n -> V] :
          \A p \in 1..n : g[p] = IF p > m THEN { Len(req) + 1 } ELSE F[<< p, g[next[p]] >>]
    BY <2>b, Zenon DEF base
  <2>7. ASSUME NEW p \in 1..n
        PROVE  g[p] = IF p > m THEN { Len(req) + 1 } ELSE Step(p, g[p + 1])
    <3>1. CASE p > m
      BY <2>6, <3>1
    <3>2. CASE ~(p > m)
      <4>1. p \in 1..m
        BY <2>1, <3>2
      <4>2. next[p] = p + 1 /\ next[p] \in 1..n
        BY <2>2, <4>1
      <4>3. g[p + 1] \in V
        BY <4>2
      <4>4. g[p] = F[<< p, g[p + 1] >>]
        BY <2>6, <3>2, <4>2, Zenon
      <4>5. F[<< p, g[p + 1] >>] = Step(p, g[p + 1])
        BY <2>5, <4>1, <4>3
      <4> QED
        BY <3>2, <4>4, <4>5, Zenon
    <3> QED
      BY <3>1, <3>2
  <2>8. g = [ p \in 1..n |-> g[p] ]
    OBVIOUS
  <2>9. g = Body(g)
    BY <2>7, <2>8, Zenon
  <2> QED
    BY <2>9, Zenon
<1>2. LuaFrom(items, req) = Body(LuaFrom(items, req))
  BY <1>1, Zenon DEF LuaFrom
<1> DEFINE from == LuaFrom(items, req)
<1> HIDE DEF from
<1>3. \A i \in 1..n : from[i] = IF i > m THEN { Len(req) + 1 } ELSE Step(i, from[i + 1])
  <2>1. from = Body(from)
    BY <1>2 DEF from
  <2> HIDE DEF Step, n, m
  <2> QED
    BY <2>1, Zenon
<1>4. from[m + 1] = { Len(req) + 1 }
  <2>1. m + 1 \in 1..n /\ m + 1 > m
    OBVIOUS
  <2> HIDE DEF n, m, Step
  <2> QED
    BY <1>3, <2>1
<1>5. \A i \in 1..m : from[i] = Step(i, from[i + 1])
  <2>1. \A i \in 1..m : i \in 1..n /\ ~(i > m)
    OBVIOUS
  <2> HIDE DEF n, m, Step
  <2> QED
    BY <1>3, <2>1, Zenon
<1>6. \A i \in 1..n : from[i] \subseteq P
  <2>1. \A i, rest : Step(i, rest) \subseteq P
    OBVIOUS
  <2>2. { Len(req) + 1 } \subseteq P
    OBVIOUS
  <2> HIDE DEF n, m, Step, P
  <2> QED
    BY <1>3, <2>1, <2>2
<1>7. \A i \in 1..m : \A j \in P :
        j \in from[i] <=> \E k \in from[i + 1] : k >= j /\ Takes(items[i], req, j, k)
  BY <1>5, Zenon
<1> QED
  BY <1>4, <1>6, <1>7 DEF from

\* The template matcher, one segment at a time: seg takes what begins at q,
\* when the segments after it match from each position of rest.
Fits(seg, req, q, rest) ==
  \/ /\ seg = matchAnyTemplate
     /\ \E k \in SegmentStarts(req) : q <= k /\ SegmentEnd(req, k) + 1 \in rest
  \/ /\ seg = matchOneTemplate
     /\ SegmentEnd(req, q) + 1 \in rest
     /\ Segment(req, q) # << >>
  \/ /\ SegmentEnd(req, q) + 1 \in rest
     /\ Segment(req, q) = seg

LEMMA TemplateUnfold ==
  ASSUME NEW T, NEW s \in Seq(T), NEW U, NEW req \in Seq(U), NEW from, from = TemplateFrom(s, req)
  PROVE  /\ from[Len(s) + 2] = { Len(req) + 2 }
         /\ \A p \in 1..(Len(s) + 1) : \A q :
              q \in from[p] <=>
                q \in SegmentStarts(req) /\ Fits(Segment(s, p), req, q, from[SegmentEnd(s, p) + 1])
<1> DEFINE m == Len(s) + 1
           n == Len(s) + 2
           P == 1..(Len(req) + 2)
           V == SUBSET P
           Step(p, rest) ==
             LET seg == Segment(s, p)
                 ends == { q \in SegmentStarts(req) : SegmentEnd(req, q) + 1 \in rest }
             IN  { q \in SegmentStarts(req) :
                     \/ seg = matchAnyTemplate /\ \E k \in ends : q <= k
                     \/ seg = matchOneTemplate /\ q \in ends /\ Segment(req, q) # << >>
                     \/ q \in ends /\ Segment(req, q) = seg }
           Body(g) == [ p \in 1..n |-> IF p > m THEN { Len(req) + 2 }
                                       ELSE Step(p, g[SegmentEnd(s, p) + 1]) ]
           next == [ p \in 1..m |-> SegmentEnd(s, p) + 1 ]
           F == [ x \in (1..m) \X V |-> Step(x[1], x[2]) ]
<1>1. \E h : h = Body(h)
  <2>1. n \in Nat /\ m \in 0..n /\ { Len(req) + 2 } \in V
    OBVIOUS
  <2>2. \A p \in 1..m : SegmentEnd(s, p) \in p..m
    BY EndMeans
  <2>c. /\ next \in [1..m -> 1..n]
        /\ \A p \in 1..m : next[p] > p /\ next[p] = SegmentEnd(s, p) + 1
    <3>1. ASSUME NEW p \in 1..m
          PROVE  SegmentEnd(s, p) + 1 \in 1..n /\ SegmentEnd(s, p) + 1 > p
      <4>1. SegmentEnd(s, p) \in p..m
        BY <2>2
      <4> QED
        BY <4>1
    <3>2. \A p \in 1..m : next[p] = SegmentEnd(s, p) + 1
      OBVIOUS
    <3>3. next \in [1..m -> 1..n]
      BY <3>1, Zenon
    <3> HIDE DEF next
    <3> QED
      BY <3>1, <3>2, <3>3
  <2>3. \A p, rest : Step(p, rest) \in V
    <3>1. SegmentStarts(req) \subseteq P
      BY DEF SegmentStarts
    <3>2. \A p, rest : Step(p, rest) \subseteq SegmentStarts(req)
      BY Zenon
    <3> HIDE DEF Step, P
    <3> QED
      BY <3>1, <3>2
  <2>4. F \in [(1..m) \X V -> V]
    <3> HIDE DEF Step
    <3> QED
      BY <2>3, Zenon
  <2>5. \A p \in 1..m : \A v \in V : F[<< p, v >>] = Step(p, v)
    <3> HIDE DEF Step, V, m
    <3> QED
      OBVIOUS
  <2> DEFINE base == { Len(req) + 2 }
  <2> HIDE DEF n, m, V, Step, next, F, P, base
  <2>6. PICK g \in [1..n -> V] :
          \A p \in 1..n : g[p] = IF p > m THEN { Len(req) + 2 } ELSE F[<< p, g[next[p]] >>]
    <3>1. n \in Nat
      BY <2>1
    <3>2. m \in 0..n
      BY <2>1
    <3>3. base \in V
      BY <2>1 DEF base
    <3>4. next \in [1..m -> 1..n]
      BY <2>c
    <3>5. \A p \in 1..m : next[p] > p
      BY <2>c
    <3>6. Defined(n, m, V, base, next, F)
      BY ONLY <2>4, <3>1, <3>2, <3>3, <3>4, <3>5, Downward
    <3> QED
      BY <3>6, Zenon DEF Defined, base
  <2>7. ASSUME NEW p \in 1..n
        PROVE  g[p] = IF p > m THEN { Len(req) + 2 } ELSE Step(p, g[SegmentEnd(s, p) + 1])
    <3>1. CASE p > m
      BY <2>6, <3>1
    <3>2. CASE ~(p > m)
      <4>1. p \in 1..m
        BY <2>1, <3>2
      <4>2. next[p] = SegmentEnd(s, p) + 1 /\ next[p] \in 1..n
        BY <2>c, <4>1
      <4>3. g[SegmentEnd(s, p) + 1] \in V
        BY <4>2
      <4>4. g[p] = F[<< p, g[SegmentEnd(s, p) + 1] >>]
        BY <2>6, <3>2, <4>2, Zenon
      <4>5. F[<< p, g[SegmentEnd(s, p) + 1] >>] = Step(p, g[SegmentEnd(s, p) + 1])
        BY <2>5, <4>1, <4>3
      <4> QED
        BY <3>2, <4>4, <4>5, Zenon
    <3> QED
      BY <3>1, <3>2
  <2>8. g = [ p \in 1..n |-> g[p] ]
    OBVIOUS
  <2>9. g = Body(g)
    BY <2>7, <2>8, Zenon
  <2> QED
    BY <2>9, Zenon
<1>2. from = Body(from)
  <2>1. TemplateFrom(s, req) = Body(TemplateFrom(s, req))
    BY <1>1, Zenon DEF TemplateFrom
  <2> QED
    BY <2>1, Zenon
<1>3. \A p \in 1..n : from[p] = IF p > m THEN { Len(req) + 2 } ELSE Step(p, from[SegmentEnd(s, p) + 1])
  <2> HIDE DEF Step, n, m
  <2> QED
    BY <1>2, Zenon
<1>4. from[n] = { Len(req) + 2 }
  <2>1. n \in 1..n /\ n > m
    OBVIOUS
  <2> HIDE DEF n, m, Step
  <2> QED
    BY <1>3, <2>1
<1>5. \A p \in 1..m : from[p] = Step(p, from[SegmentEnd(s, p) + 1])
  <2>1. \A p \in 1..m : p \in 1..n /\ ~(p > m)
    OBVIOUS
  <2> HIDE DEF n, m, Step
  <2> QED
    BY <1>3, <2>1, Zenon
<1>6. \A p, rest, q :
        q \in Step(p, rest) <=> q \in SegmentStarts(req) /\ Fits(Segment(s, p), req, q, rest)
  BY ZenonT(30) DEF Fits
<1> HIDE DEF Step
<1>7. ASSUME NEW p \in 1..m, NEW q
      PROVE  q \in from[p] <=> q \in Step(p, from[SegmentEnd(s, p) + 1])
  BY <1>5
<1> QED
  BY <1>4, <1>6, <1>7, Zenon

----------------------------------------------------------------------------
(* What an item of a pattern takes.                                        *)

LEMMA TakesMeans ==
  ASSUME NEW req, NEW j, NEW k
  PROVE  /\ Takes(Nothing, req, j, k) <=> k = j
         /\ Takes(MatchAny, req, j, k)
         /\ Takes(MatchOne, req, j, k) <=> k > j /\ \A x \in j..(k - 1) : req[x] # Slash
         /\ \A item : item \notin { Nothing, MatchAny, MatchOne } =>
              ( Takes(item, req, j, k) <=>
                  k = j + 1 /\ (item \in { ".", req[j] } \/ (item = EscapedDot /\ req[j] = ".")) )
<1>1. Nothing # MatchAny /\ Nothing # MatchOne /\ MatchAny # MatchOne
  BY Different
<1>2. Takes(Nothing, req, j, k) <=> k = j
  BY <1>1 DEF Takes
<1>3. Takes(MatchAny, req, j, k)
  BY <1>1 DEF Takes
<1>4. Takes(MatchOne, req, j, k) <=> k > j /\ \A x \in j..(k - 1) : req[x] # Slash
  BY <1>1 DEF Takes
<1>5. ASSUME NEW item, item \notin { Nothing, MatchAny, MatchOne }
      PROVE  Takes(item, req, j, k) <=>
               k = j + 1 /\ (item \in { ".", req[j] } \/ (item = EscapedDot /\ req[j] = "."))
  <2>1. item # Nothing /\ item # MatchAny /\ item # MatchOne
    BY <1>5
  <2> QED
    BY <2>1 DEF Takes
<1> QED
  BY <1>2, <1>3, <1>4, <1>5

\* A character takes itself, escaped or not.
LEMMA CharTakes ==
  ASSUME NEW req \in Seq(Char), NEW c \in Char, NEW j \in 1..Len(req), NEW k
  PROVE  Takes(escapeLuaPatternChars(c), req, j, k) <=> k = j + 1 /\ req[j] = c
<1> DEFINE item == escapeLuaPatternChars(c)
<1>1. /\ Nothing \notin Char /\ MatchAny \notin Char /\ MatchOne \notin Char /\ EscapedDot \notin Char
      /\ req[j] \in Char
  BY PathsAssumption
<1>2. item = IF c = "." THEN EscapedDot ELSE c
  BY DEF escapeLuaPatternChars
<1> HIDE DEF item
<1>3. item \notin { Nothing, MatchAny, MatchOne }
  BY <1>1, <1>2, Different
<1>4. Takes(item, req, j, k) <=>
        k = j + 1 /\ (item \in { ".", req[j] } \/ (item = EscapedDot /\ req[j] = "."))
  BY <1>3, TakesMeans
<1>5. item = "." => FALSE
  <2>1. CASE c = "."
    <3>1. item = EscapedDot
      BY <1>2, <2>1
    <3>2. EscapedDot # "."
      BY Zenon DEF EscapedDot
    <3> QED
      BY <3>1, <3>2
  <2>2. CASE c # "."
    BY <1>2, <2>2
  <2> QED
    BY <2>1, <2>2
<1>6. (item = req[j] \/ (item = EscapedDot /\ req[j] = ".")) <=> req[j] = c
  <2>1. CASE c = "."
    BY <1>1, <1>2, <2>1
  <2>2. CASE c # "."
    <3>1. item = c
      BY <1>2, <2>2
    <3> QED
      BY <1>1, <3>1
  <2> QED
    BY <2>1, <2>2
<1>7. Takes(item, req, j, k) <=> k = j + 1 /\ req[j] = c
  BY <1>4, <1>5, <1>6
<1> QED
  BY <1>7 DEF item

\* The pattern of a path, by the characters of the path.
LEMMA PatternMeans ==
  ASSUME NEW s \in Seq(Char)
  PROVE  /\ \E T : toLuaPattern(s) \in Seq(T)
         /\ Len(toLuaPattern(s)) = Len(s)
         /\ \A i \in 1..Len(s) :
              /\ s[i] \notin Braces \cup { Star } =>
                   toLuaPattern(s)[i] = escapeLuaPatternChars(s[i])
              /\ Has(s, Braces) /\ s[i] \in Braces => toLuaPattern(s)[i] = Nothing
              /\ Has(s, Braces) /\ s[i] = Star => toLuaPattern(s)[i] = Wildcard(s, i)
              /\ ~Has(s, Braces) /\ s[i] = Star => toLuaPattern(s)[i] = MatchAny
<1> DEFINE h == Has(s, Braces)
           Item(i) == CASE h /\ s[i] \in Braces -> Nothing
                        [] s[i] = Star -> IF h THEN Wildcard(s, i) ELSE MatchAny
                        [] OTHER -> escapeLuaPatternChars(s[i])
           t == [ i \in 1..Len(s) |-> Item(i) ]
           T == { Item(i) : i \in 1..Len(s) }
<1>1. toLuaPattern(s) = t
  BY DEF toLuaPattern, Pattern
<1>2. Star \notin Braces
  BY Different DEF Braces
<1>3. ASSUME NEW i \in 1..Len(s)
      PROVE  /\ s[i] \notin Braces \cup { Star } => Item(i) = escapeLuaPatternChars(s[i])
             /\ h /\ s[i] \in Braces => Item(i) = Nothing
             /\ h /\ s[i] = Star => Item(i) = Wildcard(s, i)
             /\ ~h /\ s[i] = Star => Item(i) = MatchAny
  <2> HIDE DEF h
  <2>1. CASE h /\ s[i] \in Braces
    BY <1>2, <2>1
  <2>2. CASE s[i] = Star
    BY <1>2, <2>2
  <2>3. CASE ~(h /\ s[i] \in Braces) /\ s[i] # Star
    BY <2>3
  <2> QED
    BY <2>1, <2>2, <2>3
<1> HIDE DEF Item, h
<1>4. t \in Seq(T) /\ Len(t) = Len(s) /\ \A i \in 1..Len(s) : t[i] = Item(i)
  <2>1. t \in [1..Len(s) -> T]
    BY Zenon
  <2>2. Len(s) \in Nat
    OBVIOUS
  <2>3. \A i \in 1..Len(s) : t[i] = Item(i)
    BY Zenon
  <2> HIDE DEF t, T
  <2> QED
    BY <2>1, <2>2, <2>3
<1> HIDE DEF t, T
<1>5. \E X : t \in Seq(X)
  BY <1>4
<1> QED
  BY <1>1, <1>3, <1>4, <1>5, Zenon DEF h

\* R is how the script reads req by the path s.
Reading(R, s, req) == R = LuaFrom(toLuaPattern(s), req)

\* The positions of a request from which the rest of the pattern matches, by
\* what stands at i in the path.
LEMMA ItemSteps ==
  ASSUME NEW s \in Seq(Char), NEW req \in Seq(Char), NEW R, Reading(R, s, req)
  PROVE  /\ R[Len(s) + 1] = { Len(req) + 1 }
         /\ \A i \in 1..(Len(s) + 1) : R[i] \subseteq 1..(Len(req) + 1)
         /\ \A i \in 1..Len(s), j \in 1..(Len(req) + 1) :
              /\ s[i] \notin Braces \cup { Star } =>
                   ( j \in R[i] <=> j <= Len(req) /\ req[j] = s[i] /\ j + 1 \in R[i + 1] )
              /\ toLuaPattern(s)[i] = Nothing => ( j \in R[i] <=> j \in R[i + 1] )
              /\ toLuaPattern(s)[i] = MatchAny => ( j \in R[i] <=> \E k \in R[i + 1] : k >= j )
              /\ toLuaPattern(s)[i] = MatchOne =>
                   ( j \in R[i] <=>
                       \E k \in R[i + 1] : k > j /\ \A x \in j..(k - 1) : req[x] # Slash )
<1> DEFINE items == toLuaPattern(s)
<1>1. PICK T : items \in Seq(T)
  BY PatternMeans
<1>2. Len(items) = Len(s)
  BY PatternMeans
<1>3. \A i \in 1..Len(s) : s[i] \notin Braces \cup { Star } => items[i] = escapeLuaPatternChars(s[i])
  BY PatternMeans
<1> HIDE DEF items
<1>4. R = LuaFrom(items, req)
  BY DEF items, Reading
<1>5. /\ R[Len(items) + 1] = { Len(req) + 1 }
      /\ \A i \in 1..(Len(items) + 1) : R[i] \subseteq 1..(Len(req) + 1)
      /\ \A i \in 1..Len(items) : \A j \in 1..(Len(req) + 1) :
           j \in R[i] <=> \E k \in R[i + 1] : k >= j /\ Takes(items[i], req, j, k)
  BY <1>1, <1>4, LuaUnfold
<1>6. ASSUME NEW i \in 1..Len(s), NEW j \in 1..(Len(req) + 1)
      PROVE  /\ s[i] \notin Braces \cup { Star } =>
                  ( j \in R[i] <=> j <= Len(req) /\ req[j] = s[i] /\ j + 1 \in R[i + 1] )
             /\ items[i] = Nothing => ( j \in R[i] <=> j \in R[i + 1] )
             /\ items[i] = MatchAny => ( j \in R[i] <=> \E k \in R[i + 1] : k >= j )
             /\ items[i] = MatchOne =>
                  ( j \in R[i] <=>
                      \E k \in R[i + 1] : k > j /\ \A x \in j..(k - 1) : req[x] # Slash )
  <2>1. j \in R[i] <=> \E k \in R[i + 1] : k >= j /\ Takes(items[i], req, j, k)
    BY <1>2, <1>5
  <2>2. \A k \in R[i + 1] : k \in 1..(Len(req) + 1)
    <3>1. i + 1 \in 1..(Len(items) + 1)
      BY <1>2
    <3> QED
      BY <1>5, <3>1, Zenon
  <2>3. ASSUME s[i] \notin Braces \cup { Star }
        PROVE  j \in R[i] <=> j <= Len(req) /\ req[j] = s[i] /\ j + 1 \in R[i + 1]
    <3>1. s[i] \in Char /\ items[i] = escapeLuaPatternChars(s[i])
      BY <1>3, <2>3
    <3>2. CASE j <= Len(req)
      <4>1. \A k : Takes(items[i], req, j, k) <=> k = j + 1 /\ req[j] = s[i]
        BY <3>1, <3>2, CharTakes
      <4> QED
        BY <2>1, <3>2, <4>1
    <3>3. CASE j = Len(req) + 1
      <4>1. items[i] \notin { Nothing, MatchAny, MatchOne }
        <5>1. /\ Nothing \notin Char /\ MatchAny \notin Char /\ MatchOne \notin Char
          BY PathsAssumption
        <5>2. items[i] = s[i] \/ items[i] = EscapedDot
          BY <3>1, Zenon DEF escapeLuaPatternChars
        <5> QED
          BY <3>1, <5>1, <5>2, Different
      <4>2. \A k : Takes(items[i], req, j, k) => k = j + 1
        BY <4>1, TakesMeans, Zenon
      <4>3. j \notin R[i]
        BY <2>1, <2>2, <3>3, <4>2
      <4> QED
        BY <3>3, <4>3
    <3> QED
      BY <3>2, <3>3
  <2>4. ASSUME items[i] = Nothing
        PROVE  j \in R[i] <=> j \in R[i + 1]
    <3>1. \A k : Takes(items[i], req, j, k) <=> k = j
      BY <2>4, TakesMeans
    <3> QED
      BY <2>1, <3>1
  <2>5. ASSUME items[i] = MatchAny
        PROVE  j \in R[i] <=> \E k \in R[i + 1] : k >= j
    <3>1. \A k : Takes(items[i], req, j, k)
      BY <2>5, TakesMeans
    <3> QED
      BY <2>1, <3>1
  <2>6. ASSUME items[i] = MatchOne
        PROVE  j \in R[i] <=> \E k \in R[i + 1] : k > j /\ \A x \in j..(k - 1) : req[x] # Slash
    <3>1. \A k : Takes(items[i], req, j, k) <=> k > j /\ \A x \in j..(k - 1) : req[x] # Slash
      BY <2>6, TakesMeans
    <3>2. \A k \in R[i + 1] : k > j => k >= j
      BY <2>2
    <3> QED
      BY <2>1, <3>1, <3>2, Zenon
  <2> QED
    BY <2>3, <2>4, <2>5, <2>6
<1> QED
  BY <1>2, <1>5, <1>6, Zenon DEF items

LEMMA NothingStep ==
  ASSUME NEW s \in Seq(Char), NEW req \in Seq(Char), NEW R, Reading(R, s, req),
         NEW i \in 1..Len(s), NEW n, n = i + 1, toLuaPattern(s)[i] = Nothing
  PROVE  R[i] = R[n]
<1>1. i \in 1..(Len(s) + 1) /\ n \in 1..(Len(s) + 1)
  OBVIOUS
<1>2. \A k \in 1..(Len(s) + 1) : R[k] \subseteq 1..(Len(req) + 1)
  BY ItemSteps, Zenon
<1>3. R[i] \subseteq 1..(Len(req) + 1) /\ R[n] \subseteq 1..(Len(req) + 1)
  BY <1>1, <1>2, Zenon
<1>4. ASSUME NEW j \in 1..(Len(req) + 1)
      PROVE  j \in R[i] <=> j \in R[n]
  <2>1. j \in R[i] <=> j \in R[i + 1]
    BY ItemSteps
  <2> QED
    BY <2>1
<1> QED
  BY <1>3, <1>4

LEMMA AnyStep ==
  ASSUME NEW s \in Seq(Char), NEW req \in Seq(Char), NEW R, Reading(R, s, req),
         NEW i \in 1..Len(s), NEW n, n = i + 1, toLuaPattern(s)[i] = MatchAny,
         NEW j \in 1..(Len(req) + 1)
  PROVE  j \in R[i] <=> \E k \in R[n] : k >= j
<1>1. j \in R[i] <=> \E k \in R[i + 1] : k >= j
  BY ItemSteps
<1> QED
  BY <1>1, Zenon

LEMMA OneStep ==
  ASSUME NEW s \in Seq(Char), NEW req \in Seq(Char), NEW R, Reading(R, s, req),
         NEW i \in 1..Len(s), NEW n, n = i + 1, toLuaPattern(s)[i] = MatchOne,
         NEW j \in 1..(Len(req) + 1)
  PROVE  j \in R[i] <=> \E k \in R[n] : k > j /\ \A x \in j..(k - 1) : req[x] # Slash
<1>1. j \in R[i] <=> \E k \in R[i + 1] : k > j /\ \A x \in j..(k - 1) : req[x] # Slash
  BY ItemSteps
<1> QED
  BY <1>1, Zenon

\* The n characters from a on are those of the request from j on.
SameText(s, a, req, j, n) == \A x \in 0..(n - 1) : req[j + x] = s[a + x]

\* A run of characters takes itself.
LEMMA PlainRun ==
  ASSUME NEW s \in Seq(Char), NEW req \in Seq(Char), NEW R, Reading(R, s, req),
         NEW a \in 1..(Len(s) + 1), NEW e \in a..(Len(s) + 1),
         \A i \in a..(e - 1) : s[i] \notin Braces \cup { Star },
         NEW j \in 1..(Len(req) + 1)
  PROVE  j \in R[a] <=> j + (e - a) \in R[e] /\ SameText(s, a, req, j, e - a)
<1> DEFINE Same(n) == \A x \in 0..(n - 1) : req[j + x] = s[a + x]
           S == { n \in Nat : n <= e - a => ( j \in R[a] <=> j + n \in R[a + n] /\ Same(n) ) }
<1>1. 0 \in S
  <2>1. j + 0 = j /\ a + 0 = a /\ 0 \in Nat
    OBVIOUS
  <2>2. Same(0)
    OBVIOUS
  <2> HIDE DEF Same
  <2> QED
    BY <2>1, <2>2
<1>2. ASSUME NEW n \in Nat, n \in S
      PROVE  n + 1 \in S
  <2> HIDE DEF Same
  <2> SUFFICES ASSUME n + 1 <= e - a
               PROVE  j \in R[a] <=> j + (n + 1) \in R[a + (n + 1)] /\ Same(n + 1)
    OBVIOUS
  <2>1. n <= e - a
    OBVIOUS
  <2>2. j \in R[a] <=> j + n \in R[a + n] /\ Same(n)
    BY <1>2, <2>1
  <2> DEFINE b == a + n
             k == j + n
  <2>3. /\ b \in a..(e - 1) /\ b \in 1..Len(s) /\ a + (n + 1) = b + 1 /\ b + 1 \in 1..(Len(s) + 1)
        /\ k \in Nat /\ k >= 1 /\ j + (n + 1) = k + 1
    OBVIOUS
  <2>4. Same(n + 1) <=> Same(n) /\ req[k] = s[b]
    <3>1. ASSUME Same(n + 1)
          PROVE  Same(n) /\ req[j + n] = s[a + n]
      <4>1. n \in 0..((n + 1) - 1) /\ \A x \in 0..(n - 1) : x \in 0..((n + 1) - 1)
        OBVIOUS
      <4> QED
        BY <3>1, <4>1, Zenon DEF Same
    <3>2. ASSUME Same(n), req[j + n] = s[a + n]
          PROVE  Same(n + 1)
      <4>1. ASSUME NEW x \in 0..((n + 1) - 1)
            PROVE  req[j + x] = s[a + x]
        <5>1. CASE x = n
          BY <3>2, <5>1
        <5>2. CASE x # n
          <6>1. x \in 0..(n - 1)
            BY <5>2
          <6> QED
            BY <3>2, <6>1, Zenon DEF Same
        <5> QED
          BY <5>1, <5>2
      <4> QED
        BY <4>1, Zenon DEF Same
    <3> QED
      BY <3>1, <3>2, Zenon
  <2>5. j \in R[a] <=> k \in R[b] /\ Same(n)
    BY <2>2
  <2> HIDE DEF b, k
  <2>6. s[b] \notin Braces \cup { Star }
    BY <2>3
  <2>7. R[b] \subseteq 1..(Len(req) + 1) /\ R[b + 1] \subseteq 1..(Len(req) + 1)
    <3>1. b \in 1..(Len(s) + 1) /\ b + 1 \in 1..(Len(s) + 1)
      BY <2>3
    <3>2. \A i \in 1..(Len(s) + 1) : R[i] \subseteq 1..(Len(req) + 1)
      BY ItemSteps, Zenon
    <3> QED
      BY <3>1, <3>2, Zenon
  <2>8. k \in R[b] <=> req[k] = s[b] /\ k + 1 \in R[b + 1]
    <3>1. CASE k <= Len(req)
      <4>1. k \in 1..(Len(req) + 1)
        BY <2>3, <3>1
      <4>2. k \in R[b] <=> k <= Len(req) /\ req[k] = s[b] /\ k + 1 \in R[b + 1]
        BY <2>3, <2>6, <4>1, ItemSteps
      <4> QED
        BY <3>1, <4>2
    <3>2. CASE k > Len(req)
      <4>1. k + 1 \notin R[b + 1]
        <5>1. k + 1 \notin 1..(Len(req) + 1)
          BY <2>3, <3>2
        <5> QED
          BY <2>7, <5>1, Zenon
      <4>2. ASSUME k \in R[b]
            PROVE  FALSE
        <5>1. k \in 1..(Len(req) + 1)
          BY <2>7, <4>2
        <5>2. k \in R[b] <=> k <= Len(req) /\ req[k] = s[b] /\ k + 1 \in R[b + 1]
          BY <2>3, <2>6, <5>1, ItemSteps
        <5> QED
          BY <3>2, <4>2, <5>1, <5>2
      <4> QED
        BY <4>1, <4>2
    <3> QED
      BY <2>3, <3>1, <3>2
  <2> QED
    BY <2>3, <2>4, <2>5, <2>8
<1>3. e - a \in S
  <2>1. e - a \in Nat
    OBVIOUS
  <2> HIDE DEF S
  <2> QED
    BY <1>1, <1>2, <2>1, Induction
<1>4. a + (e - a) = e /\ e - a <= e - a
  OBVIOUS
<1>5. Same(e - a) <=> SameText(s, a, req, j, e - a)
  BY Zenon DEF SameText
<1> HIDE DEF Same
<1> QED
  BY <1>3, <1>4, <1>5

----------------------------------------------------------------------------
(* What the operators become.                                              *)

\* Neither brace nor asterisk: here a run of wildcards ends.
Ends(s, i) == i \in 1..Len(s) => s[i] \notin Braces \cup { Star }

LEMMA WildcardMeans ==
  ASSUME NEW s \in Seq(Char), NEW i \in 1..Len(s), NEW p \in 1..(i - 1),
         Ends(s, p - 1), \A k \in p..i : s[k] \in Braces \cup { Star }
  PROVE  /\ (\A k \in p..(i - 1) : s[k] # Star) =>
              Wildcard(s, i) = IF \E j \in (i + 1)..Len(s) : s[j] = Star /\ SameRun(s, i, j)
                               THEN MatchAny ELSE MatchOne
         /\ \A b \in p..(i - 1) :
              (s[b] = Star /\ \A k \in p..(i - 1) : k # b => s[k] # Star) => Wildcard(s, i) = Nothing
<1> DEFINE before == { j \in 1..(i - 1) : s[j] = Star /\ SameRun(s, j, i) }
           after == { j \in (i + 1)..Len(s) : s[j] = Star /\ SameRun(s, i, j) }
<1>0. Wildcard(s, i) = IF Cardinality(before) % 2 = 1 THEN Nothing
                       ELSE IF after # {} THEN MatchAny ELSE MatchOne
  BY Zenon DEF Wildcard
<1>1. \A j : j \in before <=> j \in p..(i - 1) /\ s[j] = Star
  <2>1. ASSUME NEW j \in before
        PROVE  j \in p..(i - 1) /\ s[j] = Star
    <3>1. j \in 1..(i - 1) /\ s[j] = Star /\ \A k \in j..i : s[k] \in Braces \cup { Star }
      BY DEF SameRun
    <3>2. ASSUME j < p
          PROVE  FALSE
      <4>1. p - 1 \in j..i /\ p - 1 \in 1..Len(s)
        BY <3>1, <3>2
      <4> QED
        BY <3>1, <4>1 DEF Ends
    <3> QED
      BY <3>1, <3>2
  <2>2. ASSUME NEW j \in p..(i - 1), s[j] = Star
        PROVE  j \in before
    <3>1. SameRun(s, j, i)
      BY DEF SameRun
    <3> QED
      BY <2>2, <3>1
  <2> QED
    BY <2>1, <2>2
<1>2. after # {} <=> \E j \in (i + 1)..Len(s) : s[j] = Star /\ SameRun(s, i, j)
  BY Zenon
<1> HIDE DEF before, after
<1>3. ASSUME \A k \in p..(i - 1) : s[k] # Star
      PROVE  Wildcard(s, i) = IF after # {} THEN MatchAny ELSE MatchOne
  <2>1. before = {}
    BY <1>1, <1>3
  <2>2. Cardinality(before) = 0
    BY <2>1, FS_EmptySet
  <2> QED
    BY <1>0, <2>2
<1>4. ASSUME NEW b \in p..(i - 1), s[b] = Star, \A k \in p..(i - 1) : k # b => s[k] # Star
      PROVE  Wildcard(s, i) = Nothing
  <2>1. before = { b }
    BY <1>1, <1>4
  <2>2. Cardinality(before) = 1
    BY <2>1, FS_Singleton
  <2> QED
    BY <1>0, <2>2
<1> QED
  BY <1>2, <1>3, <1>4

\* {*} takes one segment or a part of it.
LEMMA OneItems ==
  ASSUME NEW s \in Seq(Char), NEW req \in Seq(Char), NEW R, Reading(R, s, req),
         NEW p \in 1..Len(s), OneAt(s, p), Ends(s, p - 1), Ends(s, p + 3),
         NEW j \in 1..(Len(req) + 1)
  PROVE  j \in R[p] <=> \E k \in R[p + 3] : k > j /\ \A x \in j..(k - 1) : req[x] # Slash
<1> DEFINE a == p + 1
           b == p + 2
           c == p + 3
<1>1. /\ a \in 1..Len(s) /\ b \in 1..Len(s) /\ p \in 1..(a - 1) /\ a + 1 = b /\ b + 1 = c
      /\ c \in 1..(Len(s) + 1)
      /\ s[p] = Open /\ s[a] = Star /\ s[b] = Close
      /\ \A k \in p..a : k = p \/ k = a
      /\ \A k \in p..(a - 1) : k = p
      /\ \A k \in (a + 1)..Len(s) : k = b \/ (c \in a..k /\ c \in 1..Len(s))
  <2>0. p \in Nat /\ Len(s) \in Nat /\ p >= 1 /\ p + 2 <= Len(s)
    BY DEF OneAt
  <2>1. s[p] = Open /\ s[a] = Star /\ s[b] = Close
    BY DEF OneAt
  <2>2. /\ a \in 1..Len(s) /\ b \in 1..Len(s) /\ p \in 1..(a - 1) /\ a + 1 = b /\ b + 1 = c
        /\ c \in 1..(Len(s) + 1)
    BY ONLY <2>0
  <2>3. /\ \A k \in p..a : k = p \/ k = a
        /\ \A k \in p..(a - 1) : k = p
    BY ONLY <2>0
  <2>4. \A k \in (a + 1)..Len(s) : k = b \/ (c \in a..k /\ c \in 1..Len(s))
    BY ONLY <2>0
  <2> QED
    BY <2>0, <2>1, <2>2, <2>3, <2>4, Zenon
<1>2. a = p + 1 /\ b = a + 1 /\ c = b + 1 /\ c = p + 3
  OBVIOUS
<1> HIDE DEF a, b, c
<1>3. Has(s, Braces)
  BY <1>1, HasMeans DEF Braces
<1>4. toLuaPattern(s)[p] = Nothing /\ toLuaPattern(s)[b] = Nothing
  BY <1>1, <1>3, PatternMeans DEF Braces
<1>5. ~\E k \in (a + 1)..Len(s) : s[k] = Star /\ SameRun(s, a, k)
  <2> SUFFICES ASSUME NEW k \in (a + 1)..Len(s), s[k] = Star, SameRun(s, a, k)
               PROVE  FALSE
    BY Zenon
  <2>1. k # b
    BY <1>1, Different
  <2>2. c \in a..k /\ c \in 1..Len(s)
    BY <1>1, <2>1
  <2>3. s[c] \in Braces \cup { Star }
    BY <2>2 DEF SameRun
  <2>4. s[c] \notin Braces \cup { Star }
    BY <1>2, <2>2 DEF Ends
  <2> QED
    BY <2>3, <2>4
<1>6. Wildcard(s, a) = MatchOne
  <2>1. \A k \in p..a : s[k] \in Braces \cup { Star }
    BY <1>1 DEF Braces
  <2>2. \A k \in p..(a - 1) : s[k] # Star
    BY <1>1, Different
  <2>3. Wildcard(s, a) = IF \E k \in (a + 1)..Len(s) : s[k] = Star /\ SameRun(s, a, k)
                         THEN MatchAny ELSE MatchOne
    BY <1>1, <2>1, <2>2, WildcardMeans
  <2> QED
    BY <1>5, <2>3
<1>7. toLuaPattern(s)[a] = MatchOne
  BY <1>1, <1>3, <1>6, PatternMeans
<1>8. R[p] = R[a] /\ R[b] = R[c]
  <2>1. R[p] = R[a]
    BY <1>2, <1>4, NothingStep
  <2>2. R[b] = R[c]
    BY <1>1, <1>2, <1>4, NothingStep
  <2> QED
    BY <2>1, <2>2
<1>9. j \in R[a] <=> \E k \in R[b] : k > j /\ \A x \in j..(k - 1) : req[x] # Slash
  BY <1>1, <1>2, <1>7, OneStep
<1>10. j \in R[p] <=> \E k \in R[c] : k > j /\ \A x \in j..(k - 1) : req[x] # Slash
  BY <1>8, <1>9, Zenon
<1> QED
  BY <1>2, <1>10

\* {**} takes whatever there is.
LEMMA AnyItems ==
  ASSUME NEW s \in Seq(Char), NEW req \in Seq(Char), NEW R, Reading(R, s, req),
         NEW p \in 1..Len(s), AnyAt(s, p), Ends(s, p - 1), NEW j \in 1..(Len(req) + 1)
  PROVE  j \in R[p] <=> \E k \in R[p + 4] : k >= j
<1> DEFINE a == p + 1
           b == p + 2
           c == p + 3
           d == p + 4
<1>1. /\ a \in 1..Len(s) /\ b \in 1..Len(s) /\ c \in 1..Len(s) /\ p \in 1..(a - 1) /\ p \in 1..(b - 1)
      /\ a + 1 = b /\ b + 1 = c /\ c + 1 = d /\ d \in 1..(Len(s) + 1)
      /\ s[p] = Open /\ s[a] = Star /\ s[b] = Star /\ s[c] = Close
      /\ \A k \in p..a : k = p \/ k = a
      /\ \A k \in p..b : k = p \/ k = a \/ k = b
      /\ \A k \in a..b : k = a \/ k = b
      /\ \A k \in p..(a - 1) : k = p
      /\ \A k \in p..(b - 1) : k = p \/ k = a
      /\ a \in p..(b - 1)
      /\ b \in (a + 1)..Len(s)
  <2>0. p \in Nat /\ Len(s) \in Nat /\ p >= 1 /\ p + 3 <= Len(s)
    BY DEF AnyAt
  <2>1. s[p] = Open /\ s[a] = Star /\ s[b] = Star /\ s[c] = Close
    BY DEF AnyAt
  <2>2. /\ a \in 1..Len(s) /\ b \in 1..Len(s) /\ c \in 1..Len(s) /\ p \in 1..(a - 1) /\ p \in 1..(b - 1)
        /\ a + 1 = b /\ b + 1 = c /\ c + 1 = d /\ d \in 1..(Len(s) + 1)
    BY ONLY <2>0
  <2>3. /\ \A k \in p..a : k = p \/ k = a
        /\ \A k \in p..b : k = p \/ k = a \/ k = b
        /\ \A k \in a..b : k = a \/ k = b
    BY ONLY <2>0
  <2>4. /\ \A k \in p..(a - 1) : k = p
        /\ \A k \in p..(b - 1) : k = p \/ k = a
        /\ a \in p..(b - 1)
        /\ b \in (a + 1)..Len(s)
    BY ONLY <2>0
  <2> QED
    BY <2>0, <2>1, <2>2, <2>3, <2>4, Zenon
<1>2. a = p + 1 /\ b = a + 1 /\ c = b + 1 /\ d = c + 1 /\ d = p + 4
  OBVIOUS
<1> HIDE DEF a, b, c, d
<1>3. Has(s, Braces)
  BY <1>1, HasMeans DEF Braces
<1>4. toLuaPattern(s)[p] = Nothing /\ toLuaPattern(s)[c] = Nothing
  BY <1>1, <1>3, PatternMeans DEF Braces
<1>5. Wildcard(s, a) = MatchAny
  <2>1. \A k \in p..a : s[k] \in Braces \cup { Star }
    BY <1>1 DEF Braces
  <2>2. \A k \in p..(a - 1) : s[k] # Star
    BY <1>1, Different
  <2>3. Wildcard(s, a) = IF \E k \in (a + 1)..Len(s) : s[k] = Star /\ SameRun(s, a, k)
                         THEN MatchAny ELSE MatchOne
    BY <1>1, <2>1, <2>2, WildcardMeans
  <2>4. SameRun(s, a, b)
    BY <1>1 DEF SameRun
  <2> QED
    BY <1>1, <2>3, <2>4
<1>6. Wildcard(s, b) = Nothing
  <2>1. \A k \in p..b : s[k] \in Braces \cup { Star }
    BY <1>1 DEF Braces
  <2>2. \A k \in p..(b - 1) : k # a => s[k] # Star
    BY <1>1, Different
  <2> QED
    BY <1>1, <2>1, <2>2, WildcardMeans
<1>7. toLuaPattern(s)[a] = MatchAny /\ toLuaPattern(s)[b] = Nothing
  BY <1>1, <1>3, <1>5, <1>6, PatternMeans
<1>8. R[p] = R[a] /\ R[b] = R[c] /\ R[c] = R[d]
  <2>1. R[p] = R[a]
    BY <1>2, <1>4, NothingStep
  <2>2. R[b] = R[c]
    BY <1>1, <1>2, <1>7, NothingStep, SMTT(30)
  <2>3. R[c] = R[d]
    BY <1>1, <1>2, <1>4, NothingStep, SMTT(30)
  <2> QED
    BY <2>1, <2>2, <2>3
<1>9. j \in R[a] <=> \E k \in R[b] : k >= j
  BY <1>1, <1>2, <1>7, AnyStep, SMTT(30)
<1>10. j \in R[p] <=> \E k \in R[d] : k >= j
  BY <1>8, <1>9, Zenon
<1> QED
  BY <1>2, <1>10

----------------------------------------------------------------------------
(* Paths without a template, and the literal with {**}.                    *)

LEMMA PlainIsNoWildcard ==
  ASSUME NEW s, NEW n, PlainUpTo(s, n), NEW i \in 1..n
  PROVE  s[i] \notin Braces \cup { Star }
BY NotLiteral, Different DEF PlainUpTo, Braces

LEMMA PlainStart ==
  ASSUME NEW s \in Seq(Char), NEW req \in Seq(Char), NEW R, Reading(R, s, req),
         NEW n \in 0..Len(s), PlainUpTo(s, n), NEW e, e = n + 1
  PROVE  1 \in R[1] <=> e \in R[e] /\ \A i \in 1..n : req[i] = s[i]
<1>1. /\ 1 \in 1..(Len(s) + 1) /\ e \in 1..(Len(s) + 1) /\ 1 \in 1..(Len(req) + 1)
      /\ 1 + (e - 1) = e /\ e - 1 - 1 = n - 1 /\ e - 1 = n
  OBVIOUS
<1>2. \A i \in 1..(e - 1) : s[i] \notin Braces \cup { Star }
  BY <1>1, PlainIsNoWildcard
<1>3. 1 \in R[1] <=>
        1 + (e - 1) \in R[e] /\ SameText(s, 1, req, 1, e - 1)
  <2> DEFINE a == 1
  <2>1. a \in 1..(Len(s) + 1) /\ e \in a..(Len(s) + 1) /\ a \in 1..(Len(req) + 1)
    BY <1>1
  <2>2. \A i \in a..(e - 1) : s[i] \notin Braces \cup { Star }
    BY <1>2
  <2> HIDE DEF a
  <2>3. a \in R[a] <=> a + (e - a) \in R[e] /\ SameText(s, a, req, a, e - a)
    BY <2>1, <2>2, PlainRun
  <2> QED
    BY <2>3, Zenon DEF a
<1>4. SameText(s, 1, req, 1, e - 1) <=> \A i \in 1..n : req[i] = s[i]
  <2>1. ASSUME SameText(s, 1, req, 1, e - 1), NEW i \in 1..n
        PROVE  req[i] = s[i]
    <3>1. i - 1 \in 0..(e - 1 - 1) /\ 1 + (i - 1) = i
      BY <1>1
    <3>2. req[1 + (i - 1)] = s[1 + (i - 1)]
      BY <2>1, <3>1, Zenon DEF SameText
    <3> QED
      BY <3>1, <3>2
  <2>2. ASSUME \A i \in 1..n : req[i] = s[i], NEW x \in 0..(e - 1 - 1)
        PROVE  req[1 + x] = s[1 + x]
    <3>1. 1 + x \in 1..n
      BY <1>1
    <3> QED
      BY <2>2, <3>1
  <2> QED
    BY <2>1, <2>2, Zenon DEF SameText
<1> QED
  BY <1>1, <1>3, <1>4

LEMMA ReadingMeans ==
  ASSUME NEW s, NEW req, NEW R, Reading(R, s, req)
  PROVE  LuaMatch(toLuaPattern(s), req) <=> 1 \in R[1]
BY DEF Reading, LuaMatch

\* A path without a wildcard is the one request.
LEMMA PlainAgrees ==
  ASSUME NEW s \in Seq(Char), NEW req \in Seq(Char), Len(s) >= 1, PlainUpTo(s, Len(s))
  PROVE  LuaMatch(toLuaPattern(s), req) <=> IstioMatch(transformPathForIstio(s), req)
<1>1. PICK R : Reading(R, s, req)
  BY DEF Reading
<1> DEFINE e == Len(s) + 1
<1>2. e = Len(s) + 1 /\ Len(s) \in 0..Len(s) /\ Len(s) >= Len(s) - 1 /\ ~(Len(s) < Len(s))
      /\ Len(s) \in 1..Len(s)
  OBVIOUS
<1> HIDE DEF e
<1>3. 1 \in R[1] <=> e \in R[e] /\ \A i \in 1..Len(s) : req[i] = s[i]
  BY <1>1, <1>2, PlainStart
<1>4. R[e] = { Len(req) + 1 }
  <2>1. R[Len(s) + 1] = { Len(req) + 1 }
    BY <1>1, ItemSteps
  <2> QED
    BY <1>2, <2>1
<1>5. 1 \in R[1] <=> s = req
  <2>1. s = req <=> Len(s) = Len(req) /\ \A i \in 1..Len(s) : s[i] = req[i]
    BY SameSeq
  <2>2. e \in R[e] <=> Len(s) = Len(req)
    BY <1>2, <1>4
  <2> QED
    BY <1>3, <2>1, <2>2
<1>6. /\ ~ContainsSeq(s, matchOneTemplate) /\ ~ContainsSeq(s, matchAnyTemplate)
      /\ ~IsSuffix(matchAnyTemplate, s)
  BY <1>2, PlainHasNone
<1>7. transformPathForIstio(s) = s
  BY <1>6 DEF transformPathForIstio
<1>8. ~IsSuffix(<< Star >>, s)
  <2>1. s[Len(s)] # Star
    BY <1>2, NotLiteral, Different DEF PlainUpTo
  <2> QED
    BY <2>1, EndsWithChar
<1>9. IstioMatch(s, req) <=> s = req
  BY <1>6, <1>8, Zenon DEF IstioMatch
<1> QED
  BY <1>1, <1>5, <1>7, <1>9, ReadingMeans

\* The script reads on from n in any way, and so does Istio by the prefix.
LEMMA PrefixAgrees ==
  ASSUME NEW s \in Seq(Char), NEW req \in Seq(Char), NEW R, Reading(R, s, req),
         NEW n \in 0..Len(s), PlainUpTo(s, n),
         \A j \in 1..(Len(req) + 1) : j \in R[n + 1],
         NEW T, NEW u \in Seq(T), Len(u) = n + 1, u[n + 1] = Star, \A i \in 1..n : u[i] = s[i]
  PROVE  1 \in R[1] <=> IstioMatch(u, req)
<1> DEFINE e == n + 1
           t == TrimSuffix(u, << Star >>)
<1>1. e = n + 1 /\ e \in 1..(Len(s) + 1) /\ Len(u) = e /\ e - 1 = n
  OBVIOUS
<1>2. \A j \in 1..(Len(req) + 1) : j \in R[e]
  OBVIOUS
<1> HIDE DEF e
<1>3. u[e] = Star /\ Len(u) >= 1 /\ Len(u) - 1 = n
  BY <1>1
<1>4. e \in R[e] <=> n <= Len(req)
  <2>1. R[e] \subseteq 1..(Len(req) + 1)
    BY <1>1, ItemSteps
  <2>2. e \in 1..(Len(req) + 1) <=> n <= Len(req)
    BY <1>1
  <2> QED
    BY <1>2, <2>1, <2>2
<1>5. 1 \in R[1] <=> n <= Len(req) /\ \A i \in 1..n : req[i] = s[i]
  <2>1. 1 \in R[1] <=> e \in R[e] /\ \A i \in 1..n : req[i] = s[i]
    BY <1>1, PlainStart
  <2> QED
    BY <1>4, <2>1
<1>6. IsSuffix(<< Star >>, u) /\ t \in Seq(T) /\ Len(t) = n /\ \A i \in 1..n : t[i] = u[i]
  <2>1. u \in Seq(T) /\ Len(u) >= 1 /\ u[Len(u)] = Star
    BY <1>1, <1>3
  <2>2. /\ IsSuffix(<< Star >>, u) /\ t \in Seq(T) /\ Len(t) = Len(u) - 1
        /\ \A i \in 1..(Len(u) - 1) : t[i] = u[i]
    BY ONLY <2>1, TrimStar, Zenon
  <2> HIDE DEF t
  <2> QED
    BY ONLY <1>3, <2>2, Zenon
<1>7. ~ContainsSeq(u, matchOneTemplate) /\ ~ContainsSeq(u, matchAnyTemplate)
  <2>1. PlainUpTo(u, n)
    BY DEF PlainUpTo
  <2>2. n \in 0..Len(u) /\ n >= Len(u) - 1 /\ u[Len(u)] = Star
    BY <1>1, <1>3
  <2> QED
    BY <2>1, <2>2, PlainHasNone
<1> HIDE DEF t
<1>8. IsPrefix(t, req) <=> n <= Len(req) /\ \A i \in 1..n : t[i] = req[i]
  <2>1. ASSUME NEW a \in Seq(T)
        PROVE  IsPrefix(a, req) <=> Len(a) <= Len(req) /\ \A i \in 1..Len(a) : a[i] = req[i]
    BY ONLY a \in Seq(T), req \in Seq(Char), PrefixMeans
  <2>2. IsPrefix(t, req) <=> Len(t) <= Len(req) /\ \A i \in 1..Len(t) : t[i] = req[i]
    BY ONLY <1>6, <2>1, Zenon
  <2> QED
    BY ONLY <1>6, <2>2, Zenon
<1>9. IstioMatch(u, req) <=> IsPrefix(t, req)
  BY <1>6, <1>7, Zenon DEF IstioMatch, t
<1> QED
  BY <1>5, <1>6, <1>8, <1>9

\* The old syntax: an asterisk at the end.
LEMMA LegacyAgrees ==
  ASSUME NEW s \in Seq(Char), NEW req \in Seq(Char),
         Len(s) >= 2, s[Len(s)] = Star, PlainUpTo(s, Len(s) - 1)
  PROVE  LuaMatch(toLuaPattern(s), req) <=> IstioMatch(transformPathForIstio(s), req)
<1>1. PICK R : Reading(R, s, req)
  BY DEF Reading
<1> DEFINE n == Len(s) - 1
           e == Len(s)
<1>2. /\ n \in 0..Len(s) /\ n + 1 = e /\ n >= Len(s) - 1 /\ s[Len(s)] = Star /\ e \in 1..Len(s)
      /\ PlainUpTo(s, n) /\ Len(s) = n + 1 /\ s[n + 1] = Star
  OBVIOUS
<1> HIDE DEF n, e
<1>3. /\ ~Has(s, Braces)
      /\ ~IsSuffix(matchAnyTemplate, s)
  BY <1>2, PlainHasNone
<1>4. transformPathForIstio(s) = s
  BY <1>3 DEF transformPathForIstio
<1>5. ASSUME NEW j \in 1..(Len(req) + 1)
      PROVE  j \in R[e]
  <2> DEFINE d == e + 1
  <2>1. d = e + 1 /\ s[e] = Star
    BY <1>2 DEF e
  <2> HIDE DEF d
  <2>2. toLuaPattern(s)[e] = MatchAny
    BY <1>2, <1>3, <2>1, PatternMeans
  <2>3. j \in R[e] <=> \E k \in R[d] : k >= j
    BY <1>1, <1>2, <2>1, <2>2, AnyStep
  <2>4. R[d] = { Len(req) + 1 }
    BY <1>1, <2>1, ItemSteps DEF e
  <2> QED
    BY <2>3, <2>4
<1>6. \A j \in 1..(Len(req) + 1) : j \in R[n + 1]
  BY <1>2, <1>5
<1>7. 1 \in R[1] <=> IstioMatch(s, req)
  BY <1>1, <1>2, <1>6, PrefixAgrees
<1> QED
  BY <1>1, <1>4, <1>7, ReadingMeans

\* A literal with {**}, which is a prefix for Istio.
LEMMA SuffixedAgrees ==
  ASSUME NEW s \in Seq(Char), NEW req \in Seq(Char), Suffixed(s)
  PROVE  LuaMatch(toLuaPattern(s), req) <=> IstioMatch(transformPathForIstio(s), req)
<1>1. PICK R : Reading(R, s, req)
  BY DEF Reading
<1> DEFINE n == Len(s) - 4
           p == Len(s) - 3
           u == transformPathForIstio(s)
<1>2. /\ u \in Seq(Char \cup { Star }) /\ Len(u) = p /\ u[p] = Star
      /\ \A i \in 1..n : u[i] = s[i]
  <2>1. u = transformPathForIstio(s)
    OBVIOUS
  <2> HIDE DEF u, n, p
  <2>2. /\ u \in Seq(Char \cup { Star }) /\ Len(u) = Len(s) - 3 /\ u[Len(s) - 3] = Star
        /\ SameUpTo(u, s, Len(s) - 4)
    BY <2>1, SuffixedTransform
  <2> QED
    BY <2>2 DEF n, p, SameUpTo
<1>3. /\ n \in 0..Len(s) /\ n \in 1..Len(s) /\ p = n + 1 /\ p \in 1..Len(s) /\ p - 1 = n
      /\ AnyAt(s, p) /\ PlainUpTo(s, n) /\ p + 4 = Len(s) + 1 /\ n \in 1..n
  BY DEF Suffixed
<1> HIDE DEF n, p, u
<1>4. Ends(s, p - 1)
  BY <1>3, PlainIsNoWildcard DEF Ends
<1>5. ASSUME NEW j \in 1..(Len(req) + 1)
      PROVE  j \in R[p]
  <2>1. j \in R[p] <=> \E k \in R[p + 4] : k >= j
    BY <1>1, <1>3, <1>4, AnyItems
  <2>2. R[p + 4] = { Len(req) + 1 }
    <3>1. R[Len(s) + 1] = { Len(req) + 1 }
      BY <1>1, ItemSteps
    <3> QED
      BY <1>3, <3>1
  <2> QED
    BY <2>1, <2>2
<1>6. \A j \in 1..(Len(req) + 1) : j \in R[n + 1]
  BY <1>3, <1>5
<1>7. Len(u) = n + 1 /\ u[n + 1] = Star
  BY <1>2, <1>3
<1>8. PICK T : u \in Seq(T)
  BY <1>2
<1>9. 1 \in R[1] <=> IstioMatch(u, req)
  BY <1>1, <1>2, <1>3, <1>6, <1>7, <1>8, PrefixAgrees
<1> QED
  BY <1>1, <1>9, ReadingMeans DEF u

----------------------------------------------------------------------------
(* Templates, segment by segment from the last one.                        *)

\* F is how Istio reads req by the template s.
Templating(F, s, req) == F = TemplateFrom(s, req)

LEMMA SegmentKinds ==
  ASSUME NEW s \in Seq(Char), Templated(s), NEW p \in SegmentStarts(s)
  PROVE  \/ Segment(s, p) = matchOneTemplate /\ SegmentEnd(s, p) = p + 3 /\ OneAt(s, p)
         \/ Segment(s, p) = matchAnyTemplate /\ SegmentEnd(s, p) = p + 4 /\ AnyAt(s, p)
         \/ /\ Segment(s, p) # matchOneTemplate /\ Segment(s, p) # matchAnyTemplate
            /\ \A i \in p..(SegmentEnd(s, p) - 1) : s[i] \notin Braces \cup { Star }
<1>1. p \in 1..(Len(s) + 1)
  BY StartMeans
<1> DEFINE e == SegmentEnd(s, p)
<1>2. e \in p..(Len(s) + 1) /\ \A i \in p..(e - 1) : s[i] # Slash
  BY <1>1, EndMeans
<1>3. /\ Segment(s, p) = matchOneTemplate <=> e = p + 3 /\ OneAt(s, p)
      /\ Segment(s, p) = matchAnyTemplate <=> e = p + 4 /\ AnyAt(s, p)
  BY <1>1, OneSegment, AnySegment
<1>4. CASE p \in Trimmed(s)
  <2>1. CASE Operator(Segment(s, p))
    BY <1>3, <2>1 DEF Operator
  <2>2. CASE IsLiteral(Segment(s, p))
    <3>1. \A i \in p..(e - 1) : s[i] \in Literal
      BY <1>1, <2>2, LiteralSegment
    <3>2. \A i \in p..(e - 1) : s[i] \notin Braces \cup { Star }
      BY <3>1, NotLiteral DEF Braces
    <3> QED
      BY <1>3, <3>2
  <2> QED
    BY <1>4, <2>1, <2>2 DEF Templated
<1>5. CASE p \notin Trimmed(s)
  <2>1. ~(p < e)
    <3> SUFFICES ASSUME p < e
                 PROVE  FALSE
      OBVIOUS
    <3>1. p \in 1..Len(s) /\ p \in p..(e - 1)
      BY <1>1, <1>2
    <3>2. s[p] # Slash
      BY <1>2, <3>1
    <3> HIDE DEF e
    <3>3. p \in Trimmed(s)
      BY <3>1, <3>2, TrimmedMeans
    <3> QED
      BY <1>5, <3>3
  <2> HIDE DEF e
  <2>2. \A i \in p..(e - 1) : s[i] \notin Braces \cup { Star }
    BY <1>1, <1>2, <2>1
  <2>3. e # p + 3 /\ e # p + 4
    BY <1>1, <1>2, <2>1
  <2> QED
    BY <1>3, <2>2, <2>3 DEF e
<1> QED
  BY <1>4, <1>5

\* Where the segment at p ends the two readings meet: the script has come to
\* the end of a segment of the request.
Meeting(R, F, req, e) ==
  \A k \in 1..(Len(req) + 1) :
    k \in R[e] <=> (k = Len(req) + 1 \/ req[k] = Slash) /\ k + 1 \in F[e + 1]

LEMMA ReadingsMeet ==
  ASSUME NEW s \in Seq(Char), NEW req \in Seq(Char), NEW R, Reading(R, s, req),
         NEW F, Templating(F, s, req), NEW p \in SegmentStarts(s), NEW e, e = SegmentEnd(s, p),
         e <= Len(s) => \A q \in SegmentStarts(req) : q \in F[e + 1] <=> q \in R[e + 1]
  PROVE  Meeting(R, F, req, e)
<1>1. p \in 1..(Len(s) + 1)
  BY StartMeans
<1>2. e \in p..(Len(s) + 1) /\ (e <= Len(s) => s[e] = Slash)
  BY <1>1, EndMeans
<1>3. CASE e = Len(s) + 1
  <2>1. R[e] = { Len(req) + 1 }
    <3>1. R[Len(s) + 1] = { Len(req) + 1 }
      BY ItemSteps
    <3> QED
      BY <1>3, <3>1
  <2>2. F[e + 1] = { Len(req) + 2 }
    <3>1. F[Len(s) + 2] = { Len(req) + 2 }
      BY TemplateUnfold DEF Templating
    <3>2. e + 1 = Len(s) + 2
      BY <1>3
    <3> QED
      BY <3>1, <3>2
  <2> QED
    BY <2>1, <2>2 DEF Meeting
<1>4. CASE e <= Len(s)
  <2>1. e \in 1..Len(s) /\ s[e] = Slash /\ e + 1 \in 1..(Len(s) + 1)
    BY <1>1, <1>2, <1>4
  <2>2. s[e] \notin Braces \cup { Star }
    BY <2>1, Different DEF Braces
  <2>3. ASSUME NEW k \in 1..(Len(req) + 1)
        PROVE  k \in R[e] <=> (k = Len(req) + 1 \/ req[k] = Slash) /\ k + 1 \in F[e + 1]
    <3>1. k \in R[e] <=> k <= Len(req) /\ req[k] = s[e] /\ k + 1 \in R[e + 1]
      BY <2>1, <2>2, ItemSteps
    <3>2. CASE k = Len(req) + 1
      <4> DEFINE g == e + 1
      <4>1. g \in 1..(Len(s) + 1)
        BY <2>1
      <4> HIDE DEF g
      <4>2. k + 1 \in F[g] => k + 1 \in SegmentStarts(req)
        BY <4>1, TemplateUnfold DEF Templating
      <4>3. k + 1 \notin SegmentStarts(req)
        BY <3>2 DEF SegmentStarts
      <4> QED
        BY <3>1, <3>2, <4>2, <4>3 DEF g
    <3>3. CASE k <= Len(req) /\ req[k] = Slash
      <4> DEFINE n == k + 1
      <4>1. n \in 1..(Len(req) + 1) /\ n - 1 = k
        BY <3>3
      <4> HIDE DEF n
      <4>2. n \in SegmentStarts(req)
        BY <3>3, <4>1, StartMeans
      <4>3. n \in F[e + 1] <=> n \in R[e + 1]
        BY <1>4, <4>2
      <4> QED
        BY <2>1, <3>1, <3>3, <4>3 DEF n
    <3>4. CASE k <= Len(req) /\ req[k] # Slash
      BY <2>1, <3>1, <3>4
    <3> QED
      BY <3>2, <3>3, <3>4
  <2> QED
    BY <2>3 DEF Meeting
<1> QED
  BY <1>1, <1>2, <1>3, <1>4

\* A position where a segment of the request ends is the end of the last
\* segment that starts before it.
LEMMA EndOfSome ==
  ASSUME NEW req \in Seq(Char), NEW q \in SegmentStarts(req), NEW k \in q..(Len(req) + 1),
         k = Len(req) + 1 \/ req[k] = Slash
  PROVE  \E m \in SegmentStarts(req) : q <= m /\ SegmentEnd(req, m) = k
<1>0. q \in 1..(Len(req) + 1) /\ k \in Nat
  BY StartMeans
<1> DEFINE S == { m \in 1..k : m \in SegmentStarts(req) }
<1>1. q \in S /\ S \subseteq 1..k /\ S # {}
  BY <1>0
<1>2. \A m : m \in S <=> m \in 1..k /\ m \in SegmentStarts(req)
  OBVIOUS
<1> HIDE DEF S
<1>3. PICK m \in S : \A x \in S : x <= m
  BY <1>0, <1>1, Greatest
<1>4. m \in 1..k /\ m \in SegmentStarts(req) /\ m \in 1..(Len(req) + 1) /\ q <= m
  BY <1>0, <1>1, <1>2, <1>3
<1>5. ASSUME NEW i \in m..(k - 1)
      PROVE  req[i] # Slash
  <2> SUFFICES ASSUME req[i] = Slash
               PROVE  FALSE
    OBVIOUS
  <2> DEFINE n == i + 1
  <2>1. n \in 1..k /\ n \in 1..(Len(req) + 1) /\ n - 1 = i /\ n > m
    BY <1>0, <1>4
  <2> HIDE DEF n
  <2>2. n \in SegmentStarts(req)
    BY <2>1, StartMeans
  <2> QED
    BY <1>2, <1>3, <1>4, <2>1, <2>2
<1>6. k \in m..(Len(req) + 1) /\ (k <= Len(req) => req[k] = Slash)
  BY <1>0, <1>4
<1>7. SegmentEnd(req, m) = k
  BY <1>4, <1>5, <1>6, EndIs
<1> QED
  BY <1>4, <1>7

LEMMA MeetingMeans ==
  ASSUME NEW R, NEW F, NEW req, NEW e, Meeting(R, F, req, e), NEW k \in 1..(Len(req) + 1), NEW n, n = e + 1
  PROVE  k \in R[e] <=> (k = Len(req) + 1 \/ req[k] = Slash) /\ k + 1 \in F[n]
BY DEF Meeting

\* The two readings agree on a segment without a wildcard ...
LEMMA PlainSegmentAgrees ==
  ASSUME NEW s \in Seq(Char), NEW req \in Seq(Char), NEW R, Reading(R, s, req),
         NEW p \in 1..(Len(s) + 1), NEW e, e = SegmentEnd(s, p),
         \A i \in p..(e - 1) : s[i] \notin Braces \cup { Star },
         NEW F, Meeting(R, F, req, e), NEW n, n = e + 1,
         NEW q \in SegmentStarts(req)
  PROVE  q \in R[p] <=> SegmentEnd(req, q) + 1 \in F[n] /\ Segment(req, q) = Segment(s, p)
<1> DEFINE f == SegmentEnd(req, q)
           g == Segment(req, q)
           h == Segment(s, p)
<1>1. /\ q \in 1..(Len(req) + 1)
      /\ f \in q..(Len(req) + 1)
      /\ f <= Len(req) => req[f] = Slash
  BY StartMeans, EndMeans
<1>2. e \in p..(Len(s) + 1) /\ \A i \in p..(e - 1) : s[i] # Slash
  BY EndMeans
<1>3. q \in R[p] <=> q + (e - p) \in R[e] /\ SameText(s, p, req, q, e - p)
  BY <1>1, <1>2, PlainRun
<1>4. g \in Seq(Char) /\ Len(g) = f - q /\ \A i \in 1..(f - q) : g[i] = req[q + i - 1]
  <2>1. q \in 1..(Len(req) + 1) /\ req \in Seq(Char)
    BY <1>1
  <2> QED
    BY ONLY <2>1, SegmentMeans, Zenon
<1>5. h \in Seq(Char) /\ Len(h) = e - p /\ \A i \in 1..(e - p) : h[i] = s[p + i - 1]
  BY ONLY p \in 1..(Len(s) + 1), s \in Seq(Char), e = SegmentEnd(s, p), SegmentMeans, Zenon
<1> HIDE DEF f, g, h
<1>a. p \in Nat /\ q \in Nat /\ e \in Nat /\ f \in Nat /\ Len(req) \in Nat /\ p <= e /\ q <= f
      /\ 1 <= p /\ 1 <= q /\ f <= Len(req) + 1
  <2>1. Len(s) \in Nat /\ Len(req) \in Nat /\ p \in 1..(Len(s) + 1)
    OBVIOUS
  <2> QED
    BY ONLY <1>1, <1>2, <2>1
<1>6. g = h <=> Len(g) = Len(h) /\ \A i \in 1..Len(g) : g[i] = h[i]
  <2>1. g \in Seq(Char) /\ h \in Seq(Char)
    BY <1>4, <1>5
  <2>2. ASSUME NEW a \in Seq(Char), NEW b \in Seq(Char)
        PROVE  a = b <=> Len(a) = Len(b) /\ \A i \in 1..Len(a) : a[i] = b[i]
    BY SameSeq
  <2> QED
    BY ONLY <2>1, <2>2, Zenon
<1>7. ASSUME f - q = e - p
      PROVE  g = h <=> SameText(s, p, req, q, e - p)
  <2>1. ASSUME g = h, NEW x \in 0..((e - p) - 1)
        PROVE  req[q + x] = s[p + x]
    <3> DEFINE i == x + 1
    <3>0. x \in 0..((e - p) - 1)
      BY <2>1
    <3>1. i \in 1..(e - p) /\ i \in 1..(f - q) /\ q + i - 1 = q + x /\ p + i - 1 = p + x
      BY ONLY <1>a, <1>7, <3>0
    <3> HIDE DEF i
    <3>2. g[i] = req[q + x] /\ h[i] = s[p + x]
      BY <1>4, <1>5, <3>1
    <3> QED
      BY <2>1, <3>2
  <2>2. ASSUME SameText(s, p, req, q, e - p), NEW i \in 1..Len(g)
        PROVE  g[i] = h[i]
    <3> DEFINE x == i - 1
    <3>1. i \in 1..(e - p) /\ i \in 1..(f - q) /\ q + i - 1 = q + x /\ p + i - 1 = p + x
          /\ x \in 0..((e - p) - 1)
      <4>1. i \in 1..(f - q)
        BY <1>4
      <4> QED
        BY ONLY <1>a, <1>7, <4>1
    <3> HIDE DEF x
    <3>2. g[i] = req[q + x] /\ h[i] = s[p + x]
      BY <1>4, <1>5, <3>1
    <3>3. req[q + x] = s[p + x]
      BY <2>2, <3>1, Zenon DEF SameText
    <3> QED
      BY <3>2, <3>3
  <2>3. g = h => SameText(s, p, req, q, e - p)
    BY <2>1, Zenon DEF SameText
  <2>4. SameText(s, p, req, q, e - p) => g = h
    BY <1>4, <1>5, <1>6, <1>7, <2>2
  <2> QED
    BY <2>3, <2>4
<1>8. ASSUME f + 1 \in F[n], g = h
      PROVE  q \in R[p]
  <2>1. f - q = e - p
    BY <1>4, <1>5, <1>8
  <2>2. q + (e - p) = f /\ f \in 1..(Len(req) + 1) /\ (f = Len(req) + 1 \/ req[f] = Slash)
    <3>1. q + (e - p) = f
      BY ONLY <1>a, <2>1
    <3>2. f \in 1..(Len(req) + 1)
      BY ONLY <1>a
    <3> QED
      BY <1>1, <3>1, <3>2
  <2>3. f \in R[e]
    BY <1>8, <2>2, MeetingMeans
  <2> QED
    BY <1>3, <1>7, <1>8, <2>1, <2>2, <2>3
<1>9. ASSUME q \in R[p]
      PROVE  f + 1 \in F[n] /\ g = h
  <2> DEFINE k == q + (e - p)
  <2>1. k \in R[e] /\ SameText(s, p, req, q, e - p)
    BY <1>3, <1>9
  <2>2. k \in 1..(Len(req) + 1)
    <3>1. e \in 1..(Len(s) + 1)
      BY <1>2
    <3>2. \A i \in 1..(Len(s) + 1) : R[i] \subseteq 1..(Len(req) + 1)
      BY ItemSteps, Zenon
    <3> HIDE DEF k
    <3> QED
      BY <2>1, <3>1, <3>2, Zenon
  <2>3. (k = Len(req) + 1 \/ req[k] = Slash) /\ k + 1 \in F[n]
    <3> HIDE DEF k
    <3> QED
      BY <2>1, <2>2, MeetingMeans
  <2>4. k \in q..(Len(req) + 1) /\ k - q = e - p
    BY ONLY <1>a, <2>2
  <2>5. ASSUME NEW i \in q..(k - 1)
        PROVE  req[i] # Slash
    <3> DEFINE x == i - q
    <3>0. i \in q..(k - 1)
      OBVIOUS
    <3>1. x \in 0..((e - p) - 1) /\ q + x = i /\ p + x \in p..(e - 1)
      BY ONLY <1>a, <3>0
    <3> HIDE DEF x, k
    <3>2. req[q + x] = s[p + x]
      BY <2>1, <3>1, Zenon DEF SameText
    <3> QED
      BY <1>2, <3>1, <3>2
  <2>6. f = k
    <3>1. k <= Len(req) => req[k] = Slash
      BY <2>2, <2>3
    <3> HIDE DEF k
    <3> QED
      BY <1>1, <2>4, <2>5, <3>1, EndIs DEF f
  <2> HIDE DEF k
  <2> QED
    BY <1>7, <2>1, <2>3, <2>4, <2>6
<1> QED
  BY <1>8, <1>9 DEF f, g, h

\* ... on {*} ...
LEMMA OneSegmentAgrees ==
  ASSUME NEW s \in Seq(Char), NEW req \in Seq(Char), NEW R, Reading(R, s, req),
         NEW p \in 1..Len(s), OneAt(s, p), Ends(s, p - 1), Ends(s, p + 3),
         NEW e \in 1..(Len(s) + 1), e = p + 3, NEW F, Meeting(R, F, req, e), NEW n, n = e + 1,
         NEW q \in SegmentStarts(req)
  PROVE  q \in R[p] <=> SegmentEnd(req, q) + 1 \in F[n] /\ SegmentEnd(req, q) > q
<1> DEFINE f == SegmentEnd(req, q)
<1>1. /\ q \in 1..(Len(req) + 1)
      /\ f \in q..(Len(req) + 1)
      /\ \A i \in q..(f - 1) : req[i] # Slash
      /\ f <= Len(req) => req[f] = Slash
  BY StartMeans, EndMeans
<1> HIDE DEF f
<1>2. q \in R[p] <=> \E k \in R[e] : k > q /\ \A x \in q..(k - 1) : req[x] # Slash
  <2>1. q \in R[p] <=> \E k \in R[p + 3] : k > q /\ \A x \in q..(k - 1) : req[x] # Slash
    BY <1>1, OneItems
  <2> QED
    BY <2>1, Zenon
<1>3. ASSUME f + 1 \in F[n], f > q
      PROVE  q \in R[p]
  <2>1. f \in 1..(Len(req) + 1) /\ (f = Len(req) + 1 \/ req[f] = Slash)
    BY <1>1
  <2>2. f \in R[e]
    BY <1>3, <2>1, MeetingMeans
  <2> QED
    BY <1>1, <1>2, <1>3, <2>2, Zenon
<1>4. ASSUME NEW k \in R[e], k > q, \A x \in q..(k - 1) : req[x] # Slash
      PROVE  f + 1 \in F[n] /\ f > q
  <2>1. k \in 1..(Len(req) + 1)
    <3>1. \A i \in 1..(Len(s) + 1) : R[i] \subseteq 1..(Len(req) + 1)
      BY ItemSteps, Zenon
    <3> QED
      BY <3>1, Zenon
  <2>2. (k = Len(req) + 1 \/ req[k] = Slash) /\ k + 1 \in F[n]
    BY <2>1, MeetingMeans
  <2>3. k \in q..(Len(req) + 1) /\ (k <= Len(req) => req[k] = Slash)
    BY <1>1, <1>4, <2>1, <2>2
  <2>4. f = k
    BY <1>1, <1>4, <2>3, EndIs DEF f
  <2> QED
    BY <1>4, <2>2, <2>4
<1> QED
  BY <1>2, <1>3, <1>4 DEF f

\* ... and on {**}.
LEMMA AnySegmentAgrees ==
  ASSUME NEW s \in Seq(Char), NEW req \in Seq(Char), NEW R, Reading(R, s, req),
         NEW p \in 1..Len(s), AnyAt(s, p), Ends(s, p - 1),
         NEW e \in 1..(Len(s) + 1), e = p + 4, NEW F, Meeting(R, F, req, e), NEW n, n = e + 1,
         NEW q \in SegmentStarts(req)
  PROVE  q \in R[p] <=> \E k \in SegmentStarts(req) : q <= k /\ SegmentEnd(req, k) + 1 \in F[n]
<1>1. q \in 1..(Len(req) + 1)
  BY StartMeans
<1>2. q \in R[p] <=> \E k \in R[e] : k >= q
  <2>1. q \in R[p] <=> \E k \in R[p + 4] : k >= q
    BY <1>1, AnyItems
  <2> QED
    BY <2>1, Zenon
<1>3. ASSUME NEW k \in SegmentStarts(req), q <= k, SegmentEnd(req, k) + 1 \in F[n]
      PROVE  q \in R[p]
  <2> DEFINE f == SegmentEnd(req, k)
  <2>1. /\ k \in 1..(Len(req) + 1)
        /\ f \in k..(Len(req) + 1)
        /\ f <= Len(req) => req[f] = Slash
    BY StartMeans, EndMeans
  <2>0. f + 1 \in F[n]
    BY <1>3
  <2> HIDE DEF f
  <2>2. f \in 1..(Len(req) + 1) /\ (f = Len(req) + 1 \/ req[f] = Slash) /\ f >= q
    <3>1. f \in 1..(Len(req) + 1) /\ f >= q
      <4>1. Len(req) \in Nat
        OBVIOUS
      <4>2. q <= k
        BY <1>3
      <4> QED
        BY ONLY <1>1, <2>1, <4>1, <4>2
    <3>2. f = Len(req) + 1 \/ f <= Len(req)
      BY ONLY <3>1, Len(req) \in Nat
    <3> QED
      BY <2>1, <3>1, <3>2
  <2>3. f \in R[e]
    BY <2>0, <2>2, MeetingMeans
  <2> QED
    BY <1>2, <2>2, <2>3
<1>4. ASSUME NEW k \in R[e], k >= q
      PROVE  \E m \in SegmentStarts(req) : q <= m /\ SegmentEnd(req, m) + 1 \in F[n]
  <2>1. k \in 1..(Len(req) + 1)
    <3>1. \A i \in 1..(Len(s) + 1) : R[i] \subseteq 1..(Len(req) + 1)
      BY ItemSteps, Zenon
    <3> QED
      BY <3>1, Zenon
  <2>2. (k = Len(req) + 1 \/ req[k] = Slash) /\ k + 1 \in F[n]
    BY <2>1, MeetingMeans
  <2>3. k \in q..(Len(req) + 1)
    BY <1>1, <1>4, <2>1
  <2>4. PICK m \in SegmentStarts(req) : q <= m /\ SegmentEnd(req, m) = k
    BY <2>2, <2>3, EndOfSome
  <2> QED
    BY <2>2, <2>4
<1> QED
  BY <1>2, <1>3, <1>4

\* If the readings agree after the segment at p, they agree from it on.
LEMMA SegmentAgrees ==
  ASSUME NEW s \in Seq(Char), NEW req \in Seq(Char), Templated(s), NEW R, Reading(R, s, req),
         NEW F, Templating(F, s, req), NEW p \in SegmentStarts(s), NEW e, e = SegmentEnd(s, p),
         e <= Len(s) => \A q \in SegmentStarts(req) : q \in F[e + 1] <=> q \in R[e + 1],
         NEW q \in SegmentStarts(req)
  PROVE  q \in F[p] <=> q \in R[p]
<1> DEFINE n == e + 1
           f == SegmentEnd(req, q)
           seg == Segment(s, p)
           got == Segment(req, q)
<1>1. p \in 1..(Len(s) + 1) /\ q \in 1..(Len(req) + 1) /\ (p = 1 \/ s[p - 1] = Slash)
  BY StartMeans
<1>2. e \in p..(Len(s) + 1) /\ (e <= Len(s) => s[e] = Slash)
  BY <1>1, EndMeans
<1>3. Meeting(R, F, req, e)
  BY ReadingsMeet
<1>4. q \in F[p] <=> Fits(seg, req, q, F[n])
  <2>1. q \in F[p] <=>
          q \in SegmentStarts(req) /\ Fits(Segment(s, p), req, q, F[SegmentEnd(s, p) + 1])
    BY <1>1, TemplateUnfold DEF Templating
  <2> QED
    BY <2>1
<1>5. Slash \notin Braces \cup { Star }
  BY Different DEF Braces
<1>6. Ends(s, p - 1) /\ Ends(s, e)
  <2>1. Ends(s, e)
    BY <1>2, <1>5 DEF Ends
  <2>2. CASE p = 1
    BY <2>1, <2>2 DEF Ends
  <2>3. CASE s[p - 1] = Slash
    BY <1>5, <2>1, <2>3 DEF Ends
  <2> QED
    BY <1>1, <2>2, <2>3
<1>7. /\ f \in q..(Len(req) + 1)
      /\ got \in Seq(Char) /\ Len(got) = f - q
  BY <1>1, EndMeans, SegmentMeans
<1>8. got = << >> <=> f = q
  <2> HIDE DEF f, got
  <2>1. got = << >> <=> Len(got) = 0
    BY <1>7, EmptySeq
  <2>2. q \in Nat /\ f \in Nat
    BY <1>1, <1>7
  <2> QED
    BY ONLY <1>7, <2>1, <2>2
<1>9. n = e + 1
  OBVIOUS
<1> HIDE DEF n, f, seg, got
<1>10. Fits(seg, req, q, F[n]) <=>
         \/ /\ seg = matchAnyTemplate
            /\ \E k \in SegmentStarts(req) : q <= k /\ SegmentEnd(req, k) + 1 \in F[n]
         \/ seg = matchOneTemplate /\ f + 1 \in F[n] /\ got # << >>
         \/ f + 1 \in F[n] /\ got = seg
  BY Zenon DEF Fits, f, got
<1>11. matchOneTemplate # matchAnyTemplate /\ matchOneTemplate # << >>
  <2>1. Len(matchOneTemplate) # Len(matchAnyTemplate)
    BY OneTemplate, AnyTemplate
  <2>2. matchOneTemplate # << >>
    <3>1. PICK U : matchOneTemplate \in Seq(U)
      BY OneTemplate
    <3>2. matchOneTemplate = << >> <=> Len(matchOneTemplate) = 0
      BY <3>1, EmptySeq
    <3> QED
      BY <3>2, OneTemplate
  <2> QED
    BY <2>1, <2>2, Zenon
<1>12. CASE seg = matchOneTemplate /\ e = p + 3 /\ OneAt(s, p)
  <2>1. p \in 1..Len(s) /\ e \in 1..(Len(s) + 1) /\ Ends(s, p + 3)
    <3>1. p + 2 <= Len(s) /\ Len(s) \in Nat
      BY <1>12 DEF OneAt
    <3>2. p \in 1..Len(s) /\ e \in 1..(Len(s) + 1)
      BY ONLY <1>1, <1>2, <3>1
    <3> QED
      BY <1>6, <1>12, <3>2
  <2>2. q \in R[p] <=> f + 1 \in F[n] /\ f > q
    BY <1>3, <1>6, <1>9, <1>12, <2>1, OneSegmentAgrees DEF f
  <2>3. Fits(seg, req, q, F[n]) <=> f + 1 \in F[n] /\ got # << >>
    BY <1>10, <1>11, <1>12
  <2>4. f > q <=> got # << >>
    BY <1>1, <1>7, <1>8
  <2> QED
    BY <1>4, <2>2, <2>3, <2>4
<1>13. CASE seg = matchAnyTemplate /\ e = p + 4 /\ AnyAt(s, p)
  <2>1. p \in 1..Len(s) /\ e \in 1..(Len(s) + 1)
    <3>1. p + 3 <= Len(s) /\ Len(s) \in Nat
      BY <1>13 DEF AnyAt
    <3> QED
      BY ONLY <1>1, <1>2, <3>1
  <2> DEFINE E == \E k \in SegmentStarts(req) : q <= k /\ SegmentEnd(req, k) + 1 \in F[n]
  <2>2. q \in R[p] <=> E
    BY <1>3, <1>6, <1>9, <1>13, <2>1, AnySegmentAgrees
  <2>3. q <= q
    BY <1>1
  <2>4. f + 1 \in F[n] => E
    BY <2>3 DEF f
  <2> HIDE DEF E
  <2>5. Fits(seg, req, q, F[n]) <=> E
    BY <1>10, <1>11, <1>13, <2>4 DEF E
  <2> QED
    BY <1>4, <2>2, <2>5
<1>14. CASE /\ seg # matchOneTemplate /\ seg # matchAnyTemplate
            /\ \A i \in p..(e - 1) : s[i] \notin Braces \cup { Star }
  <2>1. q \in R[p] <=> f + 1 \in F[n] /\ got = seg
    BY <1>1, <1>3, <1>9, <1>14, PlainSegmentAgrees, SMTT(30) DEF f, got, seg
  <2> QED
    BY <1>4, <1>10, <1>14, <2>1
<1> QED
  BY <1>12, <1>13, <1>14, SegmentKinds DEF seg

\* By the greatest start of a segment from which they would not agree.
LEMMA TemplateReadingsAgree ==
  ASSUME NEW s \in Seq(Char), NEW req \in Seq(Char), Templated(s), NEW R, Reading(R, s, req),
         NEW F, Templating(F, s, req)
  PROVE  1 \in F[1] <=> 1 \in R[1]
<1> DEFINE Claim(p) == \A q \in SegmentStarts(req) : q \in F[p] <=> q \in R[p]
           S == { p \in 1..(Len(s) + 1) : p \in SegmentStarts(s) /\ ~Claim(p) }
<1>1. \A p : p \in S <=> p \in 1..(Len(s) + 1) /\ p \in SegmentStarts(s) /\ ~Claim(p)
  BY Zenon
<1>2. ASSUME S # {}
      PROVE  FALSE
  <2>1. S \subseteq 1..(Len(s) + 1) /\ Len(s) + 1 \in Nat
    OBVIOUS
  <2> HIDE DEF S, Claim
  <2>2. PICK p \in S : \A k \in S : k <= p
    <3> DEFINE N == Len(s) + 1
    <3>1. S \subseteq 1..N /\ N \in Nat
      BY <2>1
    <3> HIDE DEF N
    <3> QED
      BY <1>2, <3>1, Greatest
  <2>3. p \in 1..(Len(s) + 1) /\ p \in SegmentStarts(s) /\ ~Claim(p)
    BY <1>1, <2>2
  <2> DEFINE e == SegmentEnd(s, p)
             n == e + 1
  <2>4. e \in p..(Len(s) + 1) /\ (e <= Len(s) => s[e] = Slash)
    BY <2>3, EndMeans
  <2>5. e = SegmentEnd(s, p)
    OBVIOUS
  <2> HIDE DEF e
  <2>6. n = e + 1 /\ n > p /\ n - 1 = e
    BY <2>3, <2>4
  <2>7. ASSUME e <= Len(s)
        PROVE  Claim(n)
    <3>1. n \in 1..(Len(s) + 1) /\ s[e] = Slash
      BY <2>3, <2>4, <2>7
    <3> HIDE DEF n
    <3>2. n \in SegmentStarts(s)
      BY <2>6, <3>1, StartMeans
    <3>3. n \notin S
      <4>1. ~(n <= p)
        BY <2>3, <2>6, <3>1
      <4> QED
        BY <2>2, <4>1
    <3> QED
      BY <1>1, <3>1, <3>2, <3>3
  <2>8. e <= Len(s) => \A q \in SegmentStarts(req) : q \in F[e + 1] <=> q \in R[e + 1]
    BY <2>7, Zenon DEF Claim
  <2>9. ASSUME NEW q \in SegmentStarts(req)
        PROVE  q \in F[p] <=> q \in R[p]
    BY <2>3, <2>5, <2>8, SegmentAgrees, ZenonT(30)
  <2>10. Claim(p)
    BY <2>9, Zenon DEF Claim
  <2> QED
    BY <2>3, <2>10
<1>3. 1 \in 1..(Len(s) + 1) /\ 1 \in SegmentStarts(s) /\ 1 \in SegmentStarts(req)
  BY DEF SegmentStarts
<1>4. Claim(1)
  <2> HIDE DEF S, Claim
  <2> QED
    BY <1>1, <1>2, <1>3
<1> QED
  BY <1>3, <1>4

\* Literals and operators, each a segment of its own.
LEMMA TemplatedAgrees ==
  ASSUME NEW s \in Seq(Char), NEW req \in Seq(Char), Templated(s), Has(s, Braces), s[1] = Slash
  PROVE  LuaMatch(toLuaPattern(s), req) <=> IstioMatch(transformPathForIstio(s), req)
<1>1. PICK R : Reading(R, s, req)
  BY DEF Reading
<1>2. PICK F : Templating(F, s, req)
  BY DEF Templating
<1>3. 1 \in F[1] <=> 1 \in R[1]
  BY <1>1, <1>2, TemplateReadingsAgree
<1>4. transformPathForIstio(s) = s
  BY TemplatedTransform
<1>5. ContainsSeq(s, matchOneTemplate) \/ ContainsSeq(s, matchAnyTemplate)
  <2>1. PICK i \in 1..Len(s) : s[i] \in Braces
    BY HasMeans
  <2>2. s[i] # Slash
    BY <2>1, Different DEF Braces
  <2>3. PICK p \in Trimmed(s) : p <= i /\ i < SegmentEnd(s, p)
    BY <2>2, InSegment
  <2>4. p \in 1..(Len(s) + 1)
    BY TrimmedMeans
  <2>5. ~IsLiteral(Segment(s, p))
    <3> SUFFICES ASSUME IsLiteral(Segment(s, p))
                 PROVE  FALSE
      OBVIOUS
    <3>1. \A k \in p..(SegmentEnd(s, p) - 1) : s[k] \in Literal
      BY <2>4, LiteralSegment
    <3>2. SegmentEnd(s, p) \in p..(Len(s) + 1)
      BY <2>4, EndMeans
    <3>3. i \in p..(SegmentEnd(s, p) - 1)
      BY <2>3, <2>4, <3>2
    <3> QED
      BY <2>1, <3>1, <3>3, NotLiteral DEF Braces
  <2>6. Operator(Segment(s, p))
    BY <2>5 DEF Templated
  <2>7. OneAt(s, p) \/ AnyAt(s, p)
    BY <2>6, OperatorSegment
  <2>8. p \in 1..Len(s)
    BY <2>4, <2>7 DEF OneAt, AnyAt
  <2> QED
    BY <2>7, <2>8, ContainsOne, ContainsAny
<1>6. IstioMatch(s, req) <=> 1 \in F[1]
  BY <1>2, <1>5 DEF IstioMatch, TemplateMatch, Templating
<1> QED
  BY <1>1, <1>3, <1>4, <1>6, ReadingMeans

----------------------------------------------------------------------------
(* All paths that Istio takes.                                             *)

\* A template that ends with a slash, too: there Istio has refused what the
\* trimming of the validation let pass.
LEMMA SlashedShape ==
  ASSUME NEW s \in Seq(Char), Len(s) > 1, s[Len(s)] = Slash, validateTemplatePath(s),
         IstioAccepts(transformPathForIstio(s))
  PROVE  Templated(s)
<1>1. ~IsSuffix(matchAnyTemplate, s)
  <2> SUFFICES ASSUME IsSuffix(matchAnyTemplate, s)
               PROVE  FALSE
    OBVIOUS
  <2> DEFINE p == Len(s) - 3
  <2>1. AnyAt(s, p) /\ p + 3 = Len(s)
    BY EndsWithAny
  <2> HIDE DEF p
  <2>2. s[Len(s)] = Close
    BY <2>1 DEF AnyAt
  <2> QED
    BY <2>2, Different
<1>2. transformPathForIstio(s) = s
  BY <1>1, Zenon DEF transformPathForIstio
<1>3. IstioAccepts(s)
  BY <1>2
<1>4. ASSUME NEW p \in Trimmed(s), ~Operator(Segment(s, p))
      PROVE  ~Has(Segment(s, p), Braces)
  <2>1. toPathSegments(s)[p] = Segment(s, p) /\ p \in DOMAIN toPathSegments(s)
    BY TrimmedMeans DEF Trimmed
  <2>2. toPathSegments(s)[p] \notin { matchOneTemplate, matchAnyTemplate }
    BY <1>4, <2>1 DEF Operator
  <2>3. ~Has(toPathSegments(s)[p], Braces)
    BY <1>3, <2>1, <2>2, Zenon DEF IstioAccepts
  <2> QED
    BY <2>1, <2>3
<1>5. ASSUME NEW p \in Trimmed(s)
      PROVE  \/ /\ Operator(Segment(s, p))
                /\ \A q \in Trimmed(s) : q < p => Segment(s, q) # matchAnyTemplate
             \/ ~Operator(Segment(s, p)) /\ IsLiteral(Segment(s, p))
  <2> DEFINE g == Segment(s, p)
  <2>1. \/ /\ Operator(g)
           /\ \A q \in Trimmed(s) : q < p => Segment(s, q) # matchAnyTemplate
        \/ ~Operator(g) /\ IsSuffix(matchAnyTemplate, g)
        \/ IsLiteral(g)
    BY TemplateSegment
  <2>2. p \in 1..(Len(s) + 1)
    BY TrimmedMeans
  <2>3. g \in Seq(Char)
    BY <2>2, SegmentMeans
  <2> HIDE DEF g
  <2>4. ~Operator(g) => ~Has(g, Braces)
    BY <1>4 DEF g
  <2>5. IsSuffix(matchAnyTemplate, g) => Has(g, Braces)
    <3> SUFFICES ASSUME IsSuffix(matchAnyTemplate, g)
                 PROVE  Has(g, Braces)
      OBVIOUS
    <3> DEFINE a == Len(g) - 3
    <3>1. AnyAt(g, a) /\ a \in 1..Len(g)
      BY <2>3, EndsWithAny
    <3> HIDE DEF a
    <3>2. g[a] \in Braces
      BY <3>1 DEF AnyAt, Braces
    <3> QED
      BY <2>3, <3>1, <3>2, HasMeans
  <2>6. IsLiteral(g) => ~Operator(g)
    <3> SUFFICES ASSUME IsLiteral(g), Operator(g)
                 PROVE  FALSE
      OBVIOUS
    <3>1. Len(g) >= 1 /\ g[1] \in Literal
      BY <2>3, LiteralMeans
    <3>2. g[1] = Open
      BY OneTemplate, AnyTemplate DEF Operator
    <3> QED
      BY <3>1, <3>2, NotLiteral
  <2> QED
    BY <2>1, <2>4, <2>5, <2>6 DEF g
<1>6. \A p \in Trimmed(s) : Operator(Segment(s, p)) \/ IsLiteral(Segment(s, p))
  BY <1>5
<1>7. ASSUME NEW p \in Trimmed(s), NEW q \in Trimmed(s), p < q, Segment(s, p) = matchAnyTemplate
      PROVE  ~Operator(Segment(s, q))
  BY <1>5, <1>7
<1> QED
  BY <1>6, <1>7 DEF Templated

LEMMA AppliedAgrees ==
  ASSUME NEW s \in Seq(Char), NEW req \in Seq(Char), validatePath(s),
         IstioAccepts(transformPathForIstio(s))
  PROVE  LuaMatch(toLuaPattern(s), req) <=> IstioMatch(transformPathForIstio(s), req)
<1>1. Len(s) >= 1 /\ s[1] = Slash
  BY ValidMeans
<1>2. CASE Len(s) = 1 \/ s[Len(s)] # Slash
  <2>1. \/ PlainUpTo(s, Len(s))
        \/ Len(s) >= 2 /\ s[Len(s)] = Star /\ PlainUpTo(s, Len(s) - 1)
        \/ Suffixed(s)
        \/ Templated(s) /\ Has(s, Braces)
    BY <1>2, ValidShape
  <2>2. CASE PlainUpTo(s, Len(s))
    BY <1>1, <2>2, PlainAgrees
  <2>3. CASE Len(s) >= 2 /\ s[Len(s)] = Star /\ PlainUpTo(s, Len(s) - 1)
    BY <2>3, LegacyAgrees
  <2>4. CASE Suffixed(s)
    BY <2>4, SuffixedAgrees
  <2>5. CASE Templated(s) /\ Has(s, Braces)
    BY <1>1, <2>5, TemplatedAgrees
  <2> QED
    BY <2>1, <2>2, <2>3, <2>4, <2>5
<1>3. CASE Len(s) > 1 /\ s[Len(s)] = Slash
  <2>1. \/ \E i \in DOMAIN s : s[i] = Star /\ i = Len(s)
        \/ Has(s, Braces) /\ validateTemplatePath(s)
        \/ validatePlainPathLiterals(s)
    BY ValidMeans
  <2>2. ~\E i \in DOMAIN s : s[i] = Star /\ i = Len(s)
    BY <1>3, Different
  <2>3. CASE Has(s, Braces) /\ validateTemplatePath(s)
    BY <1>1, <1>3, <2>3, SlashedShape, TemplatedAgrees
  <2>4. CASE validatePlainPathLiterals(s)
    BY <1>1, <2>4, PlainLiterals, PlainAgrees
  <2> QED
    BY <2>1, <2>2, <2>3, <2>4
<1>4. Len(s) = 1 \/ Len(s) > 1
  <2> DEFINE n == Len(s)
  <2>1. n \in Nat /\ n >= 1
    BY <1>1
  <2> HIDE DEF n
  <2>2. n = 1 \/ n > 1
    BY ONLY <2>1
  <2> QED
    BY <2>2 DEF n
<1> QED
  BY <1>2, <1>3, <1>4, Zenon

----------------------------------------------------------------------------
(* The specification.                                                      *)

Unmatched == [ istio |-> FALSE, lua |-> FALSE ]

\* What a path has been through, and what came of it.
PathsInv ==
  /\ path \in RulePaths
  /\ verdict \in { "unknown", "resolved", "valid", "invalid", "applied", "refused" }
  /\ verdict # "unknown" => luaPattern = toLuaPattern(path)
  /\ verdict \in { "valid", "applied", "refused" } => validatePath(path)
  /\ verdict \in { "applied", "refused" } => istioPath = transformPathForIstio(path)
  /\ verdict = "refused" => ~IstioAccepts(istioPath)
  /\ verdict = "applied" => IstioAccepts(istioPath)
  /\ \/ matches = Unmatched
     \/ /\ verdict = "applied" /\ request \in RequestPaths
        /\ matches = [ istio |-> IstioMatch(istioPath, request),
                       lua |-> LuaMatch(luaPattern, request) ]

LEMMA PathsInvInit == PInit => PathsInv
BY DEF PInit, PathsInv, Unmatched

LEMMA PathsInvStep == PathsInv /\ [PNext]_pvars => PathsInv'
<1> SUFFICES ASSUME PathsInv, [PNext]_pvars
             PROVE  PathsInv'
  OBVIOUS
<1>1. CASE Resolve
  <2>1. verdict # "applied"
    BY <1>1 DEF Resolve
  <2>2. matches' = Unmatched
    BY <1>1, <2>1 DEF PathsInv, Resolve
  <2> QED
    BY <1>1, <2>2 DEF PathsInv, Resolve
<1>2. CASE ValidatePaths
  <2>1. verdict # "applied"
    BY <1>2 DEF ValidatePaths
  <2>2. matches' = Unmatched
    BY <1>2, <2>1 DEF PathsInv, ValidatePaths
  <2> QED
    BY <1>2, <2>2 DEF PathsInv, ValidatePaths
<1>3. CASE TransformPathsForIstio
  <2>1. verdict # "applied"
    BY <1>3 DEF TransformPathsForIstio
  <2>2. matches' = Unmatched
    BY <1>3, <2>1 DEF PathsInv, TransformPathsForIstio
  <2> QED
    BY <1>3, <2>2 DEF PathsInv, TransformPathsForIstio
<1>4. CASE Receive
  BY <1>4 DEF PathsInv, Receive
<1>5. CASE UNCHANGED pvars
  BY <1>5 DEF PathsInv, pvars
<1> QED
  BY <1>1, <1>2, <1>3, <1>4, <1>5 DEF PNext

LEMMA PathsInvAlways == PSpec => []PathsInv
BY PathsInvInit, PathsInvStep, PTL DEF PSpec

\* Whatever the paths of the rules are, validated or not, nothing is left in
\* the pattern on which escapeLuaPatternChars would panic.
LEMMA PatternIsClean ==
  ASSUME NEW s \in Seq(Char)
  PROVE  ~Has(toLuaPattern(s), Braces \cup { Star })
<1> DEFINE f == toLuaPattern(s)
           Item(i) == CASE Has(s, Braces) /\ s[i] \in Braces -> Nothing
                        [] s[i] = Star -> IF Has(s, Braces) THEN Wildcard(s, i) ELSE MatchAny
                        [] OTHER -> escapeLuaPatternChars(s[i])
<1>1. f = [ i \in DOMAIN s |-> Item(i) ]
  BY DEF toLuaPattern, Pattern
<1>2. Star \notin Braces
  BY Different DEF Braces
<1>3. \A x \in { Nothing, MatchOne, MatchAny, EscapedDot } : x \notin Braces \cup { Star }
  BY Zenon DEF Nothing, MatchOne, MatchAny, EscapedDot, Braces, Open, Close, Star
<1>4. ASSUME NEW i \in DOMAIN s
      PROVE  Item(i) \notin Braces \cup { Star }
  <2>1. CASE Has(s, Braces) /\ s[i] \in Braces
    <3>1. Item(i) = Nothing
      BY <1>2, <2>1
    <3> QED
      BY <1>3, <3>1
  <2>2. CASE s[i] = Star
    <3>1. Item(i) = IF Has(s, Braces) THEN Wildcard(s, i) ELSE MatchAny
      BY <1>2, <2>2
    <3>2. Wildcard(s, i) \in { Nothing, MatchOne, MatchAny }
      BY Zenon DEF Wildcard
    <3> QED
      BY <1>3, <3>1, <3>2
  <2>3. CASE s[i] # Star /\ ~(Has(s, Braces) /\ s[i] \in Braces)
    <3>1. Item(i) = escapeLuaPatternChars(s[i])
      BY <2>3
    <3>2. s[i] \notin Braces
      BY <2>3, HasMeans
    <3>3. escapeLuaPatternChars(s[i]) \in { s[i], EscapedDot }
      BY Zenon DEF escapeLuaPatternChars
    <3> QED
      BY <1>3, <2>3, <3>1, <3>2, <3>3
  <2> QED
    BY <2>1, <2>2, <2>3
<1> HIDE DEF Item
<1>5. DOMAIN f = DOMAIN s /\ \A i \in DOMAIN s : f[i] = Item(i)
  BY <1>1
<1> HIDE DEF f
<1>6. ~Has(f, Braces \cup { Star })
  BY <1>4, <1>5, Zenon DEF Has, ToSet
<1> QED
  BY <1>6 DEF f

\* toLuaPattern may be called on every path, before anything is validated:
\* the panic of escapeLuaPatternChars is out of reach.
THEOREM ConversionNeverPanics == PSpec => []NeverPanics
<1>1. PathsInv => NeverPanics
  <2> SUFFICES ASSUME PathsInv, verdict # "unknown"
               PROVE  ~Has(luaPattern, Braces \cup { Star })
    BY DEF NeverPanics
  <2>1. path \in Seq(Char)
    BY PathsAssumption DEF PathsInv
  <2>2. luaPattern = toLuaPattern(path)
    BY DEF PathsInv
  <2> QED
    BY <2>1, <2>2, PatternIsClean
<1> QED
  BY <1>1, PathsInvAlways, PTL

LEMMA NoTrailingSlash ==
  ASSUME NEW s \in Seq(Char), ~TrailingSlash(s), Len(s) >= 1
  PROVE  Len(s) = 1 \/ s[Len(s)] # Slash
BY EndsWithChar DEF TrailingSlash

\* validatePath and transformPathForIstio fit each other: a path that is
\* valid, and does not end with a slash, becomes one that Istio takes.
THEOREM ValidPathsAreAccepted == PSpec => []ValidIsAccepted
<1>1. PathsInv => ValidIsAccepted
  <2> SUFFICES ASSUME PathsInv, ~TrailingSlash(path), verdict = "refused"
               PROVE  FALSE
    BY DEF ValidIsAccepted
  <2>1. path \in Seq(Char)
    BY PathsAssumption DEF PathsInv
  <2>2. validatePath(path) /\ ~IstioAccepts(transformPathForIstio(path))
    BY DEF PathsInv
  <2>3. Len(path) >= 1
    BY <2>1, <2>2, ValidMeans
  <2> QED
    BY <2>1, <2>2, <2>3, NoTrailingSlash, ValidAccepted
<1> QED
  BY <1>1, PathsInvAlways, PTL

\* Every path that is valid and that Istio takes means the same requests to
\* the script as to the AuthorizationPolicies.
THEOREM ScriptReadsPathsLikeIstio == PSpec => []LuaAgreesWithIstio
<1>1. PathsInv => LuaAgreesWithIstio
  <2> SUFFICES ASSUME PathsInv
               PROVE  matches.lua = matches.istio
    BY DEF LuaAgreesWithIstio
  <2>1. CASE matches = Unmatched
    BY <2>1 DEF Unmatched
  <2>2. CASE matches # Unmatched
    <3>1. /\ path \in RulePaths /\ request \in RequestPaths
          /\ luaPattern = toLuaPattern(path) /\ validatePath(path)
          /\ istioPath = transformPathForIstio(path) /\ IstioAccepts(istioPath)
          /\ matches = [ istio |-> IstioMatch(istioPath, request),
                         lua |-> LuaMatch(luaPattern, request) ]
      BY <2>2 DEF PathsInv
    <3>2. path \in Seq(Char) /\ request \in Seq(Char)
      BY <3>1, PathsAssumption
    <3>3. LuaMatch(toLuaPattern(path), request)
            <=> IstioMatch(transformPathForIstio(path), request)
      BY <3>1, <3>2, AppliedAgrees
    <3>4. LuaMatch(luaPattern, request) = IstioMatch(istioPath, request)
      <4>1. LuaMatch(luaPattern, request) \in BOOLEAN
        BY DEF LuaMatch
      <4>2. IstioMatch(istioPath, request) \in BOOLEAN
        <5>1. TemplateMatch(istioPath, request) \in BOOLEAN
          BY DEF TemplateMatch
        <5>2. (istioPath = request) \in BOOLEAN
          OBVIOUS
        <5>3. IsPrefix(TrimSuffix(istioPath, << Star >>), request) \in BOOLEAN
          BY DEF IsPrefix
        <5> QED
          BY <5>1, <5>2, <5>3, Zenon DEF IstioMatch
      <4>3. LuaMatch(luaPattern, request) <=> IstioMatch(istioPath, request)
        BY <3>1, <3>3
      <4> QED
        BY <4>1, <4>2, <4>3
    <3> QED
      BY <3>1, <3>4
  <2> QED
    BY <2>1, <2>2
<1> QED
  BY <1>1, PathsInvAlways, PTL
=============================================================================
