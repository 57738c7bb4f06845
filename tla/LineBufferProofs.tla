-------------------------- MODULE LineBufferProofs --------------------------
(***************************************************************************)
(* The vector of lines of a buffer, and the same text as one sequence.     *)
(* Insert, Erase and Replace cut and join lines; that these hold one EOL   *)
(* each, at the end, and that they hold what a splice of the sequence      *)
(* holds, is proved for any lines, coordinates and strings.                *)
(*                                                                         *)
(* Most of it is about Flat: a vector of lines is cut in two at a line,    *)
(* and what is flat of it is what is flat of the two, one after the other. *)
(* The inductions are over the number of lines, and made from the          *)
(* smallest number for which a statement would be false.                   *)
(***************************************************************************)
EXTENDS LineBuffer, SequenceTheorems, FiniteSetTheorems, WellFoundedInduction, TLAPS
-----------------------------------------------------------------------------
(* Lines one after the other.                                               *)

Join3(s, t, u) == (s \o t) \o u = s \o (t \o u)
Join4(a, b, c, d) == (a \o (b \o c)) \o d = (a \o b) \o (c \o d)
Join5(a, b, c, d, e) == (a \o (b \o (c \o d))) \o e = (a \o b) \o (c \o (d \o e))

LEMMA JoinedChars ==
  ASSUME NEW s \in Seq(Char), NEW t \in Seq(Char), NEW u \in Seq(Char)
  PROVE  Join3(s, t, u)
BY ConcatAssociative, SMTT(60) DEF Join3

LEMMA JoinedTexts ==
  ASSUME NEW s \in Seq(Text), NEW t \in Seq(Text), NEW u \in Seq(Text)
  PROVE  Join3(s, t, u)
BY ConcatAssociative, SMTT(60) DEF Join3

LEMMA FourJoined ==
  ASSUME NEW a \in Seq(Char), NEW b \in Seq(Char), NEW c \in Seq(Char), NEW d \in Seq(Char)
  PROVE  Join4(a, b, c, d)
<1> DEFINE u == a \o b
<1>1. u \in Seq(Char)
  BY ConcatProperties
<1>2. Join3(a, b, c)
  BY JoinedChars
<1>3. u \o c = a \o (b \o c)
  BY <1>2 DEF Join3
<1> HIDE DEF u
<1>4. Join3(u, c, d)
  BY <1>1, JoinedChars
<1>5. (u \o c) \o d = u \o (c \o d)
  BY <1>4, Zenon DEF Join3
<1> QED
  BY <1>3, <1>5, Zenon DEF Join4, u

LEMMA FiveJoined ==
  ASSUME NEW a \in Seq(Char), NEW b \in Seq(Char), NEW c \in Seq(Char), NEW d \in Seq(Char),
         NEW e \in Seq(Char)
  PROVE  Join5(a, b, c, d, e)
<1> DEFINE u == c \o d
<1>1. u \in Seq(Char)
  BY ConcatProperties
<1>2. Join3(c, d, e)
  BY JoinedChars
<1>3. u \o e = c \o (d \o e)
  BY <1>2 DEF Join3
<1> HIDE DEF u
<1>4. Join4(a, b, u, e)
  BY <1>1, FourJoined
<1>5. (a \o (b \o u)) \o e = (a \o b) \o (u \o e)
  BY <1>4, Zenon DEF Join4
<1> QED
  BY <1>3, <1>5, Zenon DEF Join5, u

LEMMA LeastNatural ==
  ASSUME NEW S \in SUBSET Nat, S # {}
  PROVE  \E x \in S : \A y \in S : x <= y
<1> DEFINE Less == {ss \in Nat \X Nat : ss[1] < ss[2]}
<1>1. IsWellFoundedOn(Less, Nat)
  BY NatLessThanWellFounded DEF OpToRel
<1>2. PICK x \in S : \A y \in S : ~(<<y, x>> \in Less)
  BY <1>1, WFMin
<1>3. \A y \in S : ~(y < x)
  BY <1>2
<1> QED
  BY <1>3

(* A set of naturals that has 0 and the successor of each is all of them.   *)
LEMMA Induction ==
  ASSUME NEW n \in Nat, NEW S, 0 \in S, \A k \in 0 .. n - 1 : k \in S => k + 1 \in S
  PROVE  \A k \in 0 .. n : k \in S
<1> DEFINE T == {k \in 0 .. n : k \notin S}
<1> SUFFICES ASSUME T # {} PROVE FALSE
  OBVIOUS
<1>1. T \in SUBSET Nat
  OBVIOUS
<1>2. PICK x \in T : \A y \in T : x <= y
  <2> HIDE DEF T
  <2> QED
    BY <1>1, LeastNatural
<1>3. x # 0 /\ x - 1 \in 0 .. n - 1
  BY <1>2
<1>4. x - 1 \in S
  BY <1>2, <1>3
<1> QED
  BY <1>2, <1>3, <1>4

(* The text of the first lines, for the first n of them.                    *)
IsFlat(ls, n, f) ==
    f = [i \in 1 .. n |-> IF i = 1 THEN ls[i] ELSE f[i - 1] \o ls[i]]
FlatUpTo(ls) == CHOOSE f : IsFlat(ls, Len(ls), f)

LEMMA FlatExists ==
  ASSUME NEW ls \in Seq(Text)
  PROVE  \E f \in [1 .. Len(ls) -> Text] : IsFlat(ls, Len(ls), f)
<1> DEFINE n == Len(ls)
           S == {k \in 0 .. n : \E f \in [1 .. k -> Text] : IsFlat(ls, k, f)}
<1>1. n \in Nat /\ \A i \in 1 .. n : ls[i] \in Text
  BY LenProperties, ElementOfSeq
<1>2. 0 \in S
  <2> DEFINE f == [i \in 1 .. 0 |-> <<>>]
  <2>1. f \in [1 .. 0 -> Text] /\ IsFlat(ls, 0, f)
    <3> DEFINE none == 1 .. 0
    <3>1. none = {}
      OBVIOUS
    <3> HIDE DEF none
    <3>2. /\ [i \in none |-> <<>>] \in [none -> Text]
          /\ [i \in none |-> <<>>]
               = [i \in none |-> IF i = 1 THEN ls[i]
                                 ELSE [h \in none |-> <<>>][i - 1] \o ls[i]]
      BY <3>1
    <3> QED
      BY <3>2 DEF none, IsFlat
  <2> HIDE DEF f
  <2>2. \E g \in [1 .. 0 -> Text] : IsFlat(ls, 0, g)
    BY <2>1
  <2>3. 0 \in 0 .. n
    BY <1>1
  <2> QED
    BY <2>2, <2>3
<1>3. ASSUME NEW k \in 0 .. n - 1, k \in S
      PROVE  k + 1 \in S
  <2>1. PICK g \in [1 .. k -> Text] : IsFlat(ls, k, g)
    BY <1>3
  <2> DEFINE j == k + 1
             last == IF k = 0 THEN ls[1] ELSE g[k] \o ls[j]
             f == [i \in 1 .. j |-> IF i = j THEN last ELSE g[i]]
  <2>2. last \in Text
    <3>1. CASE k = 0
      BY <1>1, <3>1
    <3>2. CASE k # 0
      <4>1. g[k] \in Text /\ ls[j] \in Text
        BY <1>1, <2>1, <3>2
      <4>2. g[k] \o ls[j] \in Text
        BY <4>1, ConcatProperties DEF Text
      <4> QED
        BY <3>2, <4>2
    <3> QED
      BY <3>1, <3>2
  <2> HIDE DEF last
  <2>3. f \in [1 .. j -> Text]
    <3>1. ASSUME NEW i \in 1 .. j
          PROVE  (IF i = j THEN last ELSE g[i]) \in Text
      <4>1. i = j \/ i \in 1 .. k
        BY <1>1
      <4> QED
        BY <2>1, <2>2, <4>1
    <3> QED
      BY <3>1
  <2>4. \A i \in 1 .. k : f[i] = g[i] /\ g[i] = IF i = 1 THEN ls[i] ELSE g[i - 1] \o ls[i]
    <3>1. \A i \in 1 .. k : i \in 1 .. j /\ i # j
      BY <1>1
    <3>2. \A i \in 1 .. k : f[i] = g[i]
      BY <3>1
    <3>3. \A i \in 1 .. k : g[i] = IF i = 1 THEN ls[i] ELSE g[i - 1] \o ls[i]
      BY <2>1 DEF IsFlat
    <3> QED
      BY <3>2, <3>3
  <2>5. ASSUME NEW i \in 1 .. j
        PROVE  f[i] = IF i = 1 THEN ls[i] ELSE f[i - 1] \o ls[i]
    <3>1. CASE i = j
      BY <1>1, <3>1 DEF last
    <3>2. CASE i # j
      <4>1. i \in 1 .. k /\ (i # 1 => i - 1 \in 1 .. k)
        BY <1>1, <3>2
      <4> QED
        BY <2>4, <4>1
    <3> QED
      BY <3>1, <3>2
  <2>6. IsFlat(ls, j, f)
    BY <2>5 DEF IsFlat
  <2>7. j \in 0 .. n
    BY <1>1
  <2> HIDE DEF f, j
  <2> QED
    BY <2>3, <2>6, <2>7 DEF j
<1> HIDE DEF S
<1>4. n \in S
  <2>1. \A k \in 0 .. n : k \in S
    <3> HIDE DEF n
    <3> QED
      BY <1>1, <1>2, <1>3, Induction
  <2> QED
    BY <1>1, <2>1
<1> QED
  BY <1>4 DEF S

LEMMA FlatOf ==
  ASSUME NEW ls \in Seq(Text)
  PROVE  /\ FlatUpTo(ls) \in [1 .. Len(ls) -> Text] /\ IsFlat(ls, Len(ls), FlatUpTo(ls))
         /\ Flat(ls) = IF Len(ls) = 0 THEN <<>> ELSE FlatUpTo(ls)[Len(ls)]
         /\ Flat(ls) \in Text
<1> DEFINE f == FlatUpTo(ls)
           n == Len(ls)
<1>1. IsFlat(ls, n, f)
  BY FlatExists DEF FlatUpTo
<1>2. PICK g \in [1 .. n -> Text] : IsFlat(ls, n, g)
  BY FlatExists
<1>3. n \in Nat /\ (n = 0 => ls = <<>>)
  BY LenProperties, EmptySeq
<1>4. f \in [1 .. n -> Text]
  <2>1. \A i \in 1 .. n : f[i] = IF i = 1 THEN ls[i] ELSE f[i - 1] \o ls[i]
    BY <1>1 DEF IsFlat
  <2>2. DOMAIN f = 1 .. n /\ f = [i \in DOMAIN f |-> f[i]]
    BY <1>1 DEF IsFlat
  <2>3. \A i \in 1 .. n : g[i] = IF i = 1 THEN ls[i] ELSE g[i - 1] \o ls[i]
    BY <1>2 DEF IsFlat
  <2> DEFINE S == {k \in 0 .. n : k = 0 \/ f[k] = g[k]}
  <2> HIDE DEF f, n
  <2>4. ASSUME NEW k \in 0 .. n - 1, k \in S
        PROVE  k + 1 \in S
    <3>1. k + 1 \in 1 .. n /\ k + 1 \in 0 .. n /\ (k + 1) - 1 = k /\ (k + 1 = 1 <=> k = 0)
      BY <1>3
    <3> DEFINE j == k + 1
    <3> HIDE DEF j
    <3>2. f[j] = IF k = 0 THEN ls[j] ELSE f[k] \o ls[j]
      BY <2>1, <3>1 DEF j
    <3>3. g[j] = IF k = 0 THEN ls[j] ELSE g[k] \o ls[j]
      BY <2>3, <3>1 DEF j
    <3>4. f[j] = g[j]
      BY <2>4, <3>2, <3>3
    <3> QED
      BY <3>1, <3>4 DEF j
  <2>5. 0 \in S
    BY <1>3
  <2>6. \A k \in 0 .. n : k \in S
    <3> HIDE DEF S
    <3> QED
      BY <1>3, <2>4, <2>5, Induction
  <2>7. \A k \in 1 .. n : f[k] = g[k]
    BY <1>3, <2>6
  <2> QED
    BY <1>2, <2>2, <2>7
<1>5. Flat(ls) = IF n = 0 THEN <<>> ELSE f[n]
  BY <1>3 DEF Flat, FlattenSeq, FlatUpTo, IsFlat
<1> HIDE DEF f, n
<1>6. Flat(ls) \in Text
  BY <1>3, <1>4, <1>5, EmptySeq DEF Text
<1> QED
  BY <1>1, <1>4, <1>5, <1>6 DEF f, n

LEMMA FlatOfEmpty == Flat(<<>>) = <<>>
<1>1. <<>> \in Seq(Text) /\ Len(<<>>) = 0
  BY EmptySeq
<1> QED
  BY <1>1, FlatOf

LEMMA FlatAppend ==
  ASSUME NEW ls \in Seq(Text), NEW x \in Text
  PROVE  Flat(Append(ls, x)) = Flat(ls) \o x
<1> DEFINE n == Len(ls)
           m == n + 1
           ms == Append(ls, x)
           f == FlatUpTo(ls)
           g == FlatUpTo(ms)
<1>1. n \in Nat /\ ms \in Seq(Text) /\ Len(ms) = m /\ ms[m] = x
      /\ \A i \in 1 .. n : ms[i] = ls[i]
  BY LenProperties, AppendProperties
<1>2. /\ \A i \in 1 .. n : f[i] = IF i = 1 THEN ls[i] ELSE f[i - 1] \o ls[i]
      /\ \A i \in 1 .. m : g[i] = IF i = 1 THEN ms[i] ELSE g[i - 1] \o ms[i]
  <2>1. IsFlat(ls, n, f)
    BY FlatOf
  <2> HIDE DEF ms, g, m, f
  <2>2. IsFlat(ms, m, g)
    BY <1>1, FlatOf DEF g
  <2> QED
    BY <2>1, <2>2 DEF IsFlat
<1>3. /\ Flat(ls) = IF n = 0 THEN <<>> ELSE f[n]
      /\ Flat(ms) = g[m]
  <2>1. Flat(ls) = IF n = 0 THEN <<>> ELSE f[n]
    BY FlatOf
  <2>2. Flat(ms) = IF Len(ms) = 0 THEN <<>> ELSE g[Len(ms)]
    <3> HIDE DEF ms
    <3> QED
      BY <1>1, FlatOf DEF g
  <2>3. Len(ms) # 0
    BY <1>1
  <2> QED
    BY <1>1, <2>1, <2>2, <2>3
<1> DEFINE S == {k \in 0 .. n : k = 0 \/ f[k] = g[k]}
<1> HIDE DEF n, m, ms, f, g
<1>4. ASSUME NEW k \in 0 .. n - 1, k \in S
      PROVE  k + 1 \in S
  <2>1. /\ k + 1 \in 1 .. n /\ k + 1 \in 0 .. n /\ (k + 1) - 1 = k /\ (k + 1 = 1 <=> k = 0)
        /\ k + 1 \in 1 .. m
    BY <1>1 DEF m
  <2> DEFINE j == k + 1
  <2> HIDE DEF j
  <2>2. f[j] = IF k = 0 THEN ls[j] ELSE f[k] \o ls[j]
    BY <1>2, <2>1 DEF j
  <2>3. g[j] = IF k = 0 THEN ls[j] ELSE g[k] \o ls[j]
    BY <1>1, <1>2, <2>1 DEF j
  <2>4. f[j] = g[j]
    BY <1>4, <2>2, <2>3
  <2> QED
    BY <2>1, <2>4 DEF j
<1>5. 0 \in S
  BY <1>1
<1>6. \A k \in 0 .. n : k \in S
  <2> HIDE DEF S
  <2> QED
    BY <1>1, <1>4, <1>5, Induction
<1>7. n = 0 \/ f[n] = g[n]
  BY <1>1, <1>6
<1>8. g[m] = IF n = 0 THEN x ELSE g[n] \o x
  <2>1. m \in 1 .. m /\ (m = 1 <=> n = 0) /\ m - 1 = n
    BY <1>1 DEF m
  <2> QED
    BY <1>1, <1>2, <2>1
<1>9. <<>> \o x = x
  BY ConcatEmptySeq DEF Text
<1> QED
  BY <1>3, <1>7, <1>8, <1>9 DEF ms

LEMMA FlatOfOne ==
  ASSUME NEW x \in Text
  PROVE  Flat(<<x>>) = x
<1>1. <<>> \in Seq(Text) /\ Append(<<>>, x) = <<x>>
  BY EmptySeq
<1>2. Flat(<<x>>) = <<>> \o x
  BY <1>1, FlatAppend, FlatOfEmpty
<1> QED
  BY <1>2, ConcatEmptySeq DEF Text

LEMMA FirstAndNext ==
  ASSUME NEW T, NEW s \in Seq(T), NEW k \in 0 .. Len(s) - 1
  PROVE  /\ SubSeq(s, 1, k + 1) = Append(SubSeq(s, 1, k), s[k + 1])
         /\ SubSeq(s, 1, k) \in Seq(T) /\ s[k + 1] \in T
<1> DEFINE n == Len(s)
           j == k + 1
           a == SubSeq(s, 1, k)
<1>1. n \in Nat /\ j \in 1 .. n /\ j - 1 = k /\ 1 \in 1 .. n /\ j \in 1 .. Len(s)
  BY LenProperties
<1>2. a \in Seq(T) /\ s[j] \in T
  <2>1. s[j] \in T
    BY <1>1, ElementOfSeq
  <2>2. k \in Int /\ \A i \in 1 .. k : i \in 1 .. Len(s)
    BY <1>1
  <2>3. \A i \in 1 .. k : s[i] \in T
    BY <2>2, ElementOfSeq
  <2>4. a \in Seq(T)
    BY <2>2, <2>3, SubSeqProperties
  <2> QED
    BY <2>1, <2>4
<1>3. SubSeq(s, 1, j) = SubSeq(s, 1, j - 1) \o <<s[j]>>
  <2> HIDE DEF j
  <2>1. 1 \in 1 .. Len(s) /\ j \in 1 .. Len(s)
    BY <1>1
  <2> QED
    BY <2>1, SubSeqRecursiveSecond
<1>4. SubSeq(s, 1, j) = a \o <<s[j]>>
  BY <1>1, <1>3
<1> HIDE DEF a, j
<1>5. Append(a, s[j]) = a \o <<s[j]>>
  BY <1>2, AppendIsConcat
<1> QED
  BY <1>2, <1>4, <1>5 DEF a, j

LEMMA FlatConcat ==
  ASSUME NEW a \in Seq(Text), NEW b \in Seq(Text)
  PROVE  Flat(a \o b) = Flat(a) \o Flat(b)
<1> DEFINE n == Len(b)
           To(k) == SubSeq(b, 1, k)
           S == {k \in 0 .. n : Flat(a \o To(k)) = Flat(a) \o Flat(To(k))}
<1>1. n \in Nat /\ Flat(a) \in Text
  BY LenProperties, FlatOf
<1>2. 0 \in S
  <2>1. To(0) = <<>>
    BY SubSeqEmpty
  <2>2. a \o To(0) = a /\ Flat(a) \o <<>> = Flat(a)
    BY <1>1, <2>1, ConcatEmptySeq DEF Text
  <2>3. Flat(a \o To(0)) = Flat(a) \o Flat(To(0))
    BY <2>1, <2>2, FlatOfEmpty
  <2>4. 0 \in 0 .. n
    BY <1>1
  <2> QED
    BY <2>3, <2>4
<1>3. ASSUME NEW k \in 0 .. n - 1, k \in S
      PROVE  k + 1 \in S
  <2> DEFINE c == To(k)
             x == b[k + 1]
  <2>1. To(k + 1) = Append(c, x) /\ c \in Seq(Text) /\ x \in Text
    BY FirstAndNext
  <2>2. Flat(a \o c) = Flat(a) \o Flat(c)
    BY <1>3
  <2>c. c \in Seq(Text) /\ x \in Text
    BY <2>1
  <2> HIDE DEF c, x
  <2>3. a \o Append(c, x) = Append(a \o c, x) /\ a \o c \in Seq(Text)
    <3>1. Append(c, x) = c \o <<x>> /\ <<x>> \in Seq(Text)
      BY <2>1, AppendIsConcat
    <3>2. a \o c \in Seq(Text)
      BY <2>1, ConcatProperties
    <3>3. Append(a \o c, x) = (a \o c) \o <<x>>
      BY <2>1, <3>2, AppendIsConcat
    <3>4. (a \o c) \o <<x>> = a \o (c \o <<x>>)
      <4> DEFINE u == <<x>>
      <4>1. u \in Seq(Text)
        BY <3>1
      <4> HIDE DEF u
      <4>2. (a \o c) \o u = a \o (c \o u)
        <5>1. Join3(a, c, u)
          BY <2>c, <4>1, JoinedTexts
        <5> QED
          BY <5>1, Zenon DEF Join3
      <4> QED
        BY <4>2 DEF u
    <3> QED
      BY <3>1, <3>2, <3>3, <3>4
  <2>4. Flat(a \o Append(c, x)) = Flat(a \o c) \o x
    BY <2>1, <2>3, FlatAppend
  <2>5. Flat(Append(c, x)) = Flat(c) \o x /\ Flat(c) \in Text
    BY <2>1, FlatAppend, FlatOf
  <2>6. (Flat(a) \o Flat(c)) \o x = Flat(a) \o (Flat(c) \o x)
    <3>1. Flat(a) \in Seq(Char) /\ Flat(c) \in Seq(Char) /\ x \in Seq(Char)
      BY <1>1, <2>c, <2>5 DEF Text
    <3>2. Join3(Flat(a), Flat(c), x)
      BY <3>1, JoinedChars
    <3> QED
      BY <3>2, Zenon DEF Join3
  <2>7. k + 1 \in 0 .. n
    BY <1>1
  <2> QED
    BY <2>1, <2>2, <2>4, <2>5, <2>6, <2>7
<1>4. Flat(a \o To(n)) = Flat(a) \o Flat(To(n))
  <2> HIDE DEF S
  <2>1. \A k \in 0 .. n : k \in S
    <3> HIDE DEF n
    <3> QED
      BY <1>1, <1>2, <1>3, Induction
  <2>2. n \in S
    BY <1>1, <2>1
  <2> QED
    BY <2>2 DEF S
<1>5. To(n) = b
  BY SubSeqFull
<1> QED
  BY <1>4, <1>5

-----------------------------------------------------------------------------
(* Where a coordinate cuts the lines, and the text.                         *)

PrefixAt(ls, c) ==
    IF c[1] = LineCount(ls) THEN <<>> ELSE SubSeq(ls[c[1] + 1], 1, c[2])
SuffixAt(ls, c) ==
    IF c[1] = LineCount(ls) THEN <<>>
    ELSE SubSeq(ls[c[1] + 1], c[2] + 1, LineLength(ls, c[1]))
LinesTo(ls, c) == SubSeq(ls, 1, c[1])
LinesPast(ls, c) == SubSeq(ls, c[1] + 2, LineCount(ls))
Before(ls, c) == Flat(LinesTo(ls, c)) \o PrefixAt(ls, c)
After(ls, c) == SuffixAt(ls, c) \o Flat(LinesPast(ls, c))

LEMMA PartOfSeq ==
  ASSUME NEW T, NEW s \in Seq(T), NEW i \in Nat \ {0}, NEW j \in Int, j <= Len(s)
  PROVE  /\ SubSeq(s, i, j) \in Seq(T)
         /\ Len(SubSeq(s, i, j)) = IF i <= j THEN j - i + 1 ELSE 0
         /\ \A k \in 1 .. j - i + 1 : SubSeq(s, i, j)[k] = s[i + k - 1]
<1>1. Len(s) \in Nat
  BY LenProperties
<1>2. i \in Int /\ \A k \in i .. j : k \in 1 .. Len(s)
  BY <1>1
<1>3. \A k \in i .. j : s[k] \in T
  BY <1>2, ElementOfSeq
<1> QED
  BY <1>2, <1>3, SubSeqProperties

LEMMA SeqIsParts ==
  ASSUME NEW T, NEW s \in Seq(T), NEW k \in 0 .. Len(s)
  PROVE  /\ SubSeq(s, 1, k) \in Seq(T) /\ SubSeq(s, k + 1, Len(s)) \in Seq(T)
         /\ Len(SubSeq(s, 1, k)) = k /\ Len(SubSeq(s, k + 1, Len(s))) = Len(s) - k
         /\ SubSeq(s, 1, k) \o SubSeq(s, k + 1, Len(s)) = s
<1> DEFINE n == Len(s)
<1>1. n \in Nat /\ k \in Int /\ k <= n /\ k + 1 \in Nat \ {0} /\ n \in Int /\ n <= Len(s)
      /\ k \in Nat
  BY LenProperties
<1>2. SubSeq(s, 1, k) \in Seq(T) /\ Len(SubSeq(s, 1, k)) = IF 1 <= k THEN k - 1 + 1 ELSE 0
  BY <1>1, PartOfSeq
<1>3. /\ SubSeq(s, k + 1, n) \in Seq(T)
      /\ Len(SubSeq(s, k + 1, n)) = IF k + 1 <= n THEN n - (k + 1) + 1 ELSE 0
  <2> DEFINE j == k + 1
  <2>1. j \in Nat \ {0}
    BY <1>1
  <2> HIDE DEF j, n
  <2>2. SubSeq(s, j, n) \in Seq(T) /\ Len(SubSeq(s, j, n)) = IF j <= n THEN n - j + 1 ELSE 0
    BY <1>1, <2>1, PartOfSeq
  <2> QED
    BY <2>2 DEF j
<1>4. SubSeq(s, 1, k) \o SubSeq(s, k + 1, n) = SubSeq(s, 1, n)
  <2>1. 1 \in 1 .. Len(s) + 1 /\ k \in 1 - 1 .. Len(s) /\ n \in k .. Len(s)
    BY <1>1
  <2> HIDE DEF n
  <2> QED
    BY <2>1, ConcatAdjacentSubSeq
<1>5. SubSeq(s, 1, n) = s
  BY SubSeqFull
<1>6. (IF 1 <= k THEN k - 1 + 1 ELSE 0) = k /\ (IF k + 1 <= n THEN n - (k + 1) + 1 ELSE 0) = n - k
  BY <1>1
<1>7. Len(SubSeq(s, 1, k)) = k /\ Len(SubSeq(s, k + 1, n)) = n - k
  BY <1>2, <1>3, <1>6
<1> QED
  BY <1>2, <1>3, <1>4, <1>5, <1>7, Zenon

(* The lines before the one of a coordinate, that one, and those after it.  *)
LEMMA LinesAreParts ==
  ASSUME NEW T, NEW s \in Seq(T), NEW k \in 0 .. Len(s) - 1
  PROVE  /\ SubSeq(s, 1, k) \in Seq(T) /\ SubSeq(s, k + 2, Len(s)) \in Seq(T)
         /\ s[k + 1] \in T
         /\ s = (SubSeq(s, 1, k) \o <<s[k + 1]>>) \o SubSeq(s, k + 2, Len(s))
<1> DEFINE n == Len(s)
           j == k + 1
           a == SubSeq(s, 1, k)
           x == s[j]
<1>1. n \in Nat /\ j \in 0 .. Len(s) /\ j + 1 = k + 2
  BY LenProperties
<1>2. SubSeq(s, 1, j) = Append(a, x) /\ a \in Seq(T) /\ x \in T
  BY FirstAndNext
<1> HIDE DEF j, a
<1>3. /\ SubSeq(s, j + 1, n) \in Seq(T)
      /\ SubSeq(s, 1, j) \o SubSeq(s, j + 1, n) = s
  BY <1>1, SeqIsParts
<1> HIDE DEF x
<1>4. Append(a, x) = a \o <<x>>
  BY <1>2, AppendIsConcat
<1>5. s = (a \o <<x>>) \o SubSeq(s, k + 2, n)
  BY <1>1, <1>2, <1>3, <1>4
<1>6. SubSeq(s, k + 2, n) \in Seq(T)
  BY <1>1, <1>3
<1> QED
  BY <1>2, <1>5, <1>6 DEF a, x, j

LEMMA CutAt ==
  ASSUME NEW ls \in Seq(Text), NEW c \in Nat \X Nat, IsValid(ls, c)
  PROVE  /\ PrefixAt(ls, c) \in Text /\ SuffixAt(ls, c) \in Text
         /\ LinesTo(ls, c) \in Seq(Text) /\ LinesPast(ls, c) \in Seq(Text)
         /\ Before(ls, c) \in Text /\ After(ls, c) \in Text
         /\ Flat(ls) = Before(ls, c) \o After(ls, c)
         /\ Len(Before(ls, c)) = Offset(ls, c) /\ Offset(ls, c) \in Nat
<1> DEFINE n == Len(ls)
           k == c[1]
           col == c[2]
           a == LinesTo(ls, c)
           b == LinesPast(ls, c)
           p == PrefixAt(ls, c)
           s == SuffixAt(ls, c)
           x == ls[k + 1]
<1>1. /\ n \in Nat /\ k \in Nat /\ col \in Nat
      /\ \/ k = n /\ col = 0
         \/ k \in 0 .. n - 1 /\ col \in 0 .. Len(x) - 1
  BY LenProperties DEF IsValid, EndCoord, LineCount, LineLength
<1>2. CASE k = n /\ col = 0
  <2>1. p = <<>> /\ s = <<>> /\ a = ls /\ b = <<>>
    <3>1. a = ls
      BY <1>2, SubSeqFull DEF LinesTo
    <3>2. b = <<>>
      <4> DEFINE i == k + 2
      <4>1. i \in Int /\ n \in Int /\ n < i
        BY <1>1, <1>2
      <4> HIDE DEF i, n
      <4>2. SubSeq(ls, i, n) = <<>>
        BY <4>1, SubSeqEmpty
      <4> QED
        BY <4>2 DEF LinesPast, LineCount, i, n
    <3> QED
      BY <1>2, <3>1, <3>2 DEF PrefixAt, SuffixAt, LineCount
  <2>2. <<>> \in Text /\ <<>> \in Seq(Text) /\ Len(<<>>) = 0 /\ Flat(<<>>) = <<>>
    BY EmptySeq, FlatOfEmpty DEF Text
  <2>3. Flat(ls) \in Text /\ Flat(ls) \o <<>> = Flat(ls) /\ <<>> \o <<>> = <<>>
        /\ Len(Flat(ls)) \in Nat
    BY <2>2, FlatOf, ConcatEmptySeq, LenProperties DEF Text
  <2>4. Before(ls, c) = Flat(ls) /\ After(ls, c) = <<>>
    BY <2>1, <2>2, <2>3 DEF Before, After
  <2>5. Offset(ls, c) = Len(Flat(ls))
    <3>1. Offset(ls, c) = Len(Flat(a)) + col
      BY DEF Offset, LinesTo
    <3> HIDE DEF a, col
    <3> QED
      BY <1>2, <2>1, <2>3, <3>1
  <2> QED
    BY <2>1, <2>2, <2>3, <2>4, <2>5
<1>3. CASE k \in 0 .. n - 1 /\ col \in 0 .. Len(x) - 1
  <2>1. /\ a \in Seq(Text) /\ b \in Seq(Text) /\ x \in Text
        /\ ls = (a \o <<x>>) \o b
    BY <1>3, LinesAreParts DEF LinesTo, LinesPast, LineCount
  <2>2. p = SubSeq(x, 1, col) /\ s = SubSeq(x, col + 1, Len(x))
    <3>1. k # n
      BY <1>1, <1>3
    <3>2. p = IF k = n THEN <<>> ELSE SubSeq(x, 1, col)
      BY DEF PrefixAt, LineCount
    <3>3. s = IF k = n THEN <<>> ELSE SubSeq(x, col + 1, Len(x))
      BY DEF SuffixAt, LineCount, LineLength
    <3> HIDE DEF k, n, p, s, x
    <3> QED
      BY <3>1, <3>2, <3>3
  <2>3. p \in Text /\ s \in Text /\ Len(p) = col /\ p \o s = x
    <3>1. x \in Seq(Char) /\ Len(x) \in Nat
      BY <2>1, LenProperties DEF Text
    <3>2. col \in 0 .. Len(x)
      BY <1>1, <1>3, <3>1
    <3> HIDE DEF x, col, p, s
    <3> QED
      BY <2>2, <3>1, <3>2, SeqIsParts DEF Text
  <2>4. Offset(ls, c) = Len(Flat(a)) + col
    BY DEF Offset, LinesTo
  <2>5. Before(ls, c) = Flat(a) \o p /\ After(ls, c) = s \o Flat(b)
    BY DEF Before, After
  <2> DEFINE u == <<x>>
             fa == Flat(a)
             fb == Flat(b)
  <2>6. u \in Seq(Text)
    BY <2>1
  <2> HIDE DEF a, b, x, p, s, u, col, k, n
  <2>7. a \o u \in Seq(Text) /\ Flat((a \o u) \o b) = (fa \o Flat(u)) \o fb
    <3>1. a \o u \in Seq(Text)
      BY <2>1, <2>6, ConcatProperties
    <3>2. Flat(a \o u) = fa \o Flat(u)
      BY <2>1, <2>6, FlatConcat
    <3>3. Flat((a \o u) \o b) = Flat(a \o u) \o fb
      BY <2>1, <3>1, FlatConcat
    <3> QED
      BY <3>1, <3>2, <3>3
  <2>8. Flat(u) = x
    BY <2>1, FlatOfOne DEF u
  <2>9. fa \in Seq(Char) /\ fb \in Seq(Char) /\ p \in Seq(Char) /\ s \in Seq(Char)
    BY <2>1, <2>3, FlatOf DEF Text
  <2>10. Flat(ls) = (fa \o (p \o s)) \o fb
    BY <2>1, <2>3, <2>7, <2>8 DEF u
  <2> HIDE DEF fa, fb
  <2>11. (fa \o (p \o s)) \o fb = (fa \o p) \o (s \o fb)
    <3>1. Join4(fa, p, s, fb)
      BY <2>9, FourJoined
    <3> QED
      BY <3>1, Zenon DEF Join4
  <2>12. /\ fa \o p \in Seq(Char) /\ s \o fb \in Seq(Char)
         /\ Len(fa \o p) = Len(fa) + Len(p) /\ Len(fa) \in Nat /\ Len(p) \in Nat
    BY <2>9, ConcatProperties, LenProperties
  <2>13. /\ Flat(ls) = Before(ls, c) \o After(ls, c)
         /\ Before(ls, c) \in Text /\ After(ls, c) \in Text
    BY <2>5, <2>10, <2>11, <2>12 DEF fa, fb, Text
  <2>14. Len(Before(ls, c)) = Offset(ls, c) /\ Offset(ls, c) \in Nat
    BY <2>3, <2>4, <2>5, <2>12 DEF fa
  <2> QED
    BY <2>1, <2>3, <2>13, <2>14 DEF a, b, p, s
<1> QED
  BY <1>1, <1>2, <1>3

-----------------------------------------------------------------------------
(* Splices of a text that is in two parts.                                  *)

LEMMA SpliceBetween ==
  ASSUME NEW a \in Text, NEW b \in Text, NEW ins \in Text
  PROVE  Splice(a \o b, Len(a), 0, ins) = a \o (ins \o b)
<1> DEFINE t == a \o b
           r == ins \o b
           s == a \o r
           u == Splice(t, Len(a), 0, ins)
           n == Len(a)
           m == Len(ins)
           k == Len(b)
<1>1. n \in Nat /\ m \in Nat /\ k \in Nat
  BY LenProperties DEF Text
<1>2. /\ t \in Text /\ Len(t) = n + k
      /\ \A i \in 1 .. n + k : t[i] = IF i <= n THEN a[i] ELSE b[i - n]
  BY ConcatProperties DEF Text
<1>3. /\ r \in Text /\ Len(r) = m + k
      /\ \A i \in 1 .. m + k : r[i] = IF i <= m THEN ins[i] ELSE b[i - m]
  BY ConcatProperties DEF Text
<1>4. u = [i \in 1 .. (Len(t) - 0 + m) |->
             IF i <= n THEN t[i] ELSE IF i <= n + m THEN ins[i - n] ELSE t[i - m + 0]]
  BY DEF Splice
<1> HIDE DEF t, r, u, n, m, k
<1>5. /\ s \in Text /\ Len(s) = n + (m + k)
      /\ \A i \in 1 .. n + (m + k) : s[i] = IF i <= n THEN a[i] ELSE r[i - n]
  BY <1>3, ConcatProperties DEF Text, n
<1>6. s = [i \in 1 .. n + (m + k) |-> s[i]]
  <2>1. s \in [1 .. Len(s) -> Char]
    BY <1>5, LenProperties DEF Text
  <2> HIDE DEF s
  <2> QED
    BY <1>5, <2>1
<1> HIDE DEF s
<1>7. Len(t) - 0 + m = n + (m + k)
  BY <1>1, <1>2
<1>8. ASSUME NEW i \in 1 .. n + (m + k)
      PROVE  s[i] = IF i <= n THEN t[i] ELSE IF i <= n + m THEN ins[i - n] ELSE t[i - m + 0]
  <2>1. CASE i <= n
    <3>1. i \in 1 .. n + k
      BY <1>1, <2>1
    <3> QED
      BY <1>2, <1>5, <2>1, <3>1
  <2>2. CASE ~(i <= n) /\ i <= n + m
    <3>1. i - n \in 1 .. m + k /\ i - n <= m
      BY <1>1, <2>2
    <3> QED
      BY <1>3, <1>5, <2>2, <3>1
  <2>3. CASE ~(i <= n) /\ ~(i <= n + m)
    <3>1. /\ i - n \in 1 .. m + k /\ ~(i - n <= m) /\ i - m + 0 \in 1 .. n + k
          /\ ~(i - m + 0 <= n) /\ (i - m + 0) - n = (i - n) - m
      BY <1>1, <2>3
    <3>2. s[i] = b[(i - n) - m]
      BY <1>3, <1>5, <2>3, <3>1
    <3>3. t[i - m + 0] = b[(i - m + 0) - n]
      BY <1>2, <3>1
    <3> QED
      BY <2>3, <3>1, <3>2, <3>3
  <2> QED
    BY <2>1, <2>2, <2>3
<1>9. u = s
  BY <1>4, <1>6, <1>7, <1>8
<1> QED
  BY <1>9 DEF u, s, r, t, n

InTwo(t, a, b) == a \in Text /\ b \in Text /\ t = a \o b

LEMMA SpliceOut ==
  ASSUME NEW t, NEW a, NEW b, NEW c, NEW d,
         InTwo(t, a, b), InTwo(t, c, d), Len(a) <= Len(c)
  PROVE  Splice(t, Len(a), Len(c) - Len(a), <<>>) = a \o d
<1> USE DEF InTwo
<1> DEFINE s == a \o d
           n == Len(a)
           m == Len(c)
           k == Len(d)
           u == Splice(t, n, m - n, <<>>)
<1>1. n \in Nat /\ m \in Nat /\ k \in Nat /\ n <= m /\ Len(<<>>) = 0
  BY LenProperties, EmptySeq DEF Text
<1>2. \A i \in 1 .. n : t[i] = a[i]
  <2>1. /\ Len(b) \in Nat
        /\ \A i \in 1 .. n + Len(b) : (a \o b)[i] = IF i <= n THEN a[i] ELSE b[i - n]
    BY ConcatProperties, LenProperties DEF Text
  <2> DEFINE l == Len(b)
  <2>2. l \in Nat /\ \A i \in 1 .. n + l : t[i] = IF i <= n THEN a[i] ELSE b[i - n]
    BY <2>1
  <2> HIDE DEF n, l
  <2>3. \A i \in 1 .. n : i \in 1 .. n + l /\ i <= n
    BY <1>1, <2>2
  <2> QED
    BY <2>2, <2>3
<1>3. /\ Len(t) = m + k
      /\ \A i \in 1 .. m + k : t[i] = IF i <= m THEN c[i] ELSE d[i - m]
  <2>1. /\ Len(c \o d) = m + k
        /\ \A i \in 1 .. m + k : (c \o d)[i] = IF i <= m THEN c[i] ELSE d[i - m]
    BY ConcatProperties DEF Text
  <2> QED
    BY <2>1
<1>4. u = [i \in 1 .. (Len(t) - (m - n) + Len(<<>>)) |->
             IF i <= n THEN t[i]
             ELSE IF i <= n + Len(<<>>) THEN <<>>[i - n] ELSE t[i - Len(<<>>) + (m - n)]]
  BY DEF Splice
<1>5. /\ s \in Text /\ Len(s) = n + k
      /\ \A i \in 1 .. n + k : s[i] = IF i <= n THEN a[i] ELSE d[i - n]
  BY ConcatProperties DEF Text
<1> HIDE DEF s, u, n, m, k
<1>6. s = [i \in 1 .. n + k |-> s[i]]
  <2>1. s \in [1 .. Len(s) -> Char]
    BY <1>5, LenProperties DEF Text
  <2> QED
    BY <1>5, <2>1
<1>7. Len(t) - (m - n) + Len(<<>>) = n + k
  BY <1>1, <1>3
<1>8. ASSUME NEW i \in 1 .. n + k
      PROVE  s[i] = IF i <= n THEN t[i]
                    ELSE IF i <= n + Len(<<>>) THEN <<>>[i - n]
                    ELSE t[i - Len(<<>>) + (m - n)]
  <2>1. CASE i <= n
    <3>1. i \in 1 .. n
      BY <1>1, <2>1
    <3>2. t[i] = a[i] /\ s[i] = a[i]
      BY <1>2, <1>5, <2>1, <3>1
    <3> QED
      BY <2>1, <3>2
  <2>2. CASE ~(i <= n)
    <3> DEFINE j == i - Len(<<>>) + (m - n)
    <3>1. j \in 1 .. m + k /\ ~(j <= m) /\ j - m = i - n /\ ~(i <= n + Len(<<>>))
      BY <1>1, <2>2
    <3> HIDE DEF j
    <3>2. t[j] = d[j - m]
      BY <1>3, <3>1
    <3>3. s[i] = d[i - n]
      BY <1>5, <2>2
    <3> QED
      BY <2>2, <3>1, <3>2, <3>3 DEF j
  <2> QED
    BY <2>1, <2>2
<1>9. u = s
  BY <1>4, <1>6, <1>7, <1>8
<1> QED
  BY <1>9 DEF u, s, n, m

-----------------------------------------------------------------------------
(* Lines: texts with an EOL at the end and nowhere else.                    *)

NoEol(p) == p \in Text /\ \A j \in 1 .. Len(p) : p[j] # EOL
IsLine(x) ==
    /\ x \in Text /\ x # <<>>
    /\ \A j \in 1 .. Len(x) : x[j] = EOL <=> j = Len(x)
AreLines(ls) == ls \in Seq(Text) /\ \A i \in 1 .. Len(ls) : IsLine(ls[i])

LEMMA JoinLine ==
  ASSUME NEW p, NoEol(p), NEW s, IsLine(s)
  PROVE  IsLine(p \o s)
<1> DEFINE n == Len(p)
           k == Len(s)
           x == p \o s
<1>1. p \in Seq(Char) /\ s \in Seq(Char) /\ s # <<>>
  BY DEF NoEol, IsLine, Text
<1>2. n \in Nat /\ k \in Nat \ {0}
  BY <1>1, LenProperties, EmptySeq
<1>3. /\ x \in Seq(Char) /\ Len(x) = n + k
      /\ \A i \in 1 .. n + k : x[i] = IF i <= n THEN p[i] ELSE s[i - n]
  BY <1>1, ConcatProperties
<1>4. /\ \A j \in 1 .. n : p[j] # EOL
      /\ \A j \in 1 .. k : s[j] = EOL <=> j = k
  BY DEF NoEol, IsLine
<1> HIDE DEF n, k, x
<1>5. x # <<>>
  BY <1>2, <1>3, EmptySeq
<1>6. ASSUME NEW j \in 1 .. n + k
      PROVE  x[j] = EOL <=> j = n + k
  <2>1. CASE j <= n
    BY <1>2, <1>3, <1>4, <2>1
  <2>2. CASE ~(j <= n)
    <3>1. j - n \in 1 .. k /\ (j - n = k <=> j = n + k)
      BY <1>2, <2>2
    <3> QED
      BY <1>3, <1>4, <2>2, <3>1
  <2> QED
    BY <2>1, <2>2
<1> QED
  BY <1>3, <1>5, <1>6 DEF IsLine, Text, x

LEMMA PartsOfLine ==
  ASSUME NEW x, IsLine(x), NEW k \in 0 .. Len(x) - 1
  PROVE  NoEol(SubSeq(x, 1, k)) /\ IsLine(SubSeq(x, k + 1, Len(x)))
<1> DEFINE n == Len(x)
           p == SubSeq(x, 1, k)
           s == SubSeq(x, k + 1, n)
           l == n - k
<1>1. /\ x \in Seq(Char) /\ n \in Nat
      /\ \A j \in 1 .. n : x[j] = EOL <=> j = n
  BY LenProperties DEF IsLine, Text
<1>2. /\ p \in Seq(Char) /\ s \in Seq(Char) /\ Len(p) = k /\ Len(s) = l
  BY <1>1, SeqIsParts
<1>3. \A i \in 1 .. k : p[i] = x[i]
  <2>1. \A i \in 1 .. k - 1 + 1 : p[i] = x[1 + i - 1]
    BY <1>1, PartOfSeq
  <2> HIDE DEF p
  <2> QED
    BY <1>1, <2>1
<1>4. \A i \in 1 .. l : s[i] = x[k + i]
  <2> DEFINE j == k + 1
  <2>1. j \in Nat \ {0} /\ n \in Int /\ n <= Len(x)
    BY <1>1
  <2> HIDE DEF j, n
  <2>2. \A i \in 1 .. n - j + 1 : SubSeq(x, j, n)[i] = x[j + i - 1]
    BY <1>1, <2>1, PartOfSeq
  <2>3. s = SubSeq(x, j, n)
    BY DEF j
  <2> HIDE DEF s
  <2>4. \A i \in 1 .. l : i \in 1 .. n - j + 1 /\ j + i - 1 = k + i
    BY <1>1 DEF j
  <2> QED
    BY <2>2, <2>3, <2>4
<1> HIDE DEF p, s, n
<1>5. NoEol(p)
  BY <1>1, <1>2, <1>3 DEF NoEol, Text, n
<1>6. l \in Nat \ {0}
  BY <1>1 DEF n
<1>7. \A i \in 1 .. l : s[i] = EOL <=> i = l
  <2>1. \A i \in 1 .. l : k + i \in 1 .. n /\ (k + i = n <=> i = l)
    BY <1>1
  <2> QED
    BY <1>1, <1>4, <2>1
<1> HIDE DEF l
<1>8. IsLine(s)
  BY <1>2, <1>6, <1>7, EmptySeq DEF IsLine, Text
<1> QED
  BY <1>5, <1>8 DEF p, s, n

-----------------------------------------------------------------------------
(* A finite set of numbers in order.                                        *)

Below(S, x) == {y \in S : y < x}
Rank(S, x) == Cardinality(Below(S, x))

LEMMA IntervalIsFinite ==
  ASSUME NEW n \in Nat
  PROVE  IsFiniteSet(1 .. n) /\ Cardinality(1 .. n) = n
<1>1. IsFiniteSet(1 .. n) /\ Cardinality(1 .. n) = IF 1 > n THEN 0 ELSE n - 1 + 1
  BY FS_Interval
<1> QED
  BY <1>1

LEMMA GreatestOf ==
  ASSUME NEW n \in Nat, NEW S \in SUBSET (1 .. n), S # {}
  PROVE  \E x \in S : \A y \in S : y <= x
<1> DEFINE T == {k \in 0 .. n : n - k \in S}
<1>1. T \in SUBSET Nat
  OBVIOUS
<1>2. T # {}
  <2>1. PICK x \in S : x \in 1 .. n
    OBVIOUS
  <2>2. n - x \in 0 .. n /\ n - (n - x) = x
    BY <2>1
  <2> QED
    BY <2>1, <2>2
<1>3. PICK k \in T : \A j \in T : k <= j
  <2> HIDE DEF T
  <2> QED
    BY <1>1, <1>2, LeastNatural
<1>4. ASSUME NEW y \in S
      PROVE  y <= n - k
  <2>1. y \in 1 .. n
    OBVIOUS
  <2>2. n - y \in 0 .. n /\ n - (n - y) = y
    BY <2>1
  <2>3. n - y \in T
    BY <2>2
  <2>4. k <= n - y
    BY <1>3, <2>3
  <2> QED
    BY <1>3, <2>1, <2>4
<1> QED
  BY <1>3, <1>4

LEMMA FiniteOf ==
  ASSUME NEW n \in Nat, NEW S \in SUBSET (1 .. n)
  PROVE  IsFiniteSet(S) /\ Cardinality(S) \in Nat
<1>1. IsFiniteSet(S)
  BY IntervalIsFinite, FS_Subset
<1> QED
  BY <1>1, FS_CardinalityType

LEMMA BelowIs ==
  ASSUME NEW n \in Nat, NEW S \in SUBSET (1 .. n), NEW x \in S
  PROVE  /\ x \in 1 .. n /\ x \notin Below(S, x)
         /\ \A y : y \in Below(S, x) <=> y \in S /\ y < x
         /\ \A y \in Below(S, x) : y \in 1 .. n /\ y \in S
<1>1. \A y : y \in Below(S, x) <=> y \in S /\ y < x
  BY DEF Below
<1>2. \A y \in S : y \in 1 .. n
  OBVIOUS
<1>3. ~(x < x)
  BY <1>2
<1> QED
  BY <1>1, <1>2, <1>3

LEMMA Ranks ==
  ASSUME NEW n \in Nat, NEW S \in SUBSET (1 .. n), NEW x \in S
  PROVE  /\ Rank(S, x) \in Nat /\ Rank(S, x) <= Cardinality(S) - 1
         /\ \A y \in S : x < y => Rank(S, x) < Rank(S, y)
<1> DEFINE B == Below(S, x)
<1>1. IsFiniteSet(S) /\ Cardinality(S) \in Nat
  BY FiniteOf
<1>2. B \in SUBSET S /\ x \notin B /\ B \in SUBSET (S \ {x}) /\ B \in SUBSET (1 .. n)
  <2>1. x \notin B /\ \A y \in B : y \in 1 .. n /\ y \in S
    BY BelowIs
  <2> HIDE DEF B
  <2> QED
    BY <2>1
<1> HIDE DEF B
<1>3. IsFiniteSet(B) /\ Cardinality(B) \in Nat
  BY <1>2, FiniteOf
<1>4. Cardinality(S \ {x}) = Cardinality(S) - 1 /\ IsFiniteSet(S \ {x})
  BY <1>1, FS_RemoveElement
<1>5. Cardinality(B) <= Cardinality(S) - 1
  <2> DEFINE T == S \ {x}
  <2>1. B \in SUBSET T /\ IsFiniteSet(T)
    BY <1>2, <1>4
  <2> HIDE DEF T
  <2>2. Cardinality(B) <= Cardinality(T)
    BY <2>1, FS_Subset
  <2> QED
    BY <1>4, <2>2 DEF T
<1>6. ASSUME NEW y \in S, x < y
      PROVE  Cardinality(B) < Rank(S, y)
  <2> DEFINE C == Below(S, y)
             A == B \cup {x}
  <2>1. A \in SUBSET C
    <3>1. \A z : z \in B <=> z \in S /\ z < x
      BY BelowIs DEF B
    <3>2. \A z : z \in C <=> z \in S /\ z < y
      BY BelowIs
    <3>3. \A z \in S : z \in 1 .. n
      OBVIOUS
    <3> HIDE DEF C
    <3>4. ASSUME NEW z \in B PROVE z \in C
      <4>1. z \in S /\ z < x
        BY <3>1
      <4>2. z \in 1 .. n /\ x \in 1 .. n /\ y \in 1 .. n
        BY <3>3, <4>1
      <4>3. z < y
        BY <1>6, <4>1, <4>2
      <4> QED
        BY <3>2, <4>1, <4>3
    <3>5. x \in C
      BY <1>6, <3>2
    <3> QED
      BY <3>4, <3>5
  <2>2. C \in SUBSET (1 .. n)
    <3>1. \A z \in C : z \in 1 .. n
      BY BelowIs
    <3> QED
      BY <3>1
  <2>3. Cardinality(A) = Cardinality(B) + 1
    BY <1>2, <1>3, FS_AddElement
  <2> HIDE DEF A, C
  <2>4. IsFiniteSet(C) /\ Cardinality(C) \in Nat
    BY <2>2, FiniteOf
  <2>5. Cardinality(A) <= Cardinality(C)
    BY <2>1, <2>4, FS_Subset
  <2> QED
    BY <1>3, <2>3, <2>4, <2>5 DEF C, Rank
<1> QED
  BY <1>3, <1>5, <1>6 DEF Rank, B

LEMMA RankIsReached ==
  ASSUME NEW n \in Nat, NEW S \in SUBSET (1 .. n), NEW i \in 0 .. Cardinality(S) - 1
  PROVE  \E x \in S : Rank(S, x) = i
<1>1. IsFiniteSet(S) /\ Cardinality(S) \in Nat /\ i \in Nat /\ i <= Cardinality(S) - 1
  BY FiniteOf
<1>2. S # {}
  <2>1. Cardinality({}) = 0
    BY FS_EmptySet
  <2> QED
    BY <1>1, <2>1
<1> DEFINE T == {x \in S : Rank(S, x) >= i}
<1>3. T # {}
  <2>1. PICK x \in S : \A y \in S : y <= x
    BY <1>2, GreatestOf
  <2>2. Below(S, x) = S \ {x}
    <3>1. \A z : z \in Below(S, x) <=> z \in S /\ z < x
      BY BelowIs
    <3>2. \A z \in S : z \in 1 .. n /\ (z < x <=> z # x)
      <4>1. \A z \in S : z \in 1 .. n
        OBVIOUS
      <4> QED
        BY <2>1, <4>1
    <3> DEFINE B == Below(S, x)
    <3> HIDE DEF B
    <3>3. B = S \ {x}
      BY <3>1, <3>2 DEF B
    <3> QED
      BY <3>3 DEF B
  <2>3. Cardinality(S \ {x}) = Cardinality(S) - 1
    BY <1>1, FS_RemoveElement
  <2>4. Rank(S, x) = Cardinality(S) - 1
    BY <2>2, <2>3 DEF Rank
  <2>5. Rank(S, x) >= i
    BY <1>1, <2>4
  <2> QED
    BY <2>5
<1>4. PICK x \in T : \A y \in T : x <= y
  <2>1. \A z \in T : z \in S
    OBVIOUS
  <2>2. \A z \in S : z \in 1 .. n
    OBVIOUS
  <2>3. \A z \in 1 .. n : z \in Nat
    OBVIOUS
  <2> HIDE DEF T
  <2>4. T \in SUBSET Nat
    BY <2>1, <2>2, <2>3
  <2> QED
    BY <1>3, <2>4, LeastNatural
<1> SUFFICES ASSUME Rank(S, x) # i PROVE FALSE
  BY <1>4
<1>5. x \in S /\ x \in 1 .. n /\ Rank(S, x) \in Nat /\ Rank(S, x) > i
  <2>1. x \in S /\ x \in 1 .. n /\ Rank(S, x) >= i
    BY <1>4
  <2>2. Rank(S, x) \in Nat
    BY <2>1, Ranks
  <2> QED
    BY <1>1, <2>1, <2>2
<1> DEFINE B == Below(S, x)
<1>6. B \in SUBSET (1 .. n) /\ B \in SUBSET S /\ B # {}
  <2>1. Cardinality({}) = 0
    BY FS_EmptySet
  <2>2. Cardinality(B) > 0
    BY <1>1, <1>5 DEF Rank
  <2>3. \A z \in B : z \in 1 .. n /\ z \in S
    BY <1>5, BelowIs
  <2> HIDE DEF B
  <2>4. B # {}
    BY <2>1, <2>2
  <2> QED
    BY <2>3, <2>4
<1>7. PICK y \in B : \A z \in B : z <= y
  <2> HIDE DEF B
  <2> QED
    BY <1>6, GreatestOf
<1> DEFINE A == Below(S, y)
<1>8. y \in S /\ y < x /\ B = A \cup {y} /\ y \notin A /\ A \in SUBSET (1 .. n)
  <2>1. \A z : z \in B <=> z \in S /\ z < x
    BY <1>5, BelowIs
  <2>2. y \in S /\ y < x
    BY <1>7, <2>1
  <2>3. /\ \A z : z \in A <=> z \in S /\ z < y
        /\ y \notin A /\ \A z \in A : z \in 1 .. n
    BY <2>2, BelowIs
  <2>4. /\ \A z \in S : z \in 1 .. n
        /\ \A z \in B : z <= y
    BY <1>7
  <2> HIDE DEF A, B
  <2>5. \A z : z \in B <=> z \in A \/ z = y
    <3>1. ASSUME NEW z \in B PROVE z \in A \/ z = y
      <4>1. z \in S /\ z <= y /\ z \in 1 .. n /\ y \in 1 .. n
        BY <2>1, <2>2, <2>4
      <4>2. z < y \/ z = y
        BY <4>1
      <4> QED
        BY <2>3, <4>1, <4>2
    <3>2. ASSUME NEW z \in A PROVE z \in B
      <4>1. z \in S /\ z < y /\ z \in 1 .. n /\ y \in 1 .. n /\ x \in 1 .. n
        BY <1>5, <2>2, <2>3, <2>4
      <4>2. z < x
        BY <2>2, <4>1
      <4> QED
        BY <2>1, <4>1, <4>2
    <3> QED
      BY <2>1, <2>2, <3>1, <3>2
  <2>6. B = A \cup {y}
    BY <2>5
  <2>7. A \in SUBSET (1 .. n)
    BY <2>3
  <2> QED
    BY <2>2, <2>3, <2>6, <2>7
<1>9. Cardinality(B) = Cardinality(A) + 1 /\ Cardinality(A) \in Nat
  <2> HIDE DEF A, B
  <2>1. IsFiniteSet(A) /\ Cardinality(A) \in Nat
    BY <1>8, FiniteOf
  <2> QED
    BY <1>8, <2>1, FS_AddElement
<1>10. Rank(S, y) >= i
  BY <1>1, <1>5, <1>9 DEF Rank
<1>11. x <= y
  BY <1>4, <1>8, <1>10
<1>12. y \in 1 .. n
  BY <1>8
<1> QED
  BY <1>5, <1>8, <1>11, <1>12

(* Nothing of the set is left out, between two that follow one another.     *)
IsOrdered(S, o) ==
    /\ Len(o) \in Nat /\ o \in [1 .. Len(o) -> S]
    /\ \A i, j \in 1 .. Len(o) : i < j => o[i] < o[j]
    /\ \A x \in S : \E i \in 1 .. Len(o) : o[i] = x

LEMMA OrderedIs ==
  ASSUME NEW n \in Nat, NEW S \in SUBSET (1 .. n)
  PROVE  IsOrdered(S, [i \in 1 .. Cardinality(S) |-> CHOOSE x \in S : Rank(S, x) = i - 1])
<1> DEFINE m == Cardinality(S)
           o == [i \in 1 .. m |-> CHOOSE x \in S : Rank(S, x) = i - 1]
<1>1. m \in Nat
  BY FiniteOf
<1>2. ASSUME NEW i \in 1 .. m
      PROVE  o[i] \in S /\ Rank(S, o[i]) = i - 1
  <2> DEFINE k == i - 1
  <2>1. k \in 0 .. Cardinality(S) - 1
    BY <1>1
  <2>2. o[i] = CHOOSE x \in S : Rank(S, x) = k
    OBVIOUS
  <2> HIDE DEF k, o
  <2>3. \E x \in S : Rank(S, x) = k
    BY <2>1, RankIsReached
  <2> QED
    BY <2>2, <2>3 DEF k
<1>3. o \in [1 .. m -> S] /\ o \in Seq(S) /\ Len(o) = m
  <2>1. o \in [1 .. m -> S]
    BY <1>2
  <2> HIDE DEF o, m
  <2>2. o \in Seq(S)
    BY <1>1, <2>1, SeqDef
  <2>3. DOMAIN o = 1 .. m /\ DOMAIN o = 1 .. Len(o) /\ Len(o) \in Nat
    BY <2>1, <2>2, LenProperties
  <2> QED
    BY <1>1, <2>1, <2>2, <2>3
<1>4. \A x \in S : Rank(S, x) \in Nat /\ Rank(S, x) <= m - 1
  BY Ranks
<1>5. \A x, y \in S : x < y => Rank(S, x) < Rank(S, y)
  BY Ranks
<1>6. \A x \in S : x \in 1 .. n
  OBVIOUS
<1> HIDE DEF o, m
<1>7. ASSUME NEW i \in 1 .. m, NEW j \in 1 .. m, i < j
      PROVE  o[i] < o[j]
  <2> DEFINE x == o[i]
             y == o[j]
  <2>a. x \in S /\ y \in S /\ Rank(S, x) = i - 1 /\ Rank(S, y) = j - 1
    BY <1>2
  <2>b. i - 1 < j - 1
    BY <1>7
  <2> HIDE DEF x, y
  <2>1. /\ x \in S /\ y \in S /\ Rank(S, x) < Rank(S, y)
        /\ Rank(S, x) \in Nat /\ Rank(S, y) \in Nat /\ x \in 1 .. n /\ y \in 1 .. n
    BY <1>4, <1>6, <2>a, <2>b
  <2>2. y < x => Rank(S, y) < Rank(S, x)
    BY <1>5, <2>1
  <2>3. x # y
    BY <2>1
  <2>4. x < y
    BY <2>1, <2>2, <2>3
  <2> QED
    BY <2>4 DEF x, y
<1>8. ASSUME NEW x \in S
      PROVE  \E i \in 1 .. m : o[i] = x
  <2> DEFINE i == Rank(S, x) + 1
  <2>1. i \in 1 .. m /\ i - 1 = Rank(S, x)
    BY <1>1, <1>4
  <2> DEFINE y == o[i]
  <2>2. y \in S /\ Rank(S, y) = Rank(S, x)
    BY <1>2, <2>1
  <2> HIDE DEF i, y
  <2>3. /\ x < y => Rank(S, x) < Rank(S, y)
        /\ y < x => Rank(S, y) < Rank(S, x)
        /\ x \in 1 .. n /\ y \in 1 .. n /\ Rank(S, x) \in Nat
    BY <1>4, <1>5, <1>6, <2>2
  <2>4. x = y
    BY <2>2, <2>3
  <2> QED
    BY <2>1, <2>4 DEF y
<1>9. IsOrdered(S, o)
  BY <1>1, <1>3, <1>7, <1>8 DEF IsOrdered
<1> QED
  BY <1>9 DEF o, m

-----------------------------------------------------------------------------
(* The positions of EOL in a text, and the lines that they end.             *)

AreEols(s, e) ==
    /\ Len(e) \in Nat /\ e \in [1 .. Len(e) -> 1 .. Len(s)]
    /\ \A i, j \in 1 .. Len(e) : i < j => e[i] < e[j]
    /\ \A i \in 1 .. Len(e) : s[e[i]] = EOL
    /\ \A x \in 1 .. Len(s) : s[x] = EOL => \E i \in 1 .. Len(e) : e[i] = x

LEMMA EolsOf ==
  ASSUME NEW s \in Text
  PROVE  AreEols(s, EolPositions(s)) /\ (EolPositions(s) = <<>> <=> Len(EolPositions(s)) = 0)
<1> DEFINE n == Len(s)
           S == {i \in 1 .. n : s[i] = EOL}
           e == [i \in 1 .. Cardinality(S) |-> CHOOSE x \in S : Rank(S, x) = i - 1]
<1>1. n \in Nat /\ S \in SUBSET (1 .. n)
  BY LenProperties DEF Text
<1>2. EolPositions(s) = e
  BY DEF EolPositions, Ordered, Rank, Below
<1>3. IsOrdered(S, e)
  <2> HIDE DEF S, n
  <2> QED
    BY <1>1, OrderedIs
<1>4. \A x : x \in S <=> x \in 1 .. n /\ s[x] = EOL
  OBVIOUS
<1> HIDE DEF S, e
<1>5. AreEols(s, e)
  <2>1. Len(e) \in Nat /\ e \in [1 .. Len(e) -> S]
    BY <1>3 DEF IsOrdered
  <2>2. \A i \in 1 .. Len(e) : e[i] \in S
    BY <2>1
  <2>3. e \in [1 .. Len(e) -> 1 .. Len(s)]
    BY <1>4, <2>1, <2>2
  <2>4. \A i \in 1 .. Len(e) : s[e[i]] = EOL
    BY <1>4, <2>2
  <2>5. \A i, j \in 1 .. Len(e) : i < j => e[i] < e[j]
    BY <1>3 DEF IsOrdered
  <2>6. \A x \in 1 .. Len(s) : s[x] = EOL => \E i \in 1 .. Len(e) : e[i] = x
    BY <1>3, <1>4 DEF IsOrdered
  <2> QED
    BY <2>1, <2>3, <2>4, <2>5, <2>6 DEF AreEols
<1>6. e = <<>> <=> Len(e) = 0
  <2>1. Len(e) \in Nat /\ e \in [1 .. Len(e) -> S]
    BY <1>3 DEF IsOrdered
  <2>2. e \in Seq(S)
    BY <2>1, SeqDef
  <2> QED
    BY <2>2, EmptySeq
<1> QED
  BY <1>2, <1>5, <1>6

(* Where the piece of a number starts, and where the one before it ended.   *)
StartOf(e, k) == IF k = 1 THEN 1 ELSE e[k - 1] + 1

LEMMA Pieces ==
  ASSUME NEW s \in Text, NEW e, AreEols(s, e), NEW k \in 1 .. Len(e) + 1
  PROVE  /\ StartOf(e, k) \in 1 .. Len(s) + 1
         /\ k <= Len(e) => e[k] \in 1 .. Len(s) /\ StartOf(e, k) <= e[k]
         /\ \A j \in 1 .. Len(s) :
                StartOf(e, k) <= j /\ (k <= Len(e) => j < e[k]) => s[j] # EOL
<1> DEFINE n == Len(e)
           m == Len(s)
           a == StartOf(e, k)
<1>1. /\ n \in Nat /\ m \in Nat /\ k \in Nat
      /\ \A i \in 1 .. n : e[i] \in 1 .. m
      /\ \A i, j \in 1 .. n : i < j => e[i] < e[j]
      /\ \A x \in 1 .. m : s[x] = EOL => \E i \in 1 .. n : e[i] = x
  BY LenProperties DEF AreEols, Text
<1>2. k = 1 \/ (k # 1 /\ k - 1 \in 1 .. n)
  BY <1>1
<1>3. a = IF k = 1 THEN 1 ELSE e[k - 1] + 1
  BY DEF StartOf
<1>4. k <= n => k \in 1 .. n
  BY <1>1
<1> HIDE DEF n, m, a
<1>5. a \in 1 .. m + 1
  BY <1>1, <1>2, <1>3
<1>6. ASSUME k <= n
      PROVE  e[k] \in 1 .. m /\ a <= e[k]
  <2>1. e[k] \in 1 .. m
    BY <1>1, <1>4, <1>6
  <2>2. CASE k = 1
    BY <1>3, <2>1, <2>2
  <2>3. CASE k # 1
    <3>1. k - 1 \in 1 .. n /\ k \in 1 .. n /\ k - 1 < k
      BY <1>2, <1>4, <1>6, <2>3
    <3>2. e[k - 1] < e[k] /\ e[k - 1] \in 1 .. m
      BY <1>1, <3>1
    <3> QED
      BY <1>3, <2>1, <2>3, <3>2
  <2> QED
    BY <2>1, <2>2, <2>3
<1>7. ASSUME NEW j \in 1 .. m, a <= j, k <= n => j < e[k], s[j] = EOL
      PROVE  FALSE
  <2>1. PICK i \in 1 .. n : e[i] = j
    BY <1>1, <1>7
  <2>2. i < k
    <3> SUFFICES ASSUME k <= i PROVE FALSE
      BY <1>1, <2>1
    <3>1. k \in 1 .. n /\ j < e[k] /\ e[k] \in 1 .. m
      BY <1>1, <1>7, <2>1
    <3>2. k = i \/ k < i
      BY <3>1
    <3>3. k < i => e[k] < e[i]
      BY <1>1, <3>1
    <3> QED
      BY <2>1, <3>1, <3>2, <3>3
  <2>3. k # 1 /\ k - 1 \in 1 .. n
    BY <1>2, <2>1, <2>2
  <2>4. i = k - 1 \/ i < k - 1
    BY <1>1, <2>1, <2>2
  <2>5. e[k - 1] \in 1 .. m /\ e[k - 1] + 1 <= j
    BY <1>1, <1>3, <1>7, <2>3
  <2>6. i < k - 1 => e[i] < e[k - 1]
    BY <1>1, <2>3
  <2> QED
    BY <2>1, <2>4, <2>5, <2>6
<1> QED
  BY <1>5, <1>6, <1>7 DEF a, m, n

(* Up to an EOL, or past the last one.                                      *)
LEMMA PieceIsLine ==
  ASSUME NEW s \in Text, NEW e, AreEols(s, e), NEW k \in 1 .. Len(e)
  PROVE  IsLine(SubSeq(s, StartOf(e, k), e[k]))
<1> DEFINE a == StartOf(e, k)
           b == e[k]
           x == SubSeq(s, a, b)
           l == b - a + 1
<1>1. Len(e) \in Nat /\ Len(s) \in Nat /\ k \in 1 .. Len(e) + 1 /\ k <= Len(e) /\ s[b] = EOL
  BY LenProperties DEF AreEols, Text
<1>2. /\ a \in 1 .. Len(s) + 1 /\ b \in 1 .. Len(s) /\ a <= b
      /\ \A j \in 1 .. Len(s) : a <= j /\ j < b => s[j] # EOL
  BY <1>1, Pieces
<1>3. a \in Nat \ {0} /\ b \in Int /\ b <= Len(s) /\ s \in Seq(Char)
  BY <1>1, <1>2 DEF Text
<1> HIDE DEF a, b
<1>4. x \in Seq(Char) /\ Len(x) = l /\ \A i \in 1 .. l : x[i] = s[a + i - 1]
  BY <1>2, <1>3, PartOfSeq
<1>5. l \in Nat \ {0}
  BY <1>2
<1>6. ASSUME NEW i \in 1 .. l
      PROVE  x[i] = EOL <=> i = l
  <2> DEFINE j == a + i - 1
  <2>1. j \in 1 .. Len(s) /\ a <= j /\ (i = l <=> j = b) /\ (i # l <=> j < b)
    BY <1>2, <1>3
  <2>2. x[i] = s[j]
    BY <1>4
  <2> HIDE DEF j, x, l
  <2> QED
    BY <1>1, <1>2, <2>1, <2>2 DEF b
<1> HIDE DEF x, l
<1>7. IsLine(x)
  BY <1>4, <1>5, <1>6, EmptySeq DEF IsLine, Text
<1> QED
  BY <1>7 DEF x, a, b

LEMMA LastPiece ==
  ASSUME NEW s \in Text, NEW e, AreEols(s, e)
  PROVE  NoEol(SubSeq(s, StartOf(e, Len(e) + 1), Len(s)))
<1> DEFINE k == Len(e) + 1
           a == StartOf(e, k)
           b == Len(s)
           x == SubSeq(s, a, b)
           l == b - a + 1
<1>1. Len(e) \in Nat /\ Len(s) \in Nat /\ k \in 1 .. Len(e) + 1 /\ ~(k <= Len(e))
  BY LenProperties DEF AreEols, Text
<1>2. a \in 1 .. Len(s) + 1 /\ \A j \in 1 .. Len(s) : a <= j => s[j] # EOL
  <2> HIDE DEF k
  <2> QED
    BY <1>1, Pieces
<1>3. a \in Nat \ {0} /\ b \in Int /\ b <= Len(s) /\ s \in Seq(Char)
  BY <1>1, <1>2 DEF Text
<1> HIDE DEF a
<1>4. /\ x \in Seq(Char) /\ Len(x) = IF a <= b THEN l ELSE 0
      /\ \A i \in 1 .. l : x[i] = s[a + i - 1]
  <2> HIDE DEF b
  <2> QED
    BY <1>2, <1>3, PartOfSeq
<1>5. \A i \in 1 .. Len(x) : i \in 1 .. l /\ a + i - 1 \in 1 .. Len(s) /\ a <= a + i - 1
  BY <1>1, <1>2, <1>4
<1> HIDE DEF x, l, b
<1>6. \A i \in 1 .. Len(x) : x[i] # EOL
  BY <1>2, <1>4, <1>5
<1>7. NoEol(x)
  BY <1>4, <1>6 DEF NoEol, Text
<1> QED
  BY <1>7 DEF x, a, b, k

-----------------------------------------------------------------------------
(* The lines that content makes between prefix and suffix.                  *)

PieceOf(s, e, k) == SubSeq(s, StartOf(e, k), e[k])
EndedBy(prefix, s, e) ==
    [k \in 1 .. Len(e) |-> (IF k = 1 THEN prefix ELSE <<>>) \o PieceOf(s, e, k)]

LEMMA EndedAreLines ==
  ASSUME NEW prefix, NoEol(prefix), NEW s \in Text, NEW e, AreEols(s, e)
  PROVE  /\ EndedBy(prefix, s, e) \in Seq(Text) /\ Len(EndedBy(prefix, s, e)) = Len(e)
         /\ AreLines(EndedBy(prefix, s, e))
         /\ \A k \in 1 .. Len(e) : EndedBy(prefix, s, e)[k] =
                IF k = 1 THEN prefix \o PieceOf(s, e, k) ELSE PieceOf(s, e, k)
<1> DEFINE n == Len(e)
           x == EndedBy(prefix, s, e)
<1>1. n \in Nat
  BY DEF AreEols
<1>2. ASSUME NEW k \in 1 .. n
      PROVE  /\ x[k] = IF k = 1 THEN prefix \o PieceOf(s, e, k) ELSE PieceOf(s, e, k)
             /\ IsLine(x[k]) /\ x[k] \in Text
  <2> DEFINE p == PieceOf(s, e, k)
  <2>1. x[k] = (IF k = 1 THEN prefix ELSE <<>>) \o p
    BY DEF EndedBy
  <2>2. IsLine(p)
    BY PieceIsLine DEF PieceOf
  <2> HIDE DEF p, x
  <2>3. <<>> \o p = p
    BY <2>2, ConcatEmptySeq DEF IsLine, Text
  <2>4. IsLine(prefix \o p)
    BY <2>2, JoinLine
  <2>5. x[k] = IF k = 1 THEN prefix \o p ELSE p
    BY <2>1, <2>3
  <2>6. IsLine(x[k])
    BY <2>2, <2>4, <2>5
  <2> QED
    BY <2>5, <2>6 DEF p, IsLine
<1>3. x = [k \in 1 .. n |-> x[k]]
  BY DEF EndedBy
<1> HIDE DEF x, n
<1>4. x \in [1 .. n -> Text]
  BY <1>2, <1>3
<1>5. x \in Seq(Text)
  BY <1>1, <1>4, SeqDef
<1>6. Len(x) = n
  <2>1. DOMAIN x = 1 .. n /\ DOMAIN x = 1 .. Len(x) /\ Len(x) \in Nat
    BY <1>4, <1>5, LenProperties
  <2> QED
    BY <1>1, <2>1
<1>7. AreLines(x)
  BY <1>2, <1>5, <1>6 DEF AreLines
<1> QED
  BY <1>2, <1>5, <1>6, <1>7 DEF x, n

LEMMA FlatOfEnded ==
  ASSUME NEW prefix, NoEol(prefix), NEW s \in Text, NEW e, AreEols(s, e), Len(e) # 0
  PROVE  Flat(EndedBy(prefix, s, e)) = prefix \o SubSeq(s, 1, e[Len(e)])
<1> DEFINE n == Len(e)
           x == EndedBy(prefix, s, e)
           To(k) == SubSeq(x, 1, k)
           Part(k) == SubSeq(s, 1, e[k])
           S == {k \in 0 .. n : k = 0 \/ Flat(To(k)) = prefix \o Part(k)}
<1>1. n \in Nat /\ prefix \in Text /\ Len(s) \in Nat /\ s \in Seq(Char) /\ prefix \in Seq(Char)
  BY LenProperties DEF AreEols, NoEol, Text
<1>2. /\ x \in Seq(Text) /\ Len(x) = n
      /\ \A k \in 1 .. n : x[k] = IF k = 1 THEN prefix \o PieceOf(s, e, k) ELSE PieceOf(s, e, k)
  BY EndedAreLines
<1>3. 0 \in S
  BY <1>1
<1>4. ASSUME NEW k \in 0 .. n - 1, k \in S
      PROVE  k + 1 \in S
  <2> DEFINE j == k + 1
             a == To(k)
             p == PieceOf(s, e, j)
  <2>1. j \in 1 .. n /\ j \in 0 .. n /\ j # 0 /\ (j = 1 <=> k = 0) /\ j - 1 = k
        /\ j \in 1 .. Len(e) + 1 /\ j <= Len(e) /\ k \in 0 .. Len(x) - 1
    BY <1>1, <1>2
  <2> HIDE DEF x
  <2>2. To(j) = Append(a, x[j]) /\ a \in Seq(Text) /\ x[j] \in Text
    BY <1>2, <2>1, FirstAndNext
  <2> HIDE DEF To
  <2>3. Flat(To(j)) = Flat(a) \o x[j]
    BY <2>2, FlatAppend
  <2> HIDE DEF a
  <2>4. IsLine(p) /\ p \in Seq(Char)
    <3>1. IsLine(p)
      <4> HIDE DEF j
      <4> QED
        BY <2>1, PieceIsLine DEF PieceOf
    <3> QED
      BY <3>1 DEF IsLine, Text
  <2>5. CASE k = 0
    <3>1. a = <<>> /\ Flat(a) = <<>>
      <4>1. a = SubSeq(x, 1, 0)
        BY <2>5 DEF a, To
      <4>2. SubSeq(x, 1, 0) = <<>>
        BY SubSeqEmpty
      <4> QED
        BY <4>1, <4>2, FlatOfEmpty
    <3>2. Flat(To(j)) = x[j] /\ j = 1
      BY <2>1, <2>2, <2>3, <2>5, <3>1, ConcatEmptySeq DEF Text
    <3>3. x[1] = prefix \o SubSeq(s, 1, e[1])
      BY <1>2, <2>1, <2>5 DEF PieceOf, StartOf
    <3>4. Flat(To(j)) = prefix \o Part(j)
      BY <3>2, <3>3
    <3> QED
      BY <2>1, <3>4
  <2>6. CASE k # 0
    <3>1. Flat(a) = prefix \o Part(k)
      BY <1>4, <2>6 DEF a
    <3>2. x[j] = p
      BY <1>2, <2>1, <2>6
    <3>3. p = SubSeq(s, e[k] + 1, e[j])
      BY <2>1, <2>6 DEF PieceOf, StartOf
    <3>4. k \in 1 .. Len(e) + 1 /\ k <= Len(e)
      BY <1>1, <2>6
    <3>5. e[k] \in 1 .. Len(s)
      BY <3>4, Pieces
    <3>6. e[j] \in 1 .. Len(s) /\ e[k] + 1 <= e[j]
      <4>1. e[j] \in 1 .. Len(s) /\ StartOf(e, j) <= e[j]
        <5> HIDE DEF j
        <5> QED
          BY <2>1, Pieces
      <4>2. StartOf(e, j) = e[k] + 1
        BY <2>1, <2>6 DEF StartOf
      <4> QED
        BY <4>1, <4>2
    <3> DEFINE u == e[k]
               v == e[j]
    <3>7. u \in 0 .. Len(s) /\ v \in u .. Len(s) /\ 1 \in 1 .. Len(s) + 1
          /\ u \in 1 - 1 .. Len(s)
      BY <1>1, <3>5, <3>6
    <3> HIDE DEF u, v, j, p
    <3>8. SubSeq(s, 1, u) \o SubSeq(s, u + 1, v) = SubSeq(s, 1, v)
      BY <1>1, <3>7, ConcatAdjacentSubSeq
    <3>9. SubSeq(s, 1, u) \in Seq(Char)
      BY <1>1, <3>7, SeqIsParts
    <3>10. p = SubSeq(s, u + 1, v)
      BY <3>3 DEF u, v
    <3> DEFINE y == SubSeq(s, 1, u)
               z == SubSeq(s, 1, v)
    <3>11. y \in Seq(Char) /\ y \o p = z
      BY <3>8, <3>9, <3>10
    <3>12. Flat(a) = prefix \o y /\ Part(j) = z
      BY <3>1 DEF u, v
    <3> HIDE DEF y, z, Part
    <3>13. (prefix \o y) \o p = prefix \o (y \o p)
      <4>1. prefix \in Seq(Char) /\ y \in Seq(Char) /\ p \in Seq(Char)
        BY <1>1, <2>4, <3>11
      <4>2. Join3(prefix, y, p)
        BY <4>1, JoinedChars
      <4> QED
        BY <4>2, Zenon DEF Join3
    <3>14. Flat(To(j)) = prefix \o Part(j)
      BY <2>3, <3>2, <3>11, <3>12, <3>13
    <3> QED
      BY <2>1, <3>14 DEF j
  <2> QED
    BY <2>5, <2>6
<1>5. Flat(To(n)) = prefix \o Part(n)
  <2> HIDE DEF S
  <2>1. \A k \in 0 .. n : k \in S
    <3> HIDE DEF n
    <3> QED
      BY <1>1, <1>3, <1>4, Induction
  <2>2. n \in S
    BY <1>1, <2>1
  <2> QED
    BY <2>2 DEF S
<1>6. To(n) = x
  BY <1>2, SubSeqFull
<1> QED
  BY <1>5, <1>6


LEMMA AppendLine ==
  ASSUME NEW ls, AreLines(ls), NEW x, IsLine(x)
  PROVE  AreLines(Append(ls, x)) /\ Len(Append(ls, x)) = Len(ls) + 1
<1> DEFINE ms == Append(ls, x)
           n == Len(ls)
           m == n + 1
<1>1. ls \in Seq(Text) /\ x \in Text /\ n \in Nat /\ \A i \in 1 .. n : IsLine(ls[i])
  BY LenProperties DEF AreLines, IsLine
<1>2. ms \in Seq(Text) /\ Len(ms) = m /\ ms[m] = x /\ \A i \in 1 .. n : ms[i] = ls[i]
  BY <1>1, AppendProperties
<1> HIDE DEF ms, n
<1>3. ASSUME NEW i \in 1 .. m
      PROVE  IsLine(ms[i])
  <2>1. i = m \/ i \in 1 .. n
    BY <1>1
  <2> HIDE DEF m
  <2> QED
    BY <1>1, <1>2, <2>1
<1> HIDE DEF m
<1>4. AreLines(ms)
  BY <1>2, <1>3 DEF AreLines
<1> QED
  BY <1>2, <1>4 DEF ms, m, n

LEMMA NewLinesAre ==
  ASSUME NEW prefix, NoEol(prefix), NEW content \in Text, content # <<>>, NEW suffix \in Text,
         IsLine(suffix) \/ (suffix = <<>> /\ content[Len(content)] = EOL)
  PROVE  /\ AreLines(NewLines(prefix, content, suffix))
         /\ Len(NewLines(prefix, content, suffix)) # 0
         /\ Flat(NewLines(prefix, content, suffix)) = prefix \o (content \o suffix)
<1> DEFINE e == EolPositions(content)
           n == Len(e)
           l == Len(content)
           ended == EndedBy(prefix, content, e)
           last == SubSeq(content, StartOf(e, n + 1), l)
           rest == last \o suffix
           ls == NewLines(prefix, content, suffix)
<1>1. ls = IF e = <<>> THEN <<prefix \o rest>>
           ELSE IF rest # <<>> THEN Append(ended, rest) ELSE ended
  BY DEF NewLines, EndedBy, PieceOf, StartOf
<1>2. AreEols(content, e) /\ (e = <<>> <=> n = 0)
  BY EolsOf
<1>3. /\ content \in Seq(Char) /\ suffix \in Seq(Char) /\ prefix \in Seq(Char)
      /\ l \in Nat \ {0} /\ n \in Nat
  BY <1>2, LenProperties, EmptySeq DEF AreEols, NoEol, Text
<1> HIDE DEF e
<1>4. NoEol(last) /\ last \in Seq(Char)
  <2>1. NoEol(last)
    BY <1>2, LastPiece
  <2> QED
    BY <2>1 DEF NoEol, Text
<1>5. StartOf(e, n + 1) = IF n = 0 THEN 1 ELSE e[n] + 1
  BY <1>3 DEF StartOf
<1>6. IsLine(suffix) => IsLine(rest)
  <2> HIDE DEF last
  <2> QED
    BY <1>4, JoinLine
<1>7. ~IsLine(suffix) => n # 0 /\ e[n] = l /\ last = <<>> /\ rest = <<>>
  <2> SUFFICES ASSUME suffix = <<>>, content[l] = EOL
      PROVE  n # 0 /\ e[n] = l /\ last = <<>> /\ rest = <<>>
    OBVIOUS
  <2>1. PICK i \in 1 .. n : e[i] = l
    BY <1>2, <1>3 DEF AreEols
  <2>2. n \in 1 .. n /\ n # 0 /\ (i = n \/ i < n)
    <3> HIDE DEF n
    <3>1. n \in Nat /\ i \in 1 .. n
      BY <1>3, <2>1, SMTT(30)
    <3> QED
      BY <3>1
  <2>3. e[n] \in 1 .. l /\ (i < n => e[i] < e[n])
    BY <1>2, <2>1, <2>2, Zenon DEF AreEols
  <2>4. e[n] = l
    BY <1>3, <2>1, <2>2, <2>3
  <2>5. last = <<>>
    <3>1. last = SubSeq(content, l + 1, l)
      BY <1>5, <2>2, <2>4
    <3>2. SubSeq(content, l + 1, l) = <<>>
      <4> DEFINE k == l + 1
      <4>1. k \in Int /\ l \in Int /\ l < k
        BY <1>3
      <4> HIDE DEF k, l
      <4>2. SubSeq(content, k, l) = <<>>
        BY <4>1, SubSeqEmpty
      <4> QED
        BY <4>2 DEF k
    <3> QED
      BY <3>1, <3>2
  <2>6. <<>> \o <<>> = <<>>
    BY EmptySeq, ConcatEmptySeq
  <2> QED
    BY <2>2, <2>4, <2>5, <2>6
<1>8. CASE n = 0
  <2>1. IsLine(rest) /\ IsLine(suffix)
    BY <1>6, <1>7, <1>8
  <2>2. last = content
    <3>1. last = SubSeq(content, 1, l)
      BY <1>5, <1>8
    <3> QED
      BY <1>3, <3>1, SubSeqFull
  <2> DEFINE x == prefix \o rest
  <2>3. IsLine(x)
    <3> HIDE DEF rest
    <3> QED
      BY <2>1, JoinLine
  <2>4. ls = <<x>> /\ x = prefix \o (content \o suffix)
    BY <1>1, <1>2, <1>8, <2>2
  <2> HIDE DEF x, ls
  <2>5. Flat(<<x>>) = x
    BY <2>3, FlatOfOne DEF IsLine
  <2>6. AreLines(<<x>>) /\ Len(<<x>>) = 1
    <3>1. <<x>> \in Seq(Text) /\ Len(<<x>>) = 1 /\ <<x>>[1] = x
      BY <2>3 DEF IsLine
    <3> DEFINE u == <<x>>
    <3>2. u \in Seq(Text) /\ Len(u) = 1 /\ u[1] = x
      BY <3>1
    <3> HIDE DEF u
    <3>3. AreLines(u)
      BY <2>3, <3>2 DEF AreLines
    <3> QED
      BY <3>2, <3>3 DEF u
  <2> DEFINE u == <<x>>
  <2>7. ls = u /\ Flat(u) = x /\ AreLines(u) /\ Len(u) = 1
    BY <2>4, <2>5, <2>6
  <2> HIDE DEF u
  <2>8. AreLines(ls) /\ Len(ls) # 0
    BY <2>7
  <2>9. Flat(ls) = prefix \o (content \o suffix)
    BY <2>4, <2>7
  <2> QED
    BY <2>8, <2>9 DEF ls
<1>9. CASE n # 0
  <2> DEFINE b == e[n]
             first == SubSeq(content, 1, b)
  <2>1. b \in 1 .. l /\ b \in 0 .. l
    BY <1>2, <1>3, <1>9 DEF AreEols
  <2>2. /\ first \in Seq(Char) /\ first \o last = content
    <3>1. last = SubSeq(content, b + 1, l)
      BY <1>5, <1>9
    <3>2. SubSeq(content, 1, b) \in Seq(Char)
          /\ SubSeq(content, 1, b) \o SubSeq(content, b + 1, Len(content)) = content
      <4> HIDE DEF b
      <4> QED
        BY <1>3, <2>1, SeqIsParts
    <3> QED
      BY <3>1, <3>2
  <2>3. AreLines(ended) /\ Len(ended) = n
    BY <1>2, EndedAreLines
  <2>4. Flat(ended) = prefix \o first
    BY <1>2, <1>9, FlatOfEnded
  <2> HIDE DEF ended, first, b, last, n, l, ls
  <2>5. CASE IsLine(suffix)
    <3>1. IsLine(rest) /\ rest # <<>> /\ rest \in Text
      BY <1>6, <2>5 DEF IsLine
    <3>2. ls = Append(ended, rest)
      BY <1>1, <1>2, <1>9, <3>1
    <3>3. AreLines(ls) /\ Len(ls) = n + 1
      BY <2>3, <3>1, <3>2, AppendLine
    <3>4. Flat(ls) = Flat(ended) \o rest
      BY <2>3, <3>1, <3>2, FlatAppend DEF AreLines
    <3>5. (prefix \o first) \o (last \o suffix) = prefix \o ((first \o last) \o suffix)
      <4> DEFINE u == last \o suffix
      <4>1. u \in Seq(Char)
        BY <1>3, <1>4, ConcatProperties
      <4>2. first \o u = (first \o last) \o suffix
        <5>1. first \in Seq(Char) /\ last \in Seq(Char) /\ suffix \in Seq(Char)
          BY <1>3, <1>4, <2>2
        <5>2. Join3(first, last, suffix)
          BY <5>1, JoinedChars
        <5> QED
          BY <5>2, Zenon DEF Join3
      <4> HIDE DEF u
      <4>3. (prefix \o first) \o u = prefix \o (first \o u)
        <5>1. first \in Seq(Char) /\ prefix \in Seq(Char)
          BY <1>3, <2>2
        <5>2. Join3(prefix, first, u)
          BY <4>1, <5>1, JoinedChars
        <5> QED
          BY <5>2, Zenon DEF Join3
      <4> QED
        BY <4>2, <4>3 DEF u
    <3>6. Flat(ls) = prefix \o (content \o suffix)
      BY <2>2, <2>4, <3>4, <3>5
    <3>7. Len(ls) # 0
      BY <1>3, <3>3
    <3> QED
      BY <3>3, <3>6, <3>7 DEF ls
  <2>6. CASE ~IsLine(suffix)
    <3>1. last = <<>> /\ rest = <<>> /\ suffix = <<>>
      BY <1>7, <2>6
    <3>2. ls = ended
      BY <1>1, <1>2, <1>9, <3>1
    <3>3. content \o suffix = content /\ first = content
      BY <1>3, <2>2, <3>1, ConcatEmptySeq
    <3>4. Len(ls) # 0 /\ AreLines(ls)
      BY <1>9, <2>3, <3>2
    <3>5. Flat(ls) = prefix \o (content \o suffix)
      BY <2>4, <3>2, <3>3
    <3> QED
      BY <3>4, <3>5 DEF ls
  <2> QED
    BY <2>5, <2>6
<1> QED
  BY <1>8, <1>9

-----------------------------------------------------------------------------
(* Where a coordinate cuts lines.                                           *)

LEMMA PartOfLines ==
  ASSUME NEW ls, AreLines(ls), NEW i \in Nat \ {0}, NEW j \in Int, j <= Len(ls)
  PROVE  AreLines(SubSeq(ls, i, j)) /\ Len(SubSeq(ls, i, j)) = IF i <= j THEN j - i + 1 ELSE 0
<1> DEFINE ms == SubSeq(ls, i, j)
           n == Len(ls)
           l == j - i + 1
<1>1. ls \in Seq(Text) /\ n \in Nat /\ \A k \in 1 .. n : IsLine(ls[k])
  BY LenProperties DEF AreLines
<1>2. ms \in Seq(Text) /\ Len(ms) = (IF i <= j THEN l ELSE 0) /\ \A k \in 1 .. l : ms[k] = ls[i + k - 1]
  BY <1>1, PartOfSeq
<1> HIDE DEF ms
<1>3. \A k \in 1 .. Len(ms) : k \in 1 .. l /\ i + k - 1 \in 1 .. n
  BY <1>1, <1>2
<1> HIDE DEF l, n
<1>4. \A k \in 1 .. Len(ms) : IsLine(ms[k])
  BY <1>1, <1>2, <1>3
<1>5. AreLines(ms)
  BY <1>2, <1>4 DEF AreLines
<1> QED
  BY <1>2, <1>5 DEF ms, l

LEMMA ConcatLines ==
  ASSUME NEW a, AreLines(a), NEW b, AreLines(b)
  PROVE  AreLines(a \o b) /\ Len(a \o b) = Len(a) + Len(b)
<1> DEFINE n == Len(a)
           m == Len(b)
           ms == a \o b
<1>1. /\ a \in Seq(Text) /\ b \in Seq(Text) /\ n \in Nat /\ m \in Nat
      /\ \A k \in 1 .. n : IsLine(a[k])
      /\ \A k \in 1 .. m : IsLine(b[k])
  BY LenProperties DEF AreLines
<1>2. /\ ms \in Seq(Text) /\ Len(ms) = n + m
      /\ \A i \in 1 .. n + m : ms[i] = IF i <= n THEN a[i] ELSE b[i - n]
  BY <1>1, ConcatProperties
<1> HIDE DEF ms, n, m
<1>3. ASSUME NEW i \in 1 .. n + m
      PROVE  IsLine(ms[i])
  <2>1. CASE i <= n
    <3>1. i \in 1 .. n
      BY <1>1, <2>1
    <3> QED
      BY <1>1, <1>2, <2>1, <3>1
  <2>2. CASE ~(i <= n)
    <3>1. i - n \in 1 .. m
      BY <1>1, <2>2
    <3> QED
      BY <1>1, <1>2, <2>2, <3>1
  <2> QED
    BY <2>1, <2>2
<1>4. AreLines(ms)
  BY <1>2, <1>3 DEF AreLines
<1> QED
  BY <1>2, <1>4 DEF ms, n, m

LEMMA CutLines ==
  ASSUME NEW ls, AreLines(ls), NEW c \in Nat \X Nat, IsValid(ls, c)
  PROVE  /\ ls \in Seq(Text)
         /\ NoEol(PrefixAt(ls, c)) /\ Len(PrefixAt(ls, c)) = c[2]
         /\ AreLines(LinesTo(ls, c)) /\ AreLines(LinesPast(ls, c))
         /\ Len(LinesTo(ls, c)) = c[1]
         /\ c[1] \in 0 .. Len(ls)
         /\ c[1] = Len(ls) => c[2] = 0 /\ SuffixAt(ls, c) = <<>>
         /\ c[1] # Len(ls) => IsLine(SuffixAt(ls, c))
         /\ IsEnd(ls, c) <=> c[1] = Len(ls)
<1> DEFINE n == Len(ls)
           k == c[1]
           col == c[2]
           x == ls[k + 1]
<1>1. /\ n \in Nat /\ k \in Nat /\ col \in Nat /\ c = <<k, col>>
      /\ \/ k = n /\ col = 0
         \/ k \in 0 .. n - 1 /\ col \in 0 .. Len(x) - 1
  BY LenProperties DEF IsValid, EndCoord, LineCount, LineLength, AreLines
<1>2. k \in 0 .. n /\ (k = n => col = 0)
  BY <1>1
<1>3. AreLines(LinesTo(ls, c)) /\ Len(LinesTo(ls, c)) = k
  <2>1. 1 \in Nat \ {0} /\ k \in Int /\ k <= Len(ls)
    BY <1>1, <1>2
  <2> HIDE DEF k
  <2>2. AreLines(SubSeq(ls, 1, k)) /\ Len(SubSeq(ls, 1, k)) = IF 1 <= k THEN k - 1 + 1 ELSE 0
    BY <2>1, PartOfLines
  <2>3. (IF 1 <= k THEN k - 1 + 1 ELSE 0) = k
    BY <1>1
  <2> QED
    BY <2>2, <2>3 DEF LinesTo, k
<1>4. AreLines(LinesPast(ls, c))
  <2> DEFINE i == k + 2
  <2>1. i \in Nat \ {0} /\ n \in Int /\ n <= Len(ls)
    BY <1>1
  <2> HIDE DEF i, n
  <2>2. AreLines(SubSeq(ls, i, n))
    BY <2>1, PartOfLines
  <2> QED
    BY <2>2 DEF LinesPast, LineCount, i, n
<1>5. k = n => PrefixAt(ls, c) = <<>> /\ SuffixAt(ls, c) = <<>>
  BY DEF PrefixAt, SuffixAt, LineCount
<1>6. NoEol(<<>>) /\ Len(<<>>) = 0
  BY EmptySeq DEF NoEol, Text
<1>7. ASSUME k # n
      PROVE  /\ NoEol(PrefixAt(ls, c)) /\ IsLine(SuffixAt(ls, c))
             /\ Len(PrefixAt(ls, c)) = col
  <2>1. k + 1 \in 1 .. n /\ col \in 0 .. Len(x) - 1
    BY <1>1, <1>7
  <2>2. IsLine(x)
    BY <2>1 DEF AreLines
  <2>3. PrefixAt(ls, c) = SubSeq(x, 1, col)
    BY <1>7 DEF PrefixAt, LineCount
  <2>4. SuffixAt(ls, c) = SubSeq(x, col + 1, Len(x))
    BY <1>7 DEF SuffixAt, LineCount, LineLength
  <2> HIDE DEF x, col
  <2>5. NoEol(SubSeq(x, 1, col)) /\ IsLine(SubSeq(x, col + 1, Len(x)))
    BY <2>1, <2>2, PartsOfLine
  <2>6. Len(SubSeq(x, 1, col)) = col
    <3>1. x \in Seq(Char) /\ Len(x) \in Nat
      BY <2>2, LenProperties DEF IsLine, Text
    <3>2. col \in 0 .. Len(x)
      BY <2>1, <3>1
    <3> QED
      BY <3>1, <3>2, SeqIsParts
  <2> QED
    BY <2>3, <2>4, <2>5, <2>6
<1>8. IsEnd(ls, c) <=> k = n
  BY <1>1 DEF IsEnd, AtOrBefore, Precedes, EndCoord, LineCount
<1>9. ls \in Seq(Text)
  BY DEF AreLines
<1> HIDE DEF k, n, col
<1>10. NoEol(PrefixAt(ls, c)) /\ Len(PrefixAt(ls, c)) = col
  BY <1>2, <1>5, <1>6, <1>7
<1> QED
  BY <1>2, <1>3, <1>4, <1>5, <1>7, <1>8, <1>9, <1>10 DEF k, n, col

(* Only the end is at the end.                                              *)
LEMMA EndOffset ==
  ASSUME NEW ls, AreLines(ls), NEW c \in Nat \X Nat, IsValid(ls, c)
  PROVE  /\ Offset(ls, c) \in Nat /\ Offset(ls, c) <= Len(Flat(ls)) /\ Len(Flat(ls)) \in Nat
         /\ Offset(ls, c) = Len(Flat(ls)) <=> c[1] = Len(ls)
         /\ c[1] = Len(ls) => After(ls, c) = <<>>
<1> DEFINE p == Before(ls, c)
           q == After(ls, c)
           s == SuffixAt(ls, c)
           f == Flat(LinesPast(ls, c))
<1>1. /\ ls \in Seq(Text) /\ c[1] = Len(ls) => s = <<>>
      /\ c[1] # Len(ls) => IsLine(s)
  BY CutLines
<1>2. ls \in Seq(Text)
  BY CutLines
<1>3. /\ p \in Text /\ q \in Text /\ s \in Text
      /\ Flat(ls) = p \o q /\ Len(p) = Offset(ls, c)
  BY <1>2, CutAt
<1>4. q = s \o f /\ f \in Text
  <2>1. LinesPast(ls, c) \in Seq(Text)
    BY CutLines DEF AreLines
  <2> QED
    BY <2>1, FlatOf DEF After
<1>5. c[1] = Len(ls) => f = <<>>
  <2> SUFFICES ASSUME c[1] = Len(ls) PROVE f = <<>>
    OBVIOUS
  <2> DEFINE i == c[1] + 2
             n == Len(ls)
  <2>1. n \in Nat
    BY <1>2, LenProperties
  <2>2. i \in Int /\ n \in Int /\ n < i
    BY <2>1
  <2> HIDE DEF i, n
  <2>3. SubSeq(ls, i, n) = <<>>
    BY <2>2, SubSeqEmpty
  <2>4. LinesPast(ls, c) = <<>>
    BY <2>3 DEF LinesPast, LineCount, i, n
  <2> QED
    BY <2>4, FlatOfEmpty
<1> HIDE DEF p, q, s, f
<1>6. Len(p) \in Nat /\ Len(q) \in Nat /\ Len(Flat(ls)) = Len(p) + Len(q)
  BY <1>3, ConcatProperties, LenProperties DEF Text
<1>7. Len(s) \in Nat /\ Len(f) \in Nat /\ Len(q) = Len(s) + Len(f)
  BY <1>3, <1>4, ConcatProperties, LenProperties DEF Text
<1>8. c[1] = Len(ls) => q = <<>> /\ Len(q) = 0
  <2>1. <<>> \o <<>> = <<>> /\ Len(<<>>) = 0
    BY EmptySeq, ConcatEmptySeq
  <2> QED
    BY <1>1, <1>2, <1>4, <1>5, <2>1
<1>9. c[1] # Len(ls) => Len(s) # 0
  BY <1>1, <1>3, EmptySeq DEF IsLine, Text
<1>10. c[1] # Len(ls) => Len(q) # 0
  BY <1>7, <1>9
<1> QED
  BY <1>3, <1>6, <1>8, <1>10 DEF q

-----------------------------------------------------------------------------
(* Insertions.                                                              *)

(* New lines in the place of the one of a coordinate.                       *)
LEMMA LinesBetween ==
  ASSUME NEW ls, AreLines(ls), NEW c \in Nat \X Nat, IsValid(ls, c),
         NEW d \in Nat \X Nat, IsValid(ls, d), NEW new, AreLines(new)
  PROVE  /\ AreLines((LinesTo(ls, c) \o new) \o LinesPast(ls, d))
         /\ Len((LinesTo(ls, c) \o new) \o LinesPast(ls, d)) >= c[1] + Len(new)
         /\ Flat((LinesTo(ls, c) \o new) \o LinesPast(ls, d))
                = (Flat(LinesTo(ls, c)) \o Flat(new)) \o Flat(LinesPast(ls, d))
<1> DEFINE a == LinesTo(ls, c)
           b == LinesPast(ls, d)
           u == a \o new
           v == u \o b
<1>1. AreLines(a) /\ Len(a) = c[1]
  BY CutLines
<1>2. AreLines(b)
  BY CutLines
<1> HIDE DEF a, b
<1>3. AreLines(u) /\ Len(u) = Len(a) + Len(new)
  BY <1>1, ConcatLines
<1>4. Flat(u) = Flat(a) \o Flat(new)
  BY <1>1, FlatConcat DEF AreLines
<1> HIDE DEF u
<1>5. AreLines(v) /\ Len(v) = Len(u) + Len(b)
  BY <1>2, <1>3, ConcatLines
<1>6. Flat(v) = Flat(u) \o Flat(b)
  BY <1>2, <1>3, FlatConcat DEF AreLines
<1>7. Len(b) \in Nat /\ Len(new) \in Nat
  BY <1>2, LenProperties DEF AreLines
<1>8. Len(v) >= c[1] + Len(new)
  BY <1>1, <1>3, <1>5, <1>7
<1> HIDE DEF v
<1> QED
  BY <1>4, <1>5, <1>6, <1>8 DEF v, u, a, b

LEMMA InsertIsLines ==
  ASSUME NEW ls, AreLines(ls), NEW c \in Nat \X Nat, IsValid(ls, c),
         NEW content \in Text, content # <<>>,
         c[1] = Len(ls) => content[Len(content)] = EOL
  PROVE  /\ AreLines(DoInsert(ls, c, content).lines)
         /\ Len(DoInsert(ls, c, content).lines) # 0
         /\ Flat(DoInsert(ls, c, content).lines)
                = Before(ls, c) \o (content \o After(ls, c))
<1> DEFINE p == PrefixAt(ls, c)
           s == SuffixAt(ls, c)
           line == IF IsEnd(ls, c) THEN <<>> ELSE ls[c[1] + 1]
           new == NewLines(p, content, s)
           ms == DoInsert(ls, c, content).lines
           a == LinesTo(ls, c)
           b == LinesPast(ls, c)
<1>1. /\ NoEol(p)
      /\ c[1] = Len(ls) => c[2] = 0 /\ s = <<>>
      /\ c[1] # Len(ls) => IsLine(s)
      /\ IsEnd(ls, c) <=> c[1] = Len(ls)
  BY CutLines
<1>2. p = SubSeq(line, 1, c[2]) /\ s = SubSeq(line, c[2] + 1, Len(line))
  <2>1. CASE c[1] = Len(ls)
    <3>1. line = <<>> /\ p = <<>> /\ s = <<>> /\ c[2] = 0
      BY <1>1, <2>1 DEF PrefixAt, SuffixAt, LineCount
    <3>2. SubSeq(<<>>, 1, 0) = <<>> /\ Len(<<>>) = 0
      BY SubSeqEmpty, EmptySeq
    <3> HIDE DEF line, p, s
    <3>3. SubSeq(line, 1, c[2]) = <<>>
      BY <3>1, <3>2
    <3>4. SubSeq(line, c[2] + 1, Len(line)) = <<>>
      <4>1. c[2] + 1 = 1 /\ Len(line) = 0
        BY <3>1, <3>2
      <4> QED
        BY <3>1, <3>2, <4>1
    <3> QED
      BY <3>1, <3>3, <3>4
  <2>2. CASE c[1] # Len(ls)
    <3>1. line = ls[c[1] + 1]
      BY <1>1, <2>2
    <3> QED
      BY <2>2, <3>1 DEF PrefixAt, SuffixAt, LineCount, LineLength
  <2> QED
    BY <2>1, <2>2
<1>3. ms = (a \o new) \o b
  <2>1. ms = WithLines(ls, c, NewLines(SubSeq(line, 1, c[2]), content,
                                       SubSeq(line, c[2] + 1, Len(line))))
    BY DEF DoInsert, InsertInLine, InsertedInto, Changed
  <2> HIDE DEF p, s, line
  <2>2. ms = WithLines(ls, c, new)
    BY <1>2, <2>1
  <2> HIDE DEF new, ms
  <2> QED
    BY <2>2 DEF WithLines, LinesTo, LinesPast, LineCount
<1>4. ls \in Seq(Text) /\ s \in Text /\ p \in Text /\ a \in Seq(Text) /\ b \in Seq(Text)
  BY CutAt DEF AreLines
<1>5. /\ AreLines(new) /\ Len(new) # 0
      /\ Flat(new) = p \o (content \o s)
  <2> HIDE DEF p, s
  <2>1. IsLine(s) \/ (s = <<>> /\ content[Len(content)] = EOL)
    BY <1>1
  <2> QED
    BY <1>1, <1>4, <2>1, NewLinesAre
<1> HIDE DEF new
<1>6. /\ AreLines((a \o new) \o b) /\ Len((a \o new) \o b) >= c[1] + Len(new)
      /\ Flat((a \o new) \o b) = (Flat(a) \o Flat(new)) \o Flat(b)
  BY <1>5, LinesBetween
<1> HIDE DEF a, b, ms, p, s
<1>7. AreLines(ms) /\ Len(ms) # 0
  <2>1. Len(ms) >= c[1] + Len(new) /\ c[1] \in Nat
    BY <1>3, <1>6
  <2>2. Len(new) \in Nat /\ Len(ms) \in Nat
    BY <1>3, <1>5, <1>6, LenProperties DEF AreLines
  <2> QED
    BY <1>3, <1>5, <1>6, <2>1, <2>2
<1> DEFINE fa == Flat(a)
           fb == Flat(b)
<1>8. fa \in Seq(Char) /\ fb \in Seq(Char) /\ p \in Seq(Char) /\ s \in Seq(Char)
      /\ content \in Seq(Char)
  BY <1>4, FlatOf DEF Text
<1>9. Flat(ms) = (fa \o (p \o (content \o s))) \o fb
  BY <1>3, <1>5, <1>6
<1>10. Before(ls, c) = fa \o p /\ After(ls, c) = s \o fb
  BY DEF Before, After, a, b, p, s
<1> HIDE DEF fa, fb
<1>11. Flat(ms) = (fa \o p) \o (content \o (s \o fb))
  <2>1. (fa \o (p \o (content \o s))) \o fb = (fa \o p) \o (content \o (s \o fb))
    <3>1. Join5(fa, p, content, s, fb)
      BY <1>8, FiveJoined
    <3> QED
      BY <3>1, Zenon DEF Join5
  <2> QED
    BY <1>9, <2>1
<1>12. Flat(ms) = Before(ls, c) \o (content \o After(ls, c))
  BY <1>10, <1>11
<1> QED
  BY <1>7, <1>12 DEF ms

(* What insert makes of the lines is what it makes of the text.             *)
LEMMA InsertIsInsertion ==
  ASSUME NEW ls, AreLines(ls), NEW c \in Nat \X Nat, IsValid(ls, c),
         NEW s \in Text, s # <<>>
  PROVE  /\ AreLines(Insert(ls, c, s).lines) /\ Len(Insert(ls, c, s).lines) # 0
         /\ Flat(Insert(ls, c, s).lines)
                = Apply(InsertionAt(Flat(ls), Offset(ls, c), s), Flat(ls))
<1> DEFINE content == IF IsEnd(ls, c) /\ Last(s) # EOL THEN Append(s, EOL) ELSE s
           ms == Insert(ls, c, s).lines
           p == Before(ls, c)
           q == After(ls, c)
           l == Len(s)
<1>1. ms = DoInsert(ls, c, content).lines
  BY DEF Insert
<1>2. IsEnd(ls, c) <=> c[1] = Len(ls)
  BY CutLines
<1>3. Offset(ls, c) = Len(Flat(ls)) <=> c[1] = Len(ls)
  BY EndOffset
<1>4. Last(s) = s[l]
  BY DEF Last
<1>5. /\ content \in Text /\ content # <<>>
      /\ c[1] = Len(ls) => content[Len(content)] = EOL
  <2> DEFINE t == Append(s, EOL)
             k == l + 1
  <2>1. s \in Seq(Char) /\ l \in Nat /\ EOL \in Char
    BY LenProperties, CharAssumption DEF Text
  <2>2. t \in Seq(Char) /\ Len(t) = k /\ t[k] = EOL
    BY <2>1, AppendProperties
  <2>3. k # 0
    BY <2>1
  <2> HIDE DEF k, t
  <2>4. t # <<>>
    BY <2>2, <2>3, EmptySeq
  <2>5. t \in Text /\ t[Len(t)] = EOL
    BY <2>2 DEF Text
  <2>6. content = IF IsEnd(ls, c) /\ s[l] # EOL THEN t ELSE s
    BY <1>4 DEF t
  <2> HIDE DEF content, l
  <2>7. CASE IsEnd(ls, c) /\ s[l] # EOL
    BY <2>4, <2>5, <2>6, <2>7
  <2>8. CASE ~(IsEnd(ls, c) /\ s[l] # EOL)
    BY <1>2, <2>6, <2>8 DEF l
  <2> QED
    BY <2>7, <2>8
<1>6. InsertionAt(Flat(ls), Offset(ls, c), s) = Insertion(Offset(ls, c), content)
  BY <1>2, <1>3, <1>4 DEF InsertionAt
<1>7. Apply(Insertion(Offset(ls, c), content), Flat(ls))
        = Splice(Flat(ls), Offset(ls, c), 0, content)
  BY DEF Apply, Insertion
<1> HIDE DEF content, ms
<1>8. AreLines(ms) /\ Len(ms) # 0 /\ Flat(ms) = p \o (content \o q)
  BY <1>1, <1>5, InsertIsLines
<1>9. /\ p \in Text /\ q \in Text /\ Flat(ls) = p \o q
      /\ Len(p) = Offset(ls, c)
  BY CutAt DEF AreLines
<1> HIDE DEF p, q
<1>10. Splice(p \o q, Len(p), 0, content) = p \o (content \o q)
  BY <1>5, <1>9, SpliceBetween
<1>11. Flat(ms) = Apply(InsertionAt(Flat(ls), Offset(ls, c), s), Flat(ls))
  BY <1>6, <1>7, <1>8, <1>9, <1>10
<1> QED
  BY <1>8, <1>11 DEF ms

-----------------------------------------------------------------------------
(* Erasures.                                                                *)

LEMMA OffsetsGrow ==
  ASSUME NEW ls, AreLines(ls), NEW c \in Nat \X Nat, IsValid(ls, c),
         NEW d \in Nat \X Nat, IsValid(ls, d), Precedes(c, d)
  PROVE  Offset(ls, c) < Offset(ls, d)
<1> DEFINE n == Len(ls)
           k == c[1]
           l == d[1]
           a == LinesTo(ls, c)
           b == LinesTo(ls, d)
           x == ls[k + 1]
           j == k + 1
           m == SubSeq(ls, j + 1, l)
<1>1. /\ ls \in Seq(Text) /\ n \in Nat /\ k \in Nat /\ l \in 0 .. n /\ c[2] \in Nat /\ d[2] \in Nat
      /\ k < l \/ (k = l /\ c[2] < d[2])
  BY CutLines, LenProperties DEF Precedes
<1>2. Offset(ls, c) = Len(Flat(a)) + c[2] /\ Offset(ls, d) = Len(Flat(b)) + d[2]
  BY DEF Offset, LinesTo
<1>3. a \in Seq(Text) /\ b \in Seq(Text)
  BY CutLines DEF AreLines
<1>4. Len(Flat(a)) \in Nat /\ Len(Flat(b)) \in Nat
  BY <1>3, FlatOf, LenProperties DEF Text
<1>5. CASE k = l
  <2>1. a = b
    BY <1>5 DEF LinesTo
  <2> QED
    BY <1>1, <1>2, <1>4, <1>5, <2>1
<1>6. CASE k < l
  <2>1. /\ k \in 0 .. n - 1 /\ j \in 1 .. n /\ 1 \in 1 .. n + 1 /\ j \in 1 - 1 .. n
        /\ l \in j .. n /\ k # n /\ k \in 0 .. Len(ls) - 1 /\ j \in 0 .. n
        /\ j + 1 \in Nat \ {0} /\ l \in Int /\ l <= n
    BY <1>1, <1>6
  <2>2. c[2] \in 0 .. Len(x) - 1
    BY <2>1 DEF IsValid, EndCoord, LineCount, LineLength
  <2>3. SubSeq(ls, 1, j) = Append(a, x) /\ x \in Text
    BY <1>1, <2>1, FirstAndNext DEF LinesTo
  <2>4. SubSeq(ls, 1, j) \o m = b
    <3>1. 1 \in 1 .. Len(ls) + 1 /\ j \in 1 - 1 .. Len(ls) /\ l \in j .. Len(ls)
      BY <2>1
    <3>2. SubSeq(ls, 1, j) \o SubSeq(ls, j + 1, l) = SubSeq(ls, 1, l)
      <4> HIDE DEF j, l, n
      <4> QED
        BY <1>1, <3>1, ConcatAdjacentSubSeq
    <3> QED
      BY <3>2 DEF LinesTo
  <2>5. m \in Seq(Text) /\ SubSeq(ls, 1, j) \in Seq(Text)
    <3> DEFINE i == j + 1
    <3>1. i \in Nat \ {0} /\ 1 \in Nat \ {0} /\ j \in Int /\ j <= Len(ls) /\ l <= Len(ls)
      BY <2>1
    <3> HIDE DEF i, j, l, n
    <3>2. SubSeq(ls, i, l) \in Seq(Text)
      BY <1>1, <2>1, <3>1, PartOfSeq
    <3>3. SubSeq(ls, 1, j) \in Seq(Text)
      BY <1>1, <3>1, PartOfSeq
    <3> QED
      BY <3>2, <3>3 DEF i
  <2> DEFINE u == SubSeq(ls, 1, j)
  <2> HIDE DEF u, m, x, a, b
  <2>6. Flat(b) = Flat(u) \o Flat(m)
    BY <2>4, <2>5, FlatConcat DEF u
  <2>7. Flat(u) = Flat(a) \o x
    BY <1>3, <2>3, FlatAppend DEF u
  <2>8. /\ Len(Flat(u)) = Len(Flat(a)) + Len(x) /\ Len(x) \in Nat /\ Flat(u) \in Seq(Char)
    <3>1. Flat(a) \in Seq(Char) /\ x \in Seq(Char)
      BY <1>3, <2>3, FlatOf DEF Text
    <3> QED
      BY <2>7, <3>1, ConcatProperties, LenProperties
  <2>9. Len(Flat(b)) = Len(Flat(u)) + Len(Flat(m)) /\ Len(Flat(m)) \in Nat
    <3>1. Flat(m) \in Seq(Char)
      BY <2>5, FlatOf DEF Text
    <3> QED
      <4> DEFINE fu == Flat(u)
                 fm == Flat(m)
      <4>1. fu \in Seq(Char) /\ fm \in Seq(Char)
        BY <2>8, <3>1
      <4>2. Flat(b) = fu \o fm
        BY <2>6
      <4> HIDE DEF fu, fm
      <4>3. Len(fu \o fm) = Len(fu) + Len(fm) /\ Len(fm) \in Nat
        BY <4>1, ConcatProperties, LenProperties
      <4> QED
        BY <4>2, <4>3 DEF fu, fm
  <2> QED
    BY <1>1, <1>2, <1>4, <2>2, <2>8, <2>9
<1> QED
  BY <1>1, <1>5, <1>6

LEMMA AtBack ==
  ASSUME NEW ls, AreLines(ls), Len(ls) # 0
  PROVE  /\ BackCoord(ls) \in Nat \X Nat /\ IsValid(ls, BackCoord(ls))
         /\ BackCoord(ls)[1] = Len(ls) - 1
         /\ Offset(ls, BackCoord(ls)) = Len(Flat(ls)) - 1
         /\ \A c \in Nat \X Nat : IsValid(ls, c) /\ c[1] # Len(ls) =>
                (AtOrBefore(BackCoord(ls), c) <=> c = BackCoord(ls))
                /\ (c # BackCoord(ls) => Precedes(c, BackCoord(ls)))
<1> DEFINE n == Len(ls)
           k == n - 1
           x == ls[n]
           col == Len(x) - 1
           c == <<k, col>>
<1>1. ls \in Seq(Text) /\ n \in Nat \ {0} /\ IsLine(x) /\ k \in 0 .. n - 1 /\ k + 1 = n
  <2>1. ls \in Seq(Text) /\ n \in Nat
    BY LenProperties DEF AreLines
  <2>2. n \in 1 .. n
    BY <2>1
  <2>3. IsLine(ls[n])
    BY <2>2 DEF AreLines
  <2> QED
    BY <2>1, <2>3
<1>2. Len(x) \in Nat \ {0} /\ x \in Seq(Char)
  BY <1>1, LenProperties, EmptySeq DEF IsLine, Text
<1>3. BackCoord(ls) = c
  <2>1. BackCoord(ls) = <<n - 1, Len(ls[n - 1 + 1]) - 1>>
    BY DEF BackCoord, LineCount, LineLength
  <2>2. n - 1 + 1 = n
    BY <1>1
  <2> QED
    BY <2>1, <2>2
<1>4. c \in Nat \X Nat /\ c[1] = k /\ c[2] = col /\ col \in 0 .. Len(x) - 1
  BY <1>1, <1>2
<1> HIDE DEF x, k, col, c
<1>5. IsValid(ls, c)
  BY <1>1, <1>4 DEF IsValid, LineCount, LineLength, x, k
<1>6. SuffixAt(ls, c) = SubSeq(x, col + 1, Len(x)) /\ Len(SuffixAt(ls, c)) = 1
  <2>1. c[1] # Len(ls) /\ ls[c[1] + 1] = x
    BY <1>1, <1>4 DEF x
  <2>2. SuffixAt(ls, c) = SubSeq(x, col + 1, Len(x))
    BY <1>4, <2>1 DEF SuffixAt, LineCount, LineLength
  <2>3. col \in 0 .. Len(x) /\ Len(x) - col = 1
    BY <1>2 DEF col
  <2>4. Len(SubSeq(x, col + 1, Len(x))) = Len(x) - col
    BY <1>2, <2>3, SeqIsParts
  <2> QED
    BY <2>2, <2>3, <2>4
<1>7. LinesPast(ls, c) = <<>>
  <2> DEFINE i == k + 2
  <2>1. i \in Int /\ n \in Int /\ n < i
    BY <1>1
  <2> HIDE DEF i, n
  <2>2. SubSeq(ls, i, n) = <<>>
    BY <2>1, SubSeqEmpty
  <2> QED
    BY <1>4, <2>2 DEF LinesPast, LineCount, i, n
<1>8. After(ls, c) = SuffixAt(ls, c)
  <2>1. After(ls, c) = SuffixAt(ls, c) \o <<>>
    BY <1>7, FlatOfEmpty DEF After
  <2>2. SuffixAt(ls, c) \in Seq(Char)
    BY <1>1, <1>4, <1>5, CutAt DEF Text
  <2> QED
    BY <2>1, <2>2, ConcatEmptySeq
<1>9. Offset(ls, c) = Len(Flat(ls)) - 1
  <2> DEFINE p == Before(ls, c)
             q == After(ls, c)
  <2>1. p \in Seq(Char) /\ q \in Seq(Char) /\ Flat(ls) = p \o q /\ Len(p) = Offset(ls, c)
    BY <1>1, <1>4, <1>5, CutAt DEF Text
  <2>2. Len(q) = 1
    BY <1>6, <1>8
  <2> HIDE DEF p, q
  <2>3. Len(Flat(ls)) = Len(p) + Len(q) /\ Len(p) \in Nat
    BY <2>1, ConcatProperties, LenProperties
  <2> QED
    BY <2>1, <2>2, <2>3
<1>10. ASSUME NEW d \in Nat \X Nat, IsValid(ls, d), d[1] # Len(ls)
       PROVE  (AtOrBefore(c, d) <=> d = c) /\ (d # c => Precedes(d, c))
  <2>1. /\ d = <<d[1], d[2]>> /\ c = <<k, col>> /\ d[1] \in 0 .. n - 1
        /\ d[2] \in 0 .. Len(ls[d[1] + 1]) - 1
    BY <1>10 DEF IsValid, EndCoord, LineCount, LineLength, c
  <2>2. d[1] = k => d[2] \in 0 .. Len(x) - 1
    <3>1. d[1] = k => d[1] + 1 = n
      BY <1>1
    <3> QED
      BY <2>1, <3>1 DEF x
  <2>3. d[1] \in Nat /\ d[2] \in Nat /\ d[1] <= k /\ (d[1] = k => d[2] <= col)
    BY <1>1, <1>2, <2>1, <2>2 DEF k, col
  <2>4. k \in Int /\ col \in Int
    BY <1>1, <1>4
  <2>5. d = c <=> d[1] = k /\ d[2] = col
    BY <1>4, <2>1
  <2>6. ~Precedes(c, d)
    BY <1>4, <2>3, <2>4 DEF Precedes
  <2>7. d # c => Precedes(d, c)
    BY <1>4, <2>3, <2>4, <2>5 DEF Precedes
  <2> QED
    BY <2>6, <2>7 DEF AtOrBefore
<1> QED
  BY <1>1, <1>3, <1>4, <1>5, <1>9, <1>10 DEF k


(* Where a line starts.                                                     *)
LEMMA InsideIs ==
  ASSUME NEW ls, AreLines(ls), NEW c \in Nat \X Nat, IsValid(ls, c)
  PROVE  /\ InsideLine(Flat(ls), Offset(ls, c)) <=> c[2] # 0
         /\ Offset(ls, c) = 0 <=> c = <<0, 0>>
<1> DEFINE p == PrefixAt(ls, c)
           a == LinesTo(ls, c)
           fa == Flat(a)
           b == Before(ls, c)
           off == Offset(ls, c)
           t == Flat(ls)
           k == c[1]
           col == c[2]
<1>1. /\ NoEol(p) /\ Len(p) = col /\ AreLines(a) /\ Len(a) = k
      /\ k \in Nat /\ col \in Nat /\ c = <<k, col>>
  BY CutLines
<1>2. /\ b \in Seq(Char) /\ After(ls, c) \in Seq(Char) /\ t = b \o After(ls, c)
      /\ Len(b) = off /\ off \in Nat
  BY CutAt DEF AreLines, Text
<1>3. b = fa \o p
  BY DEF Before
<1>4. a \in Seq(Text) /\ fa \in Seq(Char) /\ p \in Seq(Char)
  BY <1>1, FlatOf DEF AreLines, NoEol, Text
<1>5. ASSUME k # 0
      PROVE  Len(fa) # 0 /\ fa[Len(fa)] = EOL
  <2> DEFINE i == k - 1
             u == SubSeq(a, 1, i)
             x == a[k]
  <2>1. i \in 0 .. Len(a) - 1 /\ i + 1 = k /\ k \in 1 .. Len(a)
    BY <1>1, <1>5
  <2>2. IsLine(x)
    BY <1>1, <2>1 DEF AreLines
  <2>3. a = Append(u, x) /\ u \in Seq(Text) /\ x \in Text
    <3>1. SubSeq(a, 1, i + 1) = Append(u, a[i + 1]) /\ u \in Seq(Text) /\ a[i + 1] \in Text
      <4> HIDE DEF i, a
      <4> QED
        BY <1>4, <2>1, FirstAndNext
    <3>2. SubSeq(a, 1, k) = a
      BY <1>1, <1>4, SubSeqFull
    <3> HIDE DEF a, u
    <3> QED
      BY <2>1, <3>1, <3>2
  <2> HIDE DEF u, x, a
  <2>4. fa = Flat(u) \o x
    BY <2>3, FlatAppend
  <2> DEFINE fu == Flat(u)
             n == Len(fu)
             m == Len(x)
  <2>5. fu \in Seq(Char) /\ x \in Seq(Char) /\ x # <<>>
    BY <2>2, <2>3, FlatOf DEF IsLine, Text
  <2> HIDE DEF fu
  <2>6. n \in Nat /\ m \in Nat \ {0}
    BY <2>5, LenProperties, EmptySeq
  <2>7. /\ Len(fu \o x) = n + m
        /\ \A j \in 1 .. n + m : (fu \o x)[j] = IF j <= n THEN fu[j] ELSE x[j - n]
    BY <2>5, ConcatProperties
  <2>8. x[m] = EOL
    <3>1. m \in 1 .. m
      BY <2>6
    <3> QED
      BY <2>2, <3>1 DEF IsLine
  <2> DEFINE y == fu \o x
             j == n + m
  <2>9. y = fa /\ Len(y) = j
    BY <2>4, <2>7 DEF fu
  <2> HIDE DEF n, m
  <2>10. j \in 1 .. n + m /\ ~(j <= n) /\ j - n = m /\ j # 0
    BY <2>6
  <2>11. y[j] = x[m]
    BY <2>7, <2>10
  <2> HIDE DEF y, j
  <2> QED
    BY <2>8, <2>9, <2>10, <2>11
<1>6. k = 0 => fa = <<>>
  <2> SUFFICES ASSUME k = 0 PROVE fa = <<>>
    OBVIOUS
  <2>1. SubSeq(ls, 1, 0) = <<>>
    BY SubSeqEmpty
  <2>2. a = <<>>
    BY <2>1 DEF LinesTo
  <2> QED
    BY <2>2, FlatOfEmpty
<1> HIDE DEF fa, p, b, off, t, a
<1> DEFINE n == Len(fa)
<1>7. /\ n \in Nat /\ Len(b) = n + col
      /\ \A j \in 1 .. n + col : b[j] = IF j <= n THEN fa[j] ELSE p[j - n]
  <2> DEFINE y == fa \o p
  <2>1. /\ Len(y) = n + Len(p) /\ n \in Nat
        /\ \A j \in 1 .. n + Len(p) : y[j] = IF j <= n THEN fa[j] ELSE p[j - n]
    BY <1>4, ConcatProperties, LenProperties
  <2>2. y = b /\ Len(p) = col
    BY <1>1, <1>3
  <2> HIDE DEF y, n, col
  <2> QED
    BY <2>1, <2>2
<1>8. off > 0 => t[off] = b[off]
  <2> DEFINE q == After(ls, c)
             m == Len(q)
  <2>1. /\ m \in Nat /\ q \in Seq(Char) /\ t = b \o q
        /\ \A j \in 1 .. Len(b) + m : (b \o q)[j] = IF j <= Len(b) THEN b[j] ELSE q[j - Len(b)]
    BY <1>2, ConcatProperties, LenProperties
  <2> HIDE DEF m, q
  <2>2. off > 0 => off \in 1 .. Len(b) + m /\ off <= Len(b)
    BY <1>2, <2>1
  <2> QED
    BY <2>1, <2>2
<1>9. off = n + col
  BY <1>2, <1>7
<1>10. n = 0 <=> k = 0
  BY <1>5, <1>6, EmptySeq
<1> HIDE DEF n
<1>11. off = 0 <=> c = <<0, 0>>
  BY <1>1, <1>7, <1>9, <1>10
<1>12. CASE col # 0
  <2>1. off > 0 /\ off \in 1 .. n + col /\ ~(off <= n) /\ off - n = col /\ col \in 1 .. col
    BY <1>1, <1>7, <1>9, <1>12
  <2>2. b[off] = p[col]
    BY <1>7, <2>1
  <2>3. p[col] # EOL
    BY <1>1, <2>1 DEF NoEol
  <2>4. InsideLine(t, off)
    BY <1>8, <2>1, <2>2, <2>3 DEF InsideLine
  <2> QED
    BY <1>11, <1>12, <2>4 DEF t, off
<1>13. CASE col = 0
  <2>1. ~InsideLine(t, off)
    <3> SUFFICES ASSUME off > 0 PROVE t[off] = EOL
      BY DEF InsideLine
    <3>1. off = n /\ k # 0 /\ n \in 1 .. n + col /\ n <= n
      BY <1>7, <1>9, <1>10, <1>13
    <3>2. b[n] = fa[n]
      BY <1>7, <3>1
    <3>3. fa[n] = EOL
      BY <1>5, <3>1 DEF n
    <3> QED
      BY <1>8, <3>1, <3>2, <3>3
  <2> QED
    BY <1>11, <1>13, <2>1 DEF t, off
<1> QED
  BY <1>12, <1>13

(* What is left of the lines: up to begin, what joins its line and that of   *)
(* end, and past end.                                                       *)
LEMMA DoEraseIs ==
  ASSUME NEW ls, NEW c, NEW d
  PROVE  DoErase(ls, c, d).lines =
            (LinesTo(ls, c) \o (IF PrefixAt(ls, c) \o SuffixAt(ls, d) = <<>> THEN <<>>
                                ELSE <<PrefixAt(ls, c) \o SuffixAt(ls, d)>>))
                \o LinesPast(ls, d)
  BY Zenon DEF DoErase, Changed, PrefixAt, SuffixAt, LinesTo, LinesPast

LEMMA EraseIs ==
  ASSUME NEW ls, NEW c, NEW d
  PROVE  /\ Erase(ls, c, d).begin = c
         /\ Erase(ls, c, d).lines = IF AtOrBefore(NormalizedEnd(ls, c, d), c) THEN ls
                                    ELSE DoErase(ls, c, NormalizedEnd(ls, c, d)).lines
  BY DEF Erase, Nothing, DoErase, Changed

LEMMA EraseIsLines ==
  ASSUME NEW ls, AreLines(ls), NEW c \in Nat \X Nat, IsValid(ls, c),
         NEW d \in Nat \X Nat, IsValid(ls, d), d[1] = Len(ls) => c[2] = 0 /\ c[1] # 0
  PROVE  /\ AreLines(DoErase(ls, c, d).lines) /\ Len(DoErase(ls, c, d).lines) # 0
         /\ Flat(DoErase(ls, c, d).lines) = Before(ls, c) \o After(ls, d)
<1> DEFINE p == PrefixAt(ls, c)
           s == SuffixAt(ls, d)
           x == p \o s
           new == IF x = <<>> THEN <<>> ELSE <<x>>
           a == LinesTo(ls, c)
           b == LinesPast(ls, d)
           ms == DoErase(ls, c, d).lines
<1>1. ms = (a \o new) \o b
  BY DoEraseIs, Zenon
<1>2. NoEol(p) /\ Len(p) = c[2] /\ p \in Seq(Char)
  <2>1. NoEol(p) /\ Len(p) = c[2]
    BY CutLines
  <2> QED
    BY <2>1 DEF NoEol, Text
<1>3. /\ d[1] = Len(ls) => s = <<>>
      /\ d[1] # Len(ls) => IsLine(s)
  BY CutLines
<1>4. /\ ls \in Seq(Text) /\ s \in Seq(Char) /\ b \in Seq(Text) /\ a \in Seq(Text)
  BY CutAt DEF AreLines, Text
<1>5. AreLines(<<>>) /\ Len(<<>>) = 0 /\ Flat(<<>>) = <<>>
  BY EmptySeq, FlatOfEmpty DEF AreLines
<1>6. /\ AreLines(new) /\ Len(new) \in Nat /\ Flat(new) = x /\ c[1] + Len(new) # 0
  <2>1. CASE d[1] = Len(ls)
    <3>1. p = <<>> /\ s = <<>>
      BY <1>2, <1>3, <2>1, EmptySeq
    <3>2. x = <<>>
      BY <3>1, EmptySeq, ConcatEmptySeq
    <3>3. new = <<>>
      BY <3>2
    <3>4. c[1] \in Nat /\ c[1] # 0
      BY <2>1
    <3> HIDE DEF new, x
    <3> QED
      BY <1>5, <3>2, <3>3, <3>4
  <2>2. CASE d[1] # Len(ls)
    <3>1. IsLine(x)
      <4> HIDE DEF p, s
      <4> QED
        BY <1>2, <1>3, <2>2, JoinLine
    <3>2. new = <<x>>
      BY <3>1 DEF IsLine
    <3> HIDE DEF x, new
    <3>3. Append(<<>>, x) = <<x>>
      OBVIOUS
    <3>4. AreLines(new) /\ Len(new) = 1
      <4> DEFINE none == <<>>
      <4>1. AreLines(none) /\ Len(none) = 0 /\ Append(none, x) = new
        BY <1>5, <3>2, <3>3
      <4> HIDE DEF none
      <4> QED
        <5>1. AreLines(Append(none, x)) /\ Len(Append(none, x)) = Len(none) + 1
          BY <3>1, <4>1, AppendLine
        <5> QED
          BY <4>1, <5>1
    <3>5. Flat(new) = x
      BY <3>1, <3>2, FlatOfOne DEF IsLine
    <3>6. c[1] \in Nat
      OBVIOUS
    <3> QED
      BY <3>4, <3>5, <3>6
  <2> QED
    BY <2>1, <2>2
<1> HIDE DEF new
<1>7. /\ AreLines((a \o new) \o b) /\ Len((a \o new) \o b) >= c[1] + Len(new)
      /\ Flat((a \o new) \o b) = (Flat(a) \o Flat(new)) \o Flat(b)
  <2>1. AreLines(new)
    BY <1>6
  <2> HIDE DEF new
  <2> QED
    BY <2>1, LinesBetween, ZenonT(60)
<1> DEFINE fa == Flat(a)
           fb == Flat(b)
<1>8. fa \in Seq(Char) /\ fb \in Seq(Char)
  BY <1>4, FlatOf DEF Text
<1>9. Before(ls, c) = fa \o p /\ After(ls, d) = s \o fb
  BY DEF Before, After
<1> HIDE DEF a, b, ms, p, s, x, fa, fb
<1>10. AreLines(ms) /\ Len(ms) # 0
  <2>1. Len(ms) \in Nat /\ Len(ms) >= c[1] + Len(new) /\ c[1] \in Nat
    BY <1>1, <1>7, LenProperties DEF AreLines
  <2> QED
    BY <1>1, <1>6, <1>7, <2>1
<1>11. Flat(ms) = (fa \o (p \o s)) \o fb
  BY <1>1, <1>6, <1>7 DEF x, fa, fb
<1>12. (fa \o (p \o s)) \o fb = (fa \o p) \o (s \o fb)
  <2>1. p \in Seq(Char) /\ s \in Seq(Char)
    BY <1>2, <1>4
  <2>2. Join4(fa, p, s, fb)
    BY <1>8, <2>1, FourJoined
  <2> QED
    BY <2>2, Zenon DEF Join4
<1>13. Flat(ms) = Before(ls, c) \o After(ls, d)
  BY <1>9, <1>11, <1>12
<1> QED
  BY <1>10, <1>13 DEF ms


LEMMA ErasedRange ==
  ASSUME NEW ls, AreLines(ls), Len(ls) # 0, NEW c \in Nat \X Nat, IsValid(ls, c),
         NEW d \in Nat \X Nat, IsValid(ls, d)
  PROVE  /\ NormalizedEnd(ls, c, d) \in Nat \X Nat /\ IsValid(ls, NormalizedEnd(ls, c, d))
         /\ ~AtOrBefore(NormalizedEnd(ls, c, d), c) =>
                /\ Precedes(c, NormalizedEnd(ls, c, d))
                /\ NormalizedEnd(ls, c, d)[1] = Len(ls) => c[2] = 0 /\ c[1] # 0
<1> DEFINE n == Len(ls)
           e == NormalizedEnd(ls, c, d)
           back == BackCoord(ls)
<1>1. n \in Nat /\ EndCoord(ls) = <<n, 0>>
  BY LenProperties DEF AreLines, EndCoord, LineCount
<1>2. IsEnd(ls, d) <=> d[1] = n
  BY CutLines
<1>3. back \in Nat \X Nat /\ IsValid(ls, back) /\ back[1] = n - 1
  BY AtBack
<1>4. <<n, 0>> \in Nat \X Nat /\ IsValid(ls, <<n, 0>>) /\ <<n, 0>>[1] = n
  BY <1>1 DEF IsValid
<1>5. e = IF ~IsEnd(ls, d) THEN d
          ELSE IF c[2] # 0 \/ c = <<0, 0>> THEN back ELSE <<n, 0>>
  BY <1>1 DEF NormalizedEnd
<1> HIDE DEF e, back
<1>6. e \in Nat \X Nat /\ IsValid(ls, e)
  BY <1>3, <1>4, <1>5
<1>7. e[1] = n => c[2] = 0 /\ c[1] # 0
  <2> SUFFICES ASSUME e[1] = n PROVE c[2] = 0 /\ c[1] # 0
    OBVIOUS
  <2>1. n - 1 # n
    BY <1>1
  <2>2. ~(c[2] # 0 \/ c = <<0, 0>>)
    BY <1>2, <1>3, <1>5, <2>1
  <2>3. c = <<c[1], c[2]>>
    OBVIOUS
  <2> QED
    BY <2>2, <2>3
<1>8. AtOrBefore(e, c) \/ Precedes(c, e)
  <2>1. /\ e = <<e[1], e[2]>> /\ c = <<c[1], c[2]>>
        /\ e[1] \in Nat /\ e[2] \in Nat /\ c[1] \in Nat /\ c[2] \in Nat
    BY <1>6
  <2>2. e[1] = c[1] /\ e[2] = c[2] => e = c
    BY <2>1
  <2> QED
    BY <2>1, <2>2 DEF AtOrBefore, Precedes
<1> QED
  BY <1>6, <1>7, <1>8 DEF e

(* What erase makes of the lines is what it makes of the text.              *)
LEMMA EraseIsErasure ==
  ASSUME NEW ls, AreLines(ls), Len(ls) # 0, NEW c \in Nat \X Nat, IsValid(ls, c),
         NEW d \in Nat \X Nat, IsValid(ls, d)
  PROVE  /\ AreLines(Erase(ls, c, d).lines) /\ Len(Erase(ls, c, d).lines) # 0
         /\ Precedes(c, d) =>
              Flat(Erase(ls, c, d).lines) =
                Splice(Flat(ls), Offset(ls, c),
                       Max({0, EraseEnd(Flat(ls), Offset(ls, c), Offset(ls, d)) - Offset(ls, c)}),
                       <<>>)
<1> DEFINE n == Len(ls)
           e == NormalizedEnd(ls, c, d)
           ms == Erase(ls, c, d).lines
           t == Flat(ls)
           o(x) == Offset(ls, x)
           end == EraseEnd(t, o(c), o(d))
<1>1. e \in Nat \X Nat /\ IsValid(ls, e)
  BY ErasedRange
<1>2. ~AtOrBefore(e, c) => Precedes(c, e) /\ (e[1] = n => c[2] = 0 /\ c[1] # 0)
  BY ErasedRange
<1>3. ms = IF AtOrBefore(e, c) THEN ls ELSE DoErase(ls, c, e).lines
  BY DEF Erase, Nothing
<1> HIDE DEF e, ms
<1>4. ~AtOrBefore(e, c) =>
        /\ AreLines(ms) /\ Len(ms) # 0 /\ Flat(ms) = Before(ls, c) \o After(ls, e)
  BY <1>1, <1>2, <1>3, EraseIsLines
<1>5. AreLines(ms) /\ Len(ms) # 0
  BY <1>3, <1>4
<1>6. ls \in Seq(Text)
  BY DEF AreLines
<1>7. /\ o(c) \in Nat /\ o(d) \in Nat /\ o(e) \in Nat /\ Len(t) \in Nat
      /\ o(d) = Len(t) <=> d[1] = n
  BY <1>1, EndOffset
<1>8. ASSUME ~AtOrBefore(e, c)
      PROVE  Flat(ms) = Splice(t, o(c), o(e) - o(c), <<>>) /\ o(c) < o(e)
  <2> DEFINE p == Before(ls, c)
             q == After(ls, c)
             u == Before(ls, e)
             v == After(ls, e)
  <2>1. p \in Text /\ q \in Text /\ t = p \o q /\ Len(p) = o(c)
    BY <1>6, CutAt
  <2>2. u \in Text /\ v \in Text /\ t = u \o v /\ Len(u) = o(e)
    BY <1>1, <1>6, CutAt
  <2>3. o(c) < o(e)
    BY <1>1, <1>2, <1>8, OffsetsGrow
  <2>4. Flat(ms) = p \o v
    BY <1>4, <1>8
  <2> HIDE DEF p, q, u, v, t, o
  <2>5. Len(p) <= Len(u)
    BY <1>7, <2>1, <2>2, <2>3
  <2>6. Splice(t, Len(p), Len(u) - Len(p), <<>>) = p \o v
    <3>1. InTwo(t, p, q) /\ InTwo(t, u, v)
      BY <2>1, <2>2 DEF InTwo
    <3> QED
      BY <2>5, <3>1, SpliceOut
  <2> QED
    BY <2>1, <2>2, <2>3, <2>4, <2>6
<1>9. ASSUME Precedes(c, d)
      PROVE  Flat(ms) = Splice(t, o(c), Max({0, end - o(c)}), <<>>)
  <2>1. IsEnd(ls, d) <=> d[1] = n
    BY CutLines
  <2>2. InsideLine(t, o(c)) \/ o(c) = 0 <=> c[2] # 0 \/ c = <<0, 0>>
    BY InsideIs
  <2>3. end = IF d[1] = n /\ (c[2] # 0 \/ c = <<0, 0>>) THEN o(d) - 1 ELSE o(d)
    <3> HIDE DEF t, o
    <3> QED
      BY <1>7, <2>2 DEF EraseEnd
  <2>4. end = o(e)
    <3>1. CASE d[1] # n
      <4>1. e = d
        BY <2>1, <3>1 DEF e, NormalizedEnd
      <4> QED
        BY <2>3, <3>1, <4>1
    <3>2. CASE d[1] = n /\ (c[2] # 0 \/ c = <<0, 0>>)
      <4>1. e = BackCoord(ls)
        BY <2>1, <3>2 DEF e, NormalizedEnd
      <4>2. o(e) = Len(t) - 1
        BY <4>1, AtBack
      <4> HIDE DEF o, t, end
      <4> QED
        BY <1>7, <2>3, <3>2, <4>2
    <3>3. CASE d[1] = n /\ ~(c[2] # 0 \/ c = <<0, 0>>)
      <4>1. e = EndCoord(ls)
        BY <2>1, <3>3 DEF e, NormalizedEnd
      <4>2. e[1] = n
        BY <4>1 DEF EndCoord, LineCount
      <4>3. o(e) = Len(t)
        BY <1>1, <4>2, EndOffset
      <4> HIDE DEF o, t, end
      <4> QED
        BY <1>7, <2>3, <3>3, <4>3
    <3> QED
      BY <3>1, <3>2, <3>3
  <2>5. \A x \in Int : x >= 0 => Max({0, x}) = x
    BY DEF Max
  <2> HIDE DEF end, o, t
  <2>6. CASE ~AtOrBefore(e, c)
    <3>1. end - o(c) \in Int /\ end - o(c) >= 0
      BY <1>7, <1>8, <2>4, <2>6
    <3>2. Max({0, end - o(c)}) = end - o(c)
      BY <2>5, <3>1
    <3> QED
      BY <1>8, <2>4, <2>6, <3>2
  <2>7. CASE AtOrBefore(e, c)
    <3>1. c[1] # n
      <4> SUFFICES ASSUME c[1] = n PROVE FALSE
        OBVIOUS
      <4>1. c[2] = 0 /\ d[1] \in 0 .. n /\ (d[1] = n => d[2] = 0)
        BY CutLines
      <4> QED
        BY <1>9, <4>1 DEF Precedes
    <3>2. e = c
      <4>1. CASE d[1] # n
        <5>1. e = d
          BY <2>1, <4>1 DEF e, NormalizedEnd
        <5>2. c \in Nat \X Nat /\ d \in Nat \X Nat
          OBVIOUS
        <5> QED
          BY <1>9, <2>7, <5>1, <5>2 DEF AtOrBefore, Precedes
      <4>2. CASE d[1] = n /\ (c[2] # 0 \/ c = <<0, 0>>)
        <5>1. e = BackCoord(ls)
          BY <2>1, <4>2 DEF e, NormalizedEnd
        <5> QED
          BY <2>7, <3>1, <5>1, AtBack
      <4>3. CASE d[1] = n /\ ~(c[2] # 0 \/ c = <<0, 0>>)
        <5>1. e = <<n, 0>>
          BY <2>1, <4>3 DEF e, NormalizedEnd, EndCoord, LineCount
        <5>2. c[1] \in 0 .. n /\ n \in Nat
          BY <1>6, CutLines, LenProperties
        <5>3. c[1] < n
          BY <3>1, <5>2
        <5>4. e[1] = n
          BY <5>1
        <5> QED
          BY <2>7, <5>2, <5>3, <5>4 DEF AtOrBefore, Precedes
      <4> QED
        BY <4>1, <4>2, <4>3
    <3>3. end - o(c) = 0
      BY <1>7, <2>4, <3>2
    <3>4. Max({0, end - o(c)}) = 0
      BY <2>5, <3>3
    <3>5. ms = ls
      BY <1>3, <2>7
    <3> DEFINE p == Before(ls, c)
               q == After(ls, c)
    <3>6. p \in Text /\ q \in Text /\ t = p \o q /\ Len(p) = o(c)
      BY <1>6, CutAt DEF t, o
    <3> HIDE DEF p, q
    <3>7. <<>> \in Text /\ <<>> \o q = q
      BY <3>6, EmptySeq, ConcatEmptySeq DEF Text
    <3>8. Splice(p \o q, Len(p), 0, <<>>) = p \o (<<>> \o q)
      BY <3>6, <3>7, SpliceBetween
    <3>9. Splice(t, o(c), 0, <<>>) = t
      BY <3>6, <3>7, <3>8
    <3> QED
      BY <3>4, <3>5, <3>9 DEF t
  <2> QED
    BY <2>6, <2>7
<1> QED
  BY <1>5, <1>9 DEF ms

-----------------------------------------------------------------------------
(* The lines of a buffer that is inserted into and erased from.             *)

LinesInv == AreLines(m_lines) /\ Len(m_lines) # 0

LEMMA LinesInvIs == m_lines \in Seq(Text) => (LinesInv <=> EachLineEnds)
<1> SUFFICES ASSUME m_lines \in Seq(Text) PROVE LinesInv <=> EachLineEnds
  OBVIOUS
<1>1. m_lines = <<>> <=> Len(m_lines) = 0
  BY EmptySeq
<1>2. DOMAIN m_lines = 1 .. Len(m_lines)
  BY LenProperties
<1>3. \A i \in 1 .. Len(m_lines) : m_lines[i] \in Text
  BY ElementOfSeq
<1>4. \A i \in 1 .. Len(m_lines) : DOMAIN m_lines[i] = 1 .. Len(m_lines[i])
  BY <1>3, LenProperties DEF Text
<1>5. \A i \in 1 .. Len(m_lines) :
        IsLine(m_lines[i]) <=>
            /\ m_lines[i] # <<>>
            /\ \A j \in DOMAIN m_lines[i] : m_lines[i][j] = EOL <=> j = Len(m_lines[i])
  BY <1>3, <1>4 DEF IsLine
<1> QED
  BY <1>1, <1>2, <1>5 DEF LinesInv, EachLineEnds, AreLines

LEMMA CoordsAreValid ==
  ASSUME LinesInv, NEW c \in Coords(m_lines)
  PROVE  c \in Nat \X Nat /\ IsValid(m_lines, c)
<1>1. Len(m_lines) \in Nat
  BY LenProperties DEF LinesInv, AreLines
<1>2. c \in (0 .. Len(m_lines)) \X (0 .. MaxLineText) /\ IsValid(m_lines, c)
  BY DEF Coords, LineCount
<1>3. c = <<c[1], c[2]>> /\ c[1] \in 0 .. Len(m_lines) /\ c[2] \in 0 .. MaxLineText
  BY <1>2
<1>4. c[1] \in Nat /\ c[2] \in Nat
  BY <1>1, <1>3, LineAssumption
<1> QED
  BY <1>2, <1>3, <1>4

(* The range of an erasure starts where it did, in what it left.            *)
LEMMA EraseKeepsBegin ==
  ASSUME NEW ls, AreLines(ls), Len(ls) # 0, NEW c \in Nat \X Nat, IsValid(ls, c),
         NEW d \in Nat \X Nat, IsValid(ls, d)
  PROVE  Erase(ls, c, d).begin = c /\ IsValid(Erase(ls, c, d).lines, c)
<1> DEFINE e == NormalizedEnd(ls, c, d)
           ms == DoErase(ls, c, e).lines
           p == PrefixAt(ls, c)
           s == SuffixAt(ls, e)
           x == p \o s
           new == IF x = <<>> THEN <<>> ELSE <<x>>
           a == LinesTo(ls, c)
           b == LinesPast(ls, e)
           u == a \o new
           k == c[1]
<1>1. /\ e \in Nat \X Nat /\ IsValid(ls, e)
      /\ ~AtOrBefore(e, c) => (e[1] = Len(ls) => c[2] = 0)
  BY ErasedRange
<1>2. /\ Erase(ls, c, d).begin = c
      /\ Erase(ls, c, d).lines = IF AtOrBefore(e, c) THEN ls ELSE ms
  <2> HIDE DEF p, s, x, new, a, b, u, k
  <2> QED
    BY EraseIs DEF e, ms
<1>3. ms = u \o b
  BY DoEraseIs, Zenon
<1> HIDE DEF e, ms
<1>4. NoEol(p) /\ Len(p) = c[2] /\ AreLines(a) /\ Len(a) = k /\ k \in Nat /\ c[2] \in Nat
  BY CutLines
<1>5. /\ e[1] = Len(ls) => s = <<>>
      /\ e[1] # Len(ls) => IsLine(s)
      /\ AreLines(b)
  BY <1>1, CutLines
<1>6. c = <<k, c[2]>>
  OBVIOUS
<1> HIDE DEF a, b, p, s, u, k
<1>7. ASSUME e[1] = Len(ls), c[2] = 0
      PROVE  IsValid(ms, c)
  <2>1. p = <<>> /\ s = <<>>
    BY <1>4, <1>5, <1>7, EmptySeq DEF NoEol, Text
  <2>2. x = <<>>
    BY <2>1, EmptySeq, ConcatEmptySeq
  <2>3. new = <<>>
    BY <2>2
  <2>4. b = <<>>
    <3> DEFINE i == e[1] + 2
               n == Len(ls)
    <3>1. i \in Int /\ n \in Int /\ n < i
      BY <1>1, <1>7, LenProperties DEF AreLines
    <3> HIDE DEF i, n
    <3>2. SubSeq(ls, i, n) = <<>>
      BY <3>1, SubSeqEmpty
    <3> QED
      BY <3>2 DEF b, LinesPast, LineCount, i, n
  <2> HIDE DEF new
  <2>5. u = a /\ ms = a
    BY <1>3, <1>4, <2>3, <2>4, ConcatEmptySeq DEF u, AreLines
  <2>6. c = <<Len(ms), 0>>
    BY <1>4, <1>6, <1>7, <2>5
  <2> QED
    BY <2>6 DEF IsValid, EndCoord, LineCount
<1>8. ASSUME e[1] # Len(ls)
      PROVE  IsValid(ms, c)
  <2>1. IsLine(x)
    BY <1>4, <1>5, <1>8, JoinLine
  <2>2. new = <<x>>
    BY <2>1 DEF IsLine
  <2>3. /\ p \in Seq(Char) /\ s \in Seq(Char) /\ s # <<>>
    BY <1>4, <1>5, <1>8 DEF NoEol, IsLine, Text
  <2>4. Len(x) = Len(p) + Len(s) /\ Len(s) \in Nat \ {0}
    BY <2>3, ConcatProperties, LenProperties, EmptySeq
  <2> HIDE DEF x, new
  <2>5. c[2] \in 0 .. Len(x) - 1
    BY <1>4, <2>4
  <2> DEFINE j == k + 1
  <2>6. u = Append(a, x)
    <3>1. a \in Seq(Text) /\ x \in Text
      BY <1>4, <2>1 DEF AreLines, IsLine
    <3> QED
      BY <2>2, <3>1, AppendIsConcat DEF u
  <2>7. AreLines(u) /\ Len(u) = j /\ u[j] = x
    <3>1. AreLines(u) /\ Len(u) = j
      BY <1>4, <2>1, <2>6, AppendLine
    <3>2. u[j] = x
      <4>1. a \in Seq(Text) /\ x \in Text
        BY <1>4, <2>1 DEF AreLines, IsLine
      <4>2. Append(a, x)[Len(a) + 1] = x
        BY <4>1, AppendProperties
      <4> QED
        BY <1>4, <2>6, <4>2
    <3> QED
      BY <3>1, <3>2
  <2> DEFINE v == u \o b
             m == Len(b)
  <2>8. /\ Len(v) = Len(u) + m /\ m \in Nat
        /\ \A i \in 1 .. Len(u) + m : v[i] = IF i <= Len(u) THEN u[i] ELSE b[i - Len(u)]
    <3>1. u \in Seq(Text) /\ b \in Seq(Text)
      BY <1>5, <2>7 DEF AreLines
    <3> QED
      BY <3>1, ConcatProperties, LenProperties
  <2> HIDE DEF v, m
  <2>9. v[j] = x /\ k \in 0 .. Len(v) - 1
    <3>1. j \in 1 .. Len(u) + m /\ j <= Len(u) /\ k \in 0 .. Len(v) - 1
      BY <1>4, <2>7, <2>8
    <3> HIDE DEF j
    <3> QED
      BY <2>7, <2>8, <3>1
  <2>10. ms = v
    BY <1>3 DEF v
  <2> QED
    BY <2>5, <2>9, <2>10 DEF IsValid, LineCount, LineLength, k
<1> QED
  BY <1>1, <1>2, <1>7, <1>8

LEMMA InsertKeepsLines ==
  ASSUME NEW ls, AreLines(ls), Len(ls) # 0, NEW c \in Nat \X Nat, IsValid(ls, c),
         NEW s \in Text
  PROVE  AreLines(Insert(ls, c, s).lines) /\ Len(Insert(ls, c, s).lines) # 0
<1>1. CASE s = <<>>
  BY <1>1 DEF Insert, Nothing
<1>2. CASE s # <<>>
  BY <1>2, InsertIsInsertion
<1> QED
  BY <1>1, <1>2

LEMMA InsertAfterKeepsLines ==
  ASSUME NEW ls, AreLines(ls), Len(ls) # 0, NEW c \in Nat \X Nat, IsValid(ls, c),
         NEW d \in Nat \X Nat, IsValid(ls, d), NEW s \in Text
  PROVE  /\ AreLines(InsertAfter(Erase(ls, c, d), s).lines)
         /\ Len(InsertAfter(Erase(ls, c, d), s).lines) # 0
<1> DEFINE erased == Erase(ls, c, d)
<1>1. AreLines(erased.lines) /\ Len(erased.lines) # 0
  BY EraseIsErasure
<1>2. erased.begin = c /\ IsValid(erased.lines, c)
  BY EraseKeepsBegin
<1> HIDE DEF erased
<1> DEFINE new == Insert(erased.lines, erased.begin, s)
<1>3. AreLines(new.lines) /\ Len(new.lines) # 0
  BY <1>1, <1>2, InsertKeepsLines
<1>4. InsertAfter(erased, s).lines = new.lines
  <2>1. DOMAIN new = {"lines", "changes", "begin", "end"}
    BY DEF Insert, Nothing, DoInsert, InsertInLine, InsertedInto, Changed
  <2> HIDE DEF new
  <2> QED
    BY <2>1 DEF InsertAfter, Then, new
<1> QED
  BY <1>3, <1>4 DEF erased

LEMMA ReplaceKeepsLines ==
  ASSUME NEW ls, AreLines(ls), Len(ls) # 0, NEW c \in Nat \X Nat, IsValid(ls, c),
         NEW d \in Nat \X Nat, IsValid(ls, d), NEW s \in Text
  PROVE  AreLines(Replace(ls, c, d, s).lines) /\ Len(Replace(ls, c, d, s).lines) # 0
<1>1. CASE Content(ls, c, d) = s
  BY <1>1 DEF Replace, Nothing
<1>2. CASE Content(ls, c, d) # s /\ IsEnd(ls, d) /\ s # <<>> /\ Last(s) = EOL
  <2> DEFINE new == InsertAfter(Erase(ls, c, BackCoord(ls)), Front(s))
  <2>1. BackCoord(ls) \in Nat \X Nat /\ IsValid(ls, BackCoord(ls))
    BY AtBack
  <2>2. Front(s) \in Text
    <3>1. s \in Seq(Char) /\ Len(s) \in Nat /\ Len(s) # 0
      BY <1>2, LenProperties, EmptySeq DEF Text
    <3> DEFINE j == Len(s) - 1
    <3>2. 1 \in Nat \ {0} /\ j \in Int /\ j <= Len(s)
      BY <3>1
    <3> HIDE DEF j
    <3>3. SubSeq(s, 1, j) \in Seq(Char)
      BY <3>1, <3>2, PartOfSeq
    <3> QED
      BY <3>3 DEF Front, Text, j
  <2>3. AreLines(new.lines) /\ Len(new.lines) # 0
    BY <2>1, <2>2, InsertAfterKeepsLines
  <2>4. Replace(ls, c, d, s) = [new EXCEPT !.end = EndCoord(new.lines)]
    BY <1>2 DEF Replace, UpToTheEnd
  <2>5. [new EXCEPT !.end = EndCoord(new.lines)].lines = new.lines
    <3>1. "lines" \in DOMAIN new
      BY DEF InsertAfter, Then, Insert, Nothing, DoInsert, InsertInLine, InsertedInto, Changed
    <3> HIDE DEF new
    <3> QED
      BY <3>1
  <2> HIDE DEF new
  <2> QED
    BY <2>3, <2>4, <2>5
<1>3. CASE Content(ls, c, d) # s /\ ~(IsEnd(ls, d) /\ s # <<>> /\ Last(s) = EOL)
  <2>1. Replace(ls, c, d, s) = InsertAfter(Erase(ls, c, d), s)
    BY <1>3 DEF Replace
  <2> QED
    BY <2>1, InsertAfterKeepsLines
<1> QED
  BY <1>1, <1>2, <1>3

LEMMA LinesStayLines ==
  ASSUME LinesInv, [EditInsert \/ EditErase \/ EditReplace]_lineVars
  PROVE  LinesInv'
<1>1. CASE EditInsert
  <2>1. PICK pos \in Coords(m_lines), s \in Inserted : TakeIfFit(Insert(m_lines, pos, s))
    BY <1>1 DEF EditInsert
  <2>2. pos \in Nat \X Nat /\ IsValid(m_lines, pos) /\ s \in Text /\ s # <<>>
    BY <2>1, CoordsAreValid, LineAssumption
  <2>3. AreLines(Insert(m_lines, pos, s).lines) /\ Len(Insert(m_lines, pos, s).lines) # 0
    BY <2>2, InsertIsInsertion DEF LinesInv
  <2>4. m_lines' = Insert(m_lines, pos, s).lines
    BY <2>1 DEF TakeIfFit, Take
  <2> QED
    BY <2>3, <2>4 DEF LinesInv
<1>2. CASE EditErase
  <2>1. PICK begin \in Coords(m_lines), end \in Coords(m_lines) :
            TakeIfFit(Erase(m_lines, begin, end))
    BY <1>2 DEF EditErase
  <2>2. /\ begin \in Nat \X Nat /\ IsValid(m_lines, begin)
        /\ end \in Nat \X Nat /\ IsValid(m_lines, end)
    BY <2>1, CoordsAreValid
  <2>3. AreLines(Erase(m_lines, begin, end).lines) /\ Len(Erase(m_lines, begin, end).lines) # 0
    BY <2>2, EraseIsErasure DEF LinesInv
  <2>4. m_lines' = Erase(m_lines, begin, end).lines
    BY <2>1 DEF TakeIfFit, Take
  <2> QED
    BY <2>3, <2>4 DEF LinesInv
<1>3. CASE EditReplace
  <2>1. PICK begin \in Coords(m_lines), end \in Coords(m_lines), s \in Inserted :
            TakeIfFit(Replace(m_lines, begin, end, s))
    BY <1>3 DEF EditReplace
  <2>2. /\ begin \in Nat \X Nat /\ IsValid(m_lines, begin)
        /\ end \in Nat \X Nat /\ IsValid(m_lines, end) /\ s \in Text
    BY <2>1, CoordsAreValid, LineAssumption
  <2>3. /\ AreLines(Replace(m_lines, begin, end, s).lines)
        /\ Len(Replace(m_lines, begin, end, s).lines) # 0
    BY <2>2, ReplaceKeepsLines DEF LinesInv
  <2>4. m_lines' = Replace(m_lines, begin, end, s).lines
    BY <2>1 DEF TakeIfFit, Take
  <2> QED
    BY <2>3, <2>4 DEF LinesInv
<1>4. CASE UNCHANGED lineVars
  BY <1>4 DEF LinesInv, lineVars
<1> QED
  BY <1>1, <1>2, <1>3, <1>4

LEMMA LinesInvImplies == LinesInv => LinesAreTheText
<1> SUFFICES ASSUME LinesInv PROVE LinesAreTheText
  OBVIOUS
<1>1. EachLineEnds
  BY LinesInvIs DEF LinesInv, AreLines
<1> DEFINE flat == Flat(m_lines)
           off(c) == Offset(m_lines, c)
<1>2. ASSUME NEW c \in Coords(m_lines), NEW s \in Inserted
      PROVE  Flat(Insert(m_lines, c, s).lines) = Apply(InsertionAt(flat, off(c), s), flat)
  <2>1. c \in Nat \X Nat /\ IsValid(m_lines, c) /\ s \in Text /\ s # <<>>
    BY CoordsAreValid, LineAssumption
  <2> QED
    BY <2>1, InsertIsInsertion DEF LinesInv
<1>3. ASSUME NEW c \in Coords(m_lines), NEW d \in Coords(m_lines), Precedes(c, d)
      PROVE  Flat(Erase(m_lines, c, d).lines) =
                Splice(flat, off(c), Max({0, EraseEnd(flat, off(c), off(d)) - off(c)}), <<>>)
  <2>1. /\ c \in Nat \X Nat /\ IsValid(m_lines, c)
        /\ d \in Nat \X Nat /\ IsValid(m_lines, d)
    BY CoordsAreValid
  <2> QED
    BY <1>3, <2>1, EraseIsErasure DEF LinesInv
<1> QED
  BY <1>1, <1>2, <1>3 DEF LinesAreTheText

(* insert and erase make of the vector of lines, the one that holds an EOL  *)
(* at the end of each and nowhere else, what a splice makes of the text as  *)
(* one sequence, whatever lines, coordinates and strings are given.         *)
THEOREM LinesAreAlwaysTheText == LineSpec => []LinesAreTheText
<1>1. InitLines => LinesInv
  BY LinesInvIs DEF InitLines
<1>2. LinesInv /\ [EditInsert \/ EditErase \/ EditReplace]_lineVars => LinesInv'
  BY LinesStayLines
<1> QED
  BY <1>1, <1>2, LinesInvImplies, PTL DEF LineSpec

=============================================================================
