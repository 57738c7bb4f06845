------------------------ MODULE ServerObjectsProofs ------------------------
(***************************************************************************)
(* No client, window or history refers to a buffer that is gone, whoever   *)
(* deletes it and whatever opens in between: by an invariant on the calls  *)
(* in progress.  It says which calls may be above which, what each of them *)
(* holds on to, and that a client refers only to buffers in the list and   *)
(* to those a call still in progress will make it forget.                  *)
(*                                                                         *)
(* First lists and their elements, then contexts (jumps, the history and   *)
(* what stays of it when a buffer is forgotten), the invariant, and the    *)
(* steps, from hooks to the keys of a client.                              *)
(***************************************************************************)
EXTENDS ServerObjects, SequenceTheorems, FiniteSetTheorems, WellFoundedInduction, TLAPS

-----------------------------------------------------------------------------
(* Lists.                                                                   *)

IsList(s) == Len(s) \in Nat /\ s = [i \in 1 .. Len(s) |-> s[i]]

LEMMA ListIsSeq ==
  ASSUME NEW s, IsList(s)
  PROVE  s \in Seq(ToSet(s)) /\ DOMAIN s = 1 .. Len(s)
<1> DEFINE n == Len(s)
<1>1. n \in Nat /\ s = [i \in 1 .. n |-> s[i]]
  BY DEF IsList
<1> HIDE DEF n
<1>2. DOMAIN s = 1 .. n
  BY <1>1
<1>3. \A i \in 1 .. n : s[i] \in ToSet(s)
  BY <1>2 DEF ToSet
<1>4. s \in [1 .. n -> ToSet(s)]
  BY <1>1, <1>3
<1>5. s \in Seq(ToSet(s))
  BY <1>1, <1>4, SeqDef
<1> QED
  BY <1>2, <1>5 DEF n

LEMMA SeqIsList ==
  ASSUME NEW S, NEW s \in Seq(S)
  PROVE  IsList(s) /\ ToSet(s) \in SUBSET S /\ DOMAIN s = 1 .. Len(s)
<1>1. Len(s) \in Nat /\ s \in [1 .. Len(s) -> S] /\ DOMAIN s = 1 .. Len(s)
  BY LenProperties
<1>2. s = [i \in 1 .. Len(s) |-> s[i]]
  BY <1>1
<1>3. ToSet(s) \in SUBSET S
  BY <1>1 DEF ToSet
<1> QED
  BY <1>1, <1>2, <1>3 DEF IsList

LEMMA Joined ==
  ASSUME NEW s, NEW t, IsList(s), IsList(t)
  PROVE  /\ IsList(s \o t) /\ Len(s \o t) = Len(s) + Len(t)
         /\ ToSet(s \o t) = ToSet(s) \cup ToSet(t)
         /\ \A i \in 1 .. Len(s) + Len(t) :
               (s \o t)[i] = IF i <= Len(s) THEN s[i] ELSE t[i - Len(s)]
<1> DEFINE U == ToSet(s) \cup ToSet(t)
           u == s \o t
<1>1. /\ s \in Seq(ToSet(s)) /\ t \in Seq(ToSet(t))
      /\ DOMAIN s = 1 .. Len(s) /\ DOMAIN t = 1 .. Len(t)
      /\ Len(s) \in Nat /\ Len(t) \in Nat
  BY ListIsSeq DEF IsList
<1>2. s \in Seq(U) /\ t \in Seq(U)
  BY <1>1, SeqMonotonic
<1> HIDE DEF U
<1>3. /\ u \in Seq(U) /\ Len(u) = Len(s) + Len(t)
      /\ \A i \in 1 .. Len(s) + Len(t) : u[i] = IF i <= Len(s) THEN s[i] ELSE t[i - Len(s)]
  BY <1>2, ConcatProperties
<1> HIDE DEF u
<1>4. IsList(u) /\ DOMAIN u = 1 .. Len(s) + Len(t) /\ ToSet(u) \in SUBSET U
  BY <1>3, SeqIsList
<1>5. \A x \in ToSet(s) : x \in ToSet(u)
  <2> TAKE x \in ToSet(s)
  <2>1. PICK i \in 1 .. Len(s) : s[i] = x
    BY <1>1 DEF ToSet
  <2>2. i \in 1 .. Len(s) + Len(t) /\ u[i] = x
    BY <1>1, <1>3, <2>1
  <2> QED
    BY <1>4, <2>2 DEF ToSet
<1>6. \A x \in ToSet(t) : x \in ToSet(u)
  <2> TAKE x \in ToSet(t)
  <2>1. PICK i \in 1 .. Len(t) : t[i] = x
    BY <1>1 DEF ToSet
  <2> DEFINE j == Len(s) + i
  <2>2. j \in 1 .. Len(s) + Len(t) /\ ~(j <= Len(s)) /\ j - Len(s) = i
    BY <1>1, <2>1
  <2>3. u[j] = x
    BY <1>3, <2>1, <2>2
  <2> QED
    BY <1>4, <2>2, <2>3 DEF ToSet
<1>7. ToSet(u) = ToSet(s) \cup ToSet(t)
  BY <1>4, <1>5, <1>6 DEF U
<1> QED
  BY <1>3, <1>4, <1>7 DEF u

LEMMA OneOrNone ==
  /\ IsList(<<>>) /\ Len(<<>>) = 0 /\ ToSet(<<>>) = {}
  /\ \A x : IsList(<<x>>) /\ Len(<<x>>) = 1 /\ ToSet(<<x>>) = {x} /\ <<x>>[1] = x
  /\ \A x, y : /\ IsList(<<x, y>>) /\ Len(<<x, y>>) = 2 /\ ToSet(<<x, y>>) = {x, y}
               /\ <<x, y>>[1] = x /\ <<x, y>>[2] = y
<1>1. IsList(<<>>) /\ Len(<<>>) = 0 /\ ToSet(<<>>) = {}
  <2>1. <<>> \in Seq({}) /\ Len(<<>>) = 0
    OBVIOUS
  <2>2. IsList(<<>>) /\ ToSet(<<>>) \in SUBSET {}
    BY <2>1, SeqIsList
  <2> QED
    BY <2>1, <2>2
<1>2. ASSUME NEW x
      PROVE  IsList(<<x>>) /\ Len(<<x>>) = 1 /\ ToSet(<<x>>) = {x} /\ <<x>>[1] = x
  <2>1. <<x>> \in Seq({x}) /\ Len(<<x>>) = 1 /\ <<x>>[1] = x
    OBVIOUS
  <2>2. IsList(<<x>>) /\ DOMAIN <<x>> = 1 .. 1
    BY <2>1, SeqIsList
  <2> QED
    BY <2>1, <2>2 DEF ToSet
<1>3. ASSUME NEW x, NEW y
      PROVE  /\ IsList(<<x, y>>) /\ Len(<<x, y>>) = 2 /\ ToSet(<<x, y>>) = {x, y}
             /\ <<x, y>>[1] = x /\ <<x, y>>[2] = y
  <2> DEFINE s == <<x, y>>
  <2>1. s \in Seq({x, y}) /\ Len(s) = 2 /\ s[1] = x /\ s[2] = y
    OBVIOUS
  <2> HIDE DEF s
  <2>2. IsList(s) /\ DOMAIN s = 1 .. 2
    BY <2>1, SeqIsList
  <2>3. 1 .. 2 = {1, 2}
    OBVIOUS
  <2>4. ToSet(s) = {x, y}
    BY <2>1, <2>2, <2>3 DEF ToSet
  <2> QED
    BY <2>1, <2>2, <2>4 DEF s
<1> QED
  BY <1>1, <1>2, <1>3

LEMMA Cut ==
  ASSUME NEW s, IsList(s), s # <<>>
  PROVE  /\ IsList(Tail(s)) /\ Len(s) > 0 /\ Len(Tail(s)) = Len(s) - 1
         /\ Head(s) = s[1] /\ \A i \in 1 .. Len(Tail(s)) : Tail(s)[i] = s[i + 1]
         /\ ToSet(s) = {Head(s)} \cup ToSet(Tail(s))
<1> DEFINE U == ToSet(s)
           t == Tail(s)
<1>1. s \in Seq(U) /\ DOMAIN s = 1 .. Len(s) /\ Len(s) \in Nat
  BY ListIsSeq DEF IsList
<1> HIDE DEF U
<1>2. /\ Head(s) \in U /\ t \in Seq(U) /\ Len(t) = Len(s) - 1
      /\ \A i \in 1 .. Len(t) : t[i] = s[i + 1]
  BY <1>1, HeadTailProperties
<1>3. Len(s) > 0 /\ Head(s) = s[1]
  <2>1. Len(s) \in Nat \ {0}
    BY <1>1, EmptySeq
  <2> QED
    BY <1>1, <2>1
<1> HIDE DEF t
<1>4. IsList(t) /\ DOMAIN t = 1 .. Len(t) /\ ToSet(t) \in SUBSET U
  BY <1>2, SeqIsList
<1>5. \A x \in U : x = Head(s) \/ x \in ToSet(t)
  <2> TAKE x \in U
  <2>1. PICK i \in 1 .. Len(s) : s[i] = x
    BY <1>1 DEF U, ToSet
  <2>2. CASE i = 1
    BY <1>3, <2>1, <2>2
  <2>3. CASE i # 1
    <3> DEFINE j == i - 1
    <3>1. j \in 1 .. Len(t) /\ j + 1 = i
      BY <1>1, <1>2, <2>1, <2>3
    <3>2. t[j] = x
      BY <1>2, <2>1, <3>1
    <3> QED
      BY <1>4, <3>1, <3>2 DEF ToSet
  <2> QED
    BY <2>2, <2>3
<1>6. U = {Head(s)} \cup ToSet(t)
  BY <1>2, <1>4, <1>5
<1> QED
  BY <1>2, <1>3, <1>4, <1>6 DEF U, t

-----------------------------------------------------------------------------
(* Places in order.                                                         *)

LEMMA LeastNatural ==
  ASSUME NEW S \in SUBSET Nat, S # {}
  PROVE  \E x \in S : \A y \in S : x <= y
<1> DEFINE Less == {ss \in Nat \X Nat : ss[1] < ss[2]}
<1>1. IsWellFoundedOn(Less, Nat)
  BY NatLessThanWellFounded DEF OpToRel
<1>2. PICK x \in S : \A y \in S : ~(<<y, x>> \in Less)
  BY <1>1, WFMin
<1>3. \A y \in S : ~(y < x)
  BY <1>2
<1> QED
  BY <1>3

Below(S, x) == {y \in S : y < x}
Rank(S, x) == Cardinality(Below(S, x))

LEMMA IntervalIsFinite ==
  ASSUME NEW n \in Nat
  PROVE  IsFiniteSet(1 .. n) /\ Cardinality(1 .. n) = n
<1>1. IsFiniteSet(1 .. n) /\ Cardinality(1 .. n) = IF 1 > n THEN 0 ELSE n - 1 + 1
  BY FS_Interval
<1> QED
  BY <1>1

LEMMA GreatestOf ==
  ASSUME NEW n \in Nat, NEW S \in SUBSET (1 .. n), S # {}
  PROVE  \E x \in S : \A y \in S : y <= x
<1> DEFINE T == {k \in 0 .. n : n - k \in S}
<1>1. T \in SUBSET Nat
  OBVIOUS
<1>2. T # {}
  <2>1. PICK x \in S : x \in 1 .. n
    OBVIOUS
  <2>2. n - x \in 0 .. n /\ n - (n - x) = x
    BY <2>1
  <2> QED
    BY <2>1, <2>2
<1>3. PICK k \in T : \A j \in T : k <= j
  <2> HIDE DEF T
  <2> QED
    BY <1>1, <1>2, LeastNatural
<1>4. ASSUME NEW y \in S
      PROVE  y <= n - k
  <2>1. y \in 1 .. n
    OBVIOUS
  <2>2. n - y \in 0 .. n /\ n - (n - y) = y
    BY <2>1
  <2>3. n - y \in T
    BY <2>2
  <2>4. k <= n - y
    BY <1>3, <2>3
  <2> QED
    BY <1>3, <2>1, <2>4
<1> QED
  BY <1>3, <1>4

LEMMA FiniteOf ==
  ASSUME NEW n \in Nat, NEW S \in SUBSET (1 .. n)
  PROVE  IsFiniteSet(S) /\ Cardinality(S) \in Nat
<1>1. IsFiniteSet(S)
  BY IntervalIsFinite, FS_Subset
<1> QED
  BY <1>1, FS_CardinalityType

LEMMA BelowIs ==
  ASSUME NEW n \in Nat, NEW S \in SUBSET (1 .. n), NEW x \in S
  PROVE  /\ x \in 1 .. n /\ x \notin Below(S, x)
         /\ \A y : y \in Below(S, x) <=> y \in S /\ y < x
         /\ \A y \in Below(S, x) : y \in 1 .. n /\ y \in S
<1>1. \A y : y \in Below(S, x) <=> y \in S /\ y < x
  BY DEF Below
<1>2. \A y \in S : y \in 1 .. n
  OBVIOUS
<1>3. ~(x < x)
  BY <1>2
<1> QED
  BY <1>1, <1>2, <1>3

LEMMA Ranks ==
  ASSUME NEW n \in Nat, NEW S \in SUBSET (1 .. n), NEW x \in S
  PROVE  /\ Rank(S, x) \in Nat /\ Rank(S, x) <= Cardinality(S) - 1
         /\ \A y \in S : x < y => Rank(S, x) < Rank(S, y)
<1> DEFINE B == Below(S, x)
<1>1. IsFiniteSet(S) /\ Cardinality(S) \in Nat
  BY FiniteOf
<1>2. B \in SUBSET S /\ x \notin B /\ B \in SUBSET (S \ {x}) /\ B \in SUBSET (1 .. n)
  <2>1. x \notin B /\ \A y \in B : y \in 1 .. n /\ y \in S
    BY BelowIs
  <2> HIDE DEF B
  <2> QED
    BY <2>1
<1> HIDE DEF B
<1>3. IsFiniteSet(B) /\ Cardinality(B) \in Nat
  BY <1>2, FiniteOf
<1>4. Cardinality(S \ {x}) = Cardinality(S) - 1 /\ IsFiniteSet(S \ {x})
  BY <1>1, FS_RemoveElement
<1>5. Cardinality(B) <= Cardinality(S) - 1
  <2> DEFINE T == S \ {x}
  <2>1. B \in SUBSET T /\ IsFiniteSet(T)
    BY <1>2, <1>4
  <2> HIDE DEF T
  <2>2. Cardinality(B) <= Cardinality(T)
    BY <2>1, FS_Subset
  <2> QED
    BY <1>4, <2>2 DEF T
<1>6. ASSUME NEW y \in S, x < y
      PROVE  Cardinality(B) < Rank(S, y)
  <2> DEFINE C == Below(S, y)
             A == B \cup {x}
  <2>1. A \in SUBSET C
    <3>1. \A z : z \in B <=> z \in S /\ z < x
      BY BelowIs DEF B
    <3>2. \A z : z \in C <=> z \in S /\ z < y
      BY BelowIs
    <3>3. \A z \in S : z \in 1 .. n
      OBVIOUS
    <3> HIDE DEF C
    <3>4. ASSUME NEW z \in B PROVE z \in C
      <4>1. z \in S /\ z < x
        BY <3>1
      <4>2. z \in 1 .. n /\ x \in 1 .. n /\ y \in 1 .. n
        BY <3>3, <4>1
      <4>3. z < y
        BY <1>6, <4>1, <4>2
      <4> QED
        BY <3>2, <4>1, <4>3
    <3>5. x \in C
      BY <1>6, <3>2
    <3> QED
      BY <3>4, <3>5
  <2>2. C \in SUBSET (1 .. n)
    <3>1. \A z \in C : z \in 1 .. n
      BY BelowIs
    <3> QED
      BY <3>1
  <2>3. Cardinality(A) = Cardinality(B) + 1
    BY <1>2, <1>3, FS_AddElement
  <2> HIDE DEF A, C
  <2>4. IsFiniteSet(C) /\ Cardinality(C) \in Nat
    BY <2>2, FiniteOf
  <2>5. Cardinality(A) <= Cardinality(C)
    BY <2>1, <2>4, FS_Subset
  <2> QED
    BY <1>3, <2>3, <2>4, <2>5 DEF C, Rank
<1> QED
  BY <1>3, <1>5, <1>6 DEF Rank, B

LEMMA RankIsReached ==
  ASSUME NEW n \in Nat, NEW S \in SUBSET (1 .. n), NEW i \in 0 .. Cardinality(S) - 1
  PROVE  \E x \in S : Rank(S, x) = i
<1>1. IsFiniteSet(S) /\ Cardinality(S) \in Nat /\ i \in Nat /\ i <= Cardinality(S) - 1
  BY FiniteOf
<1>2. S # {}
  <2>1. Cardinality({}) = 0
    BY FS_EmptySet
  <2> QED
    BY <1>1, <2>1
<1> DEFINE T == {x \in S : Rank(S, x) >= i}
<1>3. T # {}
  <2>1. PICK x \in S : \A y \in S : y <= x
    BY <1>2, GreatestOf
  <2>2. Below(S, x) = S \ {x}
    <3>1. \A z : z \in Below(S, x) <=> z \in S /\ z < x
      BY BelowIs
    <3>2. \A z \in S : z \in 1 .. n /\ (z < x <=> z # x)
      <4>1. \A z \in S : z \in 1 .. n
        OBVIOUS
      <4> QED
        BY <2>1, <4>1
    <3> DEFINE B == Below(S, x)
    <3> HIDE DEF B
    <3>3. B = S \ {x}
      BY <3>1, <3>2 DEF B
    <3> QED
      BY <3>3 DEF B
  <2>3. Cardinality(S \ {x}) = Cardinality(S) - 1
    BY <1>1, FS_RemoveElement
  <2>4. Rank(S, x) = Cardinality(S) - 1
    BY <2>2, <2>3 DEF Rank
  <2>5. Rank(S, x) >= i
    BY <1>1, <2>4
  <2> QED
    BY <2>5
<1>4. PICK x \in T : \A y \in T : x <= y
  <2>1. \A z \in T : z \in S
    OBVIOUS
  <2>2. \A z \in S : z \in 1 .. n
    OBVIOUS
  <2>3. \A z \in 1 .. n : z \in Nat
    OBVIOUS
  <2> HIDE DEF T
  <2>4. T \in SUBSET Nat
    BY <2>1, <2>2, <2>3
  <2> QED
    BY <1>3, <2>4, LeastNatural
<1> SUFFICES ASSUME Rank(S, x) # i PROVE FALSE
  BY <1>4
<1>5. x \in S /\ x \in 1 .. n /\ Rank(S, x) \in Nat /\ Rank(S, x) > i
  <2>1. x \in S /\ x \in 1 .. n /\ Rank(S, x) >= i
    BY <1>4
  <2>2. Rank(S, x) \in Nat
    BY <2>1, Ranks
  <2> QED
    BY <1>1, <2>1, <2>2
<1> DEFINE B == Below(S, x)
<1>6. B \in SUBSET (1 .. n) /\ B \in SUBSET S /\ B # {}
  <2>1. Cardinality({}) = 0
    BY FS_EmptySet
  <2>2. Cardinality(B) > 0
    BY <1>1, <1>5 DEF Rank
  <2>3. \A z \in B : z \in 1 .. n /\ z \in S
    BY <1>5, BelowIs
  <2> HIDE DEF B
  <2>4. B # {}
    BY <2>1, <2>2
  <2> QED
    BY <2>3, <2>4
<1>7. PICK y \in B : \A z \in B : z <= y
  <2> HIDE DEF B
  <2> QED
    BY <1>6, GreatestOf
<1> DEFINE A == Below(S, y)
<1>8. y \in S /\ y < x /\ B = A \cup {y} /\ y \notin A /\ A \in SUBSET (1 .. n)
  <2>1. \A z : z \in B <=> z \in S /\ z < x
    BY <1>5, BelowIs
  <2>2. y \in S /\ y < x
    BY <1>7, <2>1
  <2>3. /\ \A z : z \in A <=> z \in S /\ z < y
        /\ y \notin A /\ \A z \in A : z \in 1 .. n
    BY <2>2, BelowIs
  <2>4. /\ \A z \in S : z \in 1 .. n
        /\ \A z \in B : z <= y
    BY <1>7
  <2> HIDE DEF A, B
  <2>5. \A z : z \in B <=> z \in A \/ z = y
    <3>1. ASSUME NEW z \in B PROVE z \in A \/ z = y
      <4>1. z \in S /\ z <= y /\ z \in 1 .. n /\ y \in 1 .. n
        BY <2>1, <2>2, <2>4
      <4>2. z < y \/ z = y
        BY <4>1
      <4> QED
        BY <2>3, <4>1, <4>2
    <3>2. ASSUME NEW z \in A PROVE z \in B
      <4>1. z \in S /\ z < y /\ z \in 1 .. n /\ y \in 1 .. n /\ x \in 1 .. n
        BY <1>5, <2>2, <2>3, <2>4
      <4>2. z < x
        BY <2>2, <4>1
      <4> QED
        BY <2>1, <4>1, <4>2
    <3> QED
      BY <2>1, <2>2, <3>1, <3>2
  <2>6. B = A \cup {y}
    BY <2>5
  <2>7. A \in SUBSET (1 .. n)
    BY <2>3
  <2> QED
    BY <2>2, <2>3, <2>6, <2>7
<1>9. Cardinality(B) = Cardinality(A) + 1 /\ Cardinality(A) \in Nat
  <2> HIDE DEF A, B
  <2>1. IsFiniteSet(A) /\ Cardinality(A) \in Nat
    BY <1>8, FiniteOf
  <2> QED
    BY <1>8, <2>1, FS_AddElement
<1>10. Rank(S, y) >= i
  BY <1>1, <1>5, <1>9 DEF Rank
<1>11. x <= y
  BY <1>4, <1>8, <1>10
<1>12. y \in 1 .. n
  BY <1>8
<1> QED
  BY <1>5, <1>8, <1>11, <1>12

UpTo(S, x) == {y \in S : y <= x}

LEMMA RanksDiffer ==
  ASSUME NEW n \in Nat, NEW S \in SUBSET (1 .. n), NEW x \in S, NEW y \in S,
         Rank(S, x) = Rank(S, y)
  PROVE  x = y
<1>1. /\ x < y => Rank(S, x) < Rank(S, y)
      /\ y < x => Rank(S, y) < Rank(S, x)
      /\ Rank(S, x) \in Nat /\ Rank(S, y) \in Nat
  BY Ranks
<1>2. x \in 1 .. n /\ y \in 1 .. n
  OBVIOUS
<1> QED
  BY <1>1, <1>2

LEMMA UpToIs ==
  ASSUME NEW n \in Nat, NEW S \in SUBSET (1 .. n)
  PROVE  /\ \A x \in S : Cardinality(UpTo(S, x)) = Rank(S, x) + 1
         /\ \A x : Cardinality(UpTo(S, x)) \in 0 .. Cardinality(S)
<1>1. IsFiniteSet(S) /\ Cardinality(S) \in Nat
  BY FiniteOf
<1>2. ASSUME NEW x \in S
      PROVE  Cardinality(UpTo(S, x)) = Rank(S, x) + 1
  <2>1. /\ x \in 1 .. n /\ x \notin Below(S, x)
        /\ \A y : y \in Below(S, x) <=> y \in S /\ y < x
    BY BelowIs
  <2>2. \A y \in S : y \in 1 .. n
    OBVIOUS
  <2>3. \A y : y \in UpTo(S, x) <=> y \in Below(S, x) \/ y = x
    <3>1. \A y : y \in UpTo(S, x) <=> y \in S /\ y <= x
      BY DEF UpTo
    <3>2. \A y \in S : y <= x <=> y < x \/ y = x
      BY <2>1, <2>2
    <3>3. x <= x /\ x \in S
      BY <2>1
    <3> QED
      BY <2>1, <3>1, <3>2, <3>3
  <2>4. UpTo(S, x) = Below(S, x) \cup {x}
    BY <2>3
  <2>5. Below(S, x) \in SUBSET S
    BY <2>1
  <2>6. IsFiniteSet(Below(S, x))
    BY <1>1, <2>5, FS_Subset
  <2>7. Cardinality(Below(S, x) \cup {x}) = Cardinality(Below(S, x)) + 1
    BY <2>1, <2>6, FS_AddElement
  <2> QED
    BY <2>4, <2>7 DEF Rank
<1>3. ASSUME NEW x
      PROVE  Cardinality(UpTo(S, x)) \in 0 .. Cardinality(S)
  <2> DEFINE T == UpTo(S, x)
  <2>1. T \in SUBSET S
    BY DEF UpTo
  <2> HIDE DEF T
  <2>2. IsFiniteSet(T) /\ Cardinality(T) <= Cardinality(S)
    BY <1>1, <2>1, FS_Subset
  <2>3. Cardinality(T) \in Nat
    BY <2>2, FS_CardinalityType
  <2> QED
    BY <1>1, <2>2, <2>3 DEF T
<1> QED
  BY <1>2, <1>3

LEMMA KeptIs ==
  ASSUME NEW T, NEW s \in Seq(T), NEW P \in SUBSET (1 .. Len(s))
  PROVE  /\ Kept(s, P) \in Seq(T) /\ Len(Kept(s, P)) = Cardinality(P)
         /\ Cardinality(P) \in 0 .. Len(s)
         /\ \A k \in 1 .. Cardinality(P) :
               \E i \in P : Kept(s, P)[k] = s[i] /\ Rank(P, i) = k - 1
         /\ \A i \in P : /\ Rank(P, i) \in 0 .. Cardinality(P) - 1
                         /\ Kept(s, P)[Rank(P, i) + 1] = s[i]
<1> DEFINE n == Len(s)
           m == Cardinality(P)
           At(k) == CHOOSE i \in P : Rank(P, i) = k - 1
           t == [k \in 1 .. m |-> s[At(k)]]
<1>1. n \in Nat /\ \A i \in 1 .. n : s[i] \in T
  BY LenProperties, ElementOfSeq
<1> HIDE DEF n
<1>2. P \in SUBSET (1 .. n)
  BY DEF n
<1>3. m \in Nat /\ m <= n
  <2>1. IsFiniteSet(1 .. n) /\ Cardinality(1 .. n) = n
    BY <1>1, IntervalIsFinite
  <2>2. IsFiniteSet(P) /\ Cardinality(P) <= n
    BY <1>2, <2>1, FS_Subset
  <2> QED
    BY <2>2, FS_CardinalityType
<1>4. Kept(s, P) = t
  BY DEF Kept, Rank, Below
<1>5. ASSUME NEW k \in 1 .. m
      PROVE  At(k) \in P /\ Rank(P, At(k)) = k - 1
  <2> DEFINE j == k - 1
  <2>1. j \in 0 .. Cardinality(P) - 1
    BY <1>3
  <2> HIDE DEF j
  <2>2. \E i \in P : Rank(P, i) = j
    BY <1>1, <1>2, <2>1, RankIsReached
  <2> QED
    BY <2>2 DEF j
<1>6. \A k \in 1 .. m : t[k] = s[At(k)]
  OBVIOUS
<1> HIDE DEF At
<1>7. t \in [1 .. m -> T]
  BY <1>1, <1>2, <1>5
<1> HIDE DEF t
<1>8. t \in Seq(T) /\ Len(t) = m
  <2>1. t \in Seq(T)
    BY <1>3, <1>7, SeqDef
  <2>2. DOMAIN t = 1 .. Len(t) /\ Len(t) \in Nat /\ DOMAIN t = 1 .. m
    BY <1>7, <2>1, LenProperties
  <2> QED
    BY <1>3, <2>1, <2>2
<1>9. ASSUME NEW i \in P
      PROVE  Rank(P, i) \in 0 .. m - 1 /\ t[Rank(P, i) + 1] = s[i]
  <2> DEFINE k == Rank(P, i) + 1
  <2>1. Rank(P, i) \in Nat /\ Rank(P, i) <= m - 1
    BY <1>1, <1>2, Ranks
  <2>2. k \in 1 .. m /\ k - 1 = Rank(P, i)
    BY <1>3, <2>1
  <2> HIDE DEF k
  <2>3. At(k) \in P /\ Rank(P, At(k)) = Rank(P, i) /\ t[k] = s[At(k)]
    BY <1>5, <1>6, <2>2
  <2>4. At(k) = i
    BY <1>1, <1>2, <2>3, RanksDiffer
  <2> QED
    BY <1>3, <2>1, <2>3, <2>4 DEF k
<1>10. \A k \in 1 .. m : \E i \in P : t[k] = s[i] /\ Rank(P, i) = k - 1
  BY <1>5, <1>6
<1> HIDE DEF m
<1> QED
  BY <1>3, <1>4, <1>8, <1>9, <1>10 DEF m, n

-----------------------------------------------------------------------------
(* Contexts, of selections and jumps in some sets.                          *)

NodeOf(S) == [sel : S, parent : Nat, redo_child : Nat]
StagingOf(S) == {Unstaged} \cup [sel : S, parent : Nat]
ContextOf(S, J) ==
    [m_history : Seq(NodeOf(S)), m_history_id : Nat, m_staging : StagingOf(S),
     m_in_edition : Nat, m_jumps : Seq(J), m_current : Nat]

NodeIsSound(ctx, i) ==
    LET node == ctx.m_history[i] IN
    /\ node.parent \in 0 .. i - 1
    /\ node.redo_child # Invalid =>
          /\ node.redo_child \in i + 1 .. Len(ctx.m_history)
          /\ ctx.m_history[node.redo_child].parent = i
IdIsSound(ctx) ==
    /\ ctx.m_history_id \in 0 .. Len(ctx.m_history)
    /\ ctx.m_history_id = Invalid => Staged(ctx)
    /\ Staged(ctx) => ctx.m_staging.parent \in 0 .. Len(ctx.m_history)
    /\ Staged(ctx) <=> ctx.m_in_edition > 0

LEMMA SoundIs ==
  ASSUME NEW S, NEW J, NEW ctx \in ContextOf(S, J)
  PROVE  /\ DOMAIN ctx.m_history = 1 .. Len(ctx.m_history) /\ Len(ctx.m_history) \in Nat
         /\ DOMAIN ctx.m_jumps = 1 .. Len(ctx.m_jumps) /\ Len(ctx.m_jumps) \in Nat
         /\ \A i \in 1 .. Len(ctx.m_history) : ctx.m_history[i] \in NodeOf(S)
         /\ \A i \in 1 .. Len(ctx.m_jumps) : ctx.m_jumps[i] \in J
         /\ Sound(ctx) <=> /\ \A i \in 1 .. Len(ctx.m_history) : NodeIsSound(ctx, i)
                           /\ IdIsSound(ctx)
                           /\ ctx.m_current \in 0 .. Len(ctx.m_jumps)
<1>1. ctx.m_history \in Seq(NodeOf(S)) /\ ctx.m_jumps \in Seq(J)
  BY DEF ContextOf
<1>2. /\ DOMAIN ctx.m_history = 1 .. Len(ctx.m_history) /\ Len(ctx.m_history) \in Nat
      /\ DOMAIN ctx.m_jumps = 1 .. Len(ctx.m_jumps) /\ Len(ctx.m_jumps) \in Nat
  BY <1>1, LenProperties
<1>3. /\ \A i \in 1 .. Len(ctx.m_history) : ctx.m_history[i] \in NodeOf(S)
      /\ \A i \in 1 .. Len(ctx.m_jumps) : ctx.m_jumps[i] \in J
  BY <1>1, ElementOfSeq
<1>4. Sound(ctx) <=> /\ \A i \in 1 .. Len(ctx.m_history) : NodeIsSound(ctx, i)
                     /\ IdIsSound(ctx)
                     /\ ctx.m_current \in 0 .. Len(ctx.m_jumps)
  BY <1>2, Zenon DEF Sound, NodeIsSound, IdIsSound
<1> QED
  BY <1>2, <1>3, <1>4

LEMMA ContextGrows ==
  ASSUME NEW S, NEW J, NEW S1, NEW J1, NEW ctx \in ContextOf(S, J),
         S \in SUBSET S1, J \in SUBSET J1
  PROVE  ctx \in ContextOf(S1, J1)
<1>1. NodeOf(S) \in SUBSET NodeOf(S1)
  BY DEF NodeOf
<1>2. ctx.m_history \in Seq(NodeOf(S1))
  <2>1. ctx.m_history \in Seq(NodeOf(S))
    BY DEF ContextOf
  <2> QED
    BY <1>1, <2>1, SeqMonotonic
<1>3. ctx.m_jumps \in Seq(J1)
  <2>1. ctx.m_jumps \in Seq(J)
    BY DEF ContextOf
  <2> QED
    BY <2>1, SeqMonotonic
<1>4. ctx.m_staging \in StagingOf(S1)
  BY DEF ContextOf, StagingOf
<1> QED
  BY <1>2, <1>3, <1>4 DEF ContextOf

LEMMA SelectionsAre ==
  ASSUME NEW S, NEW J, NEW ctx \in ContextOf(S, J), Sound(ctx)
  PROVE  /\ SelectionsOf(ctx) \in S
         /\ ~Staged(ctx) => /\ ctx.m_history_id \in 1 .. Len(ctx.m_history)
                            /\ SelectionsOf(ctx) = ctx.m_history[ctx.m_history_id].sel
         /\ Staged(ctx) => /\ ctx.m_staging \in [sel : S, parent : Nat]
                           /\ SelectionsOf(ctx) = ctx.m_staging.sel
<1>1. IdIsSound(ctx) /\ \A i \in 1 .. Len(ctx.m_history) : ctx.m_history[i] \in NodeOf(S)
  BY SoundIs
<1>2. ctx.m_history_id \in Nat /\ ctx.m_staging \in StagingOf(S)
  BY DEF ContextOf
<1>3. CASE Staged(ctx)
  BY <1>2, <1>3 DEF Staged, StagingOf, SelectionsOf
<1>4. CASE ~Staged(ctx)
  <2>1. ctx.m_history_id \in 1 .. Len(ctx.m_history)
    BY <1>1, <1>4, SoundIs DEF IdIsSound, Invalid
  <2> QED
    BY <1>1, <1>4, <2>1 DEF SelectionsOf, NodeOf
<1> QED
  BY <1>3, <1>4

(* The jump list.                                                           *)

SameHistory(ctx, before) ==
    /\ ctx.m_history = before.m_history /\ ctx.m_history_id = before.m_history_id
    /\ ctx.m_staging = before.m_staging /\ ctx.m_in_edition = before.m_in_edition

LEMMA OtherJumpsAreSound ==
  ASSUME NEW S, NEW J, NEW J1, NEW ctx \in ContextOf(S, J), Sound(ctx),
         NEW new \in ContextOf(S, J1), SameHistory(new, ctx),
         new.m_current \in 0 .. Len(new.m_jumps)
  PROVE  Sound(new) /\ SelectionsOf(new) = SelectionsOf(ctx)
<1>3. SameHistory(new, ctx)
  OBVIOUS
<1>4. SelectionsOf(new) = SelectionsOf(ctx) /\ (Staged(new) <=> Staged(ctx))
  BY <1>3 DEF SameHistory, SelectionsOf, Staged
<1>5. \A i \in 1 .. Len(ctx.m_history) : NodeIsSound(ctx, i) <=> NodeIsSound(new, i)
  BY <1>3 DEF NodeIsSound, SameHistory
<1>6. IdIsSound(new) <=> IdIsSound(ctx)
  BY <1>3, <1>4 DEF IdIsSound, SameHistory
<1>7. new.m_history = ctx.m_history
  BY <1>3 DEF SameHistory
<1>8. Sound(new)
  <2>1. /\ \A i \in 1 .. Len(new.m_history) : NodeIsSound(new, i)
        /\ IdIsSound(new) /\ new.m_current \in 0 .. Len(new.m_jumps)
    BY <1>3, <1>5, <1>6, <1>7, SoundIs
  <2> QED
    BY <1>3, <2>1, SoundIs
<1> QED
  BY <1>4, <1>8

LEMMA PushIsSound ==
  ASSUME NEW S, NEW J, NEW ctx \in ContextOf(S, J), Sound(ctx), NEW jump \in J
  PROVE  /\ Push(ctx, jump) \in ContextOf(S, J) /\ Sound(Push(ctx, jump))
         /\ SameHistory(Push(ctx, jump), ctx)
         /\ SelectionsOf(Push(ctx, jump)) = SelectionsOf(ctx)
         /\ Push(ctx, jump).m_current \in Nat
         /\ Push(ctx, jump).m_current = Len(Push(ctx, jump).m_jumps)
<1> DEFINE js == ctx.m_jumps
           end == IF ctx.m_current # Len(ctx.m_jumps)
                  THEN ctx.m_current + 1 ELSE Len(ctx.m_jumps)
           P == {i \in 1 .. end : js[i] # jump}
           kept == Kept(js, P)
           jumps == Append(kept, jump)
<1>1. js \in Seq(J) /\ Len(js) \in Nat /\ ctx.m_current \in 0 .. Len(js)
  BY SoundIs DEF ContextOf
<1>2. P \in SUBSET (1 .. Len(js))
  <2>1. end \in 0 .. Len(js)
    BY <1>1
  <2> HIDE DEF end
  <2>2. \A i \in 1 .. end : i \in 1 .. Len(js)
    BY <1>1, <2>1
  <2> QED
    BY <2>2
<1>3. Push(ctx, jump) = [ctx EXCEPT !.m_jumps = jumps, !.m_current = Len(jumps)]
  BY DEF Push
<1> HIDE DEF P, js
<1>4. kept \in Seq(J)
  BY <1>1, <1>2, KeptIs
<1> HIDE DEF kept
<1>5. jumps \in Seq(J) /\ Len(jumps) \in Nat /\ Len(jumps) \in 0 .. Len(jumps)
  <2>1. jumps \in Seq(J)
    BY <1>4, AppendProperties
  <2> HIDE DEF jumps
  <2>2. Len(jumps) \in Nat
    BY <2>1, LenProperties
  <2> QED
    BY <2>1, <2>2
<1> HIDE DEF jumps
<1> DEFINE new == Push(ctx, jump)
           current == Len(jumps)
<1>6. new = [ctx EXCEPT !.m_jumps = jumps, !.m_current = current] /\ current \in 0 .. Len(jumps)
  BY <1>3, <1>5
<1> HIDE DEF new
<1>7. /\ new \in ContextOf(S, J) /\ SameHistory(new, ctx)
      /\ new.m_jumps = jumps /\ new.m_current = current
  BY <1>5, <1>6 DEF ContextOf, SameHistory
<1>8. new.m_current \in 0 .. Len(new.m_jumps)
  BY <1>6, <1>7
<1>9. Sound(new) /\ SelectionsOf(new) = SelectionsOf(ctx)
  <2> HIDE DEF current
  <2> QED
    BY <1>7, <1>8, OtherJumpsAreSound
<1> QED
  BY <1>5, <1>7, <1>9 DEF new, current

LEMMA PushJumpIsSound ==
  ASSUME NEW S, NEW J, NEW ctx \in ContextOf(S, J), Sound(ctx), SelectionsOf(ctx) \in J
  PROVE  /\ PushJump(ctx) \in ContextOf(S, J) /\ Sound(PushJump(ctx))
         /\ SameHistory(PushJump(ctx), ctx)
         /\ SelectionsOf(PushJump(ctx)) = SelectionsOf(ctx)
BY PushIsSound DEF PushJump

LEMMA PushedBeforeIsSound ==
  ASSUME NEW S, NEW J, NEW ctx \in ContextOf(S, J), Sound(ctx), SelectionsOf(ctx) \in J
  PROVE  /\ PushedBefore(ctx) \in ContextOf(S, J) /\ Sound(PushedBefore(ctx))
         /\ SameHistory(PushedBefore(ctx), ctx)
         /\ SelectionsOf(PushedBefore(ctx)) = SelectionsOf(ctx)
<1>1. CASE AtJump(ctx)
  <2>1. PushedBefore(ctx) = ctx
    BY <1>1 DEF PushedBefore
  <2> QED
    BY <2>1 DEF SameHistory
<1>2. CASE ~AtJump(ctx)
  <2>1. PushedBefore(ctx) = PushJump(ctx)
    BY <1>2 DEF PushedBefore
  <2> QED
    BY <2>1, PushJumpIsSound
<1> QED
  BY <1>1, <1>2

LEMMA JumpIsSound ==
  ASSUME NEW S, NEW J, NEW ctx \in ContextOf(S, J), Sound(ctx),
         NEW n \in 0 .. Len(ctx.m_jumps) - 1
  PROVE  LET new == [ctx EXCEPT !.m_current = n]
         IN  /\ new \in ContextOf(S, J) /\ Sound(new) /\ SameHistory(new, ctx)
             /\ SelectionsOf(new) = SelectionsOf(ctx)
             /\ Jumped(new) \in J
<1> DEFINE new == [ctx EXCEPT !.m_current = n]
<1>1. Len(ctx.m_jumps) \in Nat /\ \A i \in 1 .. Len(ctx.m_jumps) : ctx.m_jumps[i] \in J
  BY SoundIs
<1>2. n \in Nat /\ n \in 0 .. Len(ctx.m_jumps) /\ n + 1 \in 1 .. Len(ctx.m_jumps)
  BY <1>1
<1>3. /\ new \in ContextOf(S, J) /\ SameHistory(new, ctx)
      /\ new.m_current = n /\ new.m_jumps = ctx.m_jumps
  BY <1>2 DEF ContextOf, SameHistory
<1> HIDE DEF new
<1>4. new.m_current \in 0 .. Len(new.m_jumps)
  BY <1>2, <1>3
<1>5. Sound(new) /\ SelectionsOf(new) = SelectionsOf(ctx)
  BY <1>3, <1>4, OtherJumpsAreSound
<1>6. Jumped(new) \in J
  BY <1>1, <1>2, <1>3 DEF Jumped
<1> QED
  BY <1>3, <1>5, <1>6 DEF new

LEMMA GoForwardIsSound ==
  ASSUME NEW S, NEW J, NEW ctx \in ContextOf(S, J), Sound(ctx), HasForward(ctx)
  PROVE  /\ GoForward(ctx) \in ContextOf(S, J) /\ Sound(GoForward(ctx))
         /\ SameHistory(GoForward(ctx), ctx)
         /\ SelectionsOf(GoForward(ctx)) = SelectionsOf(ctx)
         /\ Jumped(GoForward(ctx)) \in J
<1> DEFINE n == ctx.m_current + 1
<1>1. Len(ctx.m_jumps) \in Nat /\ ctx.m_current \in Nat
  BY SoundIs DEF ContextOf
<1>2. n \in 0 .. Len(ctx.m_jumps) - 1
  BY <1>1 DEF HasForward
<1>3. GoForward(ctx) = [ctx EXCEPT !.m_current = n]
  BY DEF GoForward
<1> HIDE DEF n
<1> QED
  BY <1>2, <1>3, JumpIsSound

LEMMA GoBackwardIsSound ==
  ASSUME NEW S, NEW J, NEW ctx \in ContextOf(S, J), Sound(ctx), SelectionsOf(ctx) \in J,
         HasBackward(ctx)
  PROVE  /\ GoBackward(ctx) \in ContextOf(S, J) /\ Sound(GoBackward(ctx))
         /\ SameHistory(GoBackward(ctx), ctx)
         /\ SelectionsOf(GoBackward(ctx)) = SelectionsOf(ctx)
         /\ Jumped(GoBackward(ctx)) \in J
<1> DEFINE mid == PushedBefore(ctx)
           n == mid.m_current - Steps(ctx)
<1>1. /\ mid \in ContextOf(S, J) /\ Sound(mid) /\ SameHistory(mid, ctx)
      /\ SelectionsOf(mid) = SelectionsOf(ctx)
  BY PushedBeforeIsSound
<1>2. GoBackward(ctx) = [mid EXCEPT !.m_current = n]
  <2>1. GoBackward(ctx) = [mid EXCEPT !.m_current = mid.m_current - Steps(ctx)]
    BY DEF GoBackward
  <2> QED
    BY <2>1
<1>3. mid.m_current >= Steps(ctx) /\ Steps(ctx) \in {1, 2}
  BY DEF HasBackward, Steps
<1> HIDE DEF mid
<1>4. n \in 0 .. Len(mid.m_jumps) - 1
  <2>1. mid.m_current \in 0 .. Len(mid.m_jumps) /\ Len(mid.m_jumps) \in Nat
    BY <1>1, SoundIs
  <2> QED
    BY <1>3, <2>1
<1> HIDE DEF n
<1> DEFINE new == GoBackward(ctx)
<1>5. /\ new \in ContextOf(S, J) /\ Sound(new) /\ SameHistory(new, mid)
      /\ SelectionsOf(new) = SelectionsOf(mid)
      /\ Jumped(new) \in J
  BY <1>1, <1>2, <1>4, JumpIsSound
<1> HIDE DEF new
<1>6. SameHistory(new, ctx)
  BY <1>1, <1>5 DEF SameHistory
<1> QED
  BY <1>1, <1>5, <1>6 DEF new

(* The jumps that stay are those to other buffers.                          *)
OutOf(S, buffer) == {s \in S : s.buffer # buffer}

LEMMA ForgetJumpsIsSound ==
  ASSUME NEW S, NEW J, NEW ctx \in ContextOf(S, J), Sound(ctx), NEW buffer
  PROVE  /\ ForgetJumps(ctx, buffer) \in ContextOf(S, OutOf(J, buffer))
         /\ Sound(ForgetJumps(ctx, buffer)) /\ SameHistory(ForgetJumps(ctx, buffer), ctx)
         /\ SelectionsOf(ForgetJumps(ctx, buffer)) = SelectionsOf(ctx)
<1> DEFINE js == ctx.m_jumps
           at == ctx.m_current
           P == JumpsOutOf(ctx, buffer)
           kept == Kept(js, P)
           current == IF at < Len(ctx.m_jumps) /\ at + 1 \notin P
                      THEN Cardinality(P) ELSE Cardinality(UpTo(P, at))
           new == ForgetJumps(ctx, buffer)
           K == OutOf(J, buffer)
<1>1. js \in Seq(J) /\ Len(js) \in Nat /\ at \in Nat /\ DOMAIN js = 1 .. Len(js)
      /\ \A i \in 1 .. Len(js) : js[i] \in J
  BY SoundIs DEF ContextOf
<1>2. P \in SUBSET (1 .. Len(js)) /\ \A i \in P : js[i] \in K
  BY <1>1 DEF JumpsOutOf, OutOf
<1>3. new = [ctx EXCEPT !.m_jumps = kept, !.m_current = current]
  BY DEF ForgetJumps, UpTo
<1> HIDE DEF P, js, new
<1>4. /\ kept \in Seq(J) /\ Len(kept) = Cardinality(P) /\ Cardinality(P) \in 0 .. Len(js)
      /\ \A k \in 1 .. Cardinality(P) : \E i \in P : kept[k] = js[i]
  BY <1>1, <1>2, KeptIs
<1> HIDE DEF kept, K
<1>5. kept \in Seq(K)
  <2>1. Len(kept) \in Nat /\ kept \in [1 .. Len(kept) -> J]
    BY <1>4, LenProperties
  <2>2. \A k \in 1 .. Len(kept) : kept[k] \in K
    BY <1>2, <1>4
  <2>3. kept \in [1 .. Len(kept) -> K]
    BY <2>1, <2>2
  <2> QED
    BY <2>1, <2>3, SeqDef
<1>6. current \in 0 .. Len(kept)
  <2>1. Cardinality(UpTo(P, at)) \in 0 .. Cardinality(P) /\ Cardinality(P) \in Nat
    <3> DEFINE n == Len(js)
    <3>1. n \in Nat /\ P \in SUBSET (1 .. n)
      BY <1>1, <1>2
    <3> HIDE DEF n
    <3>2. \A x : Cardinality(UpTo(P, x)) \in 0 .. Cardinality(P)
      BY <3>1, UpToIs
    <3> QED
      BY <1>1, <1>4, <3>2
  <2> QED
    BY <1>4, <2>1
<1> HIDE DEF current
<1>7. Len(kept) \in Nat /\ current \in Nat
  <2>1. Len(kept) \in Nat
    BY <1>5, LenProperties
  <2> QED
    BY <1>6, <2>1
<1>8. /\ new \in ContextOf(S, K) /\ SameHistory(new, ctx)
      /\ new.m_jumps = kept /\ new.m_current = current
  BY <1>3, <1>5, <1>7 DEF ContextOf, SameHistory
<1>9. new.m_current \in 0 .. Len(new.m_jumps)
  BY <1>6, <1>8
<1>10. Sound(new) /\ SelectionsOf(new) = SelectionsOf(ctx)
  BY <1>8, <1>9, OtherJumpsAreSound
<1> QED
  BY <1>8, <1>10 DEF new, K

LEMMA LastBuffersAre ==
  ASSUME NEW S, NEW J, NEW ctx \in ContextOf(S, J), Sound(ctx), NEW b \in LastBuffers(ctx)
  PROVE  \E j \in J : j.buffer = b /\ b # BufferOf(ctx)
<1>1. PICK i \in OtherJumps(ctx) : b = ctx.m_jumps[i].buffer
  BY Zenon DEF LastBuffers
<1>2. i \in 1 .. Len(ctx.m_jumps) /\ b # BufferOf(ctx)
  BY <1>1, SoundIs DEF OtherJumps
<1>3. ctx.m_jumps[i] \in J
  BY <1>2, SoundIs
<1> QED
  BY <1>1, <1>2, <1>3

(* The history, and the selections that are changing.                       *)

SameJumps(ctx, before) == ctx.m_jumps = before.m_jumps /\ ctx.m_current = before.m_current

LEMMA OtherIdIsSound ==
  ASSUME NEW S, NEW J, NEW ctx \in ContextOf(S, J), Sound(ctx),
         NEW new \in ContextOf(S, J), SameJumps(new, ctx),
         new.m_history = ctx.m_history, IdIsSound(new)
  PROVE  Sound(new)
<1>1. /\ \A i \in 1 .. Len(ctx.m_history) : NodeIsSound(ctx, i)
      /\ ctx.m_current \in 0 .. Len(ctx.m_jumps)
  BY SoundIs
<1>2. \A i \in 1 .. Len(ctx.m_history) : NodeIsSound(new, i)
  BY <1>1 DEF NodeIsSound
<1>3. /\ \A i \in 1 .. Len(new.m_history) : NodeIsSound(new, i)
      /\ IdIsSound(new) /\ new.m_current \in 0 .. Len(new.m_jumps)
  BY <1>1, <1>2 DEF SameJumps
<1> QED
  BY <1>3, SoundIs

LEMMA BeginEditionIsSound ==
  ASSUME NEW S, NEW J, NEW ctx \in ContextOf(S, J), Sound(ctx)
  PROVE  /\ BeginEdition(ctx) \in ContextOf(S, J) /\ Sound(BeginEdition(ctx))
         /\ SameJumps(BeginEdition(ctx), ctx)
         /\ SelectionsOf(BeginEdition(ctx)) = SelectionsOf(ctx)
         /\ BeginEdition(ctx).m_in_edition = ctx.m_in_edition + 1
<1> DEFINE new == BeginEdition(ctx)
           staging == IF ctx.m_in_edition > 0 THEN ctx.m_staging
                      ELSE [sel |-> SelectionsOf(ctx), parent |-> ctx.m_history_id]
<1>1. IdIsSound(ctx) /\ ctx.m_in_edition \in Nat /\ ctx.m_history_id \in Nat
  BY SoundIs DEF ContextOf
<1>2. new = [ctx EXCEPT !.m_in_edition = ctx.m_in_edition + 1, !.m_staging = staging]
  BY DEF BeginEdition
<1>3. /\ staging \in [sel : S, parent : Nat] /\ staging.sel = SelectionsOf(ctx)
      /\ staging.parent \in 0 .. Len(ctx.m_history)
  <2>1. CASE ctx.m_in_edition > 0
    <3>1. Staged(ctx)
      BY <1>1, <2>1 DEF IdIsSound
    <3> QED
      BY <1>1, <2>1, <3>1, SelectionsAre DEF IdIsSound
  <2>2. CASE ~(ctx.m_in_edition > 0)
    <3>1. ctx.m_history_id \in 0 .. Len(ctx.m_history)
      BY <1>1 DEF IdIsSound
    <3> QED
      BY <1>1, <2>2, <3>1, SelectionsAre
  <2> QED
    BY <2>1, <2>2
<1>4. staging # Unstaged
  <2>1. Unstaged.parent = -1 /\ staging.parent \in Nat
    BY <1>3 DEF Unstaged
  <2> HIDE DEF staging
  <2> QED
    BY <2>1
<1> HIDE DEF staging, new
<1>5. /\ new \in ContextOf(S, J) /\ new.m_staging = staging
      /\ new.m_in_edition = ctx.m_in_edition + 1 /\ new.m_history = ctx.m_history
      /\ new.m_history_id = ctx.m_history_id /\ SameJumps(new, ctx)
  <2>1. staging \in StagingOf(S) /\ ctx.m_in_edition + 1 \in Nat
    BY <1>1, <1>3 DEF StagingOf
  <2> QED
    BY <1>2, <2>1 DEF ContextOf, SameJumps
<1>6. Staged(new) /\ SelectionsOf(new) = SelectionsOf(ctx)
  BY <1>3, <1>4, <1>5 DEF Staged, SelectionsOf
<1>7. IdIsSound(new)
  BY <1>1, <1>3, <1>5, <1>6 DEF IdIsSound
<1>8. Sound(new)
  BY <1>5, <1>7, OtherIdIsSound
<1> QED
  BY <1>5, <1>6, <1>8 DEF new

LEMMA WriteIsSound ==
  ASSUME NEW S, NEW J, NEW ctx \in ContextOf(S, J), Sound(ctx), NEW sel \in S
  PROVE  /\ Write(ctx, sel) \in ContextOf(S, J) /\ Sound(Write(ctx, sel))
         /\ SameJumps(Write(ctx, sel), ctx)
         /\ SelectionsOf(Write(ctx, sel)) = sel
         /\ Write(ctx, sel).m_in_edition = ctx.m_in_edition
<1> DEFINE new == Write(ctx, sel)
<1>1. IdIsSound(ctx) /\ ctx.m_in_edition \in Nat /\ ctx.m_history_id \in Nat
  BY SoundIs DEF ContextOf
<1>2. CASE Staged(ctx)
  <2> DEFINE staging == [ctx.m_staging EXCEPT !.sel = sel]
  <2>1. new = [ctx EXCEPT !.m_staging = staging]
    BY <1>2 DEF Write
  <2>2. /\ staging \in [sel : S, parent : Nat] /\ staging.sel = sel
        /\ staging.parent = ctx.m_staging.parent
    BY <1>2, SelectionsAre
  <2>3. staging # Unstaged
    <3>1. Unstaged.parent = -1 /\ staging.parent \in Nat
      BY <2>2 DEF Unstaged
    <3> HIDE DEF staging
    <3> QED
      BY <3>1
  <2> HIDE DEF staging, new
  <2>4. /\ new \in ContextOf(S, J) /\ new.m_staging = staging
        /\ new.m_in_edition = ctx.m_in_edition /\ new.m_history = ctx.m_history
        /\ new.m_history_id = ctx.m_history_id /\ SameJumps(new, ctx)
    BY <1>1, <2>1, <2>2 DEF ContextOf, StagingOf, SameJumps
  <2>5. Staged(new) /\ SelectionsOf(new) = sel
    BY <2>2, <2>3, <2>4 DEF Staged, SelectionsOf
  <2>6. IdIsSound(new)
    BY <1>1, <1>2, <2>2, <2>4, <2>5 DEF IdIsSound
  <2>7. Sound(new)
    BY <2>4, <2>6, OtherIdIsSound
  <2> QED
    BY <2>4, <2>5, <2>7 DEF new
<1>3. CASE ~Staged(ctx)
  <2> DEFINE id == ctx.m_history_id
             node == [ctx.m_history[id] EXCEPT !.sel = sel]
             nodes == [ctx.m_history EXCEPT ![id] = node]
  <2>1. id \in 1 .. Len(ctx.m_history) /\ ctx.m_history[id] \in NodeOf(S)
    BY <1>3, SelectionsAre, SoundIs
  <2>2. new = [ctx EXCEPT !.m_history = nodes]
    BY <1>3 DEF Write
  <2>3. /\ node \in NodeOf(S) /\ node.sel = sel /\ node.parent = ctx.m_history[id].parent
        /\ node.redo_child = ctx.m_history[id].redo_child
    BY <2>1 DEF NodeOf
  <2>4. ctx.m_history \in Seq(NodeOf(S))
    BY DEF ContextOf
  <2> HIDE DEF node, id
  <2>5. /\ nodes \in Seq(NodeOf(S)) /\ Len(nodes) = Len(ctx.m_history)
        /\ nodes[id] = node
        /\ \A i \in 1 .. Len(ctx.m_history) : i # id => nodes[i] = ctx.m_history[i]
    <3>1. DOMAIN ctx.m_history = 1 .. Len(ctx.m_history)
      BY SoundIs
    <3> QED
      BY <2>1, <2>3, <2>4, <3>1, ExceptSeq
  <2> HIDE DEF nodes, new
  <2>6. /\ new \in ContextOf(S, J) /\ new.m_staging = ctx.m_staging
        /\ new.m_in_edition = ctx.m_in_edition /\ new.m_history = nodes
        /\ new.m_history_id = id /\ SameJumps(new, ctx)
    BY <1>1, <2>2, <2>5 DEF ContextOf, SameJumps, id
  <2>7. ~Staged(new) /\ SelectionsOf(new) = sel
    BY <1>3, <2>3, <2>5, <2>6 DEF Staged, SelectionsOf
  <2>8. \A i \in 1 .. Len(ctx.m_history) : /\ nodes[i].parent = ctx.m_history[i].parent
                                           /\ nodes[i].redo_child = ctx.m_history[i].redo_child
    BY <2>3, <2>5
  <2>9. \A i \in 1 .. Len(ctx.m_history) : NodeIsSound(new, i)
    <3> TAKE i \in 1 .. Len(ctx.m_history)
    <3>1. NodeIsSound(ctx, i) /\ ctx.m_history[i] \in NodeOf(S) /\ Len(ctx.m_history) \in Nat
      BY SoundIs
    <3> DEFINE r == ctx.m_history[i].redo_child
    <3>2. r # Invalid => r \in i + 1 .. Len(ctx.m_history) /\ r \in 1 .. Len(ctx.m_history)
      BY <3>1 DEF NodeIsSound, NodeOf
    <3> QED
      BY <2>5, <2>6, <2>8, <3>1, <3>2 DEF NodeIsSound
  <2>10. IdIsSound(new)
    BY <1>1, <1>3, <2>5, <2>6, <2>7 DEF IdIsSound, id
  <2>11. ctx.m_current \in 0 .. Len(ctx.m_jumps)
    BY SoundIs
  <2>12. Sound(new)
    <3>1. /\ \A i \in 1 .. Len(new.m_history) : NodeIsSound(new, i)
          /\ new.m_current \in 0 .. Len(new.m_jumps)
      BY <2>5, <2>6, <2>9, <2>11 DEF SameJumps
    <3> QED
      BY <2>6, <2>10, <3>1, SoundIs
  <2> QED
    BY <2>6, <2>7, <2>12 DEF new
<1> QED
  BY <1>2, <1>3

LEMMA EndEditionIsSound ==
  ASSUME NEW S, NEW J, NEW ctx \in ContextOf(S, J), Sound(ctx), ctx.m_in_edition > 0
  PROVE  /\ EndEdition(ctx) \in ContextOf(S, J) /\ Sound(EndEdition(ctx))
         /\ SameJumps(EndEdition(ctx), ctx)
         /\ SelectionsOf(EndEdition(ctx)) = SelectionsOf(ctx)
         /\ EndEdition(ctx).m_in_edition = ctx.m_in_edition - 1
<1> DEFINE new == EndEdition(ctx)
           staging == ctx.m_staging
           h == ctx.m_history
           id == ctx.m_history_id
           none == [ctx EXCEPT !.m_in_edition = 0]
<1>1. IdIsSound(ctx) /\ ctx.m_in_edition \in Nat /\ id \in Nat /\ h \in Seq(NodeOf(S))
  BY SoundIs DEF ContextOf
<1>2. /\ Staged(ctx) /\ staging \in [sel : S, parent : Nat] /\ SelectionsOf(ctx) = staging.sel
      /\ staging.parent \in 0 .. Len(h) /\ id \in 0 .. Len(h)
  BY <1>1, SelectionsAre DEF IdIsSound
<1>3. /\ \A i \in 1 .. Len(h) : NodeIsSound(ctx, i) /\ h[i] \in NodeOf(S)
      /\ ctx.m_current \in 0 .. Len(ctx.m_jumps) /\ Len(h) \in Nat
  BY SoundIs
<1>4. CASE ctx.m_in_edition # 1
  <2>1. new = [ctx EXCEPT !.m_in_edition = ctx.m_in_edition - 1]
    BY <1>4 DEF EndEdition, EndEditions
  <2>2. ctx.m_in_edition - 1 \in Nat /\ ctx.m_in_edition - 1 > 0
    BY <1>1, <1>4
  <2> HIDE DEF new
  <2>3. /\ new \in ContextOf(S, J) /\ new.m_staging = staging
        /\ new.m_in_edition = ctx.m_in_edition - 1 /\ new.m_history = ctx.m_history
        /\ new.m_history_id = id /\ SameJumps(new, ctx)
    BY <2>1, <2>2 DEF ContextOf, SameJumps
  <2>4. Staged(new) /\ SelectionsOf(new) = SelectionsOf(ctx)
    BY <1>2, <2>3 DEF Staged, SelectionsOf
  <2>5. IdIsSound(new)
    BY <1>1, <1>2, <2>2, <2>3, <2>4 DEF IdIsSound
  <2>6. Sound(new)
    BY <2>3, <2>5, OtherIdIsSound
  <2> QED
    BY <2>3, <2>4, <2>6 DEF new
<1>5. CASE ctx.m_in_edition = 1 /\ Unchanged(none)
  <2>0. none.m_history = h /\ none.m_history_id = id /\ none.m_staging = staging
    BY DEF ContextOf
  <2>1. new = [ctx EXCEPT !.m_in_edition = 0, !.m_staging = Unstaged]
    <3>1. new = [none EXCEPT !.m_staging = Unstaged]
      BY <1>5 DEF EndEdition, EndEditions, Close
    <3> QED
      BY <3>1 DEF ContextOf
  <2>2. id # Invalid /\ h[id].sel = staging.sel
    BY <1>5, <2>0 DEF Unchanged
  <2> HIDE DEF new, none
  <2>3. /\ new \in ContextOf(S, J) /\ new.m_staging = Unstaged
        /\ new.m_in_edition = 0 /\ new.m_history = ctx.m_history
        /\ new.m_history_id = id /\ SameJumps(new, ctx)
    BY <2>1 DEF ContextOf, SameJumps, StagingOf
  <2>4. ~Staged(new) /\ SelectionsOf(new) = SelectionsOf(ctx)
    BY <1>2, <2>2, <2>3 DEF Staged, SelectionsOf
  <2>5. IdIsSound(new)
    BY <1>1, <1>2, <2>2, <2>3, <2>4 DEF IdIsSound
  <2>6. Sound(new)
    BY <2>3, <2>5, OtherIdIsSound
  <2> QED
    BY <1>5, <2>3, <2>4, <2>6 DEF new
<1>6. CASE ctx.m_in_edition = 1 /\ ~Unchanged(none)
  <2> DEFINE node == Node(staging.sel, staging.parent)
             nodes == Append(h, node)
             n == Len(h) + 1
  <2>0. none.m_history = h /\ none.m_history_id = id /\ none.m_staging = staging
    BY DEF ContextOf
  <2>1. new = [ctx EXCEPT !.m_in_edition = 0, !.m_staging = Unstaged,
                          !.m_history = nodes, !.m_history_id = n]
    <3>1. new = [none EXCEPT !.m_history = nodes, !.m_history_id = n, !.m_staging = Unstaged]
      BY <1>6, <2>0 DEF EndEdition, EndEditions, Close
    <3> QED
      BY <3>1 DEF ContextOf
  <2>2. /\ node \in NodeOf(S) /\ node.sel = staging.sel /\ node.parent = staging.parent
        /\ node.redo_child = Invalid
    BY <1>2 DEF Node, NodeOf, Invalid
  <2> HIDE DEF node
  <2>3. /\ nodes \in Seq(NodeOf(S)) /\ Len(nodes) = n /\ nodes[n] = node
        /\ \A i \in 1 .. Len(h) : nodes[i] = h[i]
    BY <1>1, <2>2, AppendProperties
  <2>4. n \in Nat /\ n # Invalid
    BY <1>3 DEF Invalid
  <2> HIDE DEF new, none, nodes
  <2>5. /\ new \in ContextOf(S, J) /\ new.m_staging = Unstaged
        /\ new.m_in_edition = 0 /\ new.m_history = nodes
        /\ new.m_history_id = n /\ SameJumps(new, ctx)
    BY <2>1, <2>3, <2>4 DEF ContextOf, SameJumps, StagingOf
  <2>6. ~Staged(new) /\ SelectionsOf(new) = SelectionsOf(ctx)
    BY <1>2, <2>2, <2>3, <2>5 DEF Staged, SelectionsOf
  <2>7. IdIsSound(new)
    BY <1>3, <2>3, <2>4, <2>5, <2>6 DEF IdIsSound
  <2>8. \A i \in 1 .. n : NodeIsSound(new, i)
    <3> TAKE i \in 1 .. n
    <3>1. CASE i = n
      BY <1>2, <1>3, <2>2, <2>3, <2>5, <3>1 DEF NodeIsSound
    <3>2. CASE i # n
      <4>1. i \in 1 .. Len(h) /\ NodeIsSound(ctx, i) /\ nodes[i] = h[i] /\ h[i] \in NodeOf(S)
        BY <1>3, <2>3, <3>2
      <4> DEFINE r == h[i].redo_child
      <4>2. r # Invalid => r \in i + 1 .. Len(h) /\ r \in 1 .. Len(h) /\ r \in i + 1 .. n
        BY <1>3, <4>1 DEF NodeIsSound, NodeOf
      <4>3. r # Invalid => nodes[r] = h[r]
        BY <2>3, <4>2
      <4> QED
        BY <2>3, <2>5, <4>1, <4>2, <4>3 DEF NodeIsSound
    <3> QED
      BY <3>1, <3>2
  <2>9. Sound(new)
    <3>1. /\ \A i \in 1 .. Len(new.m_history) : NodeIsSound(new, i)
          /\ new.m_current \in 0 .. Len(new.m_jumps)
      BY <1>3, <2>3, <2>5, <2>8 DEF SameJumps
    <3> QED
      BY <2>5, <2>7, <3>1, SoundIs
  <2> QED
    BY <1>6, <2>5, <2>6, <2>9 DEF new
<1> QED
  BY <1>4, <1>5, <1>6

LEMMA InEditionIsSound ==
  ASSUME NEW S, NEW J, NEW ctx \in ContextOf(S, J), Sound(ctx), NEW sel \in S
  PROVE  /\ InEdition(ctx, sel) \in ContextOf(S, J) /\ Sound(InEdition(ctx, sel))
         /\ SelectionsOf(InEdition(ctx, sel)) = sel
         /\ InEdition(ctx, sel).m_in_edition = ctx.m_in_edition
<1> DEFINE a == BeginEdition(ctx)
           b == Write(a, sel)
           d == EndEdition(b)
<1>1. a \in ContextOf(S, J) /\ Sound(a) /\ a.m_in_edition = ctx.m_in_edition + 1
  BY BeginEditionIsSound
<1> HIDE DEF a
<1>2. /\ b \in ContextOf(S, J) /\ Sound(b) /\ SelectionsOf(b) = sel
      /\ b.m_in_edition = a.m_in_edition
  BY <1>1, WriteIsSound
<1> HIDE DEF b
<1>3. ctx.m_in_edition \in Nat
  BY DEF ContextOf
<1>4. b.m_in_edition > 0 /\ b.m_in_edition - 1 = ctx.m_in_edition
  BY <1>1, <1>2, <1>3
<1>5. /\ d \in ContextOf(S, J) /\ Sound(d) /\ SelectionsOf(d) = SelectionsOf(b)
      /\ d.m_in_edition = b.m_in_edition - 1
  BY <1>2, <1>4, EndEditionIsSound
<1>6. InEdition(ctx, sel) = d
  BY DEF InEdition, a, b
<1> QED
  BY <1>2, <1>4, <1>5, <1>6

LEMMA NewContextIsSound ==
  ASSUME NEW S, NEW J, NEW sel \in S
  PROVE  /\ NewContext(sel) \in ContextOf(S, J) /\ Sound(NewContext(sel))
         /\ SelectionsOf(NewContext(sel)) = sel /\ NewContext(sel).m_in_edition = 0
<1> DEFINE new == NewContext(sel)
           node == Node(sel, Invalid)
           nodes == <<node>>
           none == <<>>
<1>1. /\ node \in NodeOf(S) /\ node.sel = sel /\ node.parent = 0 /\ node.redo_child = 0
  BY DEF Node, NodeOf, Invalid
<1> HIDE DEF node
<1>2. nodes \in Seq(NodeOf(S)) /\ Len(nodes) = 1 /\ nodes[1] = node
  BY <1>1
<1>3. none \in Seq(J) /\ Len(none) = 0
  OBVIOUS
<1>4. new = [m_history |-> nodes, m_history_id |-> 1, m_staging |-> Unstaged,
             m_in_edition |-> 0, m_jumps |-> none, m_current |-> 0]
  BY DEF NewContext, node
<1> HIDE DEF new, nodes, none
<1>5. /\ new \in ContextOf(S, J) /\ new.m_staging = Unstaged /\ new.m_in_edition = 0
      /\ new.m_history = nodes /\ new.m_history_id = 1
      /\ new.m_jumps = none /\ new.m_current = 0
  BY <1>2, <1>3, <1>4 DEF ContextOf, StagingOf
<1>6. ~Staged(new) /\ SelectionsOf(new) = sel
  BY <1>1, <1>2, <1>5 DEF Staged, SelectionsOf
<1>7. IdIsSound(new)
  <2>0. Len(new.m_history) = 1 /\ new.m_history_id = 1
    BY <1>2, <1>5
  <2>1. new.m_history_id \in 0 .. Len(new.m_history) /\ new.m_history_id # Invalid
    BY <2>0 DEF Invalid
  <2>2. ~Staged(new) /\ ~(new.m_in_edition > 0)
    BY <1>5, <1>6
  <2> QED
    BY <2>1, <2>2 DEF IdIsSound
<1>8. \A i \in 1 .. Len(nodes) : NodeIsSound(new, i)
  <2> TAKE i \in 1 .. Len(nodes)
  <2>1. i = 1
    BY <1>2
  <2> QED
    BY <1>1, <1>2, <1>5, <2>1 DEF NodeIsSound, Invalid
<1>9. new.m_current \in 0 .. Len(new.m_jumps)
  BY <1>3, <1>5
<1>10. Sound(new)
  <2>1. \A i \in 1 .. Len(new.m_history) : NodeIsSound(new, i)
    BY <1>5, <1>8
  <2> QED
    BY <1>5, <1>7, <1>9, <2>1, SoundIs
<1> QED
  BY <1>5, <1>6, <1>10 DEF new

LEMMA SelectNextIsSound ==
  ASSUME NEW S, NEW J, NEW ctx \in ContextOf(S, J), Sound(ctx), ctx.m_in_edition = 0,
         NEW backward \in BOOLEAN, NEW next, next = NextNode(ctx, backward), next # Invalid
  PROVE  /\ SelectNext(ctx, next, backward) \in ContextOf(S, J)
         /\ Sound(SelectNext(ctx, next, backward))
         /\ SelectionsOf(SelectNext(ctx, next, backward)) = ctx.m_history[next].sel
         /\ SelectNext(ctx, next, backward).m_in_edition = 0
         /\ next \in 1 .. Len(ctx.m_history)
<1> DEFINE h == ctx.m_history
           id == ctx.m_history_id
           redo == IF backward THEN id ELSE h[next].redo_child
           node == [h[next] EXCEPT !.redo_child = redo]
           nodes == [h EXCEPT ![next] = node]
           new == SelectNext(ctx, next, backward)
<1>1. IdIsSound(ctx) /\ id \in Nat /\ h \in Seq(NodeOf(S))
  BY SoundIs DEF ContextOf
<1>2. ~Staged(ctx) /\ id \in 1 .. Len(h)
  <2>1. ~(ctx.m_in_edition > 0)
    OBVIOUS
  <2>2. ~Staged(ctx)
    BY <1>1, <2>1 DEF IdIsSound
  <2> QED
    BY <2>2, SelectionsAre
<1>3. /\ \A i \in 1 .. Len(h) : NodeIsSound(ctx, i) /\ h[i] \in NodeOf(S)
      /\ ctx.m_current \in 0 .. Len(ctx.m_jumps) /\ Len(h) \in Nat /\ DOMAIN h = 1 .. Len(h)
  BY SoundIs
<1>4. NodeIsSound(ctx, id) /\ h[id] \in NodeOf(S)
  BY <1>2, <1>3
<1>5. /\ next \in 1 .. Len(h)
      /\ backward => next = h[id].parent /\ id \in next + 1 .. Len(h)
  <2>1. CASE backward
    <3>1. next = h[id].parent
      BY <2>1 DEF NextNode
    <3>2. next \in 0 .. id - 1 /\ next # 0
      BY <1>4, <3>1 DEF NodeIsSound, Invalid
    <3>3. Len(h) \in Nat
      BY <1>3
    <3> HIDE DEF h, id
    <3>4. next \in 1 .. Len(h) /\ id \in next + 1 .. Len(h)
      BY <1>2, <3>2, <3>3
    <3> QED
      BY <3>1, <3>4
  <2>2. CASE ~backward
    <3>1. next = h[id].redo_child
      BY <2>2 DEF NextNode
    <3>2. next \in id + 1 .. Len(h)
      BY <1>4, <3>1 DEF NodeIsSound, Invalid
    <3>3. Len(h) \in Nat
      BY <1>3
    <3> HIDE DEF h, id
    <3> QED
      BY <1>2, <2>2, <3>2, <3>3
  <2> QED
    BY <2>1, <2>2
<1>6. h[next] \in NodeOf(S)
  BY <1>3, <1>5
<1>7. redo \in Nat
  BY <1>1, <1>6 DEF NodeOf
<1>8. new = [ctx EXCEPT !.m_history_id = next, !.m_history = nodes]
  BY <1>1, <1>3, <1>5 DEF SelectNext, ContextOf
<1> HIDE DEF redo
<1>9. /\ node \in NodeOf(S) /\ node.sel = h[next].sel /\ node.parent = h[next].parent
      /\ node.redo_child = redo
  BY <1>6, <1>7 DEF NodeOf
<1> HIDE DEF node
<1>10. /\ nodes \in Seq(NodeOf(S)) /\ Len(nodes) = Len(h) /\ nodes[next] = node
       /\ \A i \in 1 .. Len(h) : i # next => nodes[i] = h[i]
  BY <1>1, <1>3, <1>5, <1>9, ExceptSeq
<1> HIDE DEF nodes, new
<1>11. next \in Nat
  BY <1>3, <1>5
<1>12. /\ new \in ContextOf(S, J) /\ new.m_staging = ctx.m_staging
       /\ new.m_in_edition = 0 /\ new.m_history = nodes
       /\ new.m_history_id = next /\ SameJumps(new, ctx)
  BY <1>8, <1>10, <1>11 DEF ContextOf, SameJumps
<1>13. ~Staged(new) /\ SelectionsOf(new) = h[next].sel
  BY <1>2, <1>9, <1>10, <1>12 DEF Staged, SelectionsOf
<1>14. IdIsSound(new)
  <2>1. next \in 0 .. Len(nodes) /\ ~(new.m_in_edition > 0)
    BY <1>3, <1>5, <1>10, <1>12
  <2> QED
    BY <1>12, <1>13, <2>1 DEF IdIsSound
<1>15. \A i \in 1 .. Len(h) : nodes[i].parent = h[i].parent
  BY <1>9, <1>10
<1>16. ASSUME NEW i \in 1 .. Len(h)
       PROVE  NodeIsSound(new, i)
  <2> DEFINE r == nodes[i].redo_child
  <2>1. NodeIsSound(ctx, i) /\ h[i] \in NodeOf(S) /\ nodes[i].parent = h[i].parent
    BY <1>3, <1>15
  <2>2. ASSUME r # Invalid
        PROVE  r \in i + 1 .. Len(h) /\ h[r].parent = i
    <3>1. CASE i = next /\ backward
      <4>1. r = id
        BY <1>9, <1>10, <3>1 DEF redo
      <4> QED
        BY <1>5, <3>1, <4>1
    <3>2. CASE ~(i = next /\ backward)
      <4>1. r = h[i].redo_child
        BY <1>9, <1>10, <3>2 DEF redo
      <4> QED
        BY <2>1, <2>2, <4>1 DEF NodeIsSound
    <3> QED
      BY <3>1, <3>2
  <2>3. r # Invalid => r \in 1 .. Len(h) /\ nodes[r].parent = i
    <3> SUFFICES ASSUME r # Invalid PROVE r \in 1 .. Len(h) /\ nodes[r].parent = i
      OBVIOUS
    <3>1. r \in i + 1 .. Len(h) /\ h[r].parent = i
      BY <2>2
    <3>2. r \in 1 .. Len(h)
      BY <1>3, <3>1
    <3> QED
      BY <1>15, <3>1, <3>2
  <2> HIDE DEF r
  <2>4. /\ nodes[i].parent \in 0 .. i - 1
        /\ r # Invalid => r \in i + 1 .. Len(nodes) /\ nodes[r].parent = i
    BY <1>10, <2>1, <2>2, <2>3 DEF NodeIsSound
  <2> QED
    BY <1>12, <2>4 DEF NodeIsSound, r
<1>17. Sound(new)
  <2>1. /\ \A i \in 1 .. Len(new.m_history) : NodeIsSound(new, i)
        /\ new.m_current \in 0 .. Len(new.m_jumps)
    BY <1>3, <1>10, <1>12, <1>16 DEF SameJumps
  <2> QED
    BY <1>12, <1>14, <2>1, SoundIs
<1> QED
  BY <1>5, <1>12, <1>13, <1>17 DEF new

LEMMA NewIdIs ==
  ASSUME NEW S, NEW J, NEW ctx \in ContextOf(S, J), NEW buffer
  PROVE  LET P == NodesOutOf(ctx, buffer)
         IN  /\ P \in SUBSET (1 .. Len(ctx.m_history))
             /\ \A id \in P : NewId(ctx, buffer, id) = Rank(P, id) + 1
             /\ \A id : id \notin P => NewId(ctx, buffer, id) = 0
             /\ \A id : NewId(ctx, buffer, id) \in 0 .. Cardinality(P)
<1> DEFINE P == NodesOutOf(ctx, buffer)
           n == Len(ctx.m_history)
<1>1. P \in SUBSET (1 .. n) /\ n \in Nat
  BY SoundIs DEF NodesOutOf
<1>2. \A id : NewId(ctx, buffer, id) = IF id \notin P THEN 0 ELSE Cardinality(UpTo(P, id))
  BY DEF NewId, UpTo, Invalid
<1> HIDE DEF P, n
<1>3. /\ \A id \in P : Cardinality(UpTo(P, id)) = Rank(P, id) + 1
      /\ \A id : Cardinality(UpTo(P, id)) \in 0 .. Cardinality(P)
  BY <1>1, UpToIs
<1>4. Cardinality(P) \in Nat
  BY <1>1, FiniteOf
<1>5. \A id : NewId(ctx, buffer, id) \in 0 .. Cardinality(P)
  BY <1>2, <1>3, <1>4
<1> QED
  BY <1>1, <1>2, <1>3, <1>5 DEF P, n

LEMMA ForgetNodesIsSound ==
  ASSUME NEW S, NEW J, NEW ctx \in ContextOf(S, J), Sound(ctx), NEW buffer,
         BufferOf(ctx) # buffer
  PROVE  /\ ForgetNodes(ctx, buffer) \in ContextOf(OutOf(S, buffer), J)
         /\ Sound(ForgetNodes(ctx, buffer))
         /\ SelectionsOf(ForgetNodes(ctx, buffer)) = SelectionsOf(ctx)
         /\ ForgetNodes(ctx, buffer).m_in_edition = ctx.m_in_edition
<1> DEFINE h == ctx.m_history
           id == ctx.m_history_id
           P == NodesOutOf(ctx, buffer)
           m == Cardinality(P)
           Id(i) == NewId(ctx, buffer, i)
           kept == Kept(h, P)
           Of(node) == [node EXCEPT !.parent = Id(node.parent),
                                    !.redo_child = Id(node.redo_child)]
           nodes == [i \in DOMAIN kept |-> Of(kept[i])]
           staging == IF Staged(ctx)
                      THEN [ctx.m_staging EXCEPT !.parent = Id(ctx.m_staging.parent)]
                      ELSE ctx.m_staging
           new == ForgetNodes(ctx, buffer)
           K == OutOf(S, buffer)
<1>1. IdIsSound(ctx) /\ id \in Nat /\ h \in Seq(NodeOf(S)) /\ ctx.m_in_edition \in Nat
  BY SoundIs DEF ContextOf
<1>2. /\ \A i \in 1 .. Len(h) : NodeIsSound(ctx, i) /\ h[i] \in NodeOf(S)
      /\ ctx.m_current \in 0 .. Len(ctx.m_jumps) /\ Len(h) \in Nat /\ DOMAIN h = 1 .. Len(h)
  BY SoundIs
<1>3. /\ P \in SUBSET (1 .. Len(h)) /\ \A i \in P : Id(i) = Rank(P, i) + 1
      /\ \A i : i \notin P => Id(i) = 0
      /\ \A i : Id(i) \in 0 .. m
  BY NewIdIs
<1>4. \A i \in 1 .. Len(h) : i \in P <=> h[i].sel.buffer # buffer
  BY <1>2 DEF NodesOutOf
<1>5. /\ SelectionsOf(ctx) \in S /\ SelectionsOf(ctx) \in K
      /\ ~Staged(ctx) => id \in P /\ SelectionsOf(ctx) = h[id].sel
      /\ Staged(ctx) => /\ ctx.m_staging \in [sel : S, parent : Nat]
                        /\ SelectionsOf(ctx) = ctx.m_staging.sel
  <2>1. SelectionsOf(ctx) \in K
    BY SelectionsAre DEF OutOf, BufferOf
  <2>2. ~Staged(ctx) => id \in P
    <3>1. ~Staged(ctx) => id \in 1 .. Len(h) /\ h[id].sel = SelectionsOf(ctx)
      BY SelectionsAre
    <3> HIDE DEF P
    <3> QED
      BY <1>4, <3>1 DEF BufferOf
  <2> HIDE DEF P, K
  <2> QED
    BY <2>1, <2>2, SelectionsAre
<1>6. new = [ctx EXCEPT !.m_history = nodes, !.m_history_id = Id(id), !.m_staging = staging]
  <2> DEFINE old == [i \in DOMAIN kept |-> Renumbered(ctx, buffer, kept[i])]
  <2>1. new = [ctx EXCEPT !.m_history = old, !.m_history_id = Id(id), !.m_staging = staging]
    BY DEF ForgetNodes
  <2>2. \A i \in DOMAIN kept : Renumbered(ctx, buffer, kept[i]) = Of(kept[i])
    BY Zenon DEF Renumbered
  <2>3. old = nodes
    <3> HIDE DEF kept, Of
    <3> QED
      BY <2>2
  <2> QED
    BY <2>1, <2>3, Zenon
<1> HIDE DEF P, Id, new, K, h
<1>7. /\ kept \in Seq(NodeOf(S)) /\ Len(kept) = m /\ m \in 0 .. Len(h)
      /\ \A k \in 1 .. m : \E i \in P : kept[k] = h[i] /\ Rank(P, i) = k - 1
      /\ \A i \in P : /\ Rank(P, i) \in 0 .. m - 1
                      /\ kept[Rank(P, i) + 1] = h[i]
  <2> DEFINE T == NodeOf(S)
  <2>1. h \in Seq(T) /\ P \in SUBSET (1 .. Len(h))
    BY <1>1, <1>3
  <2> HIDE DEF T
  <2>2. /\ Kept(h, P) \in Seq(T) /\ Len(Kept(h, P)) = Cardinality(P)
        /\ Cardinality(P) \in 0 .. Len(h)
        /\ \A k \in 1 .. Cardinality(P) :
               \E i \in P : Kept(h, P)[k] = h[i] /\ Rank(P, i) = k - 1
        /\ \A i \in P : /\ Rank(P, i) \in 0 .. Cardinality(P) - 1
                        /\ Kept(h, P)[Rank(P, i) + 1] = h[i]
    BY <2>1, KeptIs
  <2> QED
    BY <2>2 DEF T
<1> HIDE DEF kept
<1>8. DOMAIN kept = 1 .. m /\ m \in Nat
  BY <1>2, <1>7, LenProperties
<1> HIDE DEF m
<1>9. ASSUME NEW k \in 1 .. m
      PROVE  \E i \in P : /\ Id(i) = k /\ h[i] \in NodeOf(S) /\ i \in 1 .. Len(h)
                          /\ nodes[k] = Of(h[i])
  <2>1. PICK i \in P : kept[k] = h[i] /\ Rank(P, i) = k - 1
    BY <1>7
  <2>2. Id(i) = k
    BY <1>3, <1>8, <2>1
  <2>3. nodes[k] = Of(h[i])
    BY <1>8, <2>1
  <2> QED
    BY <1>2, <1>3, <2>2, <2>3
<1>10. ASSUME NEW i \in P
       PROVE  Id(i) \in 1 .. m /\ nodes[Id(i)] = Of(h[i])
  <2>1. Id(i) \in 1 .. m /\ kept[Id(i)] = h[i]
    <3>1. Id(i) = Rank(P, i) + 1 /\ Rank(P, i) \in 0 .. m - 1 /\ kept[Rank(P, i) + 1] = h[i]
      BY <1>3, <1>7
    <3> QED
      BY <1>8, <3>1
  <2> QED
    BY <1>8, <2>1
<1>11. ASSUME NEW node \in NodeOf(S), node.sel.buffer # buffer
       PROVE  /\ Of(node) \in NodeOf(K) /\ Of(node).sel = node.sel
              /\ Of(node).parent = Id(node.parent) /\ Of(node).redo_child = Id(node.redo_child)
  <2>1. Id(node.parent) \in Nat /\ Id(node.redo_child) \in Nat
    BY <1>3, <1>8
  <2>2. node.sel \in K
    BY <1>11 DEF NodeOf, K, OutOf
  <2> QED
    BY <2>1, <2>2 DEF NodeOf
<1>12. DOMAIN nodes = 1 .. m /\ nodes = [k \in 1 .. m |-> nodes[k]]
  BY <1>8
<1> HIDE DEF nodes, Of
<1>13. nodes \in [1 .. m -> NodeOf(K)]
  <2>1. ASSUME NEW k \in 1 .. m PROVE nodes[k] \in NodeOf(K)
    <3>1. PICK i \in P : h[i] \in NodeOf(S) /\ i \in 1 .. Len(h) /\ nodes[k] = Of(h[i])
      BY <1>9
    <3> QED
      BY <1>4, <1>11, <3>1
  <2> QED
    BY <1>12, <2>1
<1>14. nodes \in Seq(NodeOf(K)) /\ Len(nodes) = m
  <2>1. nodes \in Seq(NodeOf(K))
    BY <1>8, <1>13, SeqDef
  <2>2. DOMAIN nodes = 1 .. Len(nodes) /\ Len(nodes) \in Nat
    BY <2>1, LenProperties
  <2> QED
    BY <1>8, <1>12, <2>1, <2>2
<1>15. /\ staging \in StagingOf(K) /\ (staging # Unstaged <=> Staged(ctx))
       /\ Staged(ctx) => staging.sel = ctx.m_staging.sel /\ staging.parent \in 0 .. m
  <2>1. CASE Staged(ctx)
    <3>1. Id(ctx.m_staging.parent) \in 0 .. m /\ Id(ctx.m_staging.parent) \in Nat
      BY <1>3, <1>8
    <3>2. /\ staging \in [sel : K, parent : Nat] /\ staging.sel = ctx.m_staging.sel
          /\ staging.parent \in 0 .. m
      BY <1>5, <2>1, <3>1
    <3>3. staging # Unstaged
      <4>1. Unstaged.parent = -1 /\ staging.parent \in Nat
        BY <3>2 DEF Unstaged
      <4> HIDE DEF staging
      <4> QED
        BY <4>1
    <3> HIDE DEF staging
    <3> QED
      BY <2>1, <3>2, <3>3 DEF StagingOf
  <2>2. CASE ~Staged(ctx)
    BY <2>2 DEF Staged, StagingOf
  <2> QED
    BY <2>1, <2>2
<1> HIDE DEF staging
<1>16. Id(id) \in 0 .. m /\ Id(id) \in Nat
  BY <1>3, <1>8
<1> HIDE DEF id
<1>17. /\ new \in ContextOf(K, J) /\ new.m_staging = staging
       /\ new.m_in_edition = ctx.m_in_edition /\ new.m_history = nodes
       /\ new.m_history_id = Id(id) /\ SameJumps(new, ctx)
  BY <1>6, <1>14, <1>15, <1>16 DEF ContextOf, SameJumps
<1>18. (Staged(new) <=> Staged(ctx)) /\ SelectionsOf(new) = SelectionsOf(ctx)
  <2>1. Staged(new) <=> Staged(ctx)
    BY <1>15, <1>17 DEF Staged
  <2>2. CASE Staged(ctx)
    <3>1. SelectionsOf(new) = staging.sel
      BY <1>17, <2>1, <2>2 DEF SelectionsOf
    <3> QED
      BY <1>5, <1>15, <2>1, <2>2, <3>1
  <2>3. CASE ~Staged(ctx)
    <3>1. SelectionsOf(new) = nodes[Id(id)].sel
      BY <1>17, <2>1, <2>3 DEF SelectionsOf
    <3>2. id \in P /\ SelectionsOf(ctx) = h[id].sel
      BY <1>5, <2>3
    <3>3. nodes[Id(id)] = Of(h[id])
      BY <1>10, <3>2
    <3>4. Of(h[id]).sel = h[id].sel
      <4>1. id \in 1 .. Len(h)
        BY <1>3, <3>2
      <4>2. h[id] \in NodeOf(S) /\ h[id].sel.buffer # buffer
        BY <1>2, <1>4, <3>2, <4>1
      <4> QED
        BY <1>11, <4>2
    <3> QED
      BY <2>1, <3>1, <3>2, <3>3, <3>4
  <2> QED
    BY <2>2, <2>3
<1>19. IdIsSound(new)
  <2>1. Id(id) = Invalid => Staged(ctx)
    <3>1. ~Staged(ctx) => Id(id) \in 1 .. m
      BY <1>5, <1>10
    <3> QED
      BY <1>8, <3>1 DEF Invalid
  <2>2. Staged(ctx) <=> ctx.m_in_edition > 0
    BY <1>1 DEF IdIsSound
  <2> QED
    BY <1>14, <1>15, <1>16, <1>17, <1>18, <2>1, <2>2 DEF IdIsSound
<1>20. ASSUME NEW k \in 1 .. m
       PROVE  NodeIsSound(new, k)
  <2>1. PICK i \in P : /\ Id(i) = k /\ h[i] \in NodeOf(S) /\ i \in 1 .. Len(h)
                       /\ nodes[k] = Of(h[i])
    BY <1>9
  <2> DEFINE p == h[i].parent
             r == h[i].redo_child
  <2>2. /\ p \in 0 .. i - 1
        /\ r # Invalid => r \in i + 1 .. Len(h) /\ h[r].parent = i
    <3>1. NodeIsSound(ctx, i)
      BY <1>2, <2>1
    <3> QED
      BY <3>1 DEF NodeIsSound, h
  <2>3. nodes[k].parent = Id(p) /\ nodes[k].redo_child = Id(r)
    BY <1>4, <1>11, <2>1
  <2> HIDE DEF p, r
  <2>4. Id(p) \in 0 .. k - 1
    <3>1. CASE p \in P
      <4>1. p < i /\ Len(h) \in Nat
        BY <1>2, <1>3, <2>1, <2>2, <3>1
      <4>2. Rank(P, p) < Rank(P, i) /\ Rank(P, p) \in Nat /\ Rank(P, i) \in Nat
        BY <1>3, <4>1, <3>1, Ranks
      <4>3. Id(p) = Rank(P, p) + 1 /\ k = Rank(P, i) + 1
        BY <1>3, <2>1, <3>1
      <4> QED
        BY <4>2, <4>3
    <3>2. CASE p \notin P
      <4>1. Id(p) = 0
        BY <1>3, <3>2
      <4> QED
        BY <4>1
    <3> QED
      BY <3>1, <3>2
  <2>5. Id(r) # Invalid => Id(r) \in k + 1 .. m /\ nodes[Id(r)].parent = k
    <3> SUFFICES ASSUME Id(r) # Invalid PROVE Id(r) \in k + 1 .. m /\ nodes[Id(r)].parent = k
      OBVIOUS
    <3>1. r \in P
      BY <1>3 DEF Invalid
    <3>2. r \in 1 .. Len(h) /\ r # Invalid
      BY <1>2, <1>3, <3>1 DEF Invalid
    <3>3. r \in i + 1 .. Len(h) /\ h[r].parent = i /\ i < r
      BY <1>2, <2>1, <2>2, <3>2
    <3>4. Rank(P, i) < Rank(P, r) /\ Rank(P, r) \in Nat /\ Rank(P, i) \in Nat
      <4>1. Len(h) \in Nat
        BY <1>2
      <4> QED
        BY <1>3, <2>1, <3>1, <3>3, <4>1, Ranks
    <3>5. Id(r) = Rank(P, r) + 1 /\ k = Rank(P, i) + 1 /\ Id(r) \in 1 .. m
      BY <1>3, <1>10, <2>1, <3>1
    <3>6. Id(r) \in k + 1 .. m
      BY <1>8, <3>4, <3>5
    <3>7. nodes[Id(r)] = Of(h[r])
      BY <1>10, <3>1
    <3>8. Of(h[r]).parent = Id(h[r].parent)
      <4>1. h[r] \in NodeOf(S) /\ h[r].sel.buffer # buffer
        BY <1>2, <1>4, <3>1, <3>2
      <4> QED
        BY <1>11, <4>1
    <3> QED
      BY <2>1, <3>3, <3>6, <3>7, <3>8
  <2> QED
    BY <1>14, <1>17, <2>3, <2>4, <2>5 DEF NodeIsSound
<1>21. Sound(new)
  <2>1. /\ \A i \in 1 .. Len(new.m_history) : NodeIsSound(new, i)
        /\ new.m_current \in 0 .. Len(new.m_jumps)
    BY <1>2, <1>14, <1>17, <1>20 DEF SameJumps
  <2> QED
    BY <1>17, <1>19, <2>1, SoundIs
<1> QED
  BY <1>17, <1>18, <1>21 DEF new, K

-----------------------------------------------------------------------------
(* Hooks that open files, in the context of the buffer they are about.      *)

Opening == {"BufCreate", "BufClose", "WinCreate", "WinClose"}
HooksOnlyOpen == \A hook \in DOMAIN hooks : hook \in Opening /\ hooks[hook].cmd = "edit"

-----------------------------------------------------------------------------
(* What the calls in progress are, and what may be above what.              *)

Then(call) == Head(call.then)

(* Hooks and what they do.                                                  *)
Noise(call) ==
    \/ call.do = "hook" /\ call.at \notin Client
    \/ call.do = "hook done"
    \/ call.do \in {"command", "leave for"} /\ call.at \notin Client
    \/ call.do = "created" /\ Then(call).do = "leave for" /\ Then(call).at \notin Client

(* A client on its way to another buffer.                                   *)
Switch(call) ==
    \/ call.do \in {"change buffer", "show", "shown", "to first buffer"}
    \/ call.do = "created" /\ Then(call).do = "to first buffer"
Moves(call) ==
    IF call.do \in {"change buffer", "shown"} THEN call.client
    ELSE IF call.do = "show" THEN call.change.client
    ELSE IF call.do = "created" THEN Then(call).at
    ELSE call.at
Going(call) == Switch(call) /\ call.do # "shown"

(* Calls nothing is below, and those nothing is above either.               *)
Lone(call) ==
    \/ call.do = "undo"
    \/ call.do \in {"command", "leave for"} /\ call.at \in Client
Forgetter(call) == call.do \in {"forget", "close windows"}

May(above, below) ==
    \/ Noise(above) /\ ~Lone(below)
    \/ /\ Switch(above)
       /\ \/ Noise(below) \/ Forgetter(below)
          \/ /\ below.do \in {"forget selections", "undo more", "end jump"}
             /\ below.client = Moves(above)
          \/ below.do = "new client" /\ Moves(above) = Scratch
    \/ /\ above.do = "forget selections" \/ Forgetter(above)
       /\ \/ Noise(below)
          \/ Forgetter(below) /\ below.buffer = above.buffer
    \/ above.do = "delete buffer" /\ below.do = "forget" /\ below.buffer = above.buffer
    \/ above.do = "destroyed" /\ below.do = "destroyed"

Stacked(s) ==
    /\ IsList(s)
    /\ \A i, j \in 1 .. Len(s) : i < j => May(s[i], s[j])

-----------------------------------------------------------------------------
(* What each of them knows.                                                 *)

Buffer == (Names \cup {Scratch}) \X Nat
Sel == [buffer : Buffer \cup {Invalid}, place : Places \cup {0}]
InList(buffer) == buffer \in ToSet(m_buffers)
Calls == ToSet(calls)

Steady(c) == c \in Client /\ Context(c).m_in_edition = 0

KnowsBuffer(call) ==
    /\ call.do \in {"leave for", "change buffer"} => InList(call.buffer)
    /\ call.do = "created" =>
          /\ InList(call.buffer) /\ Then(call).do \in {"leave for", "to first buffer"}
          /\ call.then = <<Then(call)>>
          /\ Then(call).do = "leave for" => InList(Then(call).buffer)
    /\ call.do \in {"delete buffer", "connected"} => InList(call.buffer)
    /\ call.do = "show" =>
          /\ InList(call.change.buffer) /\ call.sel \in Sel
          /\ call.sel.buffer = call.change.buffer
    /\ call.do = "connected" => call.sel \in Sel /\ call.sel.buffer = call.buffer
    /\ call.do = "end jump" => call.sel \in Sel /\ InList(call.sel.buffer)
    /\ call.do = "forget" =>
          \/ call.buffer \in m_buffer_trash
          \/ DeleteBuffer(call.buffer) \in Calls
    /\ call.do = "forget selections" => call.buffer \in m_buffer_trash

KnowsClient(call) ==
    /\ Switch(call) => Moves(call) \in Client \cup {Scratch}
    /\ call.do \in {"change buffer", "show", "shown"} => Moves(call) \in Client
    /\ call.do \in {"forget selections", "end jump", "destroyed"} => call.client \in Client
    /\ call.do = "forget" => call.at \in Client /\ call.at \in ToSet(m_clients)
    /\ call.do \in {"undo", "undo more"} =>
          /\ Steady(call.client) /\ call.client \in ToSet(m_clients)
          /\ call.backward \in BOOLEAN
          /\ call = [do |-> call.do, client |-> call.client, backward |-> call.backward,
                     old |-> call.old]
    /\ call.do \in {"new client", "connected", "joins"} =>
          call.client \in Client /\ call.client \notin ToSet(m_client_trash)
    /\ call.do = "command" /\ call.at \in Client => call.at \in ToSet(m_clients)
    /\ call.do = "hook" => call.at \notin Client
    /\ call.do = "destroyed" => call.client \notin ToSet(m_clients)
    /\ call.do = "close windows" => call.buffer \notin Client

KnowsHook(call) ==
    /\ call.do = "hook" => call.hook \in DOMAIN hooks
    /\ call.do = "command" /\ call.cmd.cmd = "edit" => call.cmd.name \in Names
    /\ call.do = "command" /\ call.at \notin Client => call.cmd.cmd = "edit"

(* An undo in another buffer is on its way to the node it found.            *)
UndoKnows(change) ==
    change.select # Invalid =>
        /\ Steady(change.client)
        /\ change.backward \in BOOLEAN
        /\ change.select = NextNode(Context(change.client), change.backward)
        /\ Context(change.client).m_history[change.select].sel.buffer = change.buffer
KnowsNode(call) ==
    /\ call.do = "change buffer" => UndoKnows(call)
    /\ call.do = "show" => UndoKnows(call.change)

(* Whoever is in a buffer that is to be forgotten is on its way out of it,  *)
(* and whoever jumps to another one is on its way to it.                    *)
GoesOn(call) ==
    /\ call.do = "forget selections" /\ BufferOf(Context(call.client)) = call.buffer =>
          \E other \in Calls : Going(other) /\ Moves(other) = call.client
    /\ call.do = "end jump" /\ BufferOf(Context(call.client)) # call.sel.buffer =>
          \E other \in Calls : Going(other) /\ Moves(other) = call.client
    /\ call.do = "new client" /\ m_buffers = <<>> =>
          \E other \in Calls : other.do = "to first buffer"
HeadsThere(call) ==
    call.do = "end jump" => \A other \in Calls :
        Switch(other) => /\ other.do \in {"change buffer", "show", "shown"}
                         /\ other.do = "show" => other.change.buffer = call.sel.buffer
                         /\ other.do # "show" => other.buffer = call.sel.buffer

Knows(call) ==
    /\ KnowsBuffer(call) /\ KnowsClient(call) /\ KnowsHook(call) /\ KnowsNode(call)
    /\ GoesOn(call) /\ HeadsThere(call)
CallsKnow == \A call \in Calls : Knows(call)

-----------------------------------------------------------------------------
(* What the context of a client may refer to: while one is in the list, or  *)
(* about to be, the buffers there are and those it is yet to forget.        *)

Live(c) ==
    \/ c \in ToSet(m_clients)
    \/ \E call \in Calls : call.do = "joins" /\ call.client = c
ForgetsJumps(call, c, buffer) == call.do = "forget" /\ call.at = c /\ call.buffer = buffer
ForgetsNodes(call, c, buffer) ==
    \/ ForgetsJumps(call, c, buffer)
    \/ call.do = "forget selections" /\ call.client = c /\ call.buffer = buffer
JumpBuffer(c, buffer) ==
    Live(c) => InList(buffer) \/ \E call \in Calls : ForgetsJumps(call, c, buffer)
NodeBuffer(c, buffer) ==
    Live(c) => InList(buffer) \/ \E call \in Calls : ForgetsNodes(call, c, buffer)

JumpsOf(c) == {sel \in Sel : JumpBuffer(c, sel.buffer)}
NodesOf(c) == {sel \in Sel : NodeBuffer(c, sel.buffer)}

(* The editions of a context are that of its mode and that of a jump.       *)
Jumping(c) == \E call \in Calls : call.do = "end jump" /\ call.client = c
EditionsOf(c) ==
    (IF clients[c].mode = "normal" THEN 0 ELSE 1) + (IF Jumping(c) THEN 1 ELSE 0)

Fits(c) ==
    /\ Context(c) \in ContextOf(NodesOf(c), JumpsOf(c))
    /\ Sound(Context(c))
    /\ clients[c].m_window = BufferOf(Context(c))
    /\ Context(c).m_in_edition = EditionsOf(c)
ClientsFit == \A c \in Client : Fits(c)

Locks(call, buffer) ==
    \/ call.do = "show" /\ call.change.buffer = buffer
    \/ call.do \in {"shown", "connected"} /\ call.buffer = buffer
    \/ call.do = "joins" /\ clients[call.client].m_window = buffer
LocksAreHeld == \A buffer \in locked : \E call \in Calls : Locks(call, buffer)

HooksAreRunning ==
    \A running_hook \in m_running_hooks :
        \E call \in Calls : call.do = "hook done" /\ running_hook = <<call.hook, call.param>>

WindowIsOpen(w) ==
    /\ w.sel.buffer = w.buffer
    /\ \/ InList(w.buffer)
       \/ \E call \in Calls : call.do = "close windows" /\ call.buffer = w.buffer
WindowsAreOpen == \A w \in ToSet(m_free_windows) : WindowIsOpen(w)

Apart ==
    /\ ToSet(m_buffers) \cap m_buffer_trash = {}
    /\ ToSet(m_clients) \cap ToSet(m_client_trash) = {}

Modes == {"normal", "insert", "prompt"}
ClientOf == [m_window : Buffer \cup {Invalid}, context : ContextOf(Sel, Sel), mode : Modes]
WindowOf == [buffer : Buffer, sel : Sel]
TypeOK ==
    /\ m_buffers \in Seq(Buffer)
    /\ m_buffer_trash \in SUBSET Buffer /\ IsFiniteSet(m_buffer_trash)
    /\ m_clients \in Seq(Client) /\ m_client_trash \in Seq(Client)
    /\ m_free_windows \in Seq(WindowOf)
    /\ clients \in [Client -> ClientOf]
    /\ hooks \in HookConfigs

ObjectsInv ==
    /\ TypeOK
    /\ Stacked(calls) /\ CallsKnow
    /\ ClientsFit
    /\ LocksAreHeld /\ HooksAreRunning
    /\ WindowsAreOpen
    /\ Apart

-----------------------------------------------------------------------------
(* A call that is replaced by those it makes.                               *)

Rest == ToSet(Tail(calls))

LEMMA Under ==
  ASSUME Stacked(calls), ~Idle
  PROVE  Calls = {It} \cup Rest /\ \A f \in Rest : May(It, f)
<1>1. IsList(calls) /\ calls # <<>>
  BY DEF Stacked, Idle
<1> DEFINE t == Tail(calls)
<1>2. /\ IsList(t) /\ Len(t) = Len(calls) - 1 /\ Head(calls) = calls[1] /\ Len(calls) > 0
      /\ \A i \in 1 .. Len(t) : t[i] = calls[i + 1]
      /\ ToSet(calls) = {Head(calls)} \cup ToSet(t) /\ Len(calls) \in Nat
  BY <1>1, Cut DEF IsList
<1> HIDE DEF t
<1>3. DOMAIN t = 1 .. Len(t)
  BY <1>2, ListIsSeq
<1>4. ASSUME NEW f \in ToSet(t)
      PROVE  May(Head(calls), f)
  <2>1. PICK i \in 1 .. Len(t) : t[i] = f
    BY <1>3 DEF ToSet
  <2> DEFINE j == i + 1
  <2>2. j \in 1 .. Len(calls) /\ 1 \in 1 .. Len(calls) /\ 1 < j
    BY <1>2, <2>1
  <2>3. calls[j] = f
    BY <1>2, <2>1
  <2>4. \A i1, i2 \in 1 .. Len(calls) : i1 < i2 => May(calls[i1], calls[i2])
    BY DEF Stacked
  <2> HIDE DEF j
  <2>5. May(calls[1], calls[j])
    BY <2>2, <2>4
  <2> QED
    BY <1>2, <2>3, <2>5
<1> QED
  BY <1>2, <1>4 DEF Calls, Rest, It, t

LEMMA Replaced ==
  ASSUME Stacked(calls), ~Idle, NEW todo, Stacked(todo), calls' = todo \o Tail(calls),
         \A t \in ToSet(todo) : \A f \in Rest : May(t, f)
  PROVE  Stacked(calls') /\ Calls' = ToSet(todo) \cup Rest
<1>1. IsList(calls) /\ calls # <<>> /\ IsList(todo)
  BY DEF Stacked, Idle
<1> DEFINE t == Tail(calls)
           u == todo \o t
           n == Len(todo)
<1>2. /\ IsList(t) /\ Len(t) = Len(calls) - 1 /\ Len(t) \in Nat /\ Len(calls) \in Nat
      /\ \A i \in 1 .. Len(t) : t[i] = calls[i + 1]
  BY <1>1, Cut DEF IsList
<1>3. DOMAIN t = 1 .. Len(t) /\ DOMAIN todo = 1 .. n /\ n \in Nat
  BY <1>1, <1>2, ListIsSeq DEF IsList
<1> HIDE DEF t
<1>4. /\ IsList(u) /\ Len(u) = n + Len(t) /\ ToSet(u) = ToSet(todo) \cup ToSet(t)
      /\ \A i \in 1 .. n + Len(t) : u[i] = IF i <= n THEN todo[i] ELSE t[i - n]
  BY <1>1, <1>2, Joined
<1>5. \A i, j \in 1 .. Len(calls) : i < j => May(calls[i], calls[j])
  BY DEF Stacked
<1>6. \A i, j \in 1 .. n : i < j => May(todo[i], todo[j])
  BY DEF Stacked
<1>7. \A i \in 1 .. n : \A j \in 1 .. Len(t) : May(todo[i], t[j])
  <2> TAKE i \in 1 .. n
  <2> TAKE j \in 1 .. Len(t)
  <2>1. todo[i] \in ToSet(todo) /\ t[j] \in ToSet(t)
    BY <1>3 DEF ToSet
  <2> QED
    BY <2>1 DEF Rest, t
<1> HIDE DEF u, n
<1>8. ASSUME NEW i \in 1 .. Len(u), NEW j \in 1 .. Len(u), i < j
      PROVE  May(u[i], u[j])
  <2>1. CASE j <= n
    <3>1. i \in 1 .. n /\ j \in 1 .. n /\ u[i] = todo[i] /\ u[j] = todo[j]
      BY <1>2, <1>3, <1>4, <1>8, <2>1
    <3> QED
      BY <1>6, <1>8, <3>1
  <2>2. CASE i <= n /\ ~(j <= n)
    <3> DEFINE k == j - n
    <3>1. i \in 1 .. n /\ k \in 1 .. Len(t) /\ u[i] = todo[i] /\ u[j] = t[k]
      BY <1>2, <1>3, <1>4, <1>8, <2>2
    <3> HIDE DEF k
    <3> QED
      BY <1>7, <3>1
  <2>3. CASE ~(i <= n)
    <3> DEFINE h == i - n
               k == j - n
               h1 == h + 1
               k1 == k + 1
    <3>1. h \in 1 .. Len(t) /\ k \in 1 .. Len(t) /\ h < k /\ u[i] = t[h] /\ u[j] = t[k]
      BY <1>2, <1>3, <1>4, <1>8, <2>3
    <3> HIDE DEF h, k
    <3>2. h1 \in 1 .. Len(calls) /\ k1 \in 1 .. Len(calls) /\ h1 < k1
      BY <1>2, <3>1
    <3>3. t[h] = calls[h1] /\ t[k] = calls[k1]
      BY <1>2, <3>1
    <3> HIDE DEF h1, k1
    <3> QED
      BY <1>5, <3>1, <3>2, <3>3
  <2> QED
    BY <1>3, <1>8, <2>1, <2>2, <2>3
<1> QED
  BY <1>4, <1>8 DEF Stacked, Calls, Rest, u, t

LEMMA StackOfOne ==
  /\ Stacked(<<>>)
  /\ \A x : Stacked(<<x>>)
  /\ \A x, y : May(x, y) => Stacked(<<x, y>>)
<1>1. Stacked(<<>>)
  BY OneOrNone DEF Stacked
<1>2. ASSUME NEW x
      PROVE  Stacked(<<x>>)
  <2>1. \A i, j \in 1 .. 1 : ~(i < j)
    OBVIOUS
  <2> QED
    BY <2>1, OneOrNone DEF Stacked
<1>3. ASSUME NEW x, NEW y, May(x, y)
      PROVE  Stacked(<<x, y>>)
  <2>1. \A i, j \in 1 .. 2 : i < j => i = 1 /\ j = 2
    OBVIOUS
  <2>2. /\ IsList(<<x, y>>) /\ Len(<<x, y>>) = 2
        /\ <<x, y>>[1] = x /\ <<x, y>>[2] = y
    BY OneOrNone
  <2> QED
    BY <1>3, <2>1, <2>2 DEF Stacked
<1> QED
  BY <1>1, <1>2, <1>3


-----------------------------------------------------------------------------
(* What stays true of a client and of a window.                             *)

LEMMA ContextIsTyped ==
  ASSUME TypeOK, ClientsFit, NEW c \in Client
  PROVE  /\ clients[c] \in ClientOf /\ Context(c) = clients[c].context
         /\ Context(c) \in ContextOf(Sel, Sel)
         /\ Context(c) \in ContextOf(NodesOf(c), JumpsOf(c)) /\ Sound(Context(c))
         /\ SelectionsOf(Context(c)) \in Sel /\ SelectionsOf(Context(c)) \in NodesOf(c)
         /\ NodeBuffer(c, BufferOf(Context(c)))
         /\ Context(c).m_in_edition \in Nat
<1>1. clients[c] \in ClientOf /\ Context(c) = clients[c].context /\ Context(c) \in ContextOf(Sel, Sel)
  BY DEF TypeOK, ClientOf, Context
<1>2. Context(c) \in ContextOf(NodesOf(c), JumpsOf(c)) /\ Sound(Context(c))
  BY DEF ClientsFit, Fits
<1>3. SelectionsOf(Context(c)) \in NodesOf(c)
  BY <1>2, SelectionsAre
<1>4. SelectionsOf(Context(c)) \in Sel /\ NodeBuffer(c, BufferOf(Context(c)))
  BY <1>3 DEF NodesOf, BufferOf
<1>5. Context(c).m_in_edition \in Nat
  BY <1>1 DEF ContextOf
<1> QED
  BY <1>1, <1>2, <1>3, <1>4, <1>5

(* What a client may refer to, it may after a step that only adds to it.    *)
StillRefers(c) ==
    /\ Live(c)' => Live(c)
    /\ Live(c)' => \A buffer : InList(buffer) =>
          InList(buffer)' \/ \E call \in Calls' : ForgetsJumps(call, c, buffer)
    /\ \A call \in Calls :
          /\ call.do = "forget" /\ call.at = c => call \in Calls'
          /\ call.do = "forget selections" /\ call.client = c => call \in Calls'

LEMMA RefersStill ==
  ASSUME NEW c, StillRefers(c)
  PROVE  NodesOf(c) \in SUBSET NodesOf(c)' /\ JumpsOf(c) \in SUBSET JumpsOf(c)'
<1>1. ASSUME NEW buffer, JumpBuffer(c, buffer)
      PROVE  JumpBuffer(c, buffer)'
  BY <1>1 DEF StillRefers, JumpBuffer, ForgetsJumps
<1>2. ASSUME NEW buffer, NodeBuffer(c, buffer)
      PROVE  NodeBuffer(c, buffer)'
  <2>1. SUFFICES ASSUME Live(c)'
                 PROVE  InList(buffer)' \/ \E call \in Calls' : ForgetsNodes(call, c, buffer)
    BY DEF NodeBuffer, ForgetsNodes, ForgetsJumps
  <2>2. Live(c)
    BY <2>1 DEF StillRefers
  <2>3. CASE InList(buffer)
    <3>1. InList(buffer)' \/ \E call \in Calls' : ForgetsJumps(call, c, buffer)
      BY <2>1, <2>3 DEF StillRefers
    <3> QED
      BY <3>1 DEF ForgetsNodes
  <2>4. CASE \E call \in Calls : ForgetsNodes(call, c, buffer)
    BY <2>4 DEF StillRefers, ForgetsNodes, ForgetsJumps
  <2> QED
    BY <1>2, <2>2, <2>3, <2>4 DEF NodeBuffer
<1>3. Sel' = Sel
  BY DEF Sel, Buffer
<1> QED
  BY <1>1, <1>2, <1>3 DEF NodesOf, JumpsOf

LEMMA FitsStill ==
  ASSUME NEW c \in Client, Fits(c), StillRefers(c), clients'[c] = clients[c],
         Jumping(c)' <=> Jumping(c)
  PROVE  Fits(c)'
<1>1. /\ Context(c) \in ContextOf(NodesOf(c), JumpsOf(c)) /\ Sound(Context(c))
      /\ clients[c].m_window = BufferOf(Context(c))
      /\ Context(c).m_in_edition = EditionsOf(c)
  BY DEF Fits
<1>2. NodesOf(c) \in SUBSET NodesOf(c)' /\ JumpsOf(c) \in SUBSET JumpsOf(c)'
  BY RefersStill
<1>3. Context(c)' = Context(c)
  BY DEF Context
<1> DEFINE ctx == Context(c)
           S == NodesOf(c)
           S1 == NodesOf(c)'
           J == JumpsOf(c)
           J1 == JumpsOf(c)'
<1>4. ctx \in ContextOf(S, J) /\ S \in SUBSET S1 /\ J \in SUBSET J1
  BY <1>1, <1>2
<1> HIDE DEF ctx, S, S1, J, J1
<1>5. ctx \in ContextOf(S1, J1)
  BY <1>4, ContextGrows
<1>6. EditionsOf(c)' = EditionsOf(c)
  BY DEF EditionsOf
<1>7. Context(c)' \in ContextOf(NodesOf(c)', JumpsOf(c)')
  BY <1>3, <1>5 DEF ctx, S1, J1
<1> QED
  BY <1>1, <1>3, <1>6, <1>7 DEF Fits

(* A client whose context is now another one.                               *)
LEMMA FitsAnew ==
  ASSUME NEW c \in Client, NEW client \in ClientOf, clients'[c] = client,
         NEW S, NEW J, client.context \in ContextOf(S, J), Sound(client.context),
         S \in SUBSET NodesOf(c)', J \in SUBSET JumpsOf(c)',
         client.m_window = BufferOf(client.context),
         client.context.m_in_edition =
             (IF client.mode = "normal" THEN 0 ELSE 1) + (IF Jumping(c)' THEN 1 ELSE 0)
  PROVE  Fits(c)'
<1>1. Context(c)' = client.context
  BY DEF Context
<1> DEFINE ctx == client.context
           S1 == NodesOf(c)'
           J1 == JumpsOf(c)'
<1>2. ctx \in ContextOf(S, J) /\ S \in SUBSET S1 /\ J \in SUBSET J1
  OBVIOUS
<1> HIDE DEF ctx, S1, J1
<1>3. ctx \in ContextOf(S1, J1)
  BY <1>2, ContextGrows
<1>4. EditionsOf(c)' = (IF client.mode = "normal" THEN 0 ELSE 1) + (IF Jumping(c)' THEN 1 ELSE 0)
  BY DEF EditionsOf
<1>5. Context(c)' \in ContextOf(NodesOf(c)', JumpsOf(c)')
  BY <1>1, <1>3 DEF ctx, S1, J1
<1> QED
  BY <1>1, <1>4, <1>5 DEF Fits

LEMMA WindowsStay ==
  ASSUME WindowsAreOpen, \A w \in ToSet(m_free_windows)' : w \in ToSet(m_free_windows),
         \A buffer : InList(buffer) => InList(buffer)',
         \A call \in Calls : call.do = "close windows" => call \in Calls'
  PROVE  WindowsAreOpen'
<1>1. ASSUME NEW w \in ToSet(m_free_windows)'
      PROVE  WindowIsOpen(w)'
  <2>1. WindowIsOpen(w)
    BY <1>1 DEF WindowsAreOpen
  <2> QED
    BY <2>1 DEF WindowIsOpen
<1> QED
  BY <1>1 DEF WindowsAreOpen

-----------------------------------------------------------------------------
(* Steps that change no client, and that at most add a buffer and take a    *)
(* free window.                                                             *)

QuietData ==
    /\ clients' = clients /\ m_clients' = m_clients /\ m_client_trash' = m_client_trash
    /\ m_buffer_trash' = m_buffer_trash /\ hooks' = hooks
    /\ m_buffers' \in Seq(Buffer) /\ m_free_windows' \in Seq(WindowOf)
    /\ \A buffer : InList(buffer) => InList(buffer)'
    /\ ToSet(m_buffers)' \cap m_buffer_trash = {}
    /\ \A w \in ToSet(m_free_windows)' : w \in ToSet(m_free_windows)

Owed(call) ==
    call.do \in {"forget", "forget selections", "close windows", "end jump", "joins"}
OwedStay ==
    /\ \A call \in Calls : Owed(call) => call \in Calls'
    /\ \A call \in Calls' : call.do \in {"end jump", "joins"} => call \in Calls

LEMMA QuietKeeps ==
  ASSUME ObjectsInv, QuietData, OwedStay
  PROVE  TypeOK' /\ ClientsFit' /\ WindowsAreOpen' /\ Apart'
<1>1. TypeOK'
  BY DEF ObjectsInv, TypeOK, QuietData
<1>2. ASSUME NEW c \in Client
      PROVE  Fits(c)'
  <2>1. StillRefers(c)
    <3>1. Live(c)' => Live(c)
      <4>1. \A call \in Calls' : call.do = "joins" => call \in Calls
        BY DEF OwedStay
      <4>2. CASE \E call \in Calls' : call.do = "joins" /\ call.client = c
        BY <4>1, <4>2 DEF Live
      <4> QED
        BY <4>2 DEF QuietData, Live
    <3>2. \A buffer : InList(buffer) => InList(buffer)'
      BY DEF QuietData
    <3>3. \A call \in Calls : call.do = "forget" \/ call.do = "forget selections" => call \in Calls'
      BY DEF OwedStay, Owed
    <3> QED
      BY <3>1, <3>2, <3>3 DEF StillRefers
  <2>2. Jumping(c)' <=> Jumping(c)
    <3>1. \A call \in Calls' : call.do = "end jump" => call \in Calls
      BY DEF OwedStay
    <3>2. \A call \in Calls : call.do = "end jump" => call \in Calls'
      BY DEF OwedStay, Owed
    <3> QED
      BY <3>1, <3>2 DEF Jumping
  <2>3. Fits(c) /\ clients'[c] = clients[c]
    BY DEF ObjectsInv, ClientsFit, QuietData
  <2> QED
    BY <2>1, <2>2, <2>3, FitsStill
<1>3. WindowsAreOpen'
  <2>1. \A w \in ToSet(m_free_windows)' : w \in ToSet(m_free_windows)
    BY DEF QuietData
  <2>2. \A buffer : InList(buffer) => InList(buffer)'
    BY DEF QuietData
  <2>3. \A call \in Calls : call.do = "close windows" => call \in Calls'
    BY DEF OwedStay, Owed
  <2>4. WindowsAreOpen
    BY DEF ObjectsInv
  <2> QED
    BY <2>1, <2>2, <2>3, <2>4, WindowsStay
<1>4. Apart'
  BY DEF ObjectsInv, Apart, QuietData
<1> QED
  BY <1>1, <1>2, <1>3, <1>4 DEF ClientsFit

LEMMA QuietKnows ==
  ASSUME QuietData, NEW f, KnowsBuffer(f) /\ KnowsClient(f) /\ KnowsHook(f) /\ KnowsNode(f),
         \A buffer : DeleteBuffer(buffer) \in Calls => DeleteBuffer(buffer) \in Calls'
  PROVE  (KnowsBuffer(f) /\ KnowsClient(f) /\ KnowsHook(f) /\ KnowsNode(f))'
<1>1. KnowsBuffer(f)'
  BY DEF QuietData, KnowsBuffer
<1>2. KnowsClient(f)'
  BY DEF QuietData, KnowsClient, Steady, Context
<1>3. KnowsHook(f)'
  BY DEF QuietData, KnowsHook
<1>4. KnowsNode(f)'
  BY DEF QuietData, KnowsNode, UndoKnows, Steady, Context
<1> QED
  BY <1>1, <1>2, <1>3, <1>4

LEMMA NoSwitchIsNoise ==
  ASSUME NEW call, Noise(call)
  PROVE  ~Switch(call) /\ ~Going(call) /\ ~Owed(call) /\ ~Lone(call)
BY DEF Noise, Switch, Going, Owed, Lone

LEMMA NoiseStep ==
  ASSUME ObjectsInv, QuietData, ~Idle, Noise(It), NEW todo, Stacked(todo),
         calls' = todo \o Tail(calls),
         \A t \in ToSet(todo) : Noise(t) /\ (KnowsBuffer(t) /\ KnowsClient(t) /\ KnowsHook(t))',
         locked' = locked, HooksAreRunning'
  PROVE  ObjectsInv'
<1>1. Calls = {It} \cup Rest /\ \A f \in Rest : May(It, f)
  BY Under DEF ObjectsInv
<1>2. \A f \in Rest : ~Lone(f)
  <2> TAKE f \in Rest
  <2>1. May(It, f)
    BY <1>1
  <2> QED
    BY <2>1 DEF May, Noise, Switch, Forgetter
<1>3. \A t \in ToSet(todo) : \A f \in Rest : May(t, f)
  BY <1>2 DEF May
<1>4. Stacked(calls') /\ Calls' = ToSet(todo) \cup Rest
  BY <1>3, Replaced DEF ObjectsInv
<1>5. \A call : ~Noise(call) => (call \in Calls <=> call \in Calls')
  BY <1>1, <1>4
<1>6. OwedStay
  <2>2. ASSUME NEW call \in Calls, Owed(call)
        PROVE  call \in Calls'
    <3>1. ~Noise(call)
      BY <2>2, NoSwitchIsNoise
    <3> QED
      BY <1>5, <3>1
  <2>3. ASSUME NEW call \in Calls', call.do \in {"end jump", "joins"}
        PROVE  call \in Calls
    <3>1. ~Noise(call)
      BY <2>3 DEF Noise
    <3> QED
      BY <1>5, <3>1
  <2> QED
    BY <2>2, <2>3 DEF OwedStay
<1>7. TypeOK' /\ ClientsFit' /\ WindowsAreOpen' /\ Apart'
  BY <1>6, QuietKeeps
<1>8. LocksAreHeld'
  <2>1. \A call, buffer : Locks(call, buffer) => ~Noise(call)
    BY DEF Locks, Noise
  <2>2. \A call, buffer : Locks(call, buffer) => Locks(call, buffer)'
    BY DEF Locks, QuietData
  <2> QED
    BY <1>5, <2>1, <2>2 DEF ObjectsInv, LocksAreHeld
<1>9. ASSUME NEW call \in Calls'
      PROVE  Knows(call)'
  <2>1. CASE call \in ToSet(todo)
    <3>1. Noise(call) /\ (KnowsBuffer(call) /\ KnowsClient(call) /\ KnowsHook(call))'
      BY <2>1
    <3>2. (KnowsNode(call) /\ GoesOn(call) /\ HeadsThere(call))'
      BY <3>1 DEF Noise, KnowsNode, GoesOn, HeadsThere
    <3> QED
      BY <3>1, <3>2 DEF Knows
  <2>2. CASE call \in Rest
    <3>1. Knows(call)
      BY <1>1, <2>2 DEF ObjectsInv, CallsKnow
    <3>2. \A buffer : ~Noise(DeleteBuffer(buffer))
      BY DEF DeleteBuffer, Noise
    <3>3. (KnowsBuffer(call) /\ KnowsClient(call) /\ KnowsHook(call) /\ KnowsNode(call))'
      BY <1>5, <3>1, <3>2, QuietKnows DEF Knows
    <3>4. \A other : Going(other) \/ Switch(other) => (other \in Calls <=> other \in Calls')
      BY <1>5, NoSwitchIsNoise
    <3>5. \A other : other.do = "to first buffer" => (other \in Calls <=> other \in Calls')
      BY <1>5 DEF Noise
    <3>6. m_buffers' = <<>> => m_buffers = <<>>
      <4>1. m_buffers \in Seq(Buffer) /\ m_buffers' \in Seq(Buffer)
        BY DEF ObjectsInv, TypeOK, QuietData
      <4>2. m_buffers' = <<>> => ToSet(m_buffers') = {}
        BY OneOrNone
      <4>3. m_buffers # <<>> => m_buffers[1] \in ToSet(m_buffers)
        <5>1. m_buffers # <<>> => Len(m_buffers) \in Nat \ {0} /\ DOMAIN m_buffers = 1 .. Len(m_buffers)
          BY <4>1, EmptySeq, LenProperties
        <5> QED
          BY <5>1 DEF ToSet
      <4>4. \A b \in ToSet(m_buffers) : b \in ToSet(m_buffers')
        BY DEF QuietData, InList
      <4> QED
        BY <4>2, <4>3, <4>4
    <3>7. GoesOn(call)'
      BY <3>1, <3>4, <3>5, <3>6 DEF Knows, GoesOn, QuietData, Context
    <3>8. HeadsThere(call)'
      BY <3>1, <3>4 DEF Knows, HeadsThere
    <3> QED
      BY <3>3, <3>7, <3>8 DEF Knows
  <2> QED
    BY <1>4, <2>1, <2>2
<1> QED
  BY <1>4, <1>7, <1>8, <1>9 DEF ObjectsInv, CallsKnow

-----------------------------------------------------------------------------
(* The hook of a step, if there is one, before another call.                *)

LEMMA NotAClient ==
  /\ \A b \in Buffer : b \notin Client
  /\ Scratch \notin Client
<1>1. \A c \in Client : c # Scratch /\ c \notin Buffer
  BY ClientAssumption DEF Buffer
<1> QED
  BY <1>1

LEMMA HookIs ==
  ASSUME TypeOK, HooksOnlyOpen, NEW hook, NEW param, NEW at
  PROVE  /\ hook \notin Opening => Hook(hook, param, at) = <<>>
         /\ Stacked(Hook(hook, param, at))
         /\ \A t \in ToSet(Hook(hook, param, at)) :
               t = [do |-> "hook", hook |-> hook, param |-> param, at |-> at]
               /\ hook \in DOMAIN hooks
<1>1. hook \notin Opening => hook \notin DOMAIN hooks
  BY DEF HooksOnlyOpen
<1>2. CASE hook \in DOMAIN hooks
  <2> DEFINE x == [do |-> "hook", hook |-> hook, param |-> param, at |-> at]
  <2>1. Hook(hook, param, at) = <<x>>
    BY <1>2 DEF Hook
  <2> HIDE DEF x
  <2>2. ToSet(<<x>>) = {x} /\ Stacked(<<x>>)
    BY OneOrNone, StackOfOne
  <2> QED
    BY <1>1, <1>2, <2>1, <2>2 DEF x
<1>3. CASE hook \notin DOMAIN hooks
  <2>1. Hook(hook, param, at) = <<>>
    BY <1>3 DEF Hook
  <2>2. ToSet(<<>>) = {} /\ Stacked(<<>>)
    BY OneOrNone, StackOfOne
  <2> QED
    BY <2>1, <2>2
<1> QED
  BY <1>2, <1>3

LEMMA HookKnows ==
  ASSUME TypeOK, HooksOnlyOpen, NEW hook, NEW param, NEW at, at \notin Client,
         NEW t \in ToSet(Hook(hook, param, at)), hooks' = hooks
  PROVE  Noise(t) /\ (KnowsBuffer(t) /\ KnowsClient(t) /\ KnowsHook(t))'
<1>1. t = [do |-> "hook", hook |-> hook, param |-> param, at |-> at] /\ hook \in DOMAIN hooks
  BY HookIs
<1>2. t.do = "hook" /\ t.at = at /\ t.hook = hook
  BY <1>1
<1>3. Noise(t) /\ KnowsHook(t)'
  BY <1>1, <1>2 DEF Noise, KnowsHook
<1>4. KnowsBuffer(t)' /\ KnowsClient(t)'
  BY <1>2 DEF KnowsBuffer, KnowsClient, Switch
<1> QED
  BY <1>3, <1>4

(* Two lists of calls, one above the other.                                 *)
LEMMA StackedTogether ==
  ASSUME NEW s, NEW t, Stacked(s), Stacked(t),
         \A x \in ToSet(s) : \A y \in ToSet(t) : May(x, y)
  PROVE  Stacked(s \o t) /\ ToSet(s \o t) = ToSet(s) \cup ToSet(t)
<1> DEFINE u == s \o t
           n == Len(s)
<1>1. IsList(s) /\ IsList(t)
  BY DEF Stacked
<1>2. DOMAIN s = 1 .. n /\ DOMAIN t = 1 .. Len(t) /\ n \in Nat /\ Len(t) \in Nat
  BY <1>1, ListIsSeq DEF IsList
<1>3. /\ IsList(u) /\ Len(u) = n + Len(t) /\ ToSet(u) = ToSet(s) \cup ToSet(t)
      /\ \A i \in 1 .. n + Len(t) : u[i] = IF i <= n THEN s[i] ELSE t[i - n]
  BY <1>1, Joined
<1> HIDE DEF u, n
<1>4. ASSUME NEW i \in 1 .. Len(u), NEW j \in 1 .. Len(u), i < j
      PROVE  May(u[i], u[j])
  <2>1. CASE j <= n
    <3>1. i \in 1 .. n /\ j \in 1 .. n /\ u[i] = s[i] /\ u[j] = s[j]
      BY <1>2, <1>3, <1>4, <2>1
    <3>2. \A i1, j1 \in 1 .. Len(s) : i1 < j1 => May(s[i1], s[j1])
      BY DEF Stacked
    <3> QED
      BY <1>4, <3>1, <3>2 DEF n
  <2>2. CASE i <= n /\ ~(j <= n)
    <3> DEFINE k == j - n
    <3>1. i \in 1 .. n /\ k \in 1 .. Len(t) /\ u[i] = s[i] /\ u[j] = t[k]
      BY <1>2, <1>3, <1>4, <2>2
    <3> HIDE DEF k
    <3>2. s[i] \in ToSet(s) /\ t[k] \in ToSet(t)
      BY <1>2, <3>1 DEF ToSet
    <3> QED
      BY <3>1, <3>2
  <2>3. CASE ~(i <= n)
    <3> DEFINE h == i - n
               k == j - n
    <3>1. h \in 1 .. Len(t) /\ k \in 1 .. Len(t) /\ h < k /\ u[i] = t[h] /\ u[j] = t[k]
      BY <1>2, <1>3, <1>4, <2>3
    <3> HIDE DEF h, k
    <3>2. \A i1, j1 \in 1 .. Len(t) : i1 < j1 => May(t[i1], t[j1])
      BY DEF Stacked
    <3> QED
      BY <3>1, <3>2
  <2> QED
    BY <1>2, <1>4, <2>1, <2>2, <2>3
<1> QED
  BY <1>3, <1>4 DEF Stacked, u

LEMMA HookAbove ==
  ASSUME TypeOK, HooksOnlyOpen, NEW hook, NEW param, NEW at, at \notin Client, NEW call, ~Lone(call)
  PROVE  LET todo == Hook(hook, param, at) \o <<call>>
         IN  /\ Stacked(todo) /\ call \in ToSet(todo)
             /\ \A t \in ToSet(todo) : t = call \/ t \in ToSet(Hook(hook, param, at))
<1> DEFINE h == Hook(hook, param, at)
<1>1. Stacked(h) /\ \A t \in ToSet(h) : t.do = "hook" /\ t.at = at
  BY HookIs
<1> HIDE DEF h
<1>2. Stacked(<<call>>) /\ ToSet(<<call>>) = {call}
  BY StackOfOne, OneOrNone
<1>3. \A x \in ToSet(h) : \A y \in ToSet(<<call>>) : May(x, y)
  BY <1>1, <1>2 DEF May, Noise
<1>4. Stacked(h \o <<call>>) /\ ToSet(h \o <<call>>) = ToSet(h) \cup ToSet(<<call>>)
  BY <1>1, <1>2, <1>3, StackedTogether
<1> QED
  BY <1>2, <1>4 DEF h

-----------------------------------------------------------------------------
(* A new buffer is none of those there are.                                 *)

LEMMA ElementsAreFinite ==
  ASSUME NEW S, NEW s \in Seq(S)
  PROVE  IsFiniteSet(ToSet(s))
<1>1. DOMAIN s = 1 .. Len(s) /\ Len(s) \in Nat
  BY LenProperties
<1> DEFINE f == [i \in 1 .. Len(s) |-> s[i]]
<1>2. f \in Surjection(1 .. Len(s), ToSet(s))
  BY <1>1 DEF Surjection, ToSet
<1>3. IsFiniteSet(1 .. Len(s))
  BY <1>1, IntervalIsFinite
<1> HIDE DEF f
<1> QED
  BY <1>2, <1>3, FS_Surjection

LEMMA NewBufferIsNew ==
  ASSUME TypeOK, NEW name \in Names \cup {Scratch}
  PROVE  /\ NewBuffer(name) \in Buffer /\ NewBuffer(name)[1] = name
         /\ NewBuffer(name) \notin ToSet(m_buffers) /\ NewBuffer(name) \notin m_buffer_trash
<1> DEFINE known == ToSet(m_buffers) \cup m_buffer_trash
           n == Cardinality(known)
           f == [k \in 1 .. n + 1 |-> <<name, k>>]
<1>1. IsFiniteSet(known)
  <2>1. IsFiniteSet(ToSet(m_buffers)) /\ IsFiniteSet(m_buffer_trash)
    BY ElementsAreFinite DEF TypeOK
  <2> QED
    BY <2>1, FS_Union
<1>2. n \in Nat
  BY <1>1, FS_CardinalityType
<1>3. \E k \in 1 .. n + 1 : <<name, k>> \notin known
  <2>1. SUFFICES ASSUME \A k \in 1 .. n + 1 : <<name, k>> \in known
                 PROVE  FALSE
    OBVIOUS
  <2> HIDE DEF known, n
  <2>2. f \in Injection(1 .. n + 1, known)
    <3>1. f \in [1 .. n + 1 -> known] /\ \A i \in 1 .. n + 1 : f[i] = <<name, i>>
      BY <2>1
    <3> HIDE DEF f
    <3>2. ASSUME NEW i \in 1 .. n + 1, NEW j \in 1 .. n + 1, f[i] = f[j]
          PROVE  i = j
      <4>1. <<name, i>> = <<name, j>>
        BY <3>1, <3>2
      <4> QED
        BY <4>1
    <3> QED
      BY <3>1, <3>2, Zenon DEF Injection, IsInjective
  <2>3. n + 1 \in Nat
    BY <1>2
  <2>4. Cardinality(1 .. n + 1) = n + 1
    BY <2>3, IntervalIsFinite
  <2> HIDE DEF f
  <2>5. Cardinality(1 .. n + 1) <= Cardinality(known)
    BY <1>1, <2>2, FS_Injection
  <2> QED
    BY <1>2, <2>4, <2>5 DEF n
<1> DEFINE k == CHOOSE k \in 1 .. n + 1 : <<name, k>> \notin known
<1>4. k \in 1 .. n + 1 /\ <<name, k>> \notin known
  BY <1>3
<1>5. NewBuffer(name) = <<name, k>>
  BY DEF NewBuffer
<1> HIDE DEF k, known, n
<1>6. k \in Nat
  BY <1>2, <1>4
<1> QED
  BY <1>4, <1>5, <1>6 DEF Buffer, known

-----------------------------------------------------------------------------
(* The steps of hooks.                                                      *)

LEMMA HookOpens ==
  ASSUME TypeOK, HooksOnlyOpen, NEW hook \in DOMAIN hooks
  PROVE  hooks[hook].cmd = "edit" /\ hooks[hook].name \in Names
BY NamesAssumption DEF TypeOK, HooksOnlyOpen

LEMMA ItKnows ==
  ASSUME ObjectsInv, ~Idle
  PROVE  It \in Calls /\ Knows(It)
<1>1. It \in Calls
  BY Under DEF ObjectsInv
<1> QED
  BY <1>1 DEF ObjectsInv, CallsKnow

(* What is left is a part of what there was.                                *)
LEMMA TailIs ==
  ASSUME ObjectsInv, ~Idle
  PROVE  <<>> \o Tail(calls) = Tail(calls) /\ Tail(calls) \in Seq(Rest)
<1>1. IsList(Tail(calls))
  BY Cut DEF ObjectsInv, Stacked, Idle
<1>2. Tail(calls) \in Seq(Rest)
  BY <1>1, ListIsSeq DEF Rest
<1> QED
  BY <1>2, ConcatEmptySeq

LEMMA RunHookStep ==
  ASSUME ObjectsInv, HooksOnlyOpen, RunHook
  PROVE  ObjectsInv'
<1>1. ~Idle /\ It.do = "hook"
  BY DEF RunHook, Doing, It
<1>2. Knows(It)
  BY <1>1, ItKnows
<1>3. It.at \notin Client /\ It.hook \in DOMAIN hooks /\ Noise(It)
  BY <1>1, <1>2 DEF Knows, KnowsClient, KnowsHook, Noise
<1>4. QuietData
  BY DEF RunHook, server, views, lists, ghosts, QuietData, ObjectsInv, TypeOK, InList, Apart
<1>5. locked' = locked /\ hooks' = hooks
  BY DEF RunHook, server, views, lists
<1>6. Calls = {It} \cup Rest
  BY <1>1, Under DEF ObjectsInv
<1>7. CASE <<It.hook, It.param>> \in m_running_hooks
  <2>1. calls' = <<>> \o Tail(calls) /\ m_running_hooks' = m_running_hooks
    BY <1>7 DEF RunHook, Call
  <2>2. Stacked(<<>>) /\ ToSet(<<>>) = {} /\ \A t \in {} : FALSE
    BY StackOfOne, OneOrNone
  <2>3. Calls' = Rest
    <3>1. Stacked(calls) /\ \A t \in ToSet(<<>>) : \A f \in Rest : May(t, f)
      BY <2>2 DEF ObjectsInv
    <3>2. Calls' = ToSet(<<>>) \cup Rest
      BY <1>1, <2>1, <2>2, <3>1, Replaced
    <3> QED
      BY <2>2, <3>2
  <2>4. HooksAreRunning'
    BY <1>1, <1>6, <2>1, <2>3 DEF HooksAreRunning, ObjectsInv
  <2>5. \A t \in ToSet(<<>>) : Noise(t) /\ (KnowsBuffer(t) /\ KnowsClient(t) /\ KnowsHook(t))'
    BY <2>2
  <2> QED
    BY <1>1, <1>3, <1>4, <1>5, <2>1, <2>2, <2>4, <2>5, NoiseStep
<1>8. CASE <<It.hook, It.param>> \notin m_running_hooks
  <2>0. PICK x, y : x = Command(It.at, hooks[It.hook]) /\ y = HookDone(It.hook, It.param)
    OBVIOUS
  <2> DEFINE todo == <<x, y>>
  <2>1. calls' = todo \o Tail(calls)
        /\ m_running_hooks' = m_running_hooks \cup {<<It.hook, It.param>>}
    BY <1>8, <2>0 DEF RunHook, Call
  <2>2. hooks[It.hook].cmd = "edit" /\ hooks[It.hook].name \in Names
    BY <1>3, HookOpens DEF ObjectsInv
  <2>3. /\ x.do = "command" /\ x.at = It.at /\ x.cmd = hooks[It.hook]
        /\ y.do = "hook done" /\ <<y.hook, y.param>> = <<It.hook, It.param>>
    BY <2>0 DEF Command, HookDone
  <2>4. Noise(x) /\ Noise(y) /\ ~Lone(y) /\ ~Lone(x)
    BY <1>3, <2>3 DEF Noise, Lone
  <2>5. (KnowsBuffer(x) /\ KnowsClient(x) /\ KnowsHook(x))'
    BY <1>3, <1>5, <2>2, <2>3 DEF KnowsBuffer, KnowsClient, KnowsHook, Switch
  <2>6. (KnowsBuffer(y) /\ KnowsClient(y) /\ KnowsHook(y))'
    BY <2>3 DEF KnowsBuffer, KnowsClient, KnowsHook, Switch
  <2>7. Stacked(todo) /\ ToSet(todo) = {x, y}
    <3>1. May(x, y)
      BY <2>4 DEF May
    <3> QED
      BY <3>1, StackOfOne, OneOrNone
  <2> HIDE DEF todo
  <2>8. Calls' = {x, y} \cup Rest
    <3>1. Stacked(calls)
      BY DEF ObjectsInv
    <3>2. \A f \in Rest : ~Lone(f)
      <4> TAKE f \in Rest
      <4>1. May(It, f)
        BY <1>1, <3>1, Under
      <4> QED
        BY <1>1, <4>1 DEF May, Switch, Forgetter
    <3>3. \A t \in ToSet(todo) : \A f \in Rest : May(t, f)
      BY <2>4, <2>7, <3>2 DEF May
    <3> QED
      BY <1>1, <2>1, <2>7, <3>1, <3>3, Replaced
  <2>9. HooksAreRunning'
    <3>1. \A call \in Calls : call.do = "hook done" => call \in Calls'
      BY <1>1, <1>6, <2>8
    <3>2. y \in Calls' /\ y.do = "hook done"
      BY <2>3, <2>8
    <3> QED
      BY <2>1, <2>3, <3>1, <3>2 DEF HooksAreRunning, ObjectsInv
  <2>10. \A t \in ToSet(todo) : Noise(t) /\ (KnowsBuffer(t) /\ KnowsClient(t) /\ KnowsHook(t))'
    BY <2>4, <2>5, <2>6, <2>7
  <2> QED
    BY <1>1, <1>3, <1>4, <1>5, <2>1, <2>7, <2>9, <2>10, NoiseStep
<1> QED
  BY <1>7, <1>8

LEMMA EndHookStep ==
  ASSUME ObjectsInv, EndHook
  PROVE  ObjectsInv'
<1>1. ~Idle /\ It.do = "hook done" /\ Noise(It)
  BY DEF EndHook, Doing, It, Noise
<1>2. QuietData
  BY DEF EndHook, server, views, lists, ghosts, QuietData, ObjectsInv, TypeOK, InList, Apart
<1>3. locked' = locked /\ calls' = <<>> \o Tail(calls)
      /\ m_running_hooks' = m_running_hooks \ {<<It.hook, It.param>>}
  BY DEF EndHook, server, Call
<1>4. Calls = {It} \cup Rest
  BY <1>1, Under DEF ObjectsInv
<1>5. Stacked(<<>>) /\ ToSet(<<>>) = {}
  BY StackOfOne, OneOrNone
<1>6. Calls' = Rest
  <2>1. Stacked(calls) /\ \A t \in ToSet(<<>>) : \A f \in Rest : May(t, f)
    BY <1>5 DEF ObjectsInv
  <2>2. Calls' = ToSet(<<>>) \cup Rest
    BY <1>1, <1>3, <1>5, <2>1, Replaced
  <2> QED
    BY <1>5, <2>2
<1>7. HooksAreRunning'
  BY <1>3, <1>4, <1>6 DEF HooksAreRunning, ObjectsInv
<1>8. \A t \in ToSet(<<>>) : Noise(t) /\ (KnowsBuffer(t) /\ KnowsClient(t) /\ KnowsHook(t))'
  BY <1>5
<1> QED
  BY <1>1, <1>2, <1>3, <1>5, <1>7, <1>8, NoiseStep

-----------------------------------------------------------------------------
(* A buffer that is created, or was.                                        *)

LEMMA CreateIs ==
  ASSUME ObjectsInv, NEW name \in Names \cup {Scratch}, NEW then, NEW b, b = NewBuffer(name),
         CreateBuffer(name, then),
         UNCHANGED <<views, running>>
  PROVE  /\ QuietData /\ locked' = locked /\ m_running_hooks' = m_running_hooks
         /\ InList(b)' /\ b \in Buffer
<1>1. TypeOK
  BY DEF ObjectsInv
<1> DEFINE new == Append(m_buffers, b)
<1>2. b \in Buffer /\ b \notin m_buffer_trash
  BY <1>1, NewBufferIsNew
<1>3. m_buffers \in Seq(Buffer)
  BY <1>1 DEF TypeOK
<1>4. new \in Seq(Buffer) /\ ToSet(new) = ToSet(m_buffers) \cup {b}
  <2>1. new = m_buffers \o <<b>>
    BY <1>2, <1>3, AppendIsConcat
  <2>2. IsList(m_buffers) /\ IsList(<<b>>) /\ ToSet(<<b>>) = {b}
    BY <1>3, SeqIsList, OneOrNone
  <2>3. ToSet(new) = ToSet(m_buffers) \cup {b}
    BY <2>1, <2>2, Joined
  <2> QED
    BY <1>2, <1>3, <2>3, AppendProperties
<1> HIDE DEF new
<1>5. /\ m_buffers' = new /\ m_buffer_trash' = m_buffer_trash /\ locked' = locked
      /\ clients' = clients /\ m_clients' = m_clients /\ m_client_trash' = m_client_trash
      /\ m_free_windows' = m_free_windows /\ hooks' = hooks /\ m_running_hooks' = m_running_hooks
  BY DEF CreateBuffer, views, lists, running, new
<1>6. ToSet(m_buffers)' = ToSet(m_buffers) \cup {b}
  BY <1>4, <1>5
<1>7. QuietData
  BY <1>1, <1>2, <1>4, <1>5, <1>6 DEF QuietData, InList, ObjectsInv, TypeOK, Apart
<1>8. InList(b)'
  BY <1>6 DEF InList
<1> QED
  BY <1>2, <1>5, <1>7, <1>8

(* edit opens a buffer and leaves for it, after the hook of its creation.   *)
EditCalls(todo, at) ==
    \E leave, created :
        /\ leave.do = "leave for" /\ leave.at = at /\ InList(leave.buffer)'
        /\ created.do = "created" /\ created.then = <<leave>> /\ InList(created.buffer)'
        /\ Stacked(todo)
        /\ \A t \in ToSet(todo) :
              \/ t = leave \/ t = created
              \/ Noise(t) /\ (KnowsBuffer(t) /\ KnowsClient(t) /\ KnowsHook(t))'

LEMMA EditMakes ==
  ASSUME ObjectsInv, HooksOnlyOpen, EditBuffer
  PROVE  /\ ~Idle /\ It.do = "command" /\ QuietData /\ locked' = locked
         /\ m_running_hooks' = m_running_hooks
         /\ \E todo : calls' = todo \o Tail(calls) /\ EditCalls(todo, It.at)
<1>1. ~Idle /\ It.do = "command" /\ It.cmd.cmd = "edit"
  BY DEF EditBuffer, Ordered, Doing, It
<1>2. TypeOK /\ It.cmd.name \in Names
  BY <1>1, ItKnows DEF ObjectsInv, Knows, KnowsHook
<1> DEFINE name == It.cmd.name
           buffers == Named(name)
<1>3. UNCHANGED <<views, running>>
  BY DEF EditBuffer
<1>4. CASE buffers = {}
  <2>1. PICK b : b = NewBuffer(name)
    OBVIOUS
  <2>2. PICK leave : leave = [do |-> "leave for", at |-> It.at, buffer |-> b]
    OBVIOUS
  <2>3. PICK created : created = Created(b, <<leave>>)
    OBVIOUS
  <2>4. CreateBuffer(name, <<leave>>)
    BY <1>4, <2>1, <2>2 DEF EditBuffer
  <2>5. QuietData /\ locked' = locked /\ m_running_hooks' = m_running_hooks
        /\ InList(b)' /\ b \in Buffer
    BY <1>2, <1>3, <2>1, <2>4, CreateIs
  <2>6. b \notin Client /\ hooks' = hooks
    BY <1>3, <2>5, NotAClient DEF running
  <2>7. created.do = "created" /\ created.then = <<leave>> /\ created.buffer = b
    BY <2>3 DEF Created
  <2> DEFINE todo == Hook("BufCreate", name, b) \o <<created>>
  <2>8. calls' = todo \o Tail(calls)
    BY <2>1, <2>3, <2>4 DEF CreateBuffer, Call
  <2>9. ~Lone(created)
    BY <2>7 DEF Lone
  <2>10. Stacked(todo) /\ \A t \in ToSet(todo) : t = created \/ t \in ToSet(Hook("BufCreate", name, b))
    BY <1>2, <2>6, <2>9, HookAbove
  <2>11. \A t \in ToSet(Hook("BufCreate", name, b)) :
            Noise(t) /\ (KnowsBuffer(t) /\ KnowsClient(t) /\ KnowsHook(t))'
    BY <1>2, <2>6, HookKnows
  <2> HIDE DEF todo
  <2>12. leave.do = "leave for" /\ leave.at = It.at /\ leave.buffer = b
    BY <2>2
  <2>13. InList(leave.buffer)' /\ InList(created.buffer)'
    BY <2>5, <2>7, <2>12
  <2>14. EditCalls(todo, It.at)
    BY <2>7, <2>10, <2>11, <2>12, <2>13 DEF EditCalls
  <2> QED
    BY <1>1, <2>5, <2>8, <2>14
<1>5. CASE buffers # {}
  <2>1. PICK b : b \in buffers /\ b = (CHOOSE x \in buffers : TRUE)
    BY <1>5
  <2>2. PICK leave : leave = [do |-> "leave for", at |-> It.at, buffer |-> b]
    OBVIOUS
  <2>3. PICK created : created = Created(b, <<leave>>)
    OBVIOUS
  <2> DEFINE todo == <<leave>>
  <2>4. calls' = todo \o Tail(calls) /\ UNCHANGED server
    BY <1>5, <2>1, <2>2 DEF EditBuffer, Call
  <2>5. QuietData /\ locked' = locked /\ m_running_hooks' = m_running_hooks
    BY <1>2, <1>3, <2>4 DEF server, views, lists, running, QuietData, ObjectsInv, TypeOK, InList, Apart
  <2>6. InList(b)'
    BY <2>1, <2>4 DEF Named, InList, server
  <2>7. created.do = "created" /\ created.then = <<leave>> /\ created.buffer = b
    BY <2>3 DEF Created
  <2>8. leave.do = "leave for" /\ leave.at = It.at /\ leave.buffer = b
    BY <2>2
  <2>9. Stacked(todo) /\ \A t \in ToSet(todo) : t = leave
    BY StackOfOne, OneOrNone
  <2> HIDE DEF todo
  <2>10. InList(leave.buffer)' /\ InList(created.buffer)'
    BY <2>6, <2>7, <2>8
  <2>11. EditCalls(todo, It.at)
    BY <2>7, <2>8, <2>9, <2>10 DEF EditCalls
  <2> QED
    BY <1>1, <2>4, <2>5, <2>11
<1> QED
  BY <1>4, <1>5

LEMMA LeaveKnows ==
  ASSUME NEW leave, NEW created, leave.do = "leave for", created.do = "created",
         created.then = <<leave>>, InList(leave.buffer)', InList(created.buffer)'
  PROVE  /\ Then(created) = leave
         /\ (KnowsBuffer(leave) /\ KnowsClient(leave) /\ KnowsHook(leave))'
         /\ (KnowsBuffer(created) /\ KnowsClient(created) /\ KnowsHook(created))'
<1>1. Then(created) = leave
  <2>1. IsList(<<leave>>) /\ Len(<<leave>>) = 1 /\ Len(<<>>) = 0 /\ <<leave>>[1] = leave
    BY OneOrNone
  <2>2. <<leave>> # <<>>
    BY <2>1
  <2>3. Head(<<leave>>) = leave
    BY <2>1, <2>2, Cut
  <2> QED
    BY <2>3 DEF Then
<1>2. ~Switch(leave) /\ ~Switch(created)
  BY <1>1 DEF Switch
<1>3. KnowsBuffer(leave)'
  BY DEF KnowsBuffer
<1>4. KnowsBuffer(created)'
  BY <1>1 DEF KnowsBuffer
<1>5. (KnowsClient(leave) /\ KnowsHook(leave))'
  BY <1>2 DEF KnowsClient, KnowsHook
<1>6. (KnowsClient(created) /\ KnowsHook(created))'
  BY <1>2 DEF KnowsClient, KnowsHook
<1> QED
  BY <1>1, <1>3, <1>4, <1>5, <1>6

LEMMA HooksStay ==
  ASSUME HooksAreRunning, m_running_hooks' = m_running_hooks,
         \A call \in Calls : call.do = "hook done" => call \in Calls'
  PROVE  HooksAreRunning'
BY DEF HooksAreRunning

(* The step of a call that does no more than to make others.                *)
LEMMA NoiseMakes ==
  ASSUME ObjectsInv, QuietData, ~Idle, Noise(It), NEW todo, Stacked(todo),
         calls' = todo \o Tail(calls),
         \A t \in ToSet(todo) : Noise(t) /\ (KnowsBuffer(t) /\ KnowsClient(t) /\ KnowsHook(t))',
         locked' = locked, m_running_hooks' = m_running_hooks, It.do # "hook done"
  PROVE  ObjectsInv'
<1>1. Calls = {It} \cup Rest /\ \A f \in Rest : May(It, f)
  BY Under DEF ObjectsInv
<1>2. \A f \in Rest : ~Lone(f)
  <2> TAKE f \in Rest
  <2>1. May(It, f)
    BY <1>1
  <2> QED
    BY <2>1 DEF May, Noise, Switch, Forgetter
<1>3. \A t \in ToSet(todo) : \A f \in Rest : May(t, f)
  BY <1>2 DEF May
<1>4. Calls' = ToSet(todo) \cup Rest
  BY <1>3, Replaced DEF ObjectsInv
<1>5. \A call \in Calls : call.do = "hook done" => call \in Calls'
  BY <1>1, <1>4
<1>6. HooksAreRunning'
  BY <1>5, HooksStay DEF ObjectsInv
<1> QED
  BY <1>6, NoiseStep

LEMMA EditInHookStep ==
  ASSUME ObjectsInv, HooksOnlyOpen, EditBuffer, It.at \notin Client
  PROVE  ObjectsInv'
<1>1. /\ ~Idle /\ It.do = "command" /\ QuietData /\ locked' = locked
      /\ m_running_hooks' = m_running_hooks
  BY EditMakes
<1>2. PICK todo : calls' = todo \o Tail(calls) /\ EditCalls(todo, It.at)
  BY EditMakes
<1>3. PICK leave, created :
        /\ leave.do = "leave for" /\ leave.at = It.at /\ InList(leave.buffer)'
        /\ created.do = "created" /\ created.then = <<leave>> /\ InList(created.buffer)'
        /\ Stacked(todo)
        /\ \A t \in ToSet(todo) :
              \/ t = leave \/ t = created
              \/ Noise(t) /\ (KnowsBuffer(t) /\ KnowsClient(t) /\ KnowsHook(t))'
  BY <1>2 DEF EditCalls
<1>4. /\ Then(created) = leave
      /\ (KnowsBuffer(leave) /\ KnowsClient(leave) /\ KnowsHook(leave))'
      /\ (KnowsBuffer(created) /\ KnowsClient(created) /\ KnowsHook(created))'
  BY <1>3, LeaveKnows
<1>5. Noise(leave) /\ Noise(created) /\ Noise(It)
  BY <1>1, <1>3, <1>4 DEF Noise
<1>6. \A t \in ToSet(todo) : Noise(t) /\ (KnowsBuffer(t) /\ KnowsClient(t) /\ KnowsHook(t))'
  BY <1>3, <1>4, <1>5
<1> QED
  BY <1>1, <1>2, <1>3, <1>5, <1>6, NoiseMakes

LEMMA LeaveInHookStep ==
  ASSUME ObjectsInv, LeaveBuffer, It.at \notin Client
  PROVE  ObjectsInv'
<1>1. ~Idle /\ It.do = "leave for" /\ Noise(It)
  BY DEF LeaveBuffer, Doing, It, Noise
<1>2. calls' = <<>> \o Tail(calls) /\ clients' = clients
  BY DEF LeaveBuffer, Call
<1>3. UNCHANGED <<server, lists, running>>
  BY DEF LeaveBuffer
<1>4. QuietData /\ locked' = locked /\ m_running_hooks' = m_running_hooks
  BY <1>2, <1>3 DEF server, lists, running, QuietData, ObjectsInv, TypeOK, InList, Apart
<1>5. Stacked(<<>>) /\ ToSet(<<>>) = {}
  BY StackOfOne, OneOrNone
<1>6. \A t \in ToSet(<<>>) : Noise(t) /\ (KnowsBuffer(t) /\ KnowsClient(t) /\ KnowsHook(t))'
  BY <1>5
<1> QED
  BY <1>1, <1>2, <1>4, <1>5, <1>6, NoiseMakes

(* The buffer that was created is there: nothing that is deleted meanwhile. *)
LEMMA EndCreateIs ==
  ASSUME ObjectsInv, EndCreate
  PROVE  /\ ~Idle /\ It.do = "created" /\ QuietData /\ locked' = locked
         /\ m_running_hooks' = m_running_hooks
         /\ It.then = <<Then(It)>> /\ calls' = <<Then(It)>> \o Tail(calls)
         /\ m_buffers' = m_buffers /\ m_buffers # <<>> /\ UNCHANGED <<views, running>>
<1>1. ~Idle /\ It.do = "created"
  BY DEF EndCreate, Doing, It
<1>2. InList(It.buffer) /\ It.then = <<Then(It)>>
  BY <1>1, ItKnows DEF Knows, KnowsBuffer
<1>3. It.buffer \notin m_buffer_trash
  BY <1>2 DEF ObjectsInv, Apart, InList
<1>4. calls' = It.then \o Tail(calls) /\ UNCHANGED <<server, views, running>>
  BY <1>3 DEF EndCreate, Call
<1>5. QuietData /\ locked' = locked /\ m_running_hooks' = m_running_hooks /\ m_buffers' = m_buffers
  BY <1>4 DEF server, views, lists, running, QuietData, ObjectsInv, TypeOK, InList, Apart
<1>6. m_buffers # <<>>
  BY <1>2, OneOrNone DEF InList
<1> QED
  BY <1>1, <1>2, <1>4, <1>5, <1>6

LEMMA EndCreateInHookStep ==
  ASSUME ObjectsInv, EndCreate, Then(It).do = "leave for", Then(It).at \notin Client
  PROVE  ObjectsInv'
<1>1. /\ ~Idle /\ It.do = "created" /\ QuietData /\ locked' = locked
      /\ m_running_hooks' = m_running_hooks
  BY EndCreateIs
<1>2. PICK leave : leave = Then(It)
  OBVIOUS
<1>3. calls' = <<leave>> \o Tail(calls)
  BY <1>2, EndCreateIs
<1>4. Noise(It) /\ Noise(leave)
  BY <1>1, <1>2 DEF Noise
<1>5. Stacked(<<leave>>) /\ ToSet(<<leave>>) = {leave}
  BY StackOfOne, OneOrNone
<1>6. InList(leave.buffer)'
  <2>1. InList(leave.buffer)
    BY <1>1, <1>2, ItKnows DEF Knows, KnowsBuffer
  <2> QED
    BY <1>1, <2>1 DEF QuietData
<1>7. (KnowsBuffer(leave) /\ KnowsClient(leave) /\ KnowsHook(leave))'
  BY <1>2, <1>6 DEF KnowsBuffer, KnowsClient, KnowsHook, Switch
<1>8. \A t \in ToSet(<<leave>>) : Noise(t) /\ (KnowsBuffer(t) /\ KnowsClient(t) /\ KnowsHook(t))'
  BY <1>4, <1>5, <1>7
<1> QED
  BY <1>1, <1>3, <1>4, <1>5, <1>8, NoiseMakes

-----------------------------------------------------------------------------
(* The steps of a client that goes to another buffer and is not there yet.  *)

LEMMA QuietStep ==
  ASSUME ObjectsInv, QuietData, ~Idle, ~Owed(It), It.do # "delete buffer", It.do # "hook done",
         NEW todo, Stacked(todo), calls' = todo \o Tail(calls),
         \A t \in ToSet(todo) : \A f \in Rest : May(t, f),
         \A t \in ToSet(todo) : t.do \notin {"end jump", "joins"} /\ Knows(t)',
         \A f \in Rest : (GoesOn(f) /\ HeadsThere(f))',
         LocksAreHeld', m_running_hooks' = m_running_hooks
  PROVE  ObjectsInv'
<1>1. Calls = {It} \cup Rest
  BY Under DEF ObjectsInv
<1>2. Stacked(calls') /\ Calls' = ToSet(todo) \cup Rest
  BY Replaced DEF ObjectsInv
<1>3. OwedStay
  <2>1. ASSUME NEW call \in Calls, Owed(call)
        PROVE  call \in Calls'
    BY <1>1, <1>2, <2>1
  <2>2. ASSUME NEW call \in Calls', call.do \in {"end jump", "joins"}
        PROVE  call \in Calls
    <3>1. call \notin ToSet(todo)
      BY <2>2
    <3> QED
      BY <1>1, <1>2, <2>2, <3>1
  <2> QED
    BY <2>1, <2>2 DEF OwedStay
<1>4. TypeOK' /\ ClientsFit' /\ WindowsAreOpen' /\ Apart'
  BY <1>3, QuietKeeps
<1>5. \A call \in Calls : call.do = "hook done" => call \in Calls'
  BY <1>1, <1>2
<1>6. HooksAreRunning'
  BY <1>5, HooksStay DEF ObjectsInv
<1>7. ASSUME NEW f \in Rest
      PROVE  Knows(f)'
  <2>1. KnowsBuffer(f) /\ KnowsClient(f) /\ KnowsHook(f) /\ KnowsNode(f)
    BY <1>1 DEF ObjectsInv, CallsKnow, Knows
  <2>2. \A buffer : DeleteBuffer(buffer) \in Calls => DeleteBuffer(buffer) \in Calls'
    <3> TAKE buffer
    <3>1. DeleteBuffer(buffer).do = "delete buffer"
      BY DEF DeleteBuffer
    <3> QED
      BY <1>1, <1>2, <3>1
  <2>3. (KnowsBuffer(f) /\ KnowsClient(f) /\ KnowsHook(f) /\ KnowsNode(f))'
    BY <2>1, <2>2, QuietKnows
  <2> QED
    BY <2>3 DEF Knows
<1>8. CallsKnow'
  BY <1>2, <1>7 DEF CallsKnow
<1> QED
  BY <1>2, <1>4, <1>6, <1>8 DEF ObjectsInv

(* What may be below a switch.                                              *)
LEMMA UnderSwitch ==
  ASSUME NEW above, NEW f, Switch(above), May(above, f)
  PROVE  /\ ~Lone(f) /\ f.do \notin {"show", "shown", "connected", "joins", "delete buffer"}
         /\ f.do \in {"forget selections", "undo more", "end jump"} => f.client = Moves(above)
         /\ f.do = "new client" => Moves(above) = Scratch
         /\ ~Switch(f)
         /\ \A s : Switch(s) /\ Moves(s) = Moves(above) => May(s, f)
<1>1. ~Noise(above) /\ above.do # "forget selections" /\ ~Forgetter(above)
      /\ above.do \notin {"delete buffer", "destroyed"}
  BY NoSwitchIsNoise DEF Switch, Forgetter
<1>2. \/ Noise(f) \/ Forgetter(f)
      \/ /\ f.do \in {"forget selections", "undo more", "end jump"}
         /\ f.client = Moves(above)
      \/ f.do = "new client" /\ Moves(above) = Scratch
  BY <1>1 DEF May
<1>3. \A s : Switch(s) /\ Moves(s) = Moves(above) => May(s, f)
  BY <1>2 DEF May
<1>4. ~Lone(f) /\ ~Switch(f)
      /\ f.do \notin {"show", "shown", "connected", "joins", "delete buffer"}
  BY <1>2 DEF Noise, Forgetter, Lone, Switch
<1>5. f.do \in {"forget selections", "undo more", "end jump"} => ~Noise(f) /\ ~Forgetter(f)
  BY DEF Noise, Forgetter
<1>6. f.do = "new client" => ~Noise(f) /\ ~Forgetter(f)
  BY DEF Noise, Forgetter
<1> QED
  BY <1>2, <1>3, <1>4, <1>5, <1>6

LEMMA SwitchStep ==
  ASSUME ObjectsInv, QuietData, ~Idle, Switch(It),
         NEW s, Going(s), Moves(s) = Moves(It), NEW todo, Stacked(todo), s \in ToSet(todo),
         calls' = todo \o Tail(calls),
         \A t \in ToSet(todo) :
            t = s \/ (Noise(t) /\ (KnowsBuffer(t) /\ KnowsClient(t) /\ KnowsHook(t))'),
         (KnowsBuffer(s) /\ KnowsClient(s) /\ KnowsHook(s) /\ KnowsNode(s))',
         m_buffers' # <<>>,
         \A f \in Rest : f.do = "end jump" =>
            /\ s.do \in {"change buffer", "show", "shown"}
            /\ s.do = "show" => s.change.buffer = f.sel.buffer
            /\ s.do # "show" => s.buffer = f.sel.buffer,
         \A b \in locked' : Locks(s, b)', m_running_hooks' = m_running_hooks
  PROVE  ObjectsInv'
<1>1. Calls = {It} \cup Rest /\ \A f \in Rest : May(It, f)
  BY Under DEF ObjectsInv
<1>2. Switch(s)
  BY DEF Going
<1>3. \A t \in ToSet(todo) : \A f \in Rest : May(t, f)
  <2> TAKE t \in ToSet(todo)
  <2> TAKE f \in Rest
  <2>1. ~Lone(f) /\ May(s, f)
    BY <1>1, <1>2, UnderSwitch
  <2>2. CASE t = s
    BY <2>1, <2>2
  <2>3. CASE Noise(t)
    BY <2>1, <2>3 DEF May
  <2> QED
    BY <2>2, <2>3
<1>4. Calls' = ToSet(todo) \cup Rest
  BY <1>3, Replaced DEF ObjectsInv
<1>5. ~Owed(It) /\ It.do # "delete buffer" /\ It.do # "hook done"
  BY DEF Owed, Switch
<1>6. \A t \in ToSet(todo) : t.do \notin {"end jump", "joins"} /\ Knows(t)'
  <2> TAKE t \in ToSet(todo)
  <2>1. CASE t = s
    <3>1. (GoesOn(s) /\ HeadsThere(s))' /\ s.do \notin {"end jump", "joins"}
      BY <1>2 DEF Switch, GoesOn, HeadsThere
    <3> QED
      BY <2>1, <3>1 DEF Knows
  <2>2. CASE Noise(t) /\ (KnowsBuffer(t) /\ KnowsClient(t) /\ KnowsHook(t))'
    <3>1. (KnowsNode(t) /\ GoesOn(t) /\ HeadsThere(t))' /\ t.do \notin {"end jump", "joins"}
      BY <2>2 DEF Noise, KnowsNode, GoesOn, HeadsThere
    <3> QED
      BY <2>2, <3>1 DEF Knows
  <2> QED
    BY <2>1, <2>2
<1>7. \A f \in Rest : (GoesOn(f) /\ HeadsThere(f))'
  <2> TAKE f \in Rest
  <2>1. f.do \in {"forget selections", "undo more", "end jump"} => f.client = Moves(It)
    BY <1>1, UnderSwitch
  <2>2. s \in Calls' /\ Going(s)
    BY <1>4
  <2>3. GoesOn(f)'
    BY <2>1, <2>2 DEF GoesOn
  <2>4. ASSUME f.do = "end jump", NEW other \in Calls', Switch(other)
        PROVE  /\ other.do \in {"change buffer", "show", "shown"}
               /\ other.do = "show" => other.change.buffer = f.sel.buffer
               /\ other.do # "show" => other.buffer = f.sel.buffer
    <3>1. CASE other \in ToSet(todo)
      <4>1. other = s
        BY <2>4, <3>1, NoSwitchIsNoise
      <4> QED
        BY <2>4, <4>1
    <3>2. CASE other \in Rest
      BY <1>1, <2>4, <3>2, UnderSwitch
    <3> QED
      BY <1>4, <3>1, <3>2
  <2>5. HeadsThere(f)'
    BY <2>4 DEF HeadsThere
  <2> QED
    BY <2>3, <2>5
<1>8. LocksAreHeld'
  BY <1>4 DEF LocksAreHeld
<1> QED
  BY <1>3, <1>5, <1>6, <1>7, <1>8, QuietStep

LEMMA SwitchIsUnlocked ==
  ASSUME ObjectsInv, ~Idle, Switch(It), It.do \notin {"show", "shown"}
  PROVE  locked = {}
<1>1. Calls = {It} \cup Rest /\ \A f \in Rest : May(It, f)
  BY Under DEF ObjectsInv
<1>2. ASSUME NEW call \in Calls, call.do \in {"show", "shown", "connected", "joins"}
      PROVE  FALSE
  <2>1. CASE call = It
    BY <1>2, <2>1 DEF Switch
  <2>2. CASE call \in Rest
    <3>1. May(It, call)
      BY <1>1, <2>2
    <3> QED
      BY <1>2, <3>1, UnderSwitch
  <2> QED
    BY <1>1, <2>1, <2>2
<1>3. \A call \in Calls : \A buffer : ~Locks(call, buffer)
  BY <1>2 DEF Locks
<1> QED
  BY <1>3 DEF ObjectsInv, LocksAreHeld

(* A client that is at the buffer it goes to, or that is none.              *)
LEMMA SwitchEnds ==
  ASSUME ObjectsInv, QuietData, ~Idle, Switch(It), It.do \notin {"show", "shown"},
         calls' = <<>> \o Tail(calls), locked' = locked, m_running_hooks' = m_running_hooks,
         \A f \in Rest : GoesOn(f)'
  PROVE  ObjectsInv'
<1>1. Calls = {It} \cup Rest /\ \A f \in Rest : May(It, f)
  BY Under DEF ObjectsInv
<1>2. Stacked(<<>>) /\ ToSet(<<>>) = {}
  BY StackOfOne, OneOrNone
<1>3. \A t \in ToSet(<<>>) : \A f \in Rest : May(t, f)
  BY <1>2
<1>4. Calls' = ToSet(<<>>) \cup Rest
  BY <1>2, <1>3, Replaced DEF ObjectsInv
<1>5. Calls' = Rest
  BY <1>2, <1>4
<1>6. \A f \in Rest : HeadsThere(f)'
  <2> TAKE f \in Rest
  <2>1. HeadsThere(f)
    BY <1>1 DEF ObjectsInv, CallsKnow, Knows
  <2> QED
    BY <1>1, <1>5, <2>1 DEF HeadsThere
<1>7. LocksAreHeld'
  BY SwitchIsUnlocked DEF LocksAreHeld
<1>8. ~Owed(It) /\ It.do # "delete buffer" /\ It.do # "hook done"
  BY DEF Owed, Switch
<1>9. \A t \in ToSet(<<>>) : t.do \notin {"end jump", "joins"} /\ Knows(t)'
  BY <1>2
<1> QED
  BY <1>2, <1>3, <1>6, <1>7, <1>8, <1>9, QuietStep

LEMMA LastIs ==
  ASSUME NEW S, NEW s \in Seq(S), s # <<>>
  PROVE  Last(s) \in ToSet(s) /\ Last(s) \in S
<1>1. Len(s) \in Nat \ {0} /\ DOMAIN s = 1 .. Len(s)
  BY EmptySeq, LenProperties
<1>2. Len(s) \in 1 .. Len(s)
  BY <1>1
<1> QED
  BY <1>1, <1>2, ElementOfSeq DEF Last, ToSet

LEMMA EndCreateInSwitchStep ==
  ASSUME ObjectsInv, EndCreate, Then(It).do = "to first buffer"
  PROVE  ObjectsInv'
<1>1. /\ ~Idle /\ It.do = "created" /\ QuietData /\ locked' = locked
      /\ m_running_hooks' = m_running_hooks /\ m_buffers' # <<>>
  BY EndCreateIs
<1>2. PICK s : s = Then(It)
  OBVIOUS
<1>3. calls' = <<s>> \o Tail(calls) /\ Stacked(<<s>>) /\ ToSet(<<s>>) = {s}
  BY <1>2, EndCreateIs, StackOfOne, OneOrNone
<1>4. Switch(It) /\ Going(s) /\ Moves(s) = Moves(It) /\ Moves(s) = s.at
  BY <1>1, <1>2 DEF Switch, Going, Moves
<1>5. Knows(It) /\ It \in Calls
  BY <1>1, ItKnows
<1>6. Moves(s) \in Client \cup {Scratch}
  BY <1>4, <1>5 DEF Knows, KnowsClient
<1>7. (KnowsBuffer(s) /\ KnowsHook(s) /\ KnowsNode(s))'
  BY <1>2 DEF KnowsBuffer, KnowsHook, KnowsNode
<1>8. KnowsClient(s)'
  BY <1>2, <1>6 DEF KnowsClient
<1>9. ASSUME NEW f \in Rest
      PROVE  f.do # "end jump"
  <2>1. f \in Calls
    BY <1>1, Under DEF ObjectsInv
  <2>2. HeadsThere(f)
    BY <2>1 DEF ObjectsInv, CallsKnow, Knows
  <2> QED
    BY <1>1, <1>4, <1>5, <2>2 DEF HeadsThere
<1>10. locked' = {}
  BY <1>1, <1>4, SwitchIsUnlocked
<1> QED
  BY <1>1, <1>3, <1>4, <1>7, <1>8, <1>9, <1>10, SwitchStep

(* A new call to change the buffer, of no undo.                             *)
LEMMA ChangeIs ==
  ASSUME NEW c \in Client, NEW buffer, NEW s, s = ChangeTo(c, buffer)
  PROVE  /\ s.do = "change buffer" /\ s.client = c /\ s.buffer = buffer
         /\ Going(s) /\ Switch(s) /\ Moves(s) = c /\ ~Lone(s)
         /\ (KnowsClient(s) /\ KnowsHook(s) /\ KnowsNode(s))'
         /\ InList(buffer)' => KnowsBuffer(s)'
<1>1. s.do = "change buffer" /\ s.client = c /\ s.buffer = buffer /\ s.select = Invalid
  BY DEF ChangeTo
<1>2. Switch(s) /\ Going(s) /\ Moves(s) = c /\ ~Lone(s)
  BY <1>1 DEF Switch, Going, Moves, Lone
<1>3. KnowsClient(s)'
  BY <1>1, <1>2 DEF KnowsClient
<1>4. (KnowsHook(s) /\ KnowsNode(s))'
  BY <1>1 DEF KnowsHook, KnowsNode, UndoKnows
<1>5. InList(buffer)' => KnowsBuffer(s)'
  BY <1>1 DEF KnowsBuffer
<1> QED
  BY <1>1, <1>2, <1>3, <1>4, <1>5

LEMMA GetFirstBufferStep ==
  ASSUME ObjectsInv, HooksOnlyOpen, GetFirstBuffer
  PROVE  ObjectsInv'
<1>1. ~Idle /\ It.do = "to first buffer" /\ UNCHANGED <<views, running, ghosts>>
  BY DEF GetFirstBuffer, Doing, It
<1>2. PICK it : it = It
  OBVIOUS
<1>3. Switch(It) /\ Going(it) /\ Moves(It) = It.at /\ Knows(It) /\ It \in Calls
      /\ It.do \notin {"show", "shown"}
  BY <1>1, <1>2, ItKnows DEF Switch, Going, Moves
<1>4. It.at \in Client \cup {Scratch}
  BY <1>3 DEF Knows, KnowsClient
<1>5. ASSUME NEW f \in Rest
      PROVE  f.do # "end jump" /\ May(It, f) /\ Knows(f)
  <2>1. f \in Calls /\ May(It, f)
    BY <1>1, Under DEF ObjectsInv
  <2>2. HeadsThere(f) /\ Knows(f)
    BY <2>1 DEF ObjectsInv, CallsKnow, Knows
  <2> QED
    BY <1>1, <1>3, <2>1, <2>2 DEF HeadsThere
<1>6. TypeOK /\ locked = {}
  BY <1>1, <1>3, SwitchIsUnlocked DEF ObjectsInv
<1>7. CASE m_buffers = <<>>
  <2>1. PICK b : b = NewBuffer(Scratch)
    OBVIOUS
  <2>2. PICK s : s = Created(b, <<it>>)
    OBVIOUS
  <2>3. CreateBuffer(Scratch, <<it>>)
    BY <1>2, <1>7 DEF GetFirstBuffer
  <2>4. QuietData /\ locked' = locked /\ m_running_hooks' = m_running_hooks
        /\ InList(b)' /\ b \in Buffer
    BY <1>1, <2>1, <2>3, CreateIs
  <2>5. b \notin Client /\ hooks' = hooks
    BY <1>1, <2>4, NotAClient DEF running
  <2>6. s.do = "created" /\ s.then = <<it>> /\ s.buffer = b /\ Then(s) = it
    <3>1. s.do = "created" /\ s.then = <<it>> /\ s.buffer = b
      BY <2>2 DEF Created
    <3>2. IsList(<<it>>) /\ <<it>> # <<>> /\ <<it>>[1] = it
      BY OneOrNone
    <3>3. Head(<<it>>) = it
      BY <3>2, Cut
    <3> QED
      BY <3>1, <3>3 DEF Then
  <2>7. Going(s) /\ Switch(s) /\ Moves(s) = Moves(It) /\ ~Lone(s)
    BY <1>1, <1>2, <1>3, <2>6 DEF Switch, Going, Moves, Lone
  <2>8. (KnowsBuffer(s) /\ KnowsHook(s) /\ KnowsNode(s))'
    BY <1>1, <1>2, <2>4, <2>6 DEF KnowsBuffer, KnowsHook, KnowsNode
  <2>9. Moves(s) \in Client \cup {Scratch}
    BY <1>3, <1>4, <2>7
  <2>10. KnowsClient(s)'
    BY <2>6, <2>9 DEF KnowsClient
  <2> DEFINE todo == Hook("BufCreate", Scratch, b) \o <<s>>
  <2>11. calls' = todo \o Tail(calls)
    BY <2>1, <2>2, <2>3 DEF CreateBuffer, Call
  <2>12. Stacked(todo) /\ s \in ToSet(todo)
         /\ \A t \in ToSet(todo) : t = s \/ t \in ToSet(Hook("BufCreate", Scratch, b))
    BY <1>6, <2>5, <2>7, HookAbove
  <2>13. \A t \in ToSet(Hook("BufCreate", Scratch, b)) :
            Noise(t) /\ (KnowsBuffer(t) /\ KnowsClient(t) /\ KnowsHook(t))'
    BY <1>6, <2>5, HookKnows
  <2> HIDE DEF todo
  <2>14. m_buffers' # <<>>
    <3>1. b \in ToSet(m_buffers')
      BY <2>4 DEF InList
    <3> QED
      BY <3>1, OneOrNone
  <2>15. \A t \in ToSet(todo) :
            t = s \/ (Noise(t) /\ (KnowsBuffer(t) /\ KnowsClient(t) /\ KnowsHook(t))')
    <3> TAKE t \in ToSet(todo)
    <3>1. CASE t = s
      BY <3>1
    <3>2. CASE t \in ToSet(Hook("BufCreate", Scratch, b))
      BY <2>13, <3>2
    <3> QED
      BY <2>12, <3>1, <3>2
  <2> QED
    BY <1>1, <1>3, <1>5, <1>6, <2>4, <2>7, <2>8, <2>10, <2>11, <2>12, <2>14, <2>15, SwitchStep
<1>8. CASE m_buffers # <<>>
  <2>1. calls' = ShowFor(It.at, Last(m_buffers)) \o Tail(calls) /\ UNCHANGED server
    BY <1>8 DEF GetFirstBuffer, Call
  <2>2. QuietData /\ locked' = locked /\ m_running_hooks' = m_running_hooks
        /\ m_buffers' = m_buffers
    BY <1>1, <2>1 DEF server, views, lists, running, QuietData, ObjectsInv, TypeOK, InList, Apart
  <2>3. CASE It.at \in Client
    <3>1. PICK b : b = Last(m_buffers)
      OBVIOUS
    <3>2. PICK s : s = ChangeTo(It.at, b)
      OBVIOUS
    <3>3. calls' = <<s>> \o Tail(calls) /\ Stacked(<<s>>) /\ ToSet(<<s>>) = {s}
      BY <2>1, <2>3, <3>1, <3>2, StackOfOne, OneOrNone DEF ShowFor
    <3>4. InList(b)'
      <4>1. b \in ToSet(m_buffers)
        BY <1>6, <1>8, <3>1, LastIs DEF TypeOK
      <4> QED
        BY <2>2, <4>1 DEF InList
    <3>5. PICK c \in Client : c = It.at
      BY <2>3
    <3>6. s = ChangeTo(c, b)
      BY <3>2, <3>5
    <3>7. Going(s) /\ Moves(s) = c
          /\ (KnowsBuffer(s) /\ KnowsClient(s) /\ KnowsHook(s) /\ KnowsNode(s))'
      BY <3>4, <3>6, ChangeIs
    <3>8. Moves(s) = Moves(It)
      BY <1>3, <3>5, <3>7
    <3> QED
      BY <1>1, <1>3, <1>5, <1>6, <1>8, <2>2, <3>3, <3>7, <3>8, SwitchStep
  <2>4. CASE It.at \notin Client
    <3>1. calls' = <<>> \o Tail(calls) /\ Moves(It) = Scratch
      BY <1>3, <1>4, <2>1, <2>4 DEF ShowFor
    <3>2. ASSUME NEW f \in Rest
          PROVE  GoesOn(f)'
      <4>1. f.do = "forget selections" => f.client = Scratch /\ f.client \in Client
        BY <1>3, <1>5, <3>1, UnderSwitch DEF Knows, KnowsClient
      <4>2. f.do # "forget selections" /\ f.do # "end jump"
        BY <1>5, <4>1, NotAClient
      <4> QED
        BY <1>8, <2>2, <4>2 DEF GoesOn
    <3> QED
      BY <1>1, <1>3, <2>2, <3>1, <3>2, SwitchEnds
  <2> QED
    BY <2>3, <2>4
<1> QED
  BY <1>7, <1>8

LEMMA RemovedIs ==
  ASSUME NEW S, NEW s \in Seq(S), NEW i \in 1 .. Len(s)
  PROVE  RemoveAt(s, i) \in Seq(S) /\ ToSet(RemoveAt(s, i)) \in SUBSET ToSet(s)
<1>1. Len(s) \in Nat /\ DOMAIN s = 1 .. Len(s) /\ s \in Seq(ToSet(s))
  BY SeqIsList, ListIsSeq, LenProperties
<1> DEFINE R == ToSet(s)
           n == Len(s)
           a == SubSeq(s, 1, i - 1)
           b == SubSeq(s, i + 1, n)
<1>2. i - 1 \in Int /\ i + 1 \in Int /\ 1 \in Int /\ n \in Int
  BY <1>1
<1>3. \A j \in 1 .. n : s[j] \in R
  BY <1>1 DEF ToSet
<1>4. (\A j \in 1 .. i - 1 : j \in 1 .. n) /\ (\A j \in i + 1 .. n : j \in 1 .. n)
  BY <1>1
<1> HIDE DEF R, n
<1>5. a \in Seq(R) /\ b \in Seq(R)
  BY <1>2, <1>3, <1>4, SubSeqProperties
<1> HIDE DEF a, b
<1>6. a \o b \in Seq(R)
  BY <1>5, ConcatProperties
<1>7. RemoveAt(s, i) = a \o b
  BY DEF RemoveAt, a, b, n
<1>8. ToSet(a \o b) \in SUBSET R
  BY <1>6, SeqIsList
<1>9. R \in SUBSET S
  BY SeqIsList DEF R
<1> DEFINE x == a \o b
<1>10. x \in Seq(R) /\ R \in SUBSET S
  BY <1>6, <1>9
<1> HIDE DEF x
<1>11. x \in Seq(S)
  <2>1. \A j \in 1 .. Len(x) : x[j] \in R
    BY <1>10, ElementOfSeq
  <2>2. Len(x) \in Nat /\ x = [j \in 1 .. Len(x) |-> x[j]]
    BY <1>10, LenProperties
  <2>3. \A j \in 1 .. Len(x) : x[j] \in S
    BY <1>10, <2>1
  <2> QED
    BY <2>2, <2>3, IsASeq
<1> QED
  BY <1>7, <1>8, <1>11 DEF x, R

LEMMA LastOfIs ==
  ASSUME NEW n \in Nat, NEW S \in SUBSET (1 .. n), S # {}
  PROVE  LastOf(S) \in S
BY GreatestOf DEF LastOf

(* What a call gets that asks for a window: the selections of a free one or *)
(* those it came with, and the hook of a new window.                        *)
LEMMA WindowIsFound ==
  ASSUME ObjectsInv, HooksOnlyOpen, NEW buffer, InList(buffer),
         NEW call, call.sel = SelIn(buffer, 0), ~Lone(call), hooks' = hooks,
         GetFreeWindow(buffer, call)
  PROVE  /\ m_free_windows' \in Seq(WindowOf)
         /\ \A w \in ToSet(m_free_windows)' : w \in ToSet(m_free_windows)
         /\ \E todo, found, sel :
               /\ sel \in Sel /\ sel.buffer = buffer
               /\ (found = call /\ sel = call.sel) \/ found = [call EXCEPT !.sel = sel]
               /\ calls' = todo \o Tail(calls) /\ Stacked(todo) /\ found \in ToSet(todo)
               /\ \A t \in ToSet(todo) :
                     t = found \/ (Noise(t) /\ (KnowsBuffer(t) /\ KnowsClient(t) /\ KnowsHook(t))')
<1>1. TypeOK /\ buffer \in Buffer /\ buffer \notin Client
  <2>1. TypeOK
    BY DEF ObjectsInv
  <2>2. ToSet(m_buffers) \in SUBSET Buffer
    BY <2>1, SeqIsList DEF TypeOK
  <2> QED
    BY <2>1, <2>2, NotAClient DEF InList
<1> DEFINE free == FreeWindows(buffer)
<1>2. m_free_windows \in Seq(WindowOf) /\ DOMAIN m_free_windows = 1 .. Len(m_free_windows)
      /\ Len(m_free_windows) \in Nat
  BY <1>1, LenProperties DEF TypeOK
<1>3. CASE free = {}
  <2> DEFINE h == Hook("WinCreate", buffer[1], buffer)
             todo == h \o <<call>>
  <2>1. calls' = todo \o Tail(calls) /\ m_free_windows' = m_free_windows
    BY <1>3 DEF GetFreeWindow, Call
  <2>2. /\ Stacked(todo) /\ call \in ToSet(todo)
        /\ \A t \in ToSet(todo) : t = call \/ t \in ToSet(h)
    BY <1>1, HookAbove
  <2>3. \A t \in ToSet(h) : Noise(t) /\ (KnowsBuffer(t) /\ KnowsClient(t) /\ KnowsHook(t))'
    BY <1>1, HookKnows
  <2>4. call.sel \in Sel /\ call.sel.buffer = buffer
    BY <1>1 DEF SelIn, Sel
  <2> HIDE DEF todo, h
  <2>5. \A t \in ToSet(todo) :
           t = call \/ (Noise(t) /\ (KnowsBuffer(t) /\ KnowsClient(t) /\ KnowsHook(t))')
    <3> TAKE t \in ToSet(todo)
    <3>1. CASE t = call
      BY <3>1
    <3>2. CASE t \in ToSet(h)
      BY <2>3, <3>2
    <3> QED
      BY <2>2, <3>1, <3>2
  <2> QED
    BY <1>2, <2>1, <2>2, <2>4, <2>5
<1>4. CASE free # {}
  <2> DEFINE i == LastOf(free)
  <2>1. free \in SUBSET (1 .. Len(m_free_windows))
    BY <1>2 DEF FreeWindows
  <2>2. i \in free
    BY <1>2, <1>4, <2>1, LastOfIs
  <2>3. PICK sel : sel = m_free_windows[i].sel
    OBVIOUS
  <2>4. PICK found : found = [call EXCEPT !.sel = sel]
    OBVIOUS
  <2>5. calls' = <<found>> \o Tail(calls) /\ m_free_windows' = RemoveAt(m_free_windows, i)
    BY <1>4, <2>3, <2>4 DEF GetFreeWindow, Call
  <2>6. m_free_windows[i].buffer = buffer /\ i \in 1 .. Len(m_free_windows)
    BY <2>1, <2>2 DEF FreeWindows
  <2> HIDE DEF i
  <2>7. m_free_windows' \in Seq(WindowOf) /\ \A w \in ToSet(m_free_windows)' : w \in ToSet(m_free_windows)
    BY <1>2, <2>5, <2>6, RemovedIs
  <2>8. sel \in Sel /\ sel.buffer = buffer
    <3>1. m_free_windows[i] \in WindowOf /\ m_free_windows[i] \in ToSet(m_free_windows)
      BY <1>2, <2>6, ElementOfSeq DEF ToSet
    <3>2. WindowIsOpen(m_free_windows[i])
      BY <3>1 DEF ObjectsInv, WindowsAreOpen
    <3> QED
      BY <2>3, <2>6, <3>1, <3>2 DEF WindowIsOpen, WindowOf
  <2>9. Stacked(<<found>>) /\ ToSet(<<found>>) = {found}
    BY StackOfOne, OneOrNone
  <2> QED
    BY <2>4, <2>5, <2>7, <2>8, <2>9
<1> QED
  BY <1>3, <1>4

LEMMA ChangeBufferStep ==
  ASSUME ObjectsInv, HooksOnlyOpen, ChangeBuffer
  PROVE  ObjectsInv'
<1>1. ~Idle /\ It.do = "change buffer"
  BY DEF ChangeBuffer, Doing, It
<1>2. Switch(It) /\ Moves(It) = It.client /\ Knows(It) /\ It \in Calls
      /\ It.do \notin {"show", "shown"}
  BY <1>1, ItKnows DEF Switch, Moves
<1>3. It.client \in Client /\ InList(It.buffer) /\ UndoKnows(It)
  BY <1>1, <1>2 DEF Knows, KnowsClient, KnowsBuffer, KnowsNode
<1>4. locked = {} /\ TypeOK
  BY <1>1, <1>2, SwitchIsUnlocked DEF ObjectsInv
<1>5. m_buffers # <<>>
  BY <1>3, OneOrNone DEF InList
<1>6. ASSUME NEW f \in Rest
      PROVE  /\ May(It, f) /\ Knows(f)
             /\ f.do = "end jump" => It.buffer = f.sel.buffer
  <2>1. f \in Calls /\ May(It, f)
    BY <1>1, Under DEF ObjectsInv
  <2>2. HeadsThere(f) /\ Knows(f)
    BY <2>1 DEF ObjectsInv, CallsKnow, Knows
  <2> QED
    BY <1>1, <1>2, <2>1, <2>2 DEF HeadsThere
<1>7. CASE It.buffer = BufferOf(Context(It.client))
  <2>1. calls' = <<>> \o Tail(calls) /\ UNCHANGED <<server, views, running, ghosts>>
    BY <1>7 DEF ChangeBuffer, Call
  <2>2. QuietData /\ locked' = locked /\ m_running_hooks' = m_running_hooks
        /\ m_buffers' = m_buffers /\ clients' = clients
    BY <2>1 DEF server, views, lists, running, QuietData, ObjectsInv, TypeOK, InList, Apart
  <2>3. ASSUME NEW f \in Rest
        PROVE  GoesOn(f)'
    <3>1. f.do \in {"forget selections", "end jump"} => f.client = It.client
      BY <1>2, <1>6, UnderSwitch
    <3>2. f.do = "forget selections" => f.buffer \in m_buffer_trash
      BY <1>6 DEF Knows, KnowsBuffer
    <3>3. f.do = "forget selections" => f.buffer # It.buffer
      BY <1>3, <3>2 DEF ObjectsInv, Apart, InList
    <3>5. Context(f.client)' = Context(f.client)
      BY <2>2 DEF Context
    <3> QED
      BY <1>5, <1>6, <1>7, <2>2, <3>1, <3>3, <3>5 DEF GoesOn
  <2> QED
    BY <1>1, <1>2, <2>1, <2>2, <2>3, SwitchEnds
<1>8. CASE It.buffer # BufferOf(Context(It.client))
  <2>1. PICK change, buffer : change = It /\ buffer = It.buffer
    OBVIOUS
  <2>2. PICK call : call = Show(change, SelIn(buffer, 0))
    OBVIOUS
  <2>3. /\ locked' = {buffer} /\ GetFreeWindow(buffer, call)
        /\ UNCHANGED <<m_buffers, m_buffer_trash, m_clients, m_client_trash,
                       clients, running, ghosts>>
    BY <1>4, <1>8, <2>1, <2>2 DEF ChangeBuffer
  <2>4. hooks' = hooks /\ m_running_hooks' = m_running_hooks
    BY <2>3 DEF running
  <2>5. call.do = "show" /\ call.change = change /\ call.sel = SelIn(buffer, 0) /\ ~Lone(call)
    BY <2>2 DEF Show, Lone
  <2>6. InList(buffer)
    BY <1>3, <2>1
  <2>7. /\ m_free_windows' \in Seq(WindowOf)
        /\ \A w \in ToSet(m_free_windows)' : w \in ToSet(m_free_windows)
        /\ \E todo, found, sel :
              /\ sel \in Sel /\ sel.buffer = buffer
              /\ (found = call /\ sel = call.sel) \/ found = [call EXCEPT !.sel = sel]
              /\ calls' = todo \o Tail(calls) /\ Stacked(todo) /\ found \in ToSet(todo)
              /\ \A t \in ToSet(todo) :
                    t = found \/ (Noise(t) /\ (KnowsBuffer(t) /\ KnowsClient(t) /\ KnowsHook(t))')
    BY <2>3, <2>4, <2>5, <2>6, WindowIsFound
  <2>8. PICK todo, found, sel :
              /\ sel \in Sel /\ sel.buffer = buffer
              /\ (found = call /\ sel = call.sel) \/ found = [call EXCEPT !.sel = sel]
              /\ calls' = todo \o Tail(calls) /\ Stacked(todo) /\ found \in ToSet(todo)
              /\ \A t \in ToSet(todo) :
                    t = found \/ (Noise(t) /\ (KnowsBuffer(t) /\ KnowsClient(t) /\ KnowsHook(t))')
    BY <2>7
  <2>9. found.do = "show" /\ found.change = change /\ found.sel = sel
    BY <2>2, <2>5, <2>8 DEF Show
  <2>10. QuietData
    BY <2>3, <2>4, <2>7 DEF QuietData, ObjectsInv, TypeOK, InList, Apart
  <2>11. Switch(found) /\ Going(found) /\ Moves(found) = Moves(It)
    BY <1>1, <1>2, <2>1, <2>9 DEF Switch, Going, Moves
  <2>12. KnowsBuffer(found)'
    <3>1. InList(buffer)'
      BY <2>6, <2>10 DEF QuietData
    <3>2. sel \in Sel'
      BY <2>8 DEF Sel, Buffer
    <3> QED
      BY <2>1, <2>8, <2>9, <3>1, <3>2 DEF KnowsBuffer
  <2>13. KnowsClient(found)' /\ KnowsHook(found)'
    <3>1. Moves(found) \in Client
      BY <1>2, <1>3, <2>11
    <3> QED
      BY <2>9, <3>1 DEF KnowsClient, KnowsHook
  <2>14. KnowsNode(found)'
    <3>1. UndoKnows(change)
      BY <1>3, <2>1
    <3>2. UndoKnows(change)'
      BY <2>3, <3>1 DEF UndoKnows, Steady, Context
    <3> QED
      BY <2>9, <3>2 DEF KnowsNode
  <2>15. \A f \in Rest : f.do = "end jump" =>
            /\ found.do \in {"change buffer", "show", "shown"}
            /\ found.do = "show" => found.change.buffer = f.sel.buffer
            /\ found.do # "show" => found.buffer = f.sel.buffer
    BY <1>6, <2>1, <2>9
  <2>16. \A b \in locked' : Locks(found, b)'
    BY <2>1, <2>3, <2>9 DEF Locks
  <2>17. m_buffers' # <<>>
    BY <1>5, <2>3
  <2> QED
    BY <1>1, <1>2, <2>4, <2>8, <2>10, <2>11, <2>12, <2>13, <2>14, <2>15, <2>16, <2>17, SwitchStep
<1> QED
  BY <1>7, <1>8

-----------------------------------------------------------------------------
(* Steps of the only call there is, or of a key.                            *)

Alone(call) ==
    \/ call.do \in {"undo", "undo more", "end jump", "new client", "connected", "joins"}
    \/ call.do \in {"command", "leave for"} /\ call.at \in Client
    \/ call.do = "created" /\ Then(call).do = "leave for" /\ Then(call).at \in Client

LEMMA AloneIs ==
  ASSUME ObjectsInv, ~Idle, Alone(It)
  PROVE  /\ Calls = {It} /\ Len(calls) = 1 /\ calls[1] = It
         /\ \A todo : IsList(todo) => todo \o Tail(calls) = todo
<1>1. Stacked(calls)
  BY DEF ObjectsInv
<1>2. Calls = {It} \cup Rest /\ \A f \in Rest : May(It, f)
  BY <1>1, Under
<1>3. \A f : ~May(It, f)
  BY DEF Alone, May, Noise, Switch, Forgetter
<1>4. Rest = {}
  BY <1>2, <1>3
<1>5. PICK t : t = Tail(calls)
  OBVIOUS
<1>6. /\ IsList(t) /\ Len(t) = Len(calls) - 1 /\ Len(calls) \in Nat
      /\ Head(calls) = calls[1] /\ ToSet(t) = {}
  BY <1>1, <1>4, <1>5, Cut DEF Stacked, Idle, IsList, Rest
<1>7. t = <<>> /\ Len(t) = 0
  <2>1. DOMAIN t = 1 .. Len(t) /\ Len(t) \in Nat /\ t \in Seq(ToSet(t))
    BY <1>6, ListIsSeq DEF IsList
  <2>2. \A i \in 1 .. Len(t) : FALSE
    BY <1>6, <2>1 DEF ToSet
  <2>3. Len(t) = 0
    BY <2>1, <2>2
  <2> QED
    BY <2>1, <2>3, EmptySeq
<1>8. ASSUME NEW todo, IsList(todo)
      PROVE  todo \o Tail(calls) = todo
  <2>1. todo \in Seq(ToSet(todo))
    BY <1>8, ListIsSeq
  <2> QED
    BY <1>5, <1>7, <2>1, ConcatEmptySeq
<1>9. Len(calls) = 1
  BY <1>6, <1>7
<1> QED
  BY <1>2, <1>4, <1>6, <1>8, <1>9 DEF It

(* Nothing is locked and no hook runs that no call answers for.             *)
LEMMA NoneIsLocked ==
  ASSUME ObjectsInv, \A call \in Calls : call.do \notin {"show", "shown", "connected", "joins"}
  PROVE  locked = {}
<1>1. \A call \in Calls : \A buffer : ~Locks(call, buffer)
  BY DEF Locks
<1> QED
  BY <1>1 DEF ObjectsInv, LocksAreHeld

LEMMA NoneRuns ==
  ASSUME ObjectsInv, \A call \in Calls : call.do # "hook done"
  PROVE  m_running_hooks = {}
BY DEF ObjectsInv, HooksAreRunning

LEMMA IdleIs ==
  ASSUME ObjectsInv, Idle
  PROVE  Calls = {} /\ locked = {} /\ m_running_hooks = {}
<1>1. Calls = {}
  BY OneOrNone DEF Idle, Calls
<1> QED
  BY <1>1, NoneIsLocked, NoneRuns

(* Calls that know no client.                                               *)
LEMMA PlainKnows ==
  ASSUME NEW t, t.do \notin {"change buffer", "show", "forget selections", "end jump", "new client"},
         (KnowsBuffer(t) /\ KnowsClient(t) /\ KnowsHook(t))'
  PROVE  Knows(t)'
<1>1. (KnowsNode(t) /\ GoesOn(t) /\ HeadsThere(t))'
  BY DEF KnowsNode, GoesOn, HeadsThere
<1> QED
  BY <1>1 DEF Knows

LEMMA FreshStep ==
  ASSUME ObjectsInv, QuietData, \A call \in Calls : ~Owed(call),
         \A call \in Calls : call.do # "hook done", m_running_hooks' = m_running_hooks,
         Stacked(calls'), LocksAreHeld',
         \A t \in Calls' : t.do \notin {"end jump", "joins"} /\ Knows(t)'
  PROVE  ObjectsInv'
<1>1. OwedStay
  BY DEF OwedStay
<1>2. TypeOK' /\ ClientsFit' /\ WindowsAreOpen' /\ Apart'
  BY <1>1, QuietKeeps
<1>3. HooksAreRunning'
  BY NoneRuns DEF HooksAreRunning
<1>4. CallsKnow'
  BY DEF CallsKnow
<1> QED
  BY <1>2, <1>3, <1>4 DEF ObjectsInv

LEMMA AloneStep ==
  ASSUME ObjectsInv, QuietData, ~Idle, Alone(It), It.do \notin {"end jump", "connected", "joins"},
         m_running_hooks' = m_running_hooks, locked' = locked,
         NEW todo, Stacked(todo), calls' = todo \o Tail(calls) \/ calls' = todo,
         \A t \in ToSet(todo) : t.do \notin {"end jump", "joins"} /\ Knows(t)'
  PROVE  ObjectsInv'
<1>1. Calls = {It} /\ calls' = todo
  BY AloneIs DEF Stacked
<1>2. ~Owed(It) /\ It.do \notin {"hook done", "show", "shown"}
  BY DEF Alone, Owed
<1>3. locked = {}
  BY <1>1, <1>2, NoneIsLocked
<1>4. LocksAreHeld'
  BY <1>3 DEF LocksAreHeld
<1>5. Calls' = ToSet(todo) /\ Stacked(calls')
  <2>1. ToSet(calls') = ToSet(todo)
    BY <1>1
  <2>2. Stacked(calls')
    BY <1>1
  <2> QED
    BY <2>1, <2>2 DEF Calls
<1> QED
  BY <1>1, <1>2, <1>4, <1>5, FreshStep

LEMMA OnlyOne ==
  /\ \A i \in 1 .. 1 : i = 1
  /\ \A s : IsList(s) /\ Len(s) = 1 => SubSeq(s, 1 + 1, Len(s)) = <<>>
<1>1. \A i \in 1 .. 1 : i = 1
  OBVIOUS
<1>2. ASSUME NEW s, IsList(s), Len(s) = 1
      PROVE  SubSeq(s, 1 + 1, Len(s)) = <<>>
  <2>1. \A i \in 2 .. 1 : s[i] \in {}
    OBVIOUS
  <2>2. SubSeq(s, 2, 1) \in Seq({}) /\ Len(SubSeq(s, 2, 1)) = 0
    BY <2>1, SubSeqProperties
  <2>3. SubSeq(s, 2, 1) = <<>>
    BY <2>2, EmptySeq
  <2> QED
    BY <1>2, <2>3
<1> QED
  BY <1>1, <1>2

LEMMA ThrowIs ==
  ASSUME ObjectsInv, ~Idle, Alone(It), It.do # "end jump", Throw
  PROVE  QuietData /\ calls' = <<>> /\ locked' = locked /\ m_running_hooks' = m_running_hooks
<1>1. Calls = {It} /\ Len(calls) = 1 /\ calls[1] = It
  BY AloneIs
<1>2. It.do # "hook done"
  BY DEF Alone
<1>3. IsList(calls) /\ DOMAIN calls = 1 .. 1
  BY <1>1, ListIsSeq DEF ObjectsInv, Stacked
<1>4. \A i \in 1 .. 1 : calls[i] = It
  BY <1>1, OnlyOne
<1>5. Caught = 1
  <2>1. {i \in DOMAIN calls : calls[i].do = "hook done"} = {}
    BY <1>2, <1>3, <1>4
  <2> QED
    BY <1>1, <2>1 DEF Caught
<1>6. \A c : OpenEditions(c) = 0
  <2> TAKE c
  <2>1. {i \in 1 .. Caught : calls[i].do = "end jump" /\ calls[i].client = c} = {}
    BY <1>3, <1>4, <1>5
  <2> QED
    BY <2>1, FS_EmptySet DEF OpenEditions
<1>7. clients' = clients
  <2>1. clients \in [Client -> ClientOf]
    BY DEF ObjectsInv, TypeOK
  <2>2. clients' = [c \in Client |-> [clients[c] EXCEPT !.context = clients[c].context]]
    BY <1>6 DEF Throw
  <2>3. \A c \in Client : [clients[c] EXCEPT !.context = clients[c].context] = clients[c]
    BY <2>1 DEF ClientOf
  <2> QED
    BY <2>1, <2>2, <2>3
<1>8. calls' = <<>>
  <2>1. calls' = SubSeq(calls, Caught + 1, Len(calls))
    BY DEF Throw
  <2>2. calls' = SubSeq(calls, 1 + 1, Len(calls))
    BY <1>5, <2>1
  <2> QED
    BY <1>1, <1>3, <2>2, OnlyOne
<1> QED
  BY <1>7, <1>8 DEF Throw, server, lists, running, QuietData, ObjectsInv, TypeOK, InList, Apart

LEMMA EditForClientStep ==
  ASSUME ObjectsInv, HooksOnlyOpen, EditBuffer, It.at \in Client
  PROVE  ObjectsInv'
<1>1. /\ ~Idle /\ It.do = "command" /\ QuietData /\ locked' = locked
      /\ m_running_hooks' = m_running_hooks
  BY EditMakes
<1>2. PICK todo : calls' = todo \o Tail(calls) /\ EditCalls(todo, It.at)
  BY EditMakes
<1>3. PICK leave, created :
        /\ leave.do = "leave for" /\ leave.at = It.at /\ InList(leave.buffer)'
        /\ created.do = "created" /\ created.then = <<leave>> /\ InList(created.buffer)'
        /\ Stacked(todo)
        /\ \A t \in ToSet(todo) :
              \/ t = leave \/ t = created
              \/ Noise(t) /\ (KnowsBuffer(t) /\ KnowsClient(t) /\ KnowsHook(t))'
  BY <1>2 DEF EditCalls
<1>4. /\ (KnowsBuffer(leave) /\ KnowsClient(leave) /\ KnowsHook(leave))'
      /\ (KnowsBuffer(created) /\ KnowsClient(created) /\ KnowsHook(created))'
  BY <1>3, LeaveKnows
<1>5. Alone(It) /\ It.do \notin {"end jump", "connected", "joins"}
  BY <1>1 DEF Alone
<1>6. ASSUME NEW t \in ToSet(todo)
      PROVE  t.do \notin {"end jump", "joins"} /\ Knows(t)'
  <2>1. CASE t = leave
    BY <1>3, <1>4, <2>1, PlainKnows
  <2>2. CASE t = created
    BY <1>3, <1>4, <2>2, PlainKnows
  <2>3. CASE Noise(t) /\ (KnowsBuffer(t) /\ KnowsClient(t) /\ KnowsHook(t))'
    <3>1. t.do \notin {"change buffer", "show", "forget selections", "end jump", "new client", "joins"}
      BY <2>3 DEF Noise
    <3> QED
      BY <2>3, <3>1, PlainKnows
  <2> QED
    BY <1>3, <2>1, <2>2, <2>3
<1> QED
  BY <1>1, <1>2, <1>3, <1>5, <1>6, AloneStep

LEMMA EndCreateForClientStep ==
  ASSUME ObjectsInv, EndCreate, Then(It).do = "leave for", Then(It).at \in Client
  PROVE  ObjectsInv'
<1>1. /\ ~Idle /\ It.do = "created" /\ QuietData /\ locked' = locked
      /\ m_running_hooks' = m_running_hooks
  BY EndCreateIs
<1>2. PICK leave : leave = Then(It)
  OBVIOUS
<1>3. calls' = <<leave>> \o Tail(calls)
  BY <1>2, EndCreateIs
<1>4. Alone(It) /\ It.do \notin {"end jump", "connected", "joins"}
  BY <1>1 DEF Alone
<1>5. Stacked(<<leave>>) /\ ToSet(<<leave>>) = {leave}
  BY StackOfOne, OneOrNone
<1>6. InList(leave.buffer)'
  <2>1. InList(leave.buffer)
    BY <1>1, <1>2, ItKnows DEF Knows, KnowsBuffer
  <2> QED
    BY <1>1, <2>1 DEF QuietData
<1>7. leave.do = "leave for" /\ (KnowsBuffer(leave) /\ KnowsClient(leave) /\ KnowsHook(leave))'
  BY <1>2, <1>6 DEF KnowsBuffer, KnowsClient, KnowsHook, Switch
<1>8. Knows(leave)'
  BY <1>7, PlainKnows
<1>9. \A t \in ToSet(<<leave>>) : t.do \notin {"end jump", "joins"} /\ Knows(t)'
  BY <1>5, <1>7, <1>8
<1> QED
  BY <1>1, <1>3, <1>4, <1>5, <1>9, AloneStep

(* The buffers of a client nothing is left to forget by.                    *)
LEMMA OfLiveClient ==
  ASSUME ObjectsInv, NEW c \in Client, c \in ToSet(m_clients),
         \A call \in Calls : call.do \notin {"forget", "forget selections"}
  PROVE  /\ InList(BufferOf(Context(c)))
         /\ \A sel \in NodesOf(c) : InList(sel.buffer)
         /\ \A sel \in JumpsOf(c) : InList(sel.buffer)
<1>1. \A buffer : NodeBuffer(c, buffer) => InList(buffer)
  BY DEF NodeBuffer, Live, ForgetsNodes, ForgetsJumps
<1>2. \A buffer : JumpBuffer(c, buffer) => InList(buffer)
  BY DEF JumpBuffer, Live, ForgetsJumps
<1>3. NodeBuffer(c, BufferOf(Context(c)))
  BY ContextIsTyped DEF ObjectsInv
<1> QED
  BY <1>1, <1>2, <1>3 DEF NodesOf, JumpsOf

LEMMA DeleteNamedStep ==
  ASSUME ObjectsInv, DeleteNamed
  PROVE  ObjectsInv'
<1>1. ~Idle /\ It.do = "command" /\ It.cmd.cmd = "delete-buffer"
  BY DEF DeleteNamed, Ordered, Doing, It
<1>2. It.at \in Client /\ It.at \in ToSet(m_clients)
  BY <1>1, ItKnows DEF Knows, KnowsHook, KnowsClient
<1>3. Alone(It) /\ It.do \notin {"end jump", "connected", "joins"}
  BY <1>1, <1>2 DEF Alone
<1>4. Calls = {It}
  BY <1>1, <1>3, AloneIs
<1> DEFINE named == IF It.cmd.name = "" THEN {CurrentOf(It.at)} ELSE Named(It.cmd.name)
<1>5. CASE named = {}
  <2>1. Throw
    BY <1>5 DEF DeleteNamed
  <2>2. QuietData /\ calls' = <<>> /\ locked' = locked /\ m_running_hooks' = m_running_hooks
    BY <1>1, <1>3, <2>1, ThrowIs
  <2>3. Stacked(<<>>) /\ ToSet(<<>>) = {}
    BY StackOfOne, OneOrNone
  <2>4. \A t \in ToSet(<<>>) : t.do \notin {"end jump", "joins"} /\ Knows(t)'
    BY <2>3
  <2> QED
    BY <1>1, <1>3, <2>2, <2>3, <2>4, AloneStep
<1>6. CASE named # {}
  <2>1. PICK b \in named : b = (CHOOSE x \in named : TRUE)
    BY <1>6
  <2>2. PICK x, y, c : x = DeleteBuffer(b) /\ y = Forget(It.at, b) /\ c = It.at
    OBVIOUS
  <2>3. calls' = <<x, y>> \o Tail(calls) /\ UNCHANGED <<server, views, running, ghosts>>
    BY <1>6, <2>1, <2>2 DEF DeleteNamed, Call
  <2>4. QuietData /\ locked' = locked /\ m_running_hooks' = m_running_hooks
    BY <2>3 DEF server, views, lists, running, QuietData, ObjectsInv, TypeOK, InList, Apart
  <2>5. InList(b)
    <3>1. CASE It.cmd.name = ""
      <4>1. named = {CurrentOf(c)} /\ c \in Client /\ c \in ToSet(m_clients)
        BY <1>2, <2>2, <3>1
      <4>3. b = BufferOf(Context(c))
        BY <2>1, <4>1 DEF CurrentOf
      <4>2. \A call \in Calls : call.do \notin {"forget", "forget selections"}
        BY <1>1, <1>4
      <4> QED
        BY <4>1, <4>2, <4>3, OfLiveClient
    <3>2. CASE It.cmd.name # ""
      <4>1. named = Named(It.cmd.name)
        BY <3>2
      <4>2. b \in Named(It.cmd.name)
        BY <2>1, <4>1
      <4> QED
        BY <4>2 DEF Named, InList
    <3> QED
      BY <3>1, <3>2
  <2>6. x.do = "delete buffer" /\ x.buffer = b /\ y.do = "forget" /\ y.at = c /\ y.buffer = b
    BY <2>2 DEF DeleteBuffer, Forget
  <2>7. Stacked(<<x, y>>) /\ ToSet(<<x, y>>) = {x, y}
    <3>1. May(x, y)
      BY <2>6 DEF May
    <3> QED
      BY <3>1, StackOfOne, OneOrNone
  <2>8. DeleteBuffer(b) \in Calls'
    <3>1. IsList(<<x, y>>)
      BY OneOrNone
    <3>2. calls' = <<x, y>>
      BY <1>1, <1>3, <2>3, <3>1, AloneIs
    <3>3. Calls' = ToSet(<<x, y>>)
      BY <3>2 DEF Calls
    <3> QED
      BY <2>2, <2>7, <3>3
  <2>9. Knows(x)'
    <3>1. InList(b)'
      BY <2>4, <2>5 DEF QuietData
    <3>2. (KnowsBuffer(x) /\ KnowsClient(x) /\ KnowsHook(x))'
      BY <2>6, <3>1 DEF KnowsBuffer, KnowsClient, KnowsHook, Switch
    <3> QED
      BY <2>6, <3>2, PlainKnows
  <2>10. Knows(y)'
    <3>1. KnowsBuffer(y)'
      BY <2>6, <2>8 DEF KnowsBuffer
    <3>2. c \in ToSet(m_clients)'
      BY <1>2, <2>2, <2>4 DEF QuietData
    <3>3. (KnowsClient(y) /\ KnowsHook(y))'
      BY <1>2, <2>2, <2>6, <3>2 DEF KnowsClient, KnowsHook, Switch
    <3> QED
      BY <2>6, <3>1, <3>3, PlainKnows
  <2>11. \A t \in ToSet(<<x, y>>) : t.do \notin {"end jump", "joins"} /\ Knows(t)'
    BY <2>6, <2>7, <2>9, <2>10
  <2> QED
    BY <1>1, <1>3, <2>3, <2>4, <2>7, <2>11, AloneStep
<1> QED
  BY <1>5, <1>6

LEMMA IdleStep ==
  ASSUME ObjectsInv, Idle, QuietData, m_running_hooks' = m_running_hooks, locked' = locked,
         Stacked(calls'), \A t \in ToSet(calls') : t.do \notin {"end jump", "joins"} /\ Knows(t)'
  PROVE  ObjectsInv'
<1>1. Calls = {} /\ locked = {}
  BY IdleIs
<1>2. LocksAreHeld'
  BY <1>1 DEF LocksAreHeld
<1>3. \A t \in Calls' : t.do \notin {"end jump", "joins"} /\ Knows(t)'
  BY DEF Calls
<1> QED
  BY <1>1, <1>2, <1>3, FreshStep

LEMMA EndUndoStep ==
  ASSUME ObjectsInv, EndUndo
  PROVE  ObjectsInv'
<1>1. ~Idle /\ It.do = "undo more" /\ UNCHANGED <<server, views, running, ghosts>>
  BY DEF EndUndo, Doing, It
<1>2. Alone(It) /\ It.do \notin {"end jump", "connected", "joins"}
  BY <1>1 DEF Alone
<1>3. QuietData /\ locked' = locked /\ m_running_hooks' = m_running_hooks
  BY <1>1 DEF server, views, lists, running, QuietData, ObjectsInv, TypeOK, InList, Apart
<1>4. KnowsClient(It)
  BY <1>1, ItKnows DEF Knows
<1>5. CASE SelectionsOf(Context(It.client)) = It.old
  <2>1. PICK x : x = [It EXCEPT !.do = "undo"]
    OBVIOUS
  <2>2. calls' = <<x>> \o Tail(calls)
    BY <1>5, <2>1 DEF EndUndo, Call
  <2>3. /\ It = [do |-> It.do, client |-> It.client, backward |-> It.backward, old |-> It.old]
        /\ Steady(It.client) /\ It.client \in ToSet(m_clients) /\ It.backward \in BOOLEAN
    BY <1>1, <1>4 DEF KnowsClient
  <2>4. x = [do |-> "undo", client |-> It.client, backward |-> It.backward, old |-> It.old]
    BY <2>1, <2>3
  <2>5. PICK c, back, old : c = It.client /\ back = It.backward /\ old = It.old
    OBVIOUS
  <2>6. x = [do |-> "undo", client |-> c, backward |-> back, old |-> old]
    BY <2>4, <2>5
  <2>7. x.do = "undo" /\ x = [do |-> x.do, client |-> x.client, backward |-> x.backward, old |-> x.old]
        /\ x.client = c /\ x.backward = back
    BY <2>6
  <2>8. Steady(c)' /\ c \in ToSet(m_clients)' /\ back \in BOOLEAN
    BY <1>3, <2>3, <2>5 DEF QuietData, Steady, Context
  <2>9. (KnowsBuffer(x) /\ KnowsClient(x) /\ KnowsHook(x))'
    BY <2>7, <2>8 DEF KnowsBuffer, KnowsClient, KnowsHook, Switch
  <2>10. Stacked(<<x>>) /\ ToSet(<<x>>) = {x}
    BY StackOfOne, OneOrNone
  <2>11. \A t \in ToSet(<<x>>) : t.do \notin {"end jump", "joins"} /\ Knows(t)'
    BY <2>7, <2>9, <2>10, PlainKnows
  <2> QED
    BY <1>1, <1>2, <1>3, <2>2, <2>10, <2>11, AloneStep
<1>6. CASE SelectionsOf(Context(It.client)) # It.old
  <2>1. calls' = <<>> \o Tail(calls)
    BY <1>6 DEF EndUndo, Call
  <2>2. Stacked(<<>>) /\ ToSet(<<>>) = {}
    BY StackOfOne, OneOrNone
  <2>3. \A t \in ToSet(<<>>) : t.do \notin {"end jump", "joins"} /\ Knows(t)'
    BY <2>2
  <2> QED
    BY <1>1, <1>2, <1>3, <2>1, <2>2, <2>3, AloneStep
<1> QED
  BY <1>5, <1>6

LEMMA EnterStep ==
  ASSUME ObjectsInv, NEW c \in Client, NEW cmd \in KeysOf[c], Enter(c, cmd)
  PROVE  ObjectsInv'
<1>1. Idle /\ c \in ToSet(m_clients) /\ clients' = clients /\ UNCHANGED <<server, lists, running>>
  BY DEF Enter, Key
<1>2. QuietData /\ locked' = locked /\ m_running_hooks' = m_running_hooks
  BY <1>1 DEF server, lists, running, QuietData, ObjectsInv, TypeOK, InList, Apart
<1>3. PICK x : x = Command(c, cmd)
  OBVIOUS
<1>4. calls' = <<x>>
  BY <1>3 DEF Enter
<1>5. x.do = "command" /\ x.at = c /\ x.cmd = cmd
  BY <1>3 DEF Command
<1>6. cmd.cmd = "edit" => cmd.name \in Names
  BY NamesAssumption
<1>7. c \in ToSet(m_clients)'
  BY <1>1, <1>2 DEF QuietData
<1>8. (KnowsBuffer(x) /\ KnowsClient(x) /\ KnowsHook(x))'
  BY <1>5, <1>6, <1>7 DEF KnowsBuffer, KnowsClient, KnowsHook, Switch
<1>9. Stacked(calls') /\ ToSet(calls') = {x}
  BY <1>4, StackOfOne, OneOrNone
<1>10. \A t \in ToSet(calls') : t.do \notin {"end jump", "joins"} /\ Knows(t)'
  BY <1>5, <1>8, <1>9, PlainKnows
<1> QED
  BY <1>1, <1>2, <1>9, <1>10, IdleStep

LEMMA UndoSelectionsStep ==
  ASSUME ObjectsInv, NEW c \in Client, NEW backward \in BOOLEAN, UndoSelections(c, backward)
  PROVE  ObjectsInv'
<1>1. Idle /\ c \in ToSet(m_clients) /\ clients' = clients /\ UNCHANGED <<server, lists, running>>
      /\ Context(c).m_in_edition = 0
  BY DEF UndoSelections, Key
<1>2. QuietData /\ locked' = locked /\ m_running_hooks' = m_running_hooks
  BY <1>1 DEF server, lists, running, QuietData, ObjectsInv, TypeOK, InList, Apart
<1>3. PICK sel : sel = SelectionsOf(Context(c))
  OBVIOUS
<1>4. PICK x : x = UndoFrom(c, backward, sel)
  OBVIOUS
<1>5. calls' = <<x>>
  BY <1>3, <1>4 DEF UndoSelections
<1>6. x.do = "undo" /\ x = [do |-> x.do, client |-> x.client, backward |-> x.backward, old |-> x.old]
      /\ x.client = c /\ x.backward = backward
  BY <1>4 DEF UndoFrom
<1>7. Steady(c)' /\ c \in ToSet(m_clients)'
  BY <1>1, <1>2 DEF QuietData, Steady, Context
<1>8. (KnowsBuffer(x) /\ KnowsClient(x) /\ KnowsHook(x))'
  BY <1>6, <1>7 DEF KnowsBuffer, KnowsClient, KnowsHook, Switch
<1>9. Stacked(calls') /\ ToSet(calls') = {x}
  BY <1>5, StackOfOne, OneOrNone
<1>10. \A t \in ToSet(calls') : t.do \notin {"end jump", "joins"} /\ Knows(t)'
  BY <1>6, <1>8, <1>9, PlainKnows
<1> QED
  BY <1>1, <1>2, <1>9, <1>10, IdleStep

LEMMA ConnectStep ==
  ASSUME ObjectsInv, NEW c \in Client, Connect(c)
  PROVE  ObjectsInv'
<1>1. Idle /\ c \notin ToSet(m_client_trash) /\ UNCHANGED <<server, views, running, ghosts>>
  BY DEF Connect
<1>2. QuietData /\ locked' = locked /\ m_running_hooks' = m_running_hooks /\ m_buffers' = m_buffers
  BY <1>1 DEF server, views, lists, running, QuietData, ObjectsInv, TypeOK, InList, Apart
<1>3. PICK x, y : x = ToFirst(Scratch) /\ y = NewClient(c)
  OBVIOUS
<1>4. x.do = "to first buffer" /\ x.at = Scratch /\ y.do = "new client" /\ y.client = c
  BY <1>3 DEF ToFirst, NewClient
<1>5. Knows(x)'
  <2>1. Switch(x) /\ Moves(x) = Scratch
    BY <1>4 DEF Switch, Moves
  <2>2. (KnowsBuffer(x) /\ KnowsClient(x) /\ KnowsHook(x))'
    BY <1>4, <2>1 DEF KnowsBuffer, KnowsClient, KnowsHook
  <2> QED
    BY <1>4, <2>2, PlainKnows
<1>6. (KnowsBuffer(y) /\ KnowsClient(y) /\ KnowsHook(y) /\ KnowsNode(y) /\ HeadsThere(y))'
  <2>1. c \notin ToSet(m_client_trash)'
    BY <1>1, <1>2 DEF QuietData
  <2> QED
    BY <1>4, <2>1 DEF KnowsBuffer, KnowsClient, KnowsHook, KnowsNode, HeadsThere, Switch
<1>7. CASE m_buffers = <<>>
  <2>1. calls' = <<x, y>>
    BY <1>3, <1>7 DEF Connect
  <2>2. May(x, y)
    BY <1>4 DEF May, Switch, Moves
  <2>3. Stacked(calls') /\ ToSet(calls') = {x, y}
    BY <2>1, <2>2, StackOfOne, OneOrNone
  <2>4. GoesOn(y)'
    BY <1>4, <2>3 DEF GoesOn, Calls
  <2>5. Knows(y)'
    BY <1>6, <2>4 DEF Knows
  <2>6. \A t \in ToSet(calls') : t.do \notin {"end jump", "joins"} /\ Knows(t)'
    BY <1>4, <1>5, <2>3, <2>5
  <2> QED
    BY <1>1, <1>2, <2>3, <2>6, IdleStep
<1>8. CASE m_buffers # <<>>
  <2>1. calls' = <<y>>
    BY <1>3, <1>8 DEF Connect
  <2>2. Stacked(calls') /\ ToSet(calls') = {y}
    BY <2>1, StackOfOne, OneOrNone
  <2>3. GoesOn(y)'
    BY <1>2, <1>4, <1>8 DEF GoesOn
  <2>4. Knows(y)'
    BY <1>6, <2>3 DEF Knows
  <2>5. \A t \in ToSet(calls') : t.do \notin {"end jump", "joins"} /\ Knows(t)'
    BY <1>4, <2>2, <2>4
  <2> QED
    BY <1>1, <1>2, <2>2, <2>5, IdleStep
<1> QED
  BY <1>7, <1>8

LEMMA OpenWindowStep ==
  ASSUME ObjectsInv, HooksOnlyOpen, OpenWindow
  PROVE  ObjectsInv'
<1>1. ~Idle /\ It.do = "new client"
      /\ UNCHANGED <<m_buffers, m_buffer_trash, m_clients, m_client_trash, clients, running, ghosts>>
  BY DEF OpenWindow, Doing, It
<1>2. Alone(It)
  BY <1>1 DEF Alone
<1>3. Calls = {It} /\ Knows(It) /\ \A todo : IsList(todo) => todo \o Tail(calls) = todo
  BY <1>1, <1>2, AloneIs, ItKnows
<1>4. m_buffers # <<>>
  BY <1>1, <1>3 DEF Knows, GoesOn
<1>5. TypeOK /\ locked = {}
  <2>1. \A call \in Calls : call.do \notin {"show", "shown", "connected", "joins"}
    BY <1>1, <1>3
  <2> QED
    BY <2>1, NoneIsLocked DEF ObjectsInv
<1>6. PICK c, buffer : c = It.client /\ buffer = Last(m_buffers)
  OBVIOUS
<1>7. PICK call : call = Connected(c, buffer, SelIn(buffer, 0))
  OBVIOUS
<1>8. locked' = {buffer} /\ GetFreeWindow(buffer, call)
  BY <1>5, <1>6, <1>7 DEF OpenWindow
<1>9. hooks' = hooks /\ m_running_hooks' = m_running_hooks
  BY <1>1 DEF running
<1>10. call.do = "connected" /\ call.sel = SelIn(buffer, 0) /\ ~Lone(call)
  BY <1>7 DEF Connected, Lone
<1>11. InList(buffer)
  BY <1>4, <1>5, <1>6, LastIs DEF TypeOK, InList
<1>12. /\ m_free_windows' \in Seq(WindowOf)
       /\ \A w \in ToSet(m_free_windows)' : w \in ToSet(m_free_windows)
       /\ \E todo, found, sel :
              /\ sel \in Sel /\ sel.buffer = buffer
              /\ (found = call /\ sel = call.sel) \/ found = [call EXCEPT !.sel = sel]
              /\ calls' = todo \o Tail(calls) /\ Stacked(todo) /\ found \in ToSet(todo)
              /\ \A t \in ToSet(todo) :
                    t = found \/ (Noise(t) /\ (KnowsBuffer(t) /\ KnowsClient(t) /\ KnowsHook(t))')
  BY <1>8, <1>9, <1>10, <1>11, WindowIsFound
<1>13. PICK todo, found, sel :
              /\ sel \in Sel /\ sel.buffer = buffer
              /\ (found = call /\ sel = call.sel) \/ found = [call EXCEPT !.sel = sel]
              /\ calls' = todo \o Tail(calls) /\ Stacked(todo) /\ found \in ToSet(todo)
              /\ \A t \in ToSet(todo) :
                    t = found \/ (Noise(t) /\ (KnowsBuffer(t) /\ KnowsClient(t) /\ KnowsHook(t))')
  BY <1>12
<1>14. found.do = "connected" /\ found.client = c /\ found.buffer = buffer /\ found.sel = sel
  BY <1>7, <1>10, <1>13 DEF Connected
<1>15. QuietData
  BY <1>1, <1>9, <1>12 DEF QuietData, ObjectsInv, TypeOK, InList, Apart
<1>16. Knows(found)'
  <2>1. InList(buffer)' /\ c \in Client /\ c \notin ToSet(m_client_trash)'
    BY <1>1, <1>3, <1>6, <1>11, <1>15 DEF QuietData, Knows, KnowsClient
  <2>2. sel \in Sel'
    BY <1>13 DEF Sel, Buffer
  <2>3. KnowsBuffer(found)'
    BY <1>13, <1>14, <2>1, <2>2 DEF KnowsBuffer
  <2>4. (KnowsClient(found) /\ KnowsHook(found))'
    BY <1>14, <2>1 DEF KnowsClient, KnowsHook, Switch
  <2> QED
    BY <1>14, <2>3, <2>4, PlainKnows
<1>17. calls' = todo /\ Stacked(calls') /\ Calls' = ToSet(todo)
  <2>1. calls' = todo
    BY <1>3, <1>13 DEF Stacked
  <2> QED
    BY <1>13, <2>1 DEF Calls
<1>18. LocksAreHeld'
  <2>1. Locks(found, buffer)' /\ found \in Calls'
    BY <1>13, <1>14, <1>17 DEF Locks
  <2> QED
    BY <1>8, <2>1 DEF LocksAreHeld
<1>19. ASSUME NEW t \in Calls'
       PROVE  t.do \notin {"end jump", "joins"} /\ Knows(t)'
  <2>1. CASE t = found
    BY <1>14, <1>16, <2>1
  <2>2. CASE Noise(t) /\ (KnowsBuffer(t) /\ KnowsClient(t) /\ KnowsHook(t))'
    <3>1. t.do \notin {"change buffer", "show", "forget selections", "end jump", "new client", "joins"}
      BY <2>2 DEF Noise
    <3> QED
      BY <2>2, <3>1, PlainKnows
  <2> QED
    BY <1>13, <1>17, <2>1, <2>2
<1>20. \A other \in Calls : ~Owed(other) /\ other.do # "hook done"
  BY <1>1, <1>3 DEF Owed
<1> QED
  BY <1>9, <1>15, <1>17, <1>18, <1>19, <1>20, FreshStep

-----------------------------------------------------------------------------
(* Steps that change the context of one client.                             *)

LEMMA OthersFit ==
  ASSUME ClientsFit, NEW c \in Client, Fits(c)',
         \A d \in Client \ {c} :
            clients'[d] = clients[d] /\ StillRefers(d) /\ (Jumping(d)' <=> Jumping(d))
  PROVE  ClientsFit'
<1>1. ASSUME NEW d \in Client, d # c
      PROVE  Fits(d)'
  <2>1. clients'[d] = clients[d] /\ StillRefers(d) /\ (Jumping(d)' <=> Jumping(d)) /\ Fits(d)
    BY <1>1 DEF ClientsFit
  <2> QED
    BY <2>1, FitsStill
<1> QED
  BY <1>1 DEF ClientsFit

(* Of the only call there is, or of a key.                                  *)
OwedBy(call, c) == Owed(call) => call.do = "end jump" /\ call.client = c

LEMMA ClientStep ==
  ASSUME ObjectsInv, NEW c \in Client, NEW client \in ClientOf,
         clients' = [clients EXCEPT ![c] = client], UNCHANGED <<server, lists, running>>,
         \A call \in Calls : /\ OwedBy(call, c)
                             /\ call.do \notin {"hook done", "show", "shown", "connected"},
         Stacked(calls'),
         \A t \in Calls' : t.do # "joins" /\ (t.do = "end jump" => t.client = c) /\ Knows(t)',
         client.context \in ContextOf(NodesOf(c), JumpsOf(c)), Sound(client.context),
         client.m_window = BufferOf(client.context),
         client.context.m_in_edition =
             (IF client.mode = "normal" THEN 0 ELSE 1) + (IF Jumping(c)' THEN 1 ELSE 0)
  PROVE  ObjectsInv'
<1>1. TypeOK /\ ClientsFit /\ clients \in [Client -> ClientOf]
  BY DEF ObjectsInv, TypeOK
<1>2. TypeOK'
  BY <1>1 DEF TypeOK, server, lists, running
<1>3. ASSUME NEW d \in Client
      PROVE  StillRefers(d)
  <2>1. Live(d)' => Live(d)
    BY DEF Live, lists
  <2>2. \A buffer : InList(buffer) => InList(buffer)'
    BY DEF InList, server
  <2>3. \A call \in Calls : call.do # "forget" /\ call.do # "forget selections"
    BY DEF OwedBy, Owed
  <2> QED
    BY <2>1, <2>2, <2>3 DEF StillRefers
<1>4. Fits(c)'
  <2>1. StillRefers(c)
    BY <1>3
  <2>2. NodesOf(c) \in SUBSET NodesOf(c)' /\ JumpsOf(c) \in SUBSET JumpsOf(c)'
    BY <2>1, RefersStill
  <2>3. clients'[c] = client
    BY <1>1
  <2> QED
    BY <2>2, <2>3, FitsAnew
<1>5. ASSUME NEW d \in Client \ {c}
      PROVE  clients'[d] = clients[d] /\ StillRefers(d) /\ (Jumping(d)' <=> Jumping(d))
  <2>1. clients'[d] = clients[d] /\ StillRefers(d)
    BY <1>1, <1>3
  <2>2. ~Jumping(d)
    BY DEF Jumping, OwedBy, Owed
  <2>3. ~Jumping(d)'
    BY DEF Jumping
  <2> QED
    BY <2>1, <2>2, <2>3
<1>6. ClientsFit'
  BY <1>1, <1>4, <1>5, OthersFit
<1>7. \A call \in Calls : call.do \notin {"show", "shown", "connected", "joins"} /\ call.do # "hook done"
      /\ call.do # "close windows"
  BY DEF OwedBy, Owed
<1>8. locked = {} /\ m_running_hooks = {}
  BY <1>7, NoneIsLocked, NoneRuns
<1>9. LocksAreHeld' /\ HooksAreRunning'
  BY <1>8 DEF LocksAreHeld, HooksAreRunning, server, running
<1>10. WindowsAreOpen'
  <2>1. \A w \in ToSet(m_free_windows)' : w \in ToSet(m_free_windows)
    BY DEF lists
  <2>2. \A buffer : InList(buffer) => InList(buffer)'
    BY DEF InList, server
  <2>3. \A call \in Calls : call.do = "close windows" => call \in Calls'
    BY <1>7
  <2> QED
    BY <2>1, <2>2, <2>3, WindowsStay DEF ObjectsInv
<1>11. Apart'
  BY DEF ObjectsInv, Apart, server, lists
<1>12. CallsKnow'
  BY DEF CallsKnow
<1> QED
  BY <1>2, <1>6, <1>9, <1>10, <1>11, <1>12 DEF ObjectsInv

LEMMA NodesAreJumps ==
  ASSUME NEW c, \A call \in Calls : call.do \notin {"forget", "forget selections"}
  PROVE  NodesOf(c) = JumpsOf(c)
<1>1. \A buffer : NodeBuffer(c, buffer) <=> JumpBuffer(c, buffer)
  BY DEF NodeBuffer, JumpBuffer, ForgetsNodes, ForgetsJumps
<1> QED
  BY <1>1 DEF NodesOf, JumpsOf

LEMMA ClientIs ==
  ASSUME ObjectsInv, NEW c \in Client
  PROVE  /\ clients[c] \in ClientOf /\ Context(c) = clients[c].context
         /\ Context(c) \in ContextOf(NodesOf(c), JumpsOf(c)) /\ Sound(Context(c))
         /\ SelectionsOf(Context(c)) \in NodesOf(c) /\ SelectionsOf(Context(c)) \in Sel
         /\ clients[c].m_window = BufferOf(Context(c))
         /\ Context(c).m_in_edition \in Nat
         /\ Context(c).m_in_edition =
               (IF clients[c].mode = "normal" THEN 0 ELSE 1) + (IF Jumping(c) THEN 1 ELSE 0)
         /\ \A S, J : \A ctx \in ContextOf(S, J) :
               S \in SUBSET Sel /\ J \in SUBSET Sel => ctx \in ContextOf(Sel, Sel)
<1>1. /\ clients[c] \in ClientOf /\ Context(c) = clients[c].context
      /\ Context(c) \in ContextOf(NodesOf(c), JumpsOf(c)) /\ Sound(Context(c))
      /\ SelectionsOf(Context(c)) \in NodesOf(c) /\ SelectionsOf(Context(c)) \in Sel
      /\ Context(c).m_in_edition \in Nat
  BY ContextIsTyped DEF ObjectsInv
<1>2. clients[c].m_window = BufferOf(Context(c)) /\ Context(c).m_in_edition = EditionsOf(c)
  BY DEF ObjectsInv, ClientsFit, Fits
<1>3. \A S, J : \A ctx \in ContextOf(S, J) :
               S \in SUBSET Sel /\ J \in SUBSET Sel => ctx \in ContextOf(Sel, Sel)
  BY ContextGrows
<1> QED
  BY <1>1, <1>2, <1>3 DEF EditionsOf

(* A client with another context.                                           *)
LEMMA AnotherContext ==
  ASSUME NEW client \in ClientOf, NEW c, NEW ctx \in ContextOf(NodesOf(c), JumpsOf(c))
  PROVE  /\ [client EXCEPT !.context = ctx] \in ClientOf
         /\ [client EXCEPT !.context = ctx].context = ctx
         /\ [client EXCEPT !.context = ctx].m_window = client.m_window
         /\ [client EXCEPT !.context = ctx].mode = client.mode
<1>1. NodesOf(c) \in SUBSET Sel /\ JumpsOf(c) \in SUBSET Sel
  BY DEF NodesOf, JumpsOf
<1>2. ctx \in ContextOf(Sel, Sel)
  BY <1>1, ContextGrows
<1> QED
  BY <1>2 DEF ClientOf

(* A key that leaves nothing to do.                                         *)
LEMMA ActStep ==
  ASSUME ObjectsInv, NEW c \in Client, Idle, NEW client \in ClientOf,
         clients' = [clients EXCEPT ![c] = client], UNCHANGED <<server, lists, running>>,
         calls' = calls,
         client.context \in ContextOf(NodesOf(c), JumpsOf(c)), Sound(client.context),
         client.m_window = BufferOf(client.context),
         client.context.m_in_edition = IF client.mode = "normal" THEN 0 ELSE 1
  PROVE  ObjectsInv'
<1>1. Calls = {} /\ Calls' = {}
  <2>1. Calls = {}
    BY IdleIs
  <2> QED
    BY <2>1 DEF Calls
<1>2. Stacked(calls')
  BY DEF ObjectsInv
<1>3. ~Jumping(c)'
  BY <1>1 DEF Jumping
<1>4. client.context.m_in_edition =
             (IF client.mode = "normal" THEN 0 ELSE 1) + (IF Jumping(c)' THEN 1 ELSE 0)
  BY <1>3
<1> QED
  BY <1>1, <1>2, <1>4, ClientStep

LEMMA IdleClientIs ==
  ASSUME ObjectsInv, Idle, NEW c \in Client
  PROVE  /\ Context(c).m_in_edition = IF clients[c].mode = "normal" THEN 0 ELSE 1
         /\ SelectionsOf(Context(c)) \in JumpsOf(c)
         /\ c \in ToSet(m_clients) => \A sel \in JumpsOf(c) : InList(sel.buffer)
<1>1. Calls = {}
  BY IdleIs
<1>2. ~Jumping(c) /\ NodesOf(c) = JumpsOf(c)
  BY <1>1, NodesAreJumps DEF Jumping
<1>3. c \in ToSet(m_clients) => \A sel \in JumpsOf(c) : InList(sel.buffer)
  BY <1>1, OfLiveClient
<1> QED
  BY <1>2, <1>3, ClientIs

LEMMA SelectStep ==
  ASSUME ObjectsInv, NEW c \in Client, Select(c)
  PROVE  ObjectsInv'
<1>1. PICK place \in Places :
        Act(c, "select", [clients[c] EXCEPT !.context =
                             InEdition(clients[c].context, SelIn(BufferOf(clients[c].context), place))])
  BY DEF Select
<1> DEFINE ctx == Context(c)
           sel == SelIn(BufferOf(ctx), place)
           new == InEdition(ctx, sel)
           client == [clients[c] EXCEPT !.context = new]
<1>2. ctx = clients[c].context
  BY DEF Context
<1>3. /\ Idle /\ UNCHANGED <<server, lists, running>> /\ calls' = calls
      /\ clients' = [clients EXCEPT ![c] = client]
  BY <1>1, <1>2 DEF Act, Key
<1>4. sel \in NodesOf(c) /\ sel.buffer = BufferOf(ctx)
  <2>1. SelectionsOf(ctx) \in Sel /\ SelectionsOf(ctx) \in NodesOf(c)
    BY ClientIs
  <2> QED
    BY <2>1 DEF SelIn, Sel, NodesOf, BufferOf
<1>5. new \in ContextOf(NodesOf(c), JumpsOf(c)) /\ Sound(new) /\ SelectionsOf(new) = sel
      /\ new.m_in_edition = ctx.m_in_edition
  <2>1. ctx \in ContextOf(NodesOf(c), JumpsOf(c)) /\ Sound(ctx)
    BY ClientIs
  <2> HIDE DEF ctx, sel, new
  <2> QED
    BY <1>4, <2>1, InEditionIsSound DEF new
<1>6. clients[c] \in ClientOf /\ clients[c].m_window = BufferOf(ctx)
      /\ ctx.m_in_edition = IF clients[c].mode = "normal" THEN 0 ELSE 1
  BY <1>3, ClientIs, IdleClientIs
<1> HIDE DEF ctx, sel, new
<1>7. /\ client \in ClientOf /\ client.context = new
      /\ client.m_window = clients[c].m_window /\ client.mode = clients[c].mode
  BY <1>5, <1>6, AnotherContext
<1>8. client.m_window = BufferOf(client.context)
  BY <1>4, <1>5, <1>6, <1>7 DEF BufferOf
<1> HIDE DEF client
<1> QED
  BY <1>3, <1>5, <1>6, <1>7, <1>8, ActStep

LEMMA SaveStep ==
  ASSUME ObjectsInv, NEW c \in Client, SaveSelections(c)
  PROVE  ObjectsInv'
<1> DEFINE ctx == Context(c)
           new == PushJump(ctx)
           client == [clients[c] EXCEPT !.context = new]
<1>1. ctx = clients[c].context
  BY DEF Context
<1>2. /\ Idle /\ UNCHANGED <<server, lists, running>> /\ calls' = calls
      /\ clients' = [clients EXCEPT ![c] = client]
  BY <1>1 DEF SaveSelections, Act, Key
<1>3. new \in ContextOf(NodesOf(c), JumpsOf(c)) /\ Sound(new)
      /\ SelectionsOf(new) = SelectionsOf(ctx) /\ new.m_in_edition = ctx.m_in_edition
  <2>1. ctx \in ContextOf(NodesOf(c), JumpsOf(c)) /\ Sound(ctx) /\ SelectionsOf(ctx) \in JumpsOf(c)
    BY <1>2, ClientIs, IdleClientIs
  <2> HIDE DEF ctx
  <2> QED
    BY <2>1, PushJumpIsSound DEF SameHistory
<1>4. clients[c] \in ClientOf /\ clients[c].m_window = BufferOf(ctx)
      /\ ctx.m_in_edition = IF clients[c].mode = "normal" THEN 0 ELSE 1
  BY <1>2, ClientIs, IdleClientIs
<1> HIDE DEF ctx, new
<1>5. /\ client \in ClientOf /\ client.context = new
      /\ client.m_window = clients[c].m_window /\ client.mode = clients[c].mode
  BY <1>3, <1>4, AnotherContext
<1>6. client.m_window = BufferOf(client.context)
  BY <1>3, <1>4, <1>5 DEF BufferOf
<1> HIDE DEF client
<1> QED
  BY <1>2, <1>3, <1>4, <1>5, <1>6, ActStep

LEMMA EnterModeStep ==
  ASSUME ObjectsInv, NEW c \in Client, NEW mode \in {"insert", "prompt"}, EnterMode(c, mode)
  PROVE  ObjectsInv'
<1> DEFINE ctx == Context(c)
           new == BeginEdition(ctx)
           client == [clients[c] EXCEPT !.mode = mode, !.context = new]
<1>1. ctx = clients[c].context
  BY DEF Context
<1>2. /\ Idle /\ UNCHANGED <<server, lists, running>> /\ calls' = calls
      /\ clients' = [clients EXCEPT ![c] = client] /\ clients[c].mode = "normal"
  BY <1>1 DEF EnterMode, Act, Key
<1>3. new \in ContextOf(NodesOf(c), JumpsOf(c)) /\ Sound(new)
      /\ SelectionsOf(new) = SelectionsOf(ctx) /\ new.m_in_edition = ctx.m_in_edition + 1
  <2>1. ctx \in ContextOf(NodesOf(c), JumpsOf(c)) /\ Sound(ctx)
    BY ClientIs
  <2> HIDE DEF ctx
  <2> QED
    BY <2>1, BeginEditionIsSound
<1>4. clients[c] \in ClientOf /\ clients[c].m_window = BufferOf(ctx) /\ ctx.m_in_edition = 0
  BY <1>2, ClientIs, IdleClientIs
<1> HIDE DEF ctx, new
<1>5. /\ client \in ClientOf /\ client.context = new
      /\ client.m_window = clients[c].m_window /\ client.mode = mode
  <2>1. PICK r : r = [clients[c] EXCEPT !.context = new]
    OBVIOUS
  <2>2. r \in ClientOf /\ r.context = new /\ r.m_window = clients[c].m_window
    BY <1>3, <1>4, <2>1, AnotherContext
  <2>3. client = [r EXCEPT !.mode = mode]
    BY <1>4, <2>1 DEF ClientOf
  <2> QED
    BY <2>2, <2>3 DEF ClientOf, Modes
<1>6. client.m_window = BufferOf(client.context)
  BY <1>3, <1>4, <1>5 DEF BufferOf
<1>7. client.context.m_in_edition = IF client.mode = "normal" THEN 0 ELSE 1
  BY <1>3, <1>4, <1>5
<1> HIDE DEF client
<1> QED
  BY <1>2, <1>3, <1>5, <1>6, <1>7, ActStep

(* A client that leaves its mode.                                           *)
LEMMA NormalModeIs ==
  ASSUME NEW client \in ClientOf, NEW S, NEW J, client.context \in ContextOf(S, J),
         Sound(client.context), S \in SUBSET Sel, J \in SUBSET Sel,
         client.mode # "normal" => client.context.m_in_edition > 0
  PROVE  LET new == NormalMode(client)
         IN  /\ new \in ClientOf /\ new.mode = "normal" /\ new.m_window = client.m_window
             /\ new.context \in ContextOf(S, J) /\ Sound(new.context)
             /\ SelectionsOf(new.context) = SelectionsOf(client.context)
             /\ client.mode = "normal" => new.context.m_in_edition = client.context.m_in_edition
             /\ client.mode # "normal" =>
                   new.context.m_in_edition = client.context.m_in_edition - 1
<1>1. CASE client.mode = "normal"
  BY <1>1 DEF NormalMode
<1>2. CASE client.mode # "normal"
  <2>1. PICK ctx, new : ctx = client.context /\ new = EndEdition(ctx)
    OBVIOUS
  <2>2. ctx \in ContextOf(S, J) /\ Sound(ctx) /\ ctx.m_in_edition > 0
    BY <1>2, <2>1
  <2>3. /\ new \in ContextOf(S, J) /\ Sound(new) /\ SelectionsOf(new) = SelectionsOf(ctx)
        /\ new.m_in_edition = ctx.m_in_edition - 1
    BY <2>1, <2>2, EndEditionIsSound
  <2>4. new \in ContextOf(Sel, Sel)
    BY <2>3, ContextGrows
  <2>5. NormalMode(client) = [client EXCEPT !.mode = "normal", !.context = new]
    BY <1>2, <2>1 DEF NormalMode
  <2>6. /\ NormalMode(client) \in ClientOf /\ NormalMode(client).mode = "normal"
        /\ NormalMode(client).m_window = client.m_window /\ NormalMode(client).context = new
    BY <2>4, <2>5 DEF ClientOf, Modes
  <2> QED
    BY <1>2, <2>1, <2>3, <2>6
<1> QED
  BY <1>1, <1>2

LEMMA EscapeStep ==
  ASSUME ObjectsInv, NEW c \in Client, Escape(c)
  PROVE  ObjectsInv'
<1> DEFINE ctx == Context(c)
           client == NormalMode(clients[c])
           S == NodesOf(c)
           J == JumpsOf(c)
<1>1. ctx = clients[c].context
  BY DEF Context
<1>2. /\ Idle /\ UNCHANGED <<server, lists, running>> /\ calls' = calls
      /\ clients' = [clients EXCEPT ![c] = client] /\ clients[c].mode # "normal"
  BY DEF Escape, Act, Key
<1>3. clients[c] \in ClientOf /\ clients[c].m_window = BufferOf(ctx) /\ ctx.m_in_edition = 1
      /\ ctx \in ContextOf(S, J) /\ Sound(ctx)
  BY <1>2, ClientIs, IdleClientIs
<1>4. S \in SUBSET Sel /\ J \in SUBSET Sel
  BY DEF NodesOf, JumpsOf
<1> HIDE DEF ctx, S, J
<1>5. /\ client \in ClientOf /\ client.mode = "normal" /\ client.m_window = clients[c].m_window
      /\ client.context \in ContextOf(S, J) /\ Sound(client.context)
      /\ SelectionsOf(client.context) = SelectionsOf(ctx)
      /\ client.context.m_in_edition = ctx.m_in_edition - 1
  BY <1>1, <1>2, <1>3, <1>4, NormalModeIs
<1>6. client.m_window = BufferOf(client.context)
  BY <1>3, <1>5 DEF BufferOf
<1>7. client.context.m_in_edition = IF client.mode = "normal" THEN 0 ELSE 1
  BY <1>3, <1>5
<1>8. client.context \in ContextOf(NodesOf(c), JumpsOf(c))
  BY <1>5 DEF S, J
<1> HIDE DEF client
<1> QED
  BY <1>2, <1>5, <1>6, <1>7, <1>8, ActStep

(* A client that jumps, once the list is at the jump.                       *)
LEMMA JumpToStep ==
  ASSUME ObjectsInv, NEW c \in Client, Idle, c \in ToSet(m_clients),
         UNCHANGED <<server, lists, running>>,
         NEW ctx \in ContextOf(NodesOf(c), JumpsOf(c)), Sound(ctx),
         SelectionsOf(ctx) = SelectionsOf(Context(c)),
         ctx.m_in_edition = Context(c).m_in_edition,
         Jumped(ctx) \in JumpsOf(c), JumpTo(c, ctx)
  PROVE  ObjectsInv'
<1>1. PICK jump \in JumpsOf(c) : jump = Jumped(ctx)
  OBVIOUS
<1>2. PICK x, y : x = ChangeTo(c, jump.buffer) /\ y = EndJump(c, jump)
  OBVIOUS
<1> DEFINE new == BeginEdition(ctx)
           client == [clients[c] EXCEPT !.context = new]
           first == IF jump.buffer # BufferOf(ctx) THEN <<x>> ELSE <<>>
<1>3. clients' = [clients EXCEPT ![c] = client] /\ calls' = first \o <<y>>
  <2>1. clients' = [clients EXCEPT ![c].context = new] /\ calls' = first \o <<y>>
    BY <1>1, <1>2 DEF JumpTo, Update
  <2> QED
    BY <2>1
<1>4. new \in ContextOf(NodesOf(c), JumpsOf(c)) /\ Sound(new)
      /\ SelectionsOf(new) = SelectionsOf(ctx) /\ new.m_in_edition = ctx.m_in_edition + 1
  BY BeginEditionIsSound
<1>5. clients[c] \in ClientOf /\ clients[c].m_window = BufferOf(ctx)
      /\ ctx.m_in_edition = IF clients[c].mode = "normal" THEN 0 ELSE 1
  BY ClientIs, IdleClientIs DEF BufferOf
<1> HIDE DEF new
<1>6. /\ client \in ClientOf /\ client.context = new
      /\ client.m_window = clients[c].m_window /\ client.mode = clients[c].mode
  BY <1>4, <1>5, AnotherContext
<1>7. client.m_window = BufferOf(client.context)
  BY <1>4, <1>5, <1>6 DEF BufferOf
<1>8. Context(c)' = new
  <2>1. clients \in [Client -> ClientOf]
    BY DEF ObjectsInv, TypeOK
  <2> QED
    BY <1>3, <1>6, <2>1 DEF Context
<1> HIDE DEF client, first
<1>9. InList(jump.buffer) /\ jump \in Sel
  BY IdleClientIs DEF JumpsOf
<1>10. InList(jump.buffer)' /\ jump \in Sel'
  BY <1>9 DEF InList, server, Sel, Buffer
<1>11. /\ x.do = "change buffer" /\ x.client = c /\ x.buffer = jump.buffer
       /\ Going(x) /\ Switch(x) /\ Moves(x) = c
       /\ (KnowsBuffer(x) /\ KnowsClient(x) /\ KnowsHook(x) /\ KnowsNode(x))'
  <2>1. PICK b : b = jump.buffer
    OBVIOUS
  <2>2. InList(b)'
    BY <1>10, <2>1
  <2>3. x = ChangeTo(c, b)
    BY <1>2, <2>1
  <2>4. x.do = "change buffer" /\ x.client = c /\ x.buffer = b
    BY <2>3 DEF ChangeTo
  <2>5. Going(x) /\ Switch(x) /\ Moves(x) = c
    BY <2>4 DEF Going, Switch, Moves
  <2>6. InList(b)' => KnowsBuffer(x)'
    BY <2>3, ChangeIs
  <2>7. KnowsClient(x)'
    BY <2>3, ChangeIs
  <2>8. KnowsHook(x)'
    BY <2>3, ChangeIs
  <2>9. KnowsNode(x)'
    BY <2>3, ChangeIs
  <2>10. x.buffer = jump.buffer
    BY <2>1, <2>4
  <2> QED
    BY <2>2, <2>4, <2>5, <2>6, <2>7, <2>8, <2>9, <2>10
<1>12. y.do = "end jump" /\ y.client = c /\ y.sel = jump
  BY <1>2 DEF EndJump
<1>13. Knows(x)'
  BY <1>11 DEF Knows, GoesOn, HeadsThere
<1>14. (KnowsBuffer(y) /\ KnowsClient(y) /\ KnowsHook(y) /\ KnowsNode(y))'
  BY <1>10, <1>12 DEF KnowsBuffer, KnowsClient, KnowsHook, KnowsNode, Switch
<1>15. May(x, y)
  BY <1>11, <1>12 DEF May
<1>16. /\ Stacked(first) /\ Stacked(<<y>>) /\ ToSet(<<y>>) = {y}
       /\ \A t \in ToSet(first) : t = x
       /\ jump.buffer # BufferOf(ctx) => x \in ToSet(first)
  BY StackOfOne, OneOrNone DEF first
<1>17. \A a \in ToSet(first) : \A b \in ToSet(<<y>>) : May(a, b)
  BY <1>15, <1>16
<1>18. Stacked(calls') /\ Calls' = ToSet(first) \cup {y}
  <2>1. Stacked(first \o <<y>>) /\ ToSet(first \o <<y>>) = ToSet(first) \cup ToSet(<<y>>)
    BY <1>16, <1>17, StackedTogether
  <2> QED
    BY <1>3, <1>16, <2>1 DEF Calls
<1>19. GoesOn(y)'
  <2>1. BufferOf(Context(c)') = BufferOf(ctx)
    BY <1>4, <1>8 DEF BufferOf
  <2>2. jump.buffer # BufferOf(ctx) => x \in Calls'
    BY <1>16, <1>18
  <2>3. BufferOf(Context(c))' = BufferOf(ctx)
    BY <2>1 DEF BufferOf, SelectionsOf, Staged
  <2> QED
    BY <1>11, <1>12, <2>2, <2>3 DEF GoesOn
<1>20. HeadsThere(y)'
  <2>1. ~Switch(y)
    BY <1>12 DEF Switch
  <2> QED
    BY <1>11, <1>12, <1>16, <1>18, <2>1 DEF HeadsThere
<1>21. Knows(y)'
  BY <1>14, <1>19, <1>20 DEF Knows
<1>22. \A t \in Calls' : t.do # "joins" /\ (t.do = "end jump" => t.client = c) /\ Knows(t)'
  BY <1>11, <1>12, <1>13, <1>16, <1>18, <1>21
<1>23. Jumping(c)'
  BY <1>12, <1>18 DEF Jumping
<1>24. client.context.m_in_edition =
             (IF client.mode = "normal" THEN 0 ELSE 1) + (IF Jumping(c)' THEN 1 ELSE 0)
  BY <1>4, <1>5, <1>6, <1>23
<1>25. Calls = {}
  BY IdleIs
<1> QED
  BY <1>3, <1>4, <1>6, <1>7, <1>18, <1>22, <1>24, <1>25, ClientStep

LEMMA JumpBackwardStep ==
  ASSUME ObjectsInv, NEW c \in Client, JumpBackward(c)
  PROVE  ObjectsInv'
<1>1. PICK ctx : ctx = Context(c)
  OBVIOUS
<1>2. Idle /\ c \in ToSet(m_clients) /\ UNCHANGED <<server, lists, running>>
  BY DEF JumpBackward, Key
<1>3. /\ ctx \in ContextOf(NodesOf(c), JumpsOf(c)) /\ Sound(ctx)
      /\ SelectionsOf(ctx) \in JumpsOf(c)
  BY <1>1, <1>2, ClientIs, IdleClientIs
<1>4. CASE HasBackward(ctx)
  <2>1. PICK new : new = GoBackward(ctx)
    OBVIOUS
  <2>2. /\ new \in ContextOf(NodesOf(c), JumpsOf(c)) /\ Sound(new)
        /\ SelectionsOf(new) = SelectionsOf(ctx) /\ new.m_in_edition = ctx.m_in_edition
        /\ Jumped(new) \in JumpsOf(c)
    BY <1>3, <1>4, <2>1, GoBackwardIsSound DEF SameHistory
  <2>3. JumpTo(c, new)
    BY <1>1, <1>4, <2>1 DEF JumpBackward
  <2>4. SelectionsOf(new) = SelectionsOf(Context(c)) /\ new.m_in_edition = Context(c).m_in_edition
    BY <1>1, <2>2
  <2> QED
    BY <1>2, <2>2, <2>3, <2>4, JumpToStep
<1>5. CASE ~HasBackward(ctx)
  <2>1. PICK new : new = PushedBefore(ctx)
    OBVIOUS
  <2> DEFINE client == [clients[c] EXCEPT !.context = new]
  <2>2. calls' = calls /\ clients' = [clients EXCEPT ![c] = client]
    BY <1>1, <1>5, <2>1 DEF JumpBackward, Update
  <2>3. /\ new \in ContextOf(NodesOf(c), JumpsOf(c)) /\ Sound(new)
        /\ SelectionsOf(new) = SelectionsOf(ctx) /\ new.m_in_edition = ctx.m_in_edition
    BY <1>3, <2>1, PushedBeforeIsSound DEF SameHistory
  <2>4. clients[c] \in ClientOf /\ clients[c].m_window = BufferOf(ctx)
        /\ ctx.m_in_edition = IF clients[c].mode = "normal" THEN 0 ELSE 1
    BY <1>1, <1>2, ClientIs, IdleClientIs
  <2>5. /\ client \in ClientOf /\ client.context = new
        /\ client.m_window = clients[c].m_window /\ client.mode = clients[c].mode
    BY <2>3, <2>4, AnotherContext
  <2>6. client.m_window = BufferOf(client.context)
    BY <2>3, <2>4, <2>5 DEF BufferOf
  <2> HIDE DEF client
  <2> QED
    BY <1>2, <2>2, <2>3, <2>4, <2>5, <2>6, ActStep
<1> QED
  BY <1>4, <1>5

LEMMA JumpForwardStep ==
  ASSUME ObjectsInv, NEW c \in Client, JumpForward(c)
  PROVE  ObjectsInv'
<1>1. PICK ctx : ctx = Context(c)
  OBVIOUS
<1>2. Idle /\ c \in ToSet(m_clients) /\ UNCHANGED <<server, lists, running>>
  BY DEF JumpForward, Key
<1>3. ctx \in ContextOf(NodesOf(c), JumpsOf(c)) /\ Sound(ctx)
  BY <1>1, ClientIs
<1>4. CASE HasForward(ctx)
  <2>1. PICK new : new = GoForward(ctx)
    OBVIOUS
  <2>2. /\ new \in ContextOf(NodesOf(c), JumpsOf(c)) /\ Sound(new)
        /\ SelectionsOf(new) = SelectionsOf(ctx) /\ new.m_in_edition = ctx.m_in_edition
        /\ Jumped(new) \in JumpsOf(c)
    BY <1>3, <1>4, <2>1, GoForwardIsSound DEF SameHistory
  <2>3. JumpTo(c, new)
    BY <1>1, <1>4, <2>1 DEF JumpForward
  <2>4. SelectionsOf(new) = SelectionsOf(Context(c)) /\ new.m_in_edition = Context(c).m_in_edition
    BY <1>1, <2>2
  <2> QED
    BY <1>2, <2>2, <2>3, <2>4, JumpToStep
<1>5. CASE ~HasForward(ctx)
  <2>1. clients' = clients /\ calls' = calls
    BY <1>1, <1>5 DEF JumpForward
  <2>2. PICK client : client = clients[c]
    OBVIOUS
  <2>3. /\ client \in ClientOf /\ client.m_window = BufferOf(client.context)
        /\ client.context \in ContextOf(NodesOf(c), JumpsOf(c)) /\ Sound(client.context)
        /\ client.context.m_in_edition = IF client.mode = "normal" THEN 0 ELSE 1
    BY <1>2, <2>2, ClientIs, IdleClientIs
  <2>4. clients' = [clients EXCEPT ![c] = client]
    BY <2>1, <2>2 DEF ObjectsInv, TypeOK
  <2> QED
    BY <1>2, <2>1, <2>3, <2>4, ActStep
<1> QED
  BY <1>4, <1>5

(* A client that pushes a jump on its way to another buffer.                *)
LEMMA PushAndGo ==
  ASSUME ObjectsInv, NEW c \in Client, NEW b, InList(b),
         UNCHANGED <<server, lists, running>>, Update(c, PushJump(Context(c))),
         \A call \in Calls : /\ ~Owed(call)
                             /\ call.do \notin {"hook done", "show", "shown", "connected"},
         calls' = <<ChangeTo(c, b)>>
  PROVE  ObjectsInv'
<1>1. PICK ctx, new, x : ctx = Context(c) /\ new = PushJump(ctx) /\ x = ChangeTo(c, b)
  OBVIOUS
<1> DEFINE client == [clients[c] EXCEPT !.context = new]
<1>2. clients' = [clients EXCEPT ![c] = client] /\ calls' = <<x>>
  <2>1. clients' = [clients EXCEPT ![c].context = new] /\ calls' = <<x>>
    BY <1>1 DEF Update
  <2> QED
    BY <2>1
<1>3. NodesOf(c) = JumpsOf(c)
  BY NodesAreJumps DEF Owed
<1>4. /\ ctx \in ContextOf(NodesOf(c), JumpsOf(c)) /\ Sound(ctx)
      /\ SelectionsOf(ctx) \in JumpsOf(c)
      /\ clients[c] \in ClientOf /\ clients[c].m_window = BufferOf(ctx)
      /\ ctx.m_in_edition =
             (IF clients[c].mode = "normal" THEN 0 ELSE 1) + (IF Jumping(c) THEN 1 ELSE 0)
  BY <1>1, <1>3, ClientIs
<1>5. /\ new \in ContextOf(NodesOf(c), JumpsOf(c)) /\ Sound(new)
      /\ SelectionsOf(new) = SelectionsOf(ctx) /\ new.m_in_edition = ctx.m_in_edition
  <2>1. ctx \in ContextOf(NodesOf(c), JumpsOf(c)) /\ Sound(ctx) /\ SelectionsOf(ctx) \in JumpsOf(c)
    BY <1>4
  <2>2. /\ PushJump(ctx) \in ContextOf(NodesOf(c), JumpsOf(c)) /\ Sound(PushJump(ctx))
        /\ SameHistory(PushJump(ctx), ctx)
        /\ SelectionsOf(PushJump(ctx)) = SelectionsOf(ctx)
    BY <2>1, PushJumpIsSound
  <2> QED
    BY <1>1, <2>2 DEF SameHistory
<1>6. /\ client \in ClientOf /\ client.context = new
      /\ client.m_window = clients[c].m_window /\ client.mode = clients[c].mode
  BY <1>4, <1>5, AnotherContext
<1>7. client.m_window = BufferOf(client.context)
  BY <1>4, <1>5, <1>6 DEF BufferOf
<1> HIDE DEF client
<1>8. Calls' = {x} /\ Stacked(calls')
  <2>1. ToSet(<<x>>) = {x} /\ Stacked(<<x>>)
    BY OneOrNone, StackOfOne
  <2> QED
    BY <1>2, <2>1 DEF Calls
<1>9. x.do = "change buffer"
  BY <1>1 DEF ChangeTo
<1>10. Knows(x)'
  <2>1. InList(b)'
    BY DEF InList, server
  <2>2. InList(b)' => KnowsBuffer(x)'
    BY <1>1, ChangeIs
  <2>3. KnowsClient(x)'
    BY <1>1, ChangeIs
  <2>4. KnowsHook(x)'
    BY <1>1, ChangeIs
  <2>5. KnowsNode(x)'
    BY <1>1, ChangeIs
  <2>6. GoesOn(x)' /\ HeadsThere(x)'
    BY <1>9 DEF GoesOn, HeadsThere
  <2> QED
    BY <2>1, <2>2, <2>3, <2>4, <2>5, <2>6 DEF Knows
<1>11. ~Jumping(c) /\ ~Jumping(c)'
  <2>1. ~Jumping(c)
    BY DEF Jumping, Owed
  <2> QED
    BY <1>8, <1>9, <2>1 DEF Jumping
<1>12. client.context.m_in_edition =
             (IF client.mode = "normal" THEN 0 ELSE 1) + (IF Jumping(c)' THEN 1 ELSE 0)
  BY <1>4, <1>5, <1>6, <1>11
<1>13. \A call \in Calls : OwedBy(call, c)
  BY DEF OwedBy
<1>14. \A t \in Calls' : t.do # "joins" /\ (t.do = "end jump" => t.client = c) /\ Knows(t)'
  BY <1>8, <1>9, <1>10
<1> QED
  BY <1>2, <1>5, <1>6, <1>7, <1>8, <1>12, <1>13, <1>14, ClientStep

LEMMA GoToLastStep ==
  ASSUME ObjectsInv, NEW c \in Client, GoToLast(c)
  PROVE  ObjectsInv'
<1>1. PICK b \in LastBuffers(Context(c)) :
        /\ Key(c, [cmd |-> "last buffer"]) /\ Update(c, PushJump(Context(c)))
        /\ calls' = <<ChangeTo(c, b)>>
  BY DEF GoToLast
<1>2. Idle /\ c \in ToSet(m_clients) /\ UNCHANGED <<server, lists, running>>
  BY <1>1 DEF Key
<1>3. InList(b)
  <2>1. PICK ctx : ctx = Context(c)
    OBVIOUS
  <2>2. ctx \in ContextOf(NodesOf(c), JumpsOf(c)) /\ Sound(ctx) /\ b \in LastBuffers(ctx)
    BY <1>1, <2>1, ClientIs
  <2>3. PICK j \in JumpsOf(c) : j.buffer = b
    BY <2>2, LastBuffersAre
  <2> QED
    BY <1>2, <2>3, IdleClientIs
<1>4. Calls = {}
  BY <1>2, IdleIs
<1> QED
  BY <1>1, <1>2, <1>3, <1>4, PushAndGo

LEMMA LeaveBufferStep ==
  ASSUME ObjectsInv, LeaveBuffer, It.at \in Client
  PROVE  ObjectsInv'
<1>1. ~Idle /\ It.do = "leave for" /\ UNCHANGED <<server, lists, running, ghosts>>
  BY DEF LeaveBuffer, Doing, It
<1>2. Alone(It) /\ It.do \notin {"end jump", "connected", "joins"}
  BY <1>1 DEF Alone
<1>3. Calls = {It} /\ Knows(It) /\ \A todo : IsList(todo) => todo \o Tail(calls) = todo
  BY <1>1, <1>2, AloneIs, ItKnows
<1>4. PICK c, b : c = It.at /\ b = It.buffer
  OBVIOUS
<1>5. InList(b)
  BY <1>1, <1>3, <1>4 DEF Knows, KnowsBuffer
<1>6. CASE It.buffer # CurrentOf(It.at)
  <2>1. PICK x : x = ChangeTo(c, b)
    OBVIOUS
  <2>2. Update(c, PushJump(Context(c))) /\ calls' = <<x>> \o Tail(calls)
    BY <1>4, <1>6, <2>1 DEF LeaveBuffer, Call
  <2>3. calls' = <<x>>
    <3>1. IsList(<<x>>)
      BY OneOrNone
    <3> QED
      BY <1>3, <2>2, <3>1
  <2>4. \A call \in Calls : /\ ~Owed(call)
                            /\ call.do \notin {"hook done", "show", "shown", "connected"}
    BY <1>1, <1>3 DEF Owed
  <2>5. c \in Client
    BY <1>4
  <2> QED
    BY <1>1, <1>5, <2>1, <2>2, <2>3, <2>4, <2>5, PushAndGo
<1>7. CASE ~(It.buffer # CurrentOf(It.at))
  <2>1. calls' = <<>> \o Tail(calls) /\ clients' = clients
    BY <1>7 DEF LeaveBuffer, Call
  <2>2. QuietData /\ locked' = locked /\ m_running_hooks' = m_running_hooks
    BY <1>1, <2>1 DEF server, lists, running, QuietData, ObjectsInv, TypeOK, InList, Apart
  <2>3. Stacked(<<>>) /\ ToSet(<<>>) = {}
    BY StackOfOne, OneOrNone
  <2>4. \A t \in ToSet(<<>>) : t.do \notin {"end jump", "joins"} /\ Knows(t)'
    BY <2>3
  <2> QED
    BY <1>1, <1>2, <2>1, <2>2, <2>3, <2>4, AloneStep
<1> QED
  BY <1>6, <1>7

LEMMA UndoMoreKnows ==
  ASSUME NEW c, NEW back \in BOOLEAN, NEW old, NEW x,
         x = [do |-> "undo more", client |-> c, backward |-> back, old |-> old],
         Steady(c)', c \in ToSet(m_clients)'
  PROVE  x.do = "undo more" /\ x.client = c /\ Knows(x)'
<1>1. /\ x.do = "undo more" /\ x.client = c /\ x.backward = back
      /\ x = [do |-> x.do, client |-> x.client, backward |-> x.backward, old |-> x.old]
  OBVIOUS
<1>2. (KnowsBuffer(x) /\ KnowsClient(x) /\ KnowsHook(x))'
  BY <1>1 DEF KnowsBuffer, KnowsClient, KnowsHook, Switch
<1> QED
  BY <1>1, <1>2, PlainKnows

LEMMA UndoStep ==
  ASSUME ObjectsInv, Undo
  PROVE  ObjectsInv'
<1>1. ~Idle /\ It.do = "undo"
  BY DEF Undo, Doing, It
<1>2. Alone(It) /\ It.do \notin {"end jump", "connected", "joins"}
  BY <1>1 DEF Alone
<1>3. Calls = {It} /\ Knows(It) /\ \A todo : IsList(todo) => todo \o Tail(calls) = todo
  BY <1>1, <1>2, AloneIs, ItKnows
<1>4. /\ It = [do |-> It.do, client |-> It.client, backward |-> It.backward, old |-> It.old]
      /\ Steady(It.client) /\ It.client \in ToSet(m_clients) /\ It.backward \in BOOLEAN
  BY <1>1, <1>3 DEF Knows, KnowsClient
<1>5. PICK c, back, old : c = It.client /\ back = It.backward /\ old = It.old
  OBVIOUS
<1>6. c \in Client /\ Context(c).m_in_edition = 0 /\ c \in ToSet(m_clients) /\ back \in BOOLEAN
  BY <1>4, <1>5 DEF Steady
<1>7. PICK ctx, next : ctx = Context(c) /\ next = NextNode(ctx, back)
  OBVIOUS
<1>8. CASE next = Invalid
  <2>1. Throw
    BY <1>5, <1>7, <1>8 DEF Undo
  <2>2. QuietData /\ calls' = <<>> /\ locked' = locked /\ m_running_hooks' = m_running_hooks
    BY <1>1, <1>2, <2>1, ThrowIs
  <2>3. Stacked(<<>>) /\ ToSet(<<>>) = {}
    BY StackOfOne, OneOrNone
  <2>4. \A t \in ToSet(<<>>) : t.do \notin {"end jump", "joins"} /\ Knows(t)'
    BY <2>3
  <2> QED
    BY <1>1, <1>2, <2>2, <2>3, <2>4, AloneStep
<1>9. CASE next # Invalid
  <2>1. PICK b, more : b = ctx.m_history[next].sel.buffer /\ more = UndoMore(It)
    OBVIOUS
  <2>2. more = [do |-> "undo more", client |-> c, backward |-> back, old |-> old]
    <3>1. It = [do |-> "undo", client |-> c, backward |-> back, old |-> old]
      BY <1>1, <1>4, <1>5
    <3> QED
      BY <2>1, <3>1 DEF UndoMore
  <2>3. /\ ctx \in ContextOf(NodesOf(c), JumpsOf(c)) /\ Sound(ctx) /\ ctx.m_in_edition = 0
        /\ clients[c] \in ClientOf /\ clients[c].m_window = BufferOf(ctx)
        /\ ctx.m_in_edition =
             (IF clients[c].mode = "normal" THEN 0 ELSE 1) + (IF Jumping(c) THEN 1 ELSE 0)
    BY <1>6, <1>7, ClientIs
  <2>4. PICK new : new = SelectNext(ctx, next, back)
    OBVIOUS
  <2>5. /\ new \in ContextOf(NodesOf(c), JumpsOf(c)) /\ Sound(new)
        /\ SelectionsOf(new) = ctx.m_history[next].sel /\ new.m_in_edition = 0
        /\ next \in 1 .. Len(ctx.m_history)
    BY <1>6, <1>7, <1>9, <2>3, <2>4, SelectNextIsSound
  <2>6. InList(b)
    <3>1. ctx.m_history[next].sel \in NodesOf(c)
      BY <2>3, <2>5, SoundIs DEF NodeOf
    <3>2. \A call \in Calls : call.do \notin {"forget", "forget selections"}
      BY <1>1, <1>3
    <3> QED
      BY <1>6, <2>1, <3>1, <3>2, OfLiveClient
  <2>7. UNCHANGED <<server, lists, running, ghosts>>
    BY <1>5, <1>7, <1>9 DEF Undo
  <2>8. CASE b = BufferOf(ctx)
    <3> DEFINE client == [clients[c] EXCEPT !.context = new]
    <3>1. clients' = [clients EXCEPT ![c] = client] /\ calls' = <<more>> \o Tail(calls)
      BY <1>5, <1>7, <1>9, <2>1, <2>4, <2>8 DEF Undo, Update, Call
    <3>2. calls' = <<more>> /\ Stacked(calls') /\ Calls' = {more}
      <4>1. IsList(<<more>>) /\ ToSet(<<more>>) = {more} /\ Stacked(<<more>>)
        BY OneOrNone, StackOfOne
      <4>2. calls' = <<more>>
        BY <1>3, <3>1, <4>1
      <4> QED
        BY <4>1, <4>2 DEF Calls
    <3>3. /\ client \in ClientOf /\ client.context = new
          /\ client.m_window = clients[c].m_window /\ client.mode = clients[c].mode
      BY <2>3, <2>5, AnotherContext
    <3>4. client.m_window = BufferOf(client.context)
      BY <2>1, <2>3, <2>5, <2>8, <3>3 DEF BufferOf
    <3> HIDE DEF client
    <3>5. Context(c)' = new
      <4>1. clients \in [Client -> ClientOf]
        BY DEF ObjectsInv, TypeOK
      <4> QED
        BY <1>6, <3>1, <3>3, <4>1 DEF Context
    <3>6. Steady(c)' /\ c \in ToSet(m_clients)'
      BY <1>6, <2>5, <2>7, <3>5 DEF Steady, lists
    <3>7. more.do = "undo more" /\ Knows(more)'
      BY <1>6, <2>2, <3>6, UndoMoreKnows
    <3>8. ~Jumping(c) /\ ~Jumping(c)'
      <4>1. ~Jumping(c)
        BY <1>1, <1>3 DEF Jumping
      <4> QED
        BY <3>2, <3>7, <4>1 DEF Jumping
    <3>9. client.context.m_in_edition =
             (IF client.mode = "normal" THEN 0 ELSE 1) + (IF Jumping(c)' THEN 1 ELSE 0)
      BY <2>3, <2>5, <3>3, <3>8
    <3>10. \A call \in Calls : OwedBy(call, c) /\ call.do \notin {"hook done", "show", "shown", "connected"}
      BY <1>1, <1>3 DEF OwedBy, Owed
    <3>11. \A t \in Calls' : t.do # "joins" /\ (t.do = "end jump" => t.client = c) /\ Knows(t)'
      BY <3>2, <3>7
    <3> QED
      BY <1>6, <2>5, <2>7, <3>1, <3>2, <3>3, <3>4, <3>9, <3>10, <3>11, ClientStep
  <2>9. CASE b # BufferOf(ctx)
    <3>1. PICK x : x = UndoIn(c, b, next, back)
      OBVIOUS
    <3>2. calls' = <<x, more>> \o Tail(calls) /\ clients' = clients
      BY <1>5, <1>7, <1>9, <2>1, <2>9, <3>1 DEF Undo, Call
    <3>3. QuietData /\ locked' = locked /\ m_running_hooks' = m_running_hooks
      BY <2>7, <3>2 DEF server, lists, running, QuietData, ObjectsInv, TypeOK, InList, Apart
    <3>4. Steady(c)' /\ c \in ToSet(m_clients)'
      BY <1>6, <3>3 DEF Steady, QuietData, Context
    <3>5. more.do = "undo more" /\ more.client = c /\ Knows(more)'
      BY <1>6, <2>2, <3>4, UndoMoreKnows
    <3>6. /\ x.do = "change buffer" /\ x.client = c /\ x.buffer = b
          /\ x.select = next /\ x.backward = back
      BY <3>1 DEF UndoIn
    <3>7. Knows(x)'
      <4>1. KnowsBuffer(x)'
        <5>1. InList(b)'
          BY <2>6, <3>3 DEF QuietData
        <5> QED
          BY <3>6, <5>1 DEF KnowsBuffer
      <4>2. (KnowsClient(x) /\ KnowsHook(x))'
        BY <1>6, <3>6 DEF KnowsClient, KnowsHook, Switch, Moves
      <4>3. Context(c)' = ctx
        BY <1>7, <3>2 DEF Context
      <4>4. UndoKnows(x)'
        <5>1. Context(x.client)' = ctx /\ Steady(x.client)'
          BY <3>4, <3>6, <4>3 DEF Context
        <5> QED
          BY <1>6, <1>7, <2>1, <3>6, <5>1 DEF UndoKnows
      <4>5. (KnowsNode(x) /\ GoesOn(x) /\ HeadsThere(x))'
        BY <3>6, <4>4 DEF KnowsNode, GoesOn, HeadsThere
      <4> QED
        BY <4>1, <4>2, <4>5 DEF Knows
    <3>8. Stacked(<<x, more>>) /\ ToSet(<<x, more>>) = {x, more}
      <4>1. May(x, more)
        BY <3>5, <3>6 DEF May, Switch, Moves
      <4> QED
        BY <4>1, StackOfOne, OneOrNone
    <3>9. \A t \in ToSet(<<x, more>>) : t.do \notin {"end jump", "joins"} /\ Knows(t)'
      BY <3>5, <3>6, <3>7, <3>8
    <3> QED
      BY <1>1, <1>2, <3>2, <3>3, <3>8, <3>9, AloneStep
  <2> QED
    BY <2>8, <2>9
<1> QED
  BY <1>8, <1>9

LEMMA SelectJumpStep ==
  ASSUME ObjectsInv, SelectJump
  PROVE  ObjectsInv'
<1>1. ~Idle /\ It.do = "end jump" /\ UNCHANGED <<server, lists, running, ghosts>>
      /\ calls' = <<>> \o Tail(calls)
  BY DEF SelectJump, Doing, It, Call
<1>2. Alone(It)
  BY <1>1 DEF Alone
<1>3. Calls = {It} /\ Knows(It) /\ \A todo : IsList(todo) => todo \o Tail(calls) = todo
  BY <1>1, <1>2, AloneIs, ItKnows
<1>4. PICK c, sel, ctx : c = It.client /\ sel = It.sel /\ ctx = Context(c)
  OBVIOUS
<1>5. c \in Client /\ sel \in Sel /\ InList(sel.buffer)
  BY <1>1, <1>3, <1>4 DEF Knows, KnowsClient, KnowsBuffer
<1>6. BufferOf(ctx) = sel.buffer
  <2>1. ~Going(It)
    BY <1>1 DEF Going, Switch
  <2> QED
    BY <1>1, <1>3, <1>4, <2>1 DEF Knows, GoesOn
<1>7. /\ ctx \in ContextOf(NodesOf(c), JumpsOf(c)) /\ Sound(ctx)
      /\ clients[c] \in ClientOf /\ clients[c].m_window = BufferOf(ctx)
      /\ ctx.m_in_edition \in Nat
      /\ ctx.m_in_edition =
             (IF clients[c].mode = "normal" THEN 0 ELSE 1) + (IF Jumping(c) THEN 1 ELSE 0)
  BY <1>4, <1>5, ClientIs
<1>8. Jumping(c)
  BY <1>1, <1>3, <1>4 DEF Jumping
<1>9. PICK mid, new : mid = Write(ctx, sel) /\ new = EndEdition(mid)
  OBVIOUS
<1>10. sel \in NodesOf(c)
  BY <1>5 DEF NodesOf, NodeBuffer
<1>11. /\ mid \in ContextOf(NodesOf(c), JumpsOf(c)) /\ Sound(mid)
       /\ SelectionsOf(mid) = sel /\ mid.m_in_edition = ctx.m_in_edition
  BY <1>7, <1>9, <1>10, WriteIsSound
<1>12. mid.m_in_edition > 0
  BY <1>7, <1>8, <1>11
<1>13. /\ new \in ContextOf(NodesOf(c), JumpsOf(c)) /\ Sound(new)
       /\ SelectionsOf(new) = sel /\ new.m_in_edition = ctx.m_in_edition - 1
  BY <1>9, <1>11, <1>12, EndEditionIsSound
<1> DEFINE client == [clients[c] EXCEPT !.context = new]
<1>14. clients' = [clients EXCEPT ![c] = client]
  BY <1>4, <1>9 DEF SelectJump, Update
<1>15. /\ client \in ClientOf /\ client.context = new
       /\ client.m_window = clients[c].m_window /\ client.mode = clients[c].mode
  BY <1>7, <1>13, AnotherContext
<1>16. client.m_window = BufferOf(client.context)
  BY <1>6, <1>7, <1>13, <1>15 DEF BufferOf
<1> HIDE DEF client
<1>17. Stacked(calls') /\ Calls' = {}
  <2>1. IsList(<<>>) /\ ToSet(<<>>) = {} /\ Stacked(<<>>)
    BY OneOrNone, StackOfOne
  <2>2. calls' = <<>>
    BY <1>1, <1>3, <2>1
  <2> QED
    BY <2>1, <2>2 DEF Calls
<1>18. ~Jumping(c)'
  BY <1>17 DEF Jumping
<1>19. client.context.m_in_edition =
             (IF client.mode = "normal" THEN 0 ELSE 1) + (IF Jumping(c)' THEN 1 ELSE 0)
  <2>1. client.context.m_in_edition = (IF client.mode = "normal" THEN 0 ELSE 1) + 1 - 1
    BY <1>7, <1>8, <1>13, <1>15
  <2> QED
    BY <1>18, <2>1
<1>20. \A call \in Calls : OwedBy(call, c) /\ call.do \notin {"hook done", "show", "shown", "connected"}
  BY <1>1, <1>3, <1>4 DEF OwedBy
<1>21. \A t \in Calls' : t.do # "joins" /\ (t.do = "end jump" => t.client = c) /\ Knows(t)'
  BY <1>17
<1> QED
  BY <1>1, <1>5, <1>13, <1>14, <1>15, <1>16, <1>17, <1>19, <1>20, <1>21, ClientStep

-----------------------------------------------------------------------------
(* Clients that come and go.                                                *)

Settled == {"command", "connected", "joins", "destroyed"}

LEMMA SettledStep ==
  ASSUME ObjectsInv, m_buffers' = m_buffers, UNCHANGED running,
         \A call \in Calls : call.do \in Settled,
         \A t \in Calls' : t.do \in Settled /\ (KnowsBuffer(t) /\ KnowsClient(t) /\ KnowsHook(t))',
         TypeOK', Stacked(calls'), LocksAreHeld', Apart',
         \A d \in Client : Fits(d)' \/ (clients'[d] = clients[d] /\ (Live(d)' => Live(d))),
         \A w \in ToSet(m_free_windows)' :
             w \in ToSet(m_free_windows) \/ (w.sel.buffer = w.buffer /\ InList(w.buffer))
  PROVE  ObjectsInv'
<1>1. \A call \in Calls : ~(call.do \in {"forget", "forget selections", "close windows", "end jump", "hook done"})
  BY DEF Settled
<1>2. \A t \in Calls' : t.do # "end jump"
  BY DEF Settled
<1>3. \A buffer : InList(buffer) <=> InList(buffer)'
  BY DEF InList
<1>4. ASSUME NEW d \in Client, clients'[d] = clients[d], Live(d)' => Live(d)
      PROVE  Fits(d)'
  <2>1. StillRefers(d)
    BY <1>1, <1>3, <1>4 DEF StillRefers
  <2>2. Jumping(d)' <=> Jumping(d)
    BY <1>1, <1>2 DEF Jumping
  <2>3. Fits(d)
    BY DEF ObjectsInv, ClientsFit
  <2> QED
    BY <1>4, <2>1, <2>2, <2>3, FitsStill
<1>5. ClientsFit'
  BY <1>4 DEF ClientsFit
<1>6. ASSUME NEW w \in ToSet(m_free_windows)'
      PROVE  WindowIsOpen(w)'
  <2>1. CASE w \in ToSet(m_free_windows)
    <3>1. WindowIsOpen(w)
      BY <2>1 DEF ObjectsInv, WindowsAreOpen
    <3>2. w.sel.buffer = w.buffer /\ InList(w.buffer)
      BY <1>1, <3>1 DEF WindowIsOpen
    <3> QED
      BY <1>3, <3>2 DEF WindowIsOpen
  <2>2. CASE w.sel.buffer = w.buffer /\ InList(w.buffer)
    BY <1>3, <2>2 DEF WindowIsOpen
  <2> QED
    BY <1>6, <2>1, <2>2
<1>7. m_running_hooks = {}
  BY <1>1, NoneRuns
<1>8. HooksAreRunning'
  BY <1>7 DEF HooksAreRunning, running
<1>9. ASSUME NEW t \in Calls'
      PROVE  Knows(t)'
  <2>1. t.do \notin {"change buffer", "show", "forget selections", "end jump", "new client"}
    BY DEF Settled
  <2> QED
    BY <2>1, PlainKnows
<1> QED
  BY <1>5, <1>6, <1>8, <1>9 DEF ObjectsInv, WindowsAreOpen, CallsKnow

LEMMA CreateClientStep ==
  ASSUME ObjectsInv, HooksOnlyOpen, CreateClient
  PROVE  ObjectsInv'
<1>1. ~Idle /\ It.do = "connected" /\ UNCHANGED <<server, lists, running, ghosts>>
  BY DEF CreateClient, Doing, It
<1>2. Alone(It)
  BY <1>1 DEF Alone
<1>3. Calls = {It} /\ Knows(It) /\ \A todo : IsList(todo) => todo \o Tail(calls) = todo
  BY <1>1, <1>2, AloneIs, ItKnows
<1>4. PICK c, b, sel : c = It.client /\ b = It.buffer /\ sel = It.sel
  OBVIOUS
<1>5. c \in Client /\ c \notin ToSet(m_client_trash) /\ InList(b) /\ sel \in Sel /\ sel.buffer = b
  BY <1>1, <1>3, <1>4 DEF Knows, KnowsClient, KnowsBuffer
<1>6. PICK new : new = NewContext(sel)
  OBVIOUS
<1> DEFINE client == [m_window |-> b, context |-> new, mode |-> "normal"]
<1>7. clients' = [clients EXCEPT ![c] = client]
  BY <1>4, <1>6 DEF CreateClient
<1>8. TypeOK /\ b \in Buffer
  <2>1. TypeOK
    BY DEF ObjectsInv
  <2>2. ToSet(m_buffers) \in SUBSET Buffer
    BY <2>1, SeqIsList DEF TypeOK
  <2> QED
    BY <1>5, <2>1, <2>2 DEF InList
<1>9. /\ new \in ContextOf({sel}, {}) /\ Sound(new) /\ SelectionsOf(new) = sel
      /\ new.m_in_edition = 0 /\ new \in ContextOf(Sel, Sel)
  BY <1>5, <1>6, NewContextIsSound
<1>10. /\ client \in ClientOf /\ client.context = new /\ client.m_window = b
       /\ client.mode = "normal" /\ BufferOf(client.context) = b
  BY <1>5, <1>8, <1>9 DEF ClientOf, Modes, BufferOf
<1> HIDE DEF client
<1>11. PICK x : x = Joins(c)
  OBVIOUS
<1>12. x.do = "joins" /\ x.client = c
  BY <1>11 DEF Joins
<1>13. calls' = <<x>> /\ Stacked(calls') /\ Calls' = {x}
  <2>1. Hook("WinDisplay", b[1], c) = <<>>
    <3>1. "WinDisplay" \notin Opening
      BY DEF Opening
    <3> QED
      BY <1>8, <3>1, HookIs
  <2>2. calls' = (<<>> \o <<x>>) \o Tail(calls)
    BY <1>4, <1>11, <2>1 DEF CreateClient, Call
  <2>3. IsList(<<x>>) /\ Stacked(<<x>>) /\ ToSet(<<x>>) = {x}
    BY OneOrNone, StackOfOne
  <2>4. <<>> \o <<x>> = <<x>>
    OBVIOUS
  <2>5. calls' = <<x>>
    BY <1>3, <2>2, <2>3, <2>4
  <2> QED
    BY <2>3, <2>5 DEF Calls
<1>14. TypeOK'
  BY <1>1, <1>7, <1>8, <1>10 DEF TypeOK, server, lists, running
<1>15. clients'[c] = client /\ \A d \in Client \ {c} : clients'[d] = clients[d]
  BY <1>5, <1>7, <1>8 DEF TypeOK
<1>16. Fits(c)'
  <2>1. {sel} \in SUBSET NodesOf(c)'
    <3>1. InList(b)' /\ sel \in Sel'
      BY <1>1, <1>5 DEF InList, server, Sel, Buffer
    <3> QED
      BY <1>5, <3>1 DEF NodesOf, NodeBuffer
  <2>2. {} \in SUBSET JumpsOf(c)'
    OBVIOUS
  <2>3. ~Jumping(c)'
    BY <1>12, <1>13 DEF Jumping
  <2>4. client.context.m_in_edition =
             (IF client.mode = "normal" THEN 0 ELSE 1) + (IF Jumping(c)' THEN 1 ELSE 0)
    BY <1>9, <1>10, <2>3
  <2> QED
    BY <1>5, <1>9, <1>10, <1>15, <2>1, <2>2, <2>4, FitsAnew
<1>17. ASSUME NEW d \in Client
       PROVE  Fits(d)' \/ (clients'[d] = clients[d] /\ (Live(d)' => Live(d)))
  <2>1. CASE d = c
    BY <1>16, <2>1
  <2>2. CASE d # c
    BY <1>1, <1>12, <1>13, <1>15, <2>2 DEF Live, lists
  <2> QED
    BY <2>1, <2>2
<1>18. LocksAreHeld'
  <2>1. \A buffer \in locked : buffer = b
    BY <1>1, <1>3, <1>4 DEF ObjectsInv, LocksAreHeld, Locks
  <2>2. Locks(x, b)'
    BY <1>10, <1>12, <1>15 DEF Locks
  <2> QED
    BY <1>1, <1>13, <2>1, <2>2 DEF LocksAreHeld, server
<1>19. Apart'
  BY <1>1 DEF ObjectsInv, Apart, server, lists
<1>20. (KnowsBuffer(x) /\ KnowsClient(x) /\ KnowsHook(x))'
  <2>1. c \notin ToSet(m_client_trash)'
    BY <1>1, <1>5 DEF lists
  <2> QED
    BY <1>5, <1>12, <2>1 DEF KnowsBuffer, KnowsClient, KnowsHook, Switch
<1>21. \A call \in Calls : call.do \in Settled
  BY <1>1, <1>3 DEF Settled
<1>22. \A t \in Calls' : t.do \in Settled /\ (KnowsBuffer(t) /\ KnowsClient(t) /\ KnowsHook(t))'
  BY <1>12, <1>13, <1>20 DEF Settled
<1>23. m_buffers' = m_buffers /\ UNCHANGED running /\ m_free_windows' = m_free_windows
  BY <1>1 DEF server, lists
<1> QED
  BY <1>13, <1>14, <1>17, <1>18, <1>19, <1>21, <1>22, <1>23, SettledStep

LEMMA JoinStep ==
  ASSUME ObjectsInv, HooksOnlyOpen, Join
  PROVE  ObjectsInv'
<1>1. ~Idle /\ It.do = "joins"
      /\ UNCHANGED <<m_buffers, m_buffer_trash, m_client_trash, m_free_windows, clients, running, ghosts>>
  BY DEF Join, Doing, It
<1>2. Alone(It)
  BY <1>1 DEF Alone
<1>3. Calls = {It} /\ Knows(It) /\ \A todo : IsList(todo) => todo \o Tail(calls) = todo
  BY <1>1, <1>2, AloneIs, ItKnows
<1>4. PICK c : c = It.client
  OBVIOUS
<1>5. c \in Client /\ c \notin ToSet(m_client_trash)
  BY <1>1, <1>3, <1>4 DEF Knows, KnowsClient
<1>6. TypeOK
  BY DEF ObjectsInv
<1>7. m_clients' \in Seq(Client) /\ ToSet(m_clients)' = ToSet(m_clients) \cup {c}
  <2>1. m_clients' = Append(m_clients, c) /\ m_clients \in Seq(Client)
    BY <1>4, <1>6 DEF Join, TypeOK
  <2>2. Append(m_clients, c) = m_clients \o <<c>>
    BY <2>1
  <2>3. ToSet(m_clients \o <<c>>) = ToSet(m_clients) \cup ToSet(<<c>>) /\ ToSet(<<c>>) = {c}
    BY <2>1, SeqIsList, OneOrNone, Joined
  <2> QED
    BY <1>5, <2>1, <2>2, <2>3, AppendProperties
<1>8. calls' = <<>> /\ Stacked(calls') /\ Calls' = {}
  <2>1. Hook("ClientCreate", c, c) = <<>>
    <3>1. "ClientCreate" \notin Opening
      BY DEF Opening
    <3> QED
      BY <1>6, <3>1, HookIs
  <2>2. calls' = <<>> \o Tail(calls)
    BY <1>4, <2>1 DEF Join, Call
  <2>3. IsList(<<>>) /\ Stacked(<<>>) /\ ToSet(<<>>) = {}
    BY OneOrNone, StackOfOne
  <2>4. calls' = <<>>
    BY <1>3, <2>2, <2>3
  <2> QED
    BY <2>3, <2>4 DEF Calls
<1>9. TypeOK'
  BY <1>1, <1>6, <1>7 DEF TypeOK, running
<1>10. ASSUME NEW d \in Client
       PROVE  clients'[d] = clients[d] /\ (Live(d)' => Live(d))
  BY <1>1, <1>3, <1>4, <1>7, <1>8 DEF Live
<1>11. LocksAreHeld'
  <2>1. \A buffer \in locked : buffer = clients[c].m_window
    BY <1>1, <1>3, <1>4 DEF ObjectsInv, LocksAreHeld, Locks
  <2>2. locked' = locked \ {clients[c].m_window}
    BY <1>4 DEF Join
  <2> QED
    BY <2>1, <2>2 DEF LocksAreHeld
<1>12. Apart'
  BY <1>1, <1>5, <1>7 DEF ObjectsInv, Apart
<1>13. \A call \in Calls : call.do \in Settled
  BY <1>1, <1>3 DEF Settled
<1> QED
  BY <1>1, <1>8, <1>9, <1>10, <1>11, <1>12, <1>13, SettledStep

(* What is left of a list without some of its elements.                     *)
LEMMA WithoutIs ==
  ASSUME NEW S, NEW s \in Seq(S), NEW E
  PROVE  /\ Without(s, E) \in Seq(S)
         /\ \A x : x \in ToSet(Without(s, E)) <=> x \in ToSet(s) /\ x \notin E
<1>1. Len(s) \in Nat /\ DOMAIN s = 1 .. Len(s)
  BY LenProperties
<1> DEFINE P == {i \in DOMAIN s : s[i] \notin E}
           u == Kept(s, P)
           m == Cardinality(P)
<1>2. P \in SUBSET (1 .. Len(s)) /\ \A i : i \in P <=> i \in DOMAIN s /\ s[i] \notin E
  BY <1>1
<1>3. Without(s, E) = u
  BY DEF Without
<1> HIDE DEF P
<1>4. /\ u \in Seq(S) /\ Len(u) = m /\ m \in 0 .. Len(s)
      /\ \A k \in 1 .. m : \E i \in P : u[k] = s[i] /\ Rank(P, i) = k - 1
      /\ \A i \in P : Rank(P, i) \in 0 .. m - 1 /\ u[Rank(P, i) + 1] = s[i]
  BY <1>2, KeptIs
<1> HIDE DEF u, m
<1>5. DOMAIN u = 1 .. m
  BY <1>4, LenProperties
<1>6. ASSUME NEW x \in ToSet(u)
      PROVE  x \in ToSet(s) /\ x \notin E
  <2>1. PICK k \in 1 .. m : u[k] = x
    BY <1>5 DEF ToSet
  <2>2. PICK i \in P : u[k] = s[i]
    BY <1>4, <2>1
  <2> QED
    BY <1>2, <2>1, <2>2 DEF ToSet
<1>7. ASSUME NEW x \in ToSet(s), x \notin E
      PROVE  x \in ToSet(u)
  <2>1. PICK i \in DOMAIN s : s[i] = x
    BY DEF ToSet
  <2>2. i \in P
    BY <1>2, <1>7, <2>1
  <2>3. PICK k : k = Rank(P, i) + 1
    OBVIOUS
  <2>4. k \in 1 .. m /\ u[k] = x
    BY <1>1, <1>4, <2>1, <2>2, <2>3
  <2> QED
    BY <1>5, <2>4 DEF ToSet
<1> QED
  BY <1>3, <1>4, <1>6, <1>7

LEMMA RemoveClientStep ==
  ASSUME ObjectsInv, HooksOnlyOpen, RemoveClient
  PROVE  ObjectsInv'
<1>1. ~Idle /\ It.do = "command" /\ It.at \in Client
      /\ UNCHANGED <<server, m_free_windows, clients, running, ghosts>>
  BY DEF RemoveClient, Ordered, Doing, It
<1>2. Alone(It)
  BY <1>1 DEF Alone
<1>3. Calls = {It} /\ Knows(It) /\ \A todo : IsList(todo) => todo \o Tail(calls) = todo
  BY <1>1, <1>2, AloneIs, ItKnows
<1>4. PICK c : c = It.at
  OBVIOUS
<1>5. c \in Client /\ c \in ToSet(m_clients)
  BY <1>1, <1>3, <1>4 DEF Knows, KnowsClient
<1>6. TypeOK /\ m_clients \in Seq(Client) /\ m_client_trash \in Seq(Client)
  BY DEF ObjectsInv, TypeOK
<1>7. m_clients' = Without(m_clients, {c}) /\ m_client_trash' = Append(m_client_trash, c)
      /\ calls' = Hook("ClientClose", c, c) \o Tail(calls)
  BY <1>4, <1>5 DEF RemoveClient, Call
<1>8. m_clients' \in Seq(Client) /\ \A x : x \in ToSet(m_clients)' <=> x \in ToSet(m_clients) /\ x # c
  <2>1. PICK u : u = Without(m_clients, {c})
    OBVIOUS
  <2>2. u \in Seq(Client) /\ \A x : x \in ToSet(u) <=> x \in ToSet(m_clients) /\ x \notin {c}
    BY <1>6, <2>1, WithoutIs
  <2> QED
    BY <1>7, <2>1, <2>2
<1>9. m_client_trash' \in Seq(Client) /\ ToSet(m_client_trash)' = ToSet(m_client_trash) \cup {c}
  <2>1. Append(m_client_trash, c) = m_client_trash \o <<c>>
    BY <1>6
  <2>2. /\ ToSet(m_client_trash \o <<c>>) = ToSet(m_client_trash) \cup ToSet(<<c>>)
        /\ ToSet(<<c>>) = {c}
    BY <1>6, SeqIsList, OneOrNone, Joined
  <2> QED
    BY <1>5, <1>6, <1>7, <2>1, <2>2, AppendProperties
<1>10. calls' = <<>> /\ Stacked(calls') /\ Calls' = {}
  <2>1. Hook("ClientClose", c, c) = <<>>
    <3>1. "ClientClose" \notin Opening
      BY DEF Opening
    <3> QED
      BY <1>6, <3>1, HookIs
  <2>2. calls' = <<>> \o Tail(calls)
    BY <1>7, <2>1
  <2>3. IsList(<<>>) /\ Stacked(<<>>) /\ ToSet(<<>>) = {}
    BY OneOrNone, StackOfOne
  <2>4. calls' = <<>>
    BY <1>3, <2>2, <2>3
  <2> QED
    BY <2>3, <2>4 DEF Calls
<1>11. TypeOK'
  BY <1>1, <1>6, <1>8, <1>9 DEF TypeOK, server, running
<1>12. ASSUME NEW d \in Client
       PROVE  clients'[d] = clients[d] /\ (Live(d)' => Live(d))
  BY <1>1, <1>8, <1>10 DEF Live
<1>13. LocksAreHeld'
  <2>1. \A call \in Calls : call.do \notin {"show", "shown", "connected", "joins"}
    BY <1>1, <1>3
  <2>2. locked = {}
    BY <2>1, NoneIsLocked
  <2> QED
    BY <1>1, <2>2 DEF LocksAreHeld, server
<1>14. Apart'
  BY <1>1, <1>8, <1>9 DEF ObjectsInv, Apart, server
<1>15. \A call \in Calls : call.do \in Settled
  BY <1>1, <1>3 DEF Settled
<1>16. m_buffers' = m_buffers /\ UNCHANGED running /\ m_free_windows' = m_free_windows
  BY <1>1 DEF server
<1> QED
  BY <1>10, <1>11, <1>12, <1>13, <1>14, <1>15, <1>16, SettledStep

LEMMA ClearTrashStep ==
  ASSUME ObjectsInv, ClearTrash
  PROVE  ObjectsInv'
<1>1. Idle /\ m_client_trash' = <<>> /\ m_buffer_trash' = {}
      /\ calls' = [i \in DOMAIN m_client_trash |-> Destroyed(m_client_trash[i])]
      /\ UNCHANGED <<m_buffers, locked, m_clients, m_free_windows, clients, running, ghosts>>
  BY DEF ClearTrash
<1>2. Calls = {} /\ locked = {} /\ TypeOK
  BY <1>1, IdleIs DEF ObjectsInv
<1>3. m_client_trash \in Seq(Client) /\ DOMAIN m_client_trash = 1 .. Len(m_client_trash)
      /\ Len(m_client_trash) \in Nat
  BY <1>2, LenProperties DEF TypeOK
<1>4. PICK n, u : n = Len(m_client_trash) /\ u = [i \in 1 .. n |-> Destroyed(m_client_trash[i])]
  OBVIOUS
<1>5. calls' = u /\ n \in Nat
  BY <1>1, <1>3, <1>4
<1>6. u \in Seq({u[i] : i \in 1 .. n}) /\ DOMAIN u = 1 .. n /\ Len(u) = n
  <2>1. \A i \in 1 .. n : u[i] \in {u[j] : j \in 1 .. n}
    OBVIOUS
  <2>2. u = [i \in 1 .. n |-> u[i]]
    BY <1>4
  <2> QED
    BY <1>5, <2>1, <2>2, IsASeq, LenProperties
<1>7. \A i \in 1 .. n : /\ u[i].do = "destroyed" /\ u[i].client = m_client_trash[i]
                        /\ m_client_trash[i] \in ToSet(m_client_trash)
                        /\ m_client_trash[i] \in Client
  <2> TAKE i \in 1 .. n
  <2>1. u[i] = Destroyed(m_client_trash[i])
    BY <1>4
  <2>2. m_client_trash[i] \in ToSet(m_client_trash)
    BY <1>3, <1>4 DEF ToSet
  <2>3. m_client_trash[i] \in Client
    BY <1>3, <1>4, ElementOfSeq
  <2> QED
    BY <2>1, <2>2, <2>3 DEF Destroyed
<1>8. Stacked(u) /\ \A t \in ToSet(u) : \E i \in 1 .. n : t = u[i]
  <2>1. IsList(u)
    BY <1>6, SeqIsList
  <2>2. \A i, j \in 1 .. Len(u) : i < j => May(u[i], u[j])
    BY <1>6, <1>7 DEF May
  <2> QED
    BY <1>6, <2>1, <2>2 DEF Stacked, ToSet
<1>9. Stacked(calls') /\ \A t \in Calls' : \E i \in 1 .. n : t = u[i]
  BY <1>5, <1>8 DEF Calls
<1>10. TypeOK'
  <2>1. <<>> \in Seq(Client) /\ IsFiniteSet({})
    BY FS_EmptySet
  <2> QED
    BY <1>1, <1>2, <2>1 DEF TypeOK, running
<1>11. \A t \in Calls' : t.do = "destroyed" /\ t.client \in Client /\ t.client \notin ToSet(m_clients)
  BY <1>7, <1>9 DEF ObjectsInv, Apart
<1>12. ASSUME NEW d \in Client
       PROVE  clients'[d] = clients[d] /\ (Live(d)' => Live(d))
  BY <1>1, <1>11 DEF Live
<1>13. ASSUME NEW t \in Calls'
       PROVE  t.do \in Settled /\ (KnowsBuffer(t) /\ KnowsClient(t) /\ KnowsHook(t))'
  <2>1. t.do = "destroyed" /\ t.client \in Client /\ t.client \notin ToSet(m_clients)'
    BY <1>1, <1>11
  <2> QED
    BY <2>1 DEF Settled, KnowsBuffer, KnowsClient, KnowsHook, Switch
<1>14. Apart'
  <2>1. ToSet(<<>>) = {}
    BY OneOrNone
  <2>2. ToSet(m_client_trash)' = {}
    BY <1>1, <2>1
  <2> QED
    BY <1>1, <2>2 DEF Apart
<1>15. LocksAreHeld'
  BY <1>1, <1>2 DEF LocksAreHeld
<1>16. m_buffers' = m_buffers /\ UNCHANGED running /\ m_free_windows' = m_free_windows
  BY <1>1
<1> QED
  BY <1>2, <1>9, <1>10, <1>12, <1>13, <1>14, <1>15, <1>16, SettledStep

(* A window that is left is one more that is open.                          *)
LEMMA LeftWindowIs ==
  ASSUME TypeOK, NEW client \in ClientOf, SelectionsOf(client.context) \in Sel,
         client.m_window = SelectionsOf(client.context).buffer,
         NEW windows, windows = WithFreeWindow(m_free_windows, client)
  PROVE  /\ windows \in Seq(WindowOf)
         /\ \A w \in ToSet(windows) :
               w \in ToSet(m_free_windows) \/ (w.sel.buffer = w.buffer /\ InList(w.buffer))
<1>1. m_free_windows \in Seq(WindowOf) /\ ToSet(m_buffers) \in SUBSET Buffer
  BY SeqIsList DEF TypeOK
<1>2. CASE Registered(client.m_window)
  <2>1. PICK w : w = Window(client.m_window, SelectionsOf(client.context))
    OBVIOUS
  <2>2. InList(client.m_window) /\ client.m_window \in Buffer
    BY <1>1, <1>2 DEF Registered, InList
  <2>3. w \in WindowOf /\ w.sel.buffer = w.buffer /\ InList(w.buffer)
    BY <2>1, <2>2 DEF Window, WindowOf
  <2>4. windows = Append(m_free_windows, w)
    BY <1>2, <2>1 DEF WithFreeWindow
  <2>5. Append(m_free_windows, w) = m_free_windows \o <<w>>
    BY <1>1
  <2>6. ToSet(m_free_windows \o <<w>>) = ToSet(m_free_windows) \cup ToSet(<<w>>) /\ ToSet(<<w>>) = {w}
    BY <1>1, SeqIsList, OneOrNone, Joined
  <2>7. ToSet(windows) = ToSet(m_free_windows) \cup {w}
    BY <2>4, <2>5, <2>6
  <2> QED
    BY <1>1, <2>3, <2>4, <2>7, AppendProperties
<1>3. CASE ~Registered(client.m_window)
  BY <1>1, <1>3 DEF WithFreeWindow
<1> QED
  BY <1>2, <1>3

LEMMA DestroyClientStep ==
  ASSUME ObjectsInv, DestroyClient
  PROVE  ObjectsInv'
<1>1. ~Idle /\ It.do = "destroyed"
      /\ UNCHANGED <<server, m_clients, m_client_trash, running, ghosts>>
      /\ calls' = <<>> \o Tail(calls)
  BY DEF DestroyClient, Doing, It, Call
<1>2. Stacked(calls) /\ TypeOK
  BY DEF ObjectsInv
<1>3. Calls = {It} \cup Rest /\ Knows(It)
  BY <1>1, <1>2, Under, ItKnows
<1>4. \A f \in Rest : f.do = "destroyed"
  <2> TAKE f \in Rest
  <2>1. May(It, f)
    BY <1>1, <1>2, Under
  <2> QED
    BY <1>1, <2>1 DEF May, Noise, Switch, Forgetter
<1>5. Stacked(calls') /\ Calls' = Rest
  <2>1. Stacked(<<>>) /\ ToSet(<<>>) = {}
    BY StackOfOne, OneOrNone
  <2>2. \A t \in ToSet(<<>>) : \A f \in Rest : May(t, f)
    BY <2>1
  <2>3. Stacked(calls') /\ Calls' = ToSet(<<>>) \cup Rest
    BY <1>1, <1>2, <2>1, <2>2, Replaced
  <2> QED
    BY <2>1, <2>3
<1>6. PICK c, client : c = It.client /\ client = clients[It.client]
  OBVIOUS
<1>7. c \in Client /\ c \notin ToSet(m_clients)
  BY <1>1, <1>3, <1>6 DEF Knows, KnowsClient
<1>8. /\ client \in ClientOf /\ client.m_window = SelectionsOf(client.context).buffer
      /\ SelectionsOf(client.context) \in Sel
  BY <1>6, <1>7, ClientIs DEF BufferOf
<1>9. PICK sel, new, none : sel = SelIn(Invalid, 0) /\ new = NewContext(sel) /\ none = NoClient
  OBVIOUS
<1>10. sel \in Sel /\ sel.buffer = Invalid
  BY <1>9 DEF SelIn, Sel
<1>11. /\ new \in ContextOf({sel}, {}) /\ Sound(new) /\ SelectionsOf(new) = sel
       /\ new.m_in_edition = 0 /\ new \in ContextOf(Sel, Sel)
  BY <1>9, <1>10, NewContextIsSound
<1>12. /\ none \in ClientOf /\ none.context = new /\ none.m_window = Invalid
       /\ none.mode = "normal" /\ BufferOf(none.context) = Invalid
  BY <1>9, <1>10, <1>11 DEF NoClient, ClientOf, Modes, BufferOf
<1>13. clients'[c] = none /\ clients' \in [Client -> ClientOf]
       /\ \A d \in Client \ {c} : clients'[d] = clients[d]
  BY <1>2, <1>6, <1>7, <1>9, <1>12 DEF DestroyClient, TypeOK
<1>14. /\ m_free_windows' \in Seq(WindowOf)
       /\ \A w \in ToSet(m_free_windows)' :
             w \in ToSet(m_free_windows) \/ (w.sel.buffer = w.buffer /\ InList(w.buffer))
  <2>1. PICK windows : windows = WithFreeWindow(m_free_windows, client)
    OBVIOUS
  <2>2. m_free_windows' = windows
    BY <1>6, <2>1 DEF DestroyClient
  <2> QED
    BY <1>2, <1>8, <2>1, <2>2, LeftWindowIs
<1>15. TypeOK'
  BY <1>1, <1>2, <1>13, <1>14 DEF TypeOK, server, running
<1>16. Fits(c)'
  <2>1. ~Live(c)' /\ ~Jumping(c)'
    BY <1>1, <1>4, <1>5, <1>7 DEF Live, Jumping
  <2>2. {sel} \in SUBSET NodesOf(c)'
    BY <1>10, <2>1 DEF NodesOf, NodeBuffer, Sel, Buffer
  <2>3. {} \in SUBSET JumpsOf(c)'
    OBVIOUS
  <2>4. none.context.m_in_edition =
             (IF none.mode = "normal" THEN 0 ELSE 1) + (IF Jumping(c)' THEN 1 ELSE 0)
    BY <1>11, <1>12, <2>1
  <2> QED
    BY <1>7, <1>11, <1>12, <1>13, <2>2, <2>3, <2>4, FitsAnew
<1>17. ASSUME NEW d \in Client
       PROVE  Fits(d)' \/ (clients'[d] = clients[d] /\ (Live(d)' => Live(d)))
  <2>1. CASE d = c
    BY <1>16, <2>1
  <2>2. CASE d # c
    BY <1>1, <1>3, <1>5, <1>13, <2>2 DEF Live
  <2> QED
    BY <2>1, <2>2
<1>18. \A call \in Calls : call.do = "destroyed"
  BY <1>1, <1>3, <1>4
<1>19. LocksAreHeld'
  <2>1. locked = {}
    BY <1>18, NoneIsLocked
  <2> QED
    BY <1>1, <2>1 DEF LocksAreHeld, server
<1>20. Apart'
  BY <1>1 DEF ObjectsInv, Apart, server
<1>21. ASSUME NEW t \in Calls'
       PROVE  t.do \in Settled /\ (KnowsBuffer(t) /\ KnowsClient(t) /\ KnowsHook(t))'
  <2>1. t.do = "destroyed" /\ t \in Calls
    BY <1>3, <1>4, <1>5
  <2>2. t.client \in Client /\ t.client \notin ToSet(m_clients)'
    BY <1>1, <2>1 DEF ObjectsInv, CallsKnow, Knows, KnowsClient
  <2> QED
    BY <2>1, <2>2 DEF Settled, KnowsBuffer, KnowsClient, KnowsHook, Switch
<1>22. \A call \in Calls : call.do \in Settled
  BY <1>18 DEF Settled
<1>23. m_buffers' = m_buffers /\ UNCHANGED running
  BY <1>1 DEF server
<1> QED
  BY <1>5, <1>14, <1>15, <1>17, <1>19, <1>20, <1>21, <1>22, <1>23, SettledStep

-----------------------------------------------------------------------------
(* What waits for a client to be shown another buffer, or to forget one.    *)

Waits(f, c) ==
    \/ Noise(f) \/ Forgetter(f)
    \/ f.do \in {"forget selections", "undo more", "end jump"} /\ f.client = c

LEMMA WaiterIs ==
  ASSUME NEW f, NEW c, Waits(f, c)
  PROVE  /\ ~Switch(f) /\ ~Going(f) /\ ~Lone(f)
         /\ f.do \notin {"show", "shown", "connected", "joins", "new client", "undo",
                         "delete buffer", "destroyed"}
<1>1. CASE Noise(f)
  BY <1>1, NoSwitchIsNoise DEF Noise
<1>2. CASE ~Noise(f)
  BY <1>2 DEF Waits, Forgetter, Switch, Going, Lone
<1> QED
  BY <1>1, <1>2

LEMMA WaiterKnows ==
  ASSUME NEW c \in Client, NEW f, Waits(f, c), Knows(f),
         \A buffer : InList(buffer) => InList(buffer)',
         \A buffer \in m_buffer_trash : buffer \in m_buffer_trash',
         m_clients' = m_clients, hooks' = hooks, Steady(c) => Steady(c)',
         f.do = "forget" => f.buffer \in m_buffer_trash',
         f.do \in {"forget selections", "end jump"} => GoesOn(f)' /\ HeadsThere(f)'
  PROVE  Knows(f)'
<1>1. /\ ~Switch(f)
      /\ f.do \notin {"show", "shown", "connected", "joins", "new client", "undo",
                      "delete buffer", "destroyed"}
  BY WaiterIs
<1>2. f.do \notin {"change buffer", "to first buffer"}
  BY <1>1 DEF Switch
<1>3. KnowsBuffer(f)'
  <2>1. Sel' = Sel
    BY DEF Sel, Buffer
  <2>2. KnowsBuffer(f)
    BY DEF Knows
  <2> QED
    BY <1>1, <1>2, <2>1, <2>2 DEF KnowsBuffer
<1>4. KnowsClient(f)'
  <2>1. KnowsClient(f)
    BY DEF Knows
  <2>2. f.do = "undo more" => f.client = c
    BY DEF Waits, Noise, Forgetter
  <2> QED
    BY <1>1, <1>2, <2>1, <2>2 DEF KnowsClient
<1>5. KnowsHook(f)'
  BY DEF Knows, KnowsHook
<1>6. KnowsNode(f)'
  BY <1>1, <1>2 DEF KnowsNode
<1>7. GoesOn(f)' /\ HeadsThere(f)'
  <2>1. CASE f.do \in {"forget selections", "end jump"}
    BY <2>1
  <2>2. CASE f.do \notin {"forget selections", "end jump"}
    BY <1>1, <2>2 DEF GoesOn, HeadsThere
  <2> QED
    BY <2>1, <2>2
<1> QED
  BY <1>3, <1>4, <1>5, <1>6, <1>7 DEF Knows

(* A step of one client while they wait.                                    *)
LEMMA WaitingStep ==
  ASSUME ObjectsInv, ~Idle, NEW c \in Client, NEW client \in ClientOf,
         \A f \in Rest : Waits(f, c),
         It.do \in {"show", "shown", "forget", "forget selections"},
         It.do = "forget" => It.at = c, It.do = "forget selections" => It.client = c,
         clients' = [clients EXCEPT ![c] = client],
         UNCHANGED <<m_buffers, m_buffer_trash, m_clients, m_client_trash, running>>,
         m_free_windows' \in Seq(WindowOf),
         \A w \in ToSet(m_free_windows)' :
             w \in ToSet(m_free_windows) \/ (w.sel.buffer = w.buffer /\ InList(w.buffer)),
         NEW todo, Stacked(todo), calls' = todo \o Tail(calls),
         \A t \in ToSet(todo) : /\ \A f \in Rest : May(t, f)
                                /\ t.do \notin {"end jump", "joins"} /\ Knows(t)',
         \A f \in Rest : Knows(f)', LocksAreHeld',
         NEW S, NEW J, S \in SUBSET NodesOf(c)', J \in SUBSET JumpsOf(c)',
         client.context \in ContextOf(S, J), Sound(client.context),
         client.m_window = BufferOf(client.context),
         client.context.m_in_edition =
             (IF client.mode = "normal" THEN 0 ELSE 1) + (IF Jumping(c) THEN 1 ELSE 0)
  PROVE  ObjectsInv'
<1>1. Calls = {It} \cup Rest
  BY Under DEF ObjectsInv
<1>2. Stacked(calls') /\ Calls' = ToSet(todo) \cup Rest
  BY Replaced DEF ObjectsInv
<1>3. TypeOK /\ ClientsFit /\ clients \in [Client -> ClientOf]
  BY DEF ObjectsInv, TypeOK
<1>4. TypeOK'
  BY <1>3 DEF TypeOK, running
<1>5. \A d : Jumping(d)' <=> Jumping(d)
  BY <1>1, <1>2 DEF Jumping
<1>6. Fits(c)'
  <2>1. client.context.m_in_edition =
             (IF client.mode = "normal" THEN 0 ELSE 1) + (IF Jumping(c)' THEN 1 ELSE 0)
    BY <1>5
  <2>2. clients'[c] = client
    BY <1>3
  <2> QED
    BY <2>1, <2>2, FitsAnew
<1>7. ASSUME NEW d \in Client \ {c}
      PROVE  clients'[d] = clients[d] /\ StillRefers(d) /\ (Jumping(d)' <=> Jumping(d))
  <2>1. Live(d)' => Live(d)
    BY <1>1, <1>2 DEF Live
  <2>2. \A buffer : InList(buffer) => InList(buffer)'
    BY DEF InList
  <2>3. StillRefers(d)
    BY <1>1, <1>2, <2>1, <2>2 DEF StillRefers
  <2> QED
    BY <1>3, <1>5, <2>3
<1>8. ClientsFit'
  BY <1>3, <1>6, <1>7, OthersFit
<1>9. HooksAreRunning'
  <2>1. \A call \in Calls : call.do = "hook done" => call \in Calls'
    BY <1>1, <1>2
  <2> QED
    BY <2>1 DEF ObjectsInv, HooksAreRunning, running
<1>10. ASSUME NEW w \in ToSet(m_free_windows)'
       PROVE  WindowIsOpen(w)'
  <2>1. \A buffer : InList(buffer) => InList(buffer)'
    BY DEF InList
  <2>2. \A call \in Calls : call.do = "close windows" => call \in Calls'
    BY <1>1, <1>2
  <2>3. CASE w \in ToSet(m_free_windows)
    <3>1. WindowIsOpen(w)
      BY <2>3 DEF ObjectsInv, WindowsAreOpen
    <3> QED
      BY <2>1, <2>2, <3>1 DEF WindowIsOpen
  <2>4. CASE w.sel.buffer = w.buffer /\ InList(w.buffer)
    BY <2>1, <2>4 DEF WindowIsOpen
  <2> QED
    BY <1>10, <2>3, <2>4
<1>11. Apart'
  BY DEF ObjectsInv, Apart
<1>12. CallsKnow'
  BY <1>2 DEF CallsKnow
<1> QED
  BY <1>2, <1>4, <1>8, <1>9, <1>10, <1>11, <1>12 DEF ObjectsInv, WindowsAreOpen

(* What one may still refer to when only the innermost call is over.        *)
LEMMA WaiterRefers ==
  ASSUME ObjectsInv, ~Idle, NEW c,
         UNCHANGED <<m_buffers, m_clients>>,
         \A f \in Rest : f \in Calls',
         \A t \in Calls' : t.do # "joins"
  PROVE  /\ It.do # "forget" =>
               /\ \A sel \in JumpsOf(c) : sel \in JumpsOf(c)'
               /\ \A sel \in NodesOf(c) :
                     (It.do = "forget selections" => sel.buffer # It.buffer) => sel \in NodesOf(c)'
         /\ It.do = "forget" => \A sel \in JumpsOf(c) : sel.buffer # It.buffer => sel \in JumpsOf(c)'
<1>1. Calls = {It} \cup Rest
  BY Under DEF ObjectsInv
<1>2. Live(c)' => Live(c)
  BY DEF Live
<1>3. \A buffer : InList(buffer) => InList(buffer)'
  BY DEF InList
<1>4. Sel' = Sel
  BY DEF Sel, Buffer
<1>5. ASSUME NEW sel \in JumpsOf(c), It.do = "forget" => sel.buffer # It.buffer
      PROVE  sel \in JumpsOf(c)'
  <2>1. JumpBuffer(c, sel.buffer) /\ sel \in Sel
    BY DEF JumpsOf
  <2>2. JumpBuffer(c, sel.buffer)'
    BY <1>1, <1>2, <1>3, <1>5, <2>1 DEF JumpBuffer, ForgetsJumps
  <2> QED
    BY <1>4, <2>1, <2>2 DEF JumpsOf
<1>6. ASSUME NEW sel \in NodesOf(c), It.do # "forget",
             It.do = "forget selections" => sel.buffer # It.buffer
      PROVE  sel \in NodesOf(c)'
  <2>1. NodeBuffer(c, sel.buffer) /\ sel \in Sel
    BY DEF NodesOf
  <2>2. NodeBuffer(c, sel.buffer)'
    BY <1>1, <1>2, <1>3, <1>6, <2>1 DEF NodeBuffer, ForgetsNodes, ForgetsJumps
  <2> QED
    BY <1>4, <2>1, <2>2 DEF NodesOf
<1> QED
  BY <1>5, <1>6

LEMMA WaitersAre ==
  ASSUME ObjectsInv, ~Idle, It.do \in {"show", "shown", "forget", "forget selections"}
  PROVE  /\ Calls = {It} \cup Rest /\ Knows(It)
         /\ It.do \in {"show", "shown"} =>
               Moves(It) \in Client /\ \A f \in Rest : Waits(f, Moves(It))
         /\ It.do \in {"forget", "forget selections"} =>
               \A f \in Rest : /\ Noise(f) \/ (Forgetter(f) /\ f.buffer = It.buffer)
                               /\ \A c : Waits(f, c)
<1>1. Calls = {It} \cup Rest /\ Knows(It) /\ \A f \in Rest : May(It, f)
  BY Under, ItKnows DEF ObjectsInv
<1>2. CASE It.do \in {"show", "shown"}
  <2>1. Switch(It) /\ Moves(It) \in Client
    BY <1>1, <1>2 DEF Switch, Knows, KnowsClient
  <2>2. Moves(It) # Scratch
    BY <2>1, NotAClient
  <2>3. ASSUME NEW f \in Rest
        PROVE  Waits(f, Moves(It))
    <3>1. May(It, f) /\ ~Noise(It) /\ It.do # "forget selections" /\ ~Forgetter(It)
          /\ It.do \notin {"delete buffer", "destroyed"}
      BY <1>1, <1>2, <2>1, NoSwitchIsNoise DEF Forgetter
    <3> QED
      BY <2>2, <3>1 DEF May, Waits
  <2> QED
    BY <1>1, <1>2, <2>1, <2>3
<1>3. CASE It.do \in {"forget", "forget selections"}
  <2>1. ASSUME NEW f \in Rest
        PROVE  Noise(f) \/ (Forgetter(f) /\ f.buffer = It.buffer)
    <3>1. May(It, f) /\ ~Noise(It) /\ ~Switch(It)
      BY <1>1, <1>3 DEF Noise, Switch
    <3> QED
      BY <1>3, <3>1 DEF May
  <2>2. \A f \in Rest : \A c : Waits(f, c)
    BY <2>1 DEF Waits
  <2> QED
    BY <1>1, <1>3, <2>1, <2>2
<1> QED
  BY <1>2, <1>3

(* Nothing but the call itself is on its way, deletes, or holds a lock.     *)
LEMMA WaitersDont ==
  ASSUME NEW c, \A f \in Rest : Waits(f, c)
  PROVE  /\ \A f \in Rest : ~Switch(f) /\ ~Going(f) /\ \A buffer : ~Locks(f, buffer)
         /\ \A b : DeleteBuffer(b) \notin Rest
<1>1. \A f \in Rest : /\ ~Switch(f) /\ ~Going(f)
                      /\ f.do \notin {"show", "shown", "connected", "joins", "delete buffer"}
  BY WaiterIs
<1>2. \A f \in Rest : \A buffer : ~Locks(f, buffer)
  BY <1>1 DEF Locks
<1>3. \A b : DeleteBuffer(b).do = "delete buffer"
  BY DEF DeleteBuffer
<1> QED
  BY <1>1, <1>2, <1>3

LEMMA ForgottenIsTrash ==
  ASSUME ObjectsInv, ~Idle, It.do # "delete buffer", NEW c, \A f \in Rest : Waits(f, c)
  PROVE  \A call \in Calls : call.do = "forget" => call.buffer \in m_buffer_trash
<1>1. Calls = {It} \cup Rest /\ \A b : DeleteBuffer(b) \notin Rest
  BY Under, WaitersDont DEF ObjectsInv
<1>2. \A b : DeleteBuffer(b) # It
  <2>1. \A b : DeleteBuffer(b).do = "delete buffer"
    BY DEF DeleteBuffer
  <2> QED
    BY <2>1
<1>3. \A call \in Calls : KnowsBuffer(call)
  BY DEF ObjectsInv, CallsKnow, Knows
<1> QED
  BY <1>1, <1>2, <1>3 DEF KnowsBuffer

LEMMA EndShowStep ==
  ASSUME ObjectsInv, EndShow
  PROVE  ObjectsInv'
<1>1. ~Idle /\ It.do = "shown" /\ calls' = <<>> \o Tail(calls)
      /\ UNCHANGED <<m_buffers, m_buffer_trash, m_clients, m_client_trash, m_free_windows, running, ghosts>>
  BY DEF EndShow, Doing, It, Call
<1>2. PICK c : c = It.client
  OBVIOUS
<1>3. Calls = {It} \cup Rest /\ Knows(It) /\ c \in Client /\ \A f \in Rest : Waits(f, c)
  <2>1. Moves(It) = It.client
    BY <1>1 DEF Moves
  <2> QED
    BY <1>1, <1>2, <2>1, WaitersAre
<1>4. Stacked(<<>>) /\ ToSet(<<>>) = {} /\ Calls' = Rest
  <2>1. Stacked(<<>>) /\ ToSet(<<>>) = {}
    BY StackOfOne, OneOrNone
  <2>2. \A t \in ToSet(<<>>) : \A f \in Rest : May(t, f)
    BY <2>1
  <2>3. Calls' = ToSet(<<>>) \cup Rest
    BY <1>1, <2>1, <2>2, Replaced DEF ObjectsInv
  <2> QED
    BY <2>1, <2>3
<1>5. PICK ctx, client, S, J : /\ ctx = Context(c) /\ client = NormalMode(clients[c])
                               /\ S = NodesOf(c) /\ J = JumpsOf(c)
  OBVIOUS
<1>6. /\ clients[c] \in ClientOf /\ ctx = clients[c].context /\ clients[c].m_window = BufferOf(ctx)
      /\ ctx \in ContextOf(S, J) /\ Sound(ctx) /\ ctx.m_in_edition \in Nat
      /\ ctx.m_in_edition =
             (IF clients[c].mode = "normal" THEN 0 ELSE 1) + (IF Jumping(c) THEN 1 ELSE 0)
  BY <1>3, <1>5, ClientIs
<1>7. S \in SUBSET Sel /\ J \in SUBSET Sel
  BY <1>5 DEF NodesOf, JumpsOf
<1>8. /\ client \in ClientOf /\ client.mode = "normal" /\ client.m_window = clients[c].m_window
      /\ client.context \in ContextOf(S, J) /\ Sound(client.context)
      /\ SelectionsOf(client.context) = SelectionsOf(ctx)
      /\ clients[c].mode = "normal" => client.context.m_in_edition = ctx.m_in_edition
      /\ clients[c].mode # "normal" => client.context.m_in_edition = ctx.m_in_edition - 1
  <2>1. clients[c].mode # "normal" => ctx.m_in_edition > 0
    BY <1>6
  <2> QED
    BY <1>5, <1>6, <1>7, <2>1, NormalModeIs
<1>9. client.m_window = BufferOf(client.context)
  BY <1>6, <1>8 DEF BufferOf
<1>10. client.context.m_in_edition =
             (IF client.mode = "normal" THEN 0 ELSE 1) + (IF Jumping(c) THEN 1 ELSE 0)
  BY <1>6, <1>8
<1>11. clients' = [clients EXCEPT ![c] = client]
  BY <1>2, <1>5 DEF EndShow
<1>12. Context(c)' = client.context
  <2>1. clients \in [Client -> ClientOf]
    BY DEF ObjectsInv, TypeOK
  <2> QED
    BY <1>3, <1>11, <2>1 DEF Context
<1>13. /\ \A f \in Rest : ~Switch(f) /\ ~Going(f) /\ \A buffer : ~Locks(f, buffer)
       /\ \A call \in Calls : call.do = "forget" => call.buffer \in m_buffer_trash
  BY <1>1, <1>3, WaitersDont, ForgottenIsTrash
<1>14. LocksAreHeld'
  <2>1. \A buffer \in locked : Locks(It, buffer)
    BY <1>3, <1>13 DEF ObjectsInv, LocksAreHeld
  <2>2. \A buffer \in locked : buffer = It.buffer
    BY <1>1, <2>1 DEF Locks
  <2>3. locked' = locked \ {It.buffer}
    BY DEF EndShow
  <2> QED
    BY <2>2, <2>3 DEF LocksAreHeld
<1>15. ASSUME NEW f \in Rest
       PROVE  Knows(f)'
  <2>1. Knows(f) /\ Waits(f, c)
    BY <1>3 DEF ObjectsInv, CallsKnow
  <2>2. Steady(c) => Steady(c)'
    BY <1>3, <1>5, <1>6, <1>8, <1>12 DEF Steady, Context
  <2>3. f.do = "forget" => f.buffer \in m_buffer_trash'
    BY <1>1, <1>3, <1>13
  <2>4. \A buffer : InList(buffer) <=> InList(buffer)'
    BY <1>1 DEF InList
  <2>5. ASSUME f.do \in {"forget selections", "end jump"}
        PROVE  GoesOn(f)' /\ HeadsThere(f)'
    <3>1. f.client = c
      BY <2>1, <2>5 DEF Waits, Noise, Forgetter
    <3>2. ~Going(It)
      BY <1>1 DEF Going
    <3>3. \A call \in Calls : ~Going(call)
      BY <1>3, <1>13, <3>2
    <3>4. GoesOn(f)
      BY <2>1 DEF Knows
    <3>5. BufferOf(Context(c))' = BufferOf(ctx)
      <4>1. BufferOf(client.context) = BufferOf(ctx)
        BY <1>8 DEF BufferOf
      <4>2. BufferOf(Context(c))' = BufferOf(Context(c)')
        BY DEF BufferOf, SelectionsOf, Staged
      <4> QED
        BY <1>12, <4>1, <4>2
    <3>6. GoesOn(f)'
      BY <1>5, <2>5, <3>1, <3>3, <3>4, <3>5 DEF GoesOn
    <3>7. HeadsThere(f)'
      BY <1>4, <1>13 DEF HeadsThere
    <3> QED
      BY <3>6, <3>7
  <2>6. hooks' = hooks /\ m_clients' = m_clients /\ m_buffer_trash' = m_buffer_trash
    BY <1>1 DEF running
  <2> QED
    BY <1>3, <2>1, <2>2, <2>3, <2>4, <2>5, <2>6, WaiterKnows
<1>16. S \in SUBSET NodesOf(c)' /\ J \in SUBSET JumpsOf(c)'
  <2>1. \A f \in Rest : f.do # "joins"
    BY <1>3, WaiterIs
  <2>2. /\ \A sel \in JumpsOf(c) : sel \in JumpsOf(c)'
        /\ \A sel \in NodesOf(c) : sel \in NodesOf(c)'
    BY <1>1, <1>4, <2>1, WaiterRefers
  <2> QED
    BY <1>5, <2>2
<1>17. /\ m_free_windows' \in Seq(WindowOf)
       /\ \A w \in ToSet(m_free_windows)' : w \in ToSet(m_free_windows)
  BY <1>1 DEF ObjectsInv, TypeOK
<1>18. \A t \in ToSet(<<>>) : /\ \A f \in Rest : May(t, f)
                              /\ t.do \notin {"end jump", "joins"} /\ Knows(t)'
  BY <1>4
<1> QED
  BY <1>1, <1>3, <1>4, <1>8, <1>9, <1>10, <1>11, <1>14, <1>15, <1>16, <1>17, <1>18, WaitingStep

LEMMA ForgetHistoryStep ==
  ASSUME ObjectsInv, ForgetHistory
  PROVE  ObjectsInv'
<1>1. ~Idle /\ It.do = "forget selections" /\ calls' = <<>> \o Tail(calls)
      /\ UNCHANGED <<server, lists, running, ghosts>>
  BY DEF ForgetHistory, Doing, It, Call
<1>2. PICK c, b : c = It.client /\ b = It.buffer
  OBVIOUS
<1>3. /\ Calls = {It} \cup Rest /\ Knows(It) /\ \A f \in Rest : Waits(f, c)
      /\ \A f \in Rest : Noise(f) \/ (Forgetter(f) /\ f.buffer = b)
  BY <1>1, <1>2, WaitersAre
<1>4. c \in Client /\ b \in m_buffer_trash
  BY <1>1, <1>2, <1>3 DEF Knows, KnowsClient, KnowsBuffer
<1>5. Stacked(<<>>) /\ ToSet(<<>>) = {} /\ Calls' = Rest
  <2>1. Stacked(<<>>) /\ ToSet(<<>>) = {}
    BY StackOfOne, OneOrNone
  <2>2. \A t \in ToSet(<<>>) : \A f \in Rest : May(t, f)
    BY <2>1
  <2>3. Calls' = ToSet(<<>>) \cup Rest
    BY <1>1, <2>1, <2>2, Replaced DEF ObjectsInv
  <2> QED
    BY <2>1, <2>3
<1>6. PICK ctx, S, J : ctx = Context(c) /\ S = NodesOf(c) /\ J = JumpsOf(c)
  OBVIOUS
<1>7. /\ clients[c] \in ClientOf /\ ctx = clients[c].context /\ clients[c].m_window = BufferOf(ctx)
      /\ ctx \in ContextOf(S, J) /\ Sound(ctx)
      /\ ctx.m_in_edition =
             (IF clients[c].mode = "normal" THEN 0 ELSE 1) + (IF Jumping(c) THEN 1 ELSE 0)
  BY <1>4, <1>6, ClientIs
<1>8. /\ \A f \in Rest : ~Switch(f) /\ ~Going(f) /\ \A buffer : ~Locks(f, buffer)
      /\ \A call \in Calls : call.do = "forget" => call.buffer \in m_buffer_trash
  BY <1>1, <1>3, WaitersDont, ForgottenIsTrash
<1>9. BufferOf(ctx) # b
  <2>1. ~Going(It)
    BY <1>1 DEF Going, Switch
  <2>2. \A call \in Calls : ~Going(call)
    BY <1>3, <1>8, <2>1
  <2> QED
    BY <1>1, <1>2, <1>3, <1>6, <2>2 DEF Knows, GoesOn
<1>10. PICK new, S1 : new = ForgetNodes(ctx, b) /\ S1 = OutOf(S, b)
  OBVIOUS
<1>11. /\ new \in ContextOf(S1, J) /\ Sound(new) /\ SelectionsOf(new) = SelectionsOf(ctx)
       /\ new.m_in_edition = ctx.m_in_edition
  BY <1>7, <1>9, <1>10, ForgetNodesIsSound
<1>12. new \in ContextOf(S, J)
  <2>1. S1 \in SUBSET S /\ J \in SUBSET J
    BY <1>10 DEF OutOf
  <2> QED
    BY <1>11, <2>1, ContextGrows
<1> DEFINE client == [clients[c] EXCEPT !.context = new]
<1>13. clients' = [clients EXCEPT ![c] = client]
  <2>1. clients' = [clients EXCEPT ![c].context = new]
    BY <1>2, <1>6, <1>10 DEF ForgetHistory, Update
  <2> QED
    BY <2>1
<1>14. /\ client \in ClientOf /\ client.context = new
       /\ client.m_window = clients[c].m_window /\ client.mode = clients[c].mode
  BY <1>6, <1>7, <1>12, AnotherContext
<1>15. client.m_window = BufferOf(client.context)
  BY <1>7, <1>11, <1>14 DEF BufferOf
<1>16. client.context.m_in_edition =
             (IF client.mode = "normal" THEN 0 ELSE 1) + (IF Jumping(c) THEN 1 ELSE 0)
  BY <1>7, <1>11, <1>14
<1> HIDE DEF client
<1>17. LocksAreHeld'
  <2>1. \A call \in Calls : \A buffer : ~Locks(call, buffer)
    BY <1>1, <1>3, <1>8 DEF Locks
  <2>2. locked = {}
    BY <2>1 DEF ObjectsInv, LocksAreHeld
  <2> QED
    BY <1>1, <2>2 DEF LocksAreHeld, server
<1>18. Context(c)' = new
  <2>1. clients \in [Client -> ClientOf]
    BY DEF ObjectsInv, TypeOK
  <2> QED
    BY <1>4, <1>13, <1>14, <2>1 DEF Context
<1>19. ASSUME NEW f \in Rest
       PROVE  Knows(f)'
  <2>1. Knows(f) /\ Waits(f, c)
    BY <1>3 DEF ObjectsInv, CallsKnow
  <2>2. Steady(c) => Steady(c)'
    BY <1>4, <1>6, <1>11, <1>18 DEF Steady
  <2>3. f.do = "forget" => f.buffer \in m_buffer_trash'
    BY <1>1, <1>3, <1>8 DEF server
  <2>4. \A buffer : InList(buffer) => InList(buffer)'
    BY <1>1 DEF InList, server
  <2>5. f.do \notin {"forget selections", "end jump"}
    BY <1>3 DEF Noise, Forgetter
  <2>6. hooks' = hooks /\ m_clients' = m_clients /\ m_buffer_trash' = m_buffer_trash
    BY <1>1 DEF running, lists, server
  <2> QED
    BY <1>4, <2>1, <2>2, <2>3, <2>4, <2>5, <2>6, WaiterKnows
<1>20. S1 \in SUBSET NodesOf(c)' /\ J \in SUBSET JumpsOf(c)'
  <2>1. \A f \in Rest : f.do # "joins"
    BY <1>3, WaiterIs
  <2>2. m_buffers' = m_buffers /\ m_clients' = m_clients
    BY <1>1 DEF server, lists
  <2>3. /\ \A sel \in JumpsOf(c) : sel \in JumpsOf(c)'
        /\ \A sel \in NodesOf(c) : sel.buffer # b => sel \in NodesOf(c)'
    BY <1>1, <1>2, <1>5, <2>1, <2>2, WaiterRefers
  <2> QED
    BY <1>6, <1>10, <2>3 DEF OutOf
<1>21. /\ m_free_windows' \in Seq(WindowOf)
       /\ \A w \in ToSet(m_free_windows)' : w \in ToSet(m_free_windows)
       /\ UNCHANGED <<m_buffers, m_buffer_trash, m_clients, m_client_trash, running>>
  BY <1>1 DEF ObjectsInv, TypeOK, server, lists
<1>22. \A t \in ToSet(<<>>) : /\ \A f \in Rest : May(t, f)
                              /\ t.do \notin {"end jump", "joins"} /\ Knows(t)'
  BY <1>5
<1> QED
  BY <1>1, <1>2, <1>3, <1>4, <1>5, <1>11, <1>13, <1>14, <1>15, <1>16, <1>17, <1>19, <1>20, <1>21, <1>22,
     WaitingStep

LEMMA ForgetInHookStep ==
  ASSUME ObjectsInv, ForgetInHook
  PROVE  FALSE
<1>1. ~Idle /\ It.do = "forget" /\ It.at \notin Client
  BY DEF ForgetInHook, Doing, It
<1> QED
  BY <1>1, ItKnows DEF Knows, KnowsClient

(* A client that forgets its jumps to a buffer, and its mode if it is there.*)
LEMMA ForgettingIs ==
  ASSUME NEW client \in ClientOf, NEW S, NEW J, client.context \in ContextOf(S, J),
         Sound(client.context), S \in SUBSET Sel, J \in SUBSET Sel, NEW b,
         client.context.m_in_edition = IF client.mode = "normal" THEN 0 ELSE 1
  PROVE  LET new == Forgetting(client, b)
         IN  /\ new \in ClientOf /\ new.m_window = client.m_window
             /\ new.context \in ContextOf(S, OutOf(J, b)) /\ Sound(new.context)
             /\ SelectionsOf(new.context) = SelectionsOf(client.context)
             /\ new.context.m_in_edition = IF new.mode = "normal" THEN 0 ELSE 1
<1>1. PICK ctx, mid, K : ctx = client.context /\ mid = ForgetJumps(ctx, b) /\ K = OutOf(J, b)
  OBVIOUS
<1>2. /\ mid \in ContextOf(S, K) /\ Sound(mid) /\ SelectionsOf(mid) = SelectionsOf(ctx)
      /\ mid.m_in_edition = ctx.m_in_edition
  BY <1>1, ForgetJumpsIsSound DEF SameHistory
<1>3. K \in SUBSET Sel
  BY <1>1 DEF OutOf
<1>4. PICK left : left = [client EXCEPT !.context = mid]
  OBVIOUS
<1>5. mid \in ContextOf(Sel, Sel)
  BY <1>2, <1>3, ContextGrows
<1>6. left \in ClientOf /\ left.context = mid /\ left.mode = client.mode
      /\ left.m_window = client.m_window
  BY <1>4, <1>5 DEF ClientOf
<1>7. CASE BufferOf(client.context) = b /\ client.mode = "insert"
  <2>1. Forgetting(client, b) = NormalMode(left)
    BY <1>1, <1>4, <1>7 DEF Forgetting
  <2>2. left.mode # "normal" /\ left.context.m_in_edition = 1
    BY <1>1, <1>2, <1>6, <1>7
  <2>3. left.mode # "normal" => left.context.m_in_edition > 0
    BY <2>2
  <2>4. left.context \in ContextOf(S, K) /\ Sound(left.context)
    BY <1>2, <1>6
  <2>5. PICK new : new = NormalMode(left)
    OBVIOUS
  <2>6. /\ new \in ClientOf /\ new.mode = "normal" /\ new.m_window = left.m_window
        /\ new.context \in ContextOf(S, K) /\ Sound(new.context)
        /\ SelectionsOf(new.context) = SelectionsOf(left.context)
        /\ left.mode # "normal" =>
              new.context.m_in_edition = left.context.m_in_edition - 1
    BY <1>3, <1>6, <2>3, <2>4, <2>5, NormalModeIs
  <2>7. new.context.m_in_edition = 0
    BY <2>2, <2>6
  <2> QED
    BY <1>1, <1>2, <1>6, <2>1, <2>5, <2>6, <2>7
<1>8. CASE ~(BufferOf(client.context) = b /\ client.mode = "insert")
  <2>1. Forgetting(client, b) = left
    BY <1>1, <1>4, <1>8 DEF Forgetting
  <2> QED
    BY <1>1, <1>2, <1>6, <2>1
<1> QED
  BY <1>7, <1>8

LEMMA ForgetBufferStep ==
  ASSUME ObjectsInv, ForgetBuffer
  PROVE  ObjectsInv'
<1>1. ~Idle /\ It.do = "forget" /\ UNCHANGED <<server, lists, running, ghosts>>
  BY DEF ForgetBuffer, Doing, It
<1>2. PICK c, b : c = It.at /\ b = It.buffer
  OBVIOUS
<1>3. /\ Calls = {It} \cup Rest /\ Knows(It) /\ \A f \in Rest : Waits(f, c)
      /\ \A f \in Rest : Noise(f) \/ (Forgetter(f) /\ f.buffer = b)
  BY <1>1, <1>2, WaitersAre
<1>4. c \in Client /\ c \in ToSet(m_clients)
  BY <1>1, <1>2, <1>3 DEF Knows, KnowsClient
<1>5. /\ \A f \in Rest : ~Switch(f) /\ ~Going(f) /\ \A buffer : ~Locks(f, buffer)
      /\ \A call \in Calls : call.do = "forget" => call.buffer \in m_buffer_trash
  BY <1>1, <1>3, WaitersDont, ForgottenIsTrash
<1>6. b \in m_buffer_trash
  BY <1>1, <1>2, <1>3, <1>5
<1>7. PICK ctx, S, J, J1, client : /\ ctx = Context(c) /\ S = NodesOf(c) /\ J = JumpsOf(c)
                                   /\ J1 = OutOf(J, b) /\ client = Forgetting(clients[c], b)
  OBVIOUS
<1>8. ~Jumping(c)
  BY <1>1, <1>3 DEF Jumping, Noise, Forgetter
<1>9. /\ clients[c] \in ClientOf /\ ctx = clients[c].context /\ clients[c].m_window = BufferOf(ctx)
      /\ ctx \in ContextOf(S, J) /\ Sound(ctx)
      /\ ctx.m_in_edition = IF clients[c].mode = "normal" THEN 0 ELSE 1
  <2>1. /\ clients[c] \in ClientOf /\ ctx = clients[c].context /\ clients[c].m_window = BufferOf(ctx)
        /\ ctx \in ContextOf(S, J) /\ Sound(ctx)
        /\ ctx.m_in_edition =
             (IF clients[c].mode = "normal" THEN 0 ELSE 1) + (IF Jumping(c) THEN 1 ELSE 0)
    BY <1>4, <1>7, ClientIs
  <2> QED
    BY <1>8, <2>1
<1>10. S \in SUBSET Sel /\ J \in SUBSET Sel
  BY <1>7 DEF NodesOf, JumpsOf
<1>11. /\ client \in ClientOf /\ client.m_window = clients[c].m_window
       /\ client.context \in ContextOf(S, J1) /\ Sound(client.context)
       /\ SelectionsOf(client.context) = SelectionsOf(ctx)
       /\ client.context.m_in_edition = IF client.mode = "normal" THEN 0 ELSE 1
  BY <1>7, <1>9, <1>10, ForgettingIs
<1>12. client.m_window = BufferOf(client.context)
  BY <1>9, <1>11 DEF BufferOf
<1>13. client.context.m_in_edition =
             (IF client.mode = "normal" THEN 0 ELSE 1) + (IF Jumping(c) THEN 1 ELSE 0)
  BY <1>8, <1>11
<1>14. clients' = [clients EXCEPT ![c] = client]
  BY <1>2, <1>7 DEF ForgetBuffer
<1>15. Context(c)' = client.context
  <2>1. clients \in [Client -> ClientOf]
    BY DEF ObjectsInv, TypeOK
  <2> QED
    BY <1>4, <1>14, <2>1 DEF Context
<1>16. LocksAreHeld'
  <2>1. \A call \in Calls : \A buffer : ~Locks(call, buffer)
    BY <1>1, <1>3, <1>5 DEF Locks
  <2>2. locked = {}
    BY <2>1 DEF ObjectsInv, LocksAreHeld
  <2> QED
    BY <1>1, <2>2 DEF LocksAreHeld, server
<1>17. ASSUME NEW f \in Rest
       PROVE  Knows(f)'
  <2>1. Knows(f) /\ Waits(f, c)
    BY <1>3 DEF ObjectsInv, CallsKnow
  <2>2. CASE Noise(f) \/ Forgetter(f)
    <3>1. f.do = "forget" => f.buffer \in m_buffer_trash'
      BY <1>1, <1>3, <1>5 DEF server
    <3>2. \A buffer : InList(buffer) => InList(buffer)'
      BY <1>1 DEF InList, server
    <3>3. f.do \notin {"change buffer", "show", "forget selections", "end jump", "new client",
                       "undo", "undo more", "delete buffer", "destroyed", "connected", "joins"}
      BY <2>2 DEF Noise, Forgetter
    <3>4. hooks' = hooks /\ m_clients' = m_clients /\ m_buffer_trash' = m_buffer_trash
      BY <1>1 DEF running, lists, server
    <3>5. ~Switch(f)
      BY <1>5
    <3>6. (KnowsBuffer(f) /\ KnowsClient(f) /\ KnowsHook(f))'
      BY <2>1, <3>1, <3>2, <3>3, <3>4, <3>5 DEF Knows, KnowsBuffer, KnowsClient, KnowsHook
    <3> QED
      BY <3>3, <3>6, PlainKnows
  <2> QED
    BY <1>3, <2>2
<1>18. PICK y : y = ForgetSelections(c, b)
  OBVIOUS
<1>19. y.do = "forget selections" /\ y.client = c /\ y.buffer = b
  BY <1>18 DEF ForgetSelections
<1>20. \A f \in Rest : May(y, f)
  BY <1>3, <1>19 DEF May
<1>21. (KnowsBuffer(y) /\ KnowsClient(y) /\ KnowsHook(y) /\ KnowsNode(y) /\ HeadsThere(y))'
  <2>1. b \in m_buffer_trash'
    BY <1>1, <1>6 DEF server
  <2> QED
    BY <1>4, <1>19, <2>1 DEF KnowsBuffer, KnowsClient, KnowsHook, KnowsNode, HeadsThere, Switch
<1>22. BufferOf(Context(c))' = BufferOf(client.context)
  <2>1. BufferOf(Context(c))' = BufferOf(Context(c)')
    BY DEF BufferOf, SelectionsOf, Staged
  <2> QED
    BY <1>15, <2>1
<1>23. /\ m_free_windows' \in Seq(WindowOf)
       /\ \A w \in ToSet(m_free_windows)' : w \in ToSet(m_free_windows)
       /\ UNCHANGED <<m_buffers, m_buffer_trash, m_clients, m_client_trash, running>>
  BY <1>1 DEF ObjectsInv, TypeOK, server, lists
(* What is left to do, and that nothing it may refer to is lost.            *)
<1>24. ASSUME NEW todo, Stacked(todo), calls' = todo \o Tail(calls), y \in ToSet(todo),
              \A t \in ToSet(todo) : /\ \A f \in Rest : May(t, f)
                                     /\ t.do \notin {"end jump", "joins"} /\ Knows(t)'
       PROVE  ObjectsInv'
  <2>1. Calls' = ToSet(todo) \cup Rest
    BY <1>1, <1>24, Replaced DEF ObjectsInv
  <2>2. J1 \in SUBSET JumpsOf(c)'
    <3>1. \A t \in Calls' : t.do # "joins"
      BY <1>3, <1>24, <2>1, WaiterIs
    <3>2. \A f \in Rest : f \in Calls'
      BY <2>1
    <3>3. \A sel \in JumpsOf(c) : sel.buffer # b => sel \in JumpsOf(c)'
      BY <1>1, <1>2, <1>23, <3>1, <3>2, WaiterRefers
    <3> QED
      BY <1>7, <3>3 DEF OutOf
  <2>3. S \in SUBSET NodesOf(c)'
    <3>1. \A buffer : InList(buffer) => InList(buffer)'
      BY <1>23 DEF InList
    <3>2. ForgetsNodes(y, c, b) /\ y \in Calls'
      BY <1>19, <1>24, <2>1 DEF ForgetsNodes
    <3>3. ASSUME NEW buffer, NodeBuffer(c, buffer)
          PROVE  NodeBuffer(c, buffer)'
      <4>1. InList(buffer) \/ \E call \in Calls : ForgetsNodes(call, c, buffer)
        BY <1>4, <3>3 DEF NodeBuffer, Live
      <4>2. InList(buffer) \/ \E call \in Calls' : ForgetsNodes(call, c, buffer)
        BY <1>1, <1>2, <1>3, <2>1, <3>2, <4>1 DEF ForgetsNodes, ForgetsJumps
      <4> QED
        BY <3>1, <4>2 DEF NodeBuffer, ForgetsNodes, ForgetsJumps
    <3>4. Sel' = Sel
      BY DEF Sel, Buffer
    <3> QED
      BY <1>7, <3>3, <3>4 DEF NodesOf
  <2> QED
    BY <1>1, <1>2, <1>3, <1>4, <1>11, <1>12, <1>13, <1>14, <1>16, <1>17, <1>23, <1>24, <2>2, <2>3,
       WaitingStep
<1>25. CASE BufferOf(client.context) = b
  <2>1. PICK last : last = LastBuffers(client.context)
    OBVIOUS
  <2>2. PICK x : x = LeaveFor(c, last)
    OBVIOUS
  <2>3. calls' = <<x, y>> \o Tail(calls)
    BY <1>2, <1>7, <1>18, <1>25, <2>1, <2>2 DEF ForgetBuffer, Call
  <2>4. Going(x) /\ Switch(x) /\ Moves(x) = c /\ x.do \in {"change buffer", "to first buffer"} /\ Knows(x)'
    <3>1. CASE last = {}
      <4>1. x.do = "to first buffer" /\ x.at = c
        BY <2>2, <3>1 DEF LeaveFor, ToFirst
      <4>2. Going(x) /\ Switch(x) /\ Moves(x) = c
        BY <4>1 DEF Going, Switch, Moves
      <4>3. (KnowsBuffer(x) /\ KnowsClient(x) /\ KnowsHook(x))'
        BY <1>4, <4>1, <4>2 DEF KnowsBuffer, KnowsClient, KnowsHook
      <4> QED
        BY <4>1, <4>2, <4>3, PlainKnows
    <3>2. CASE last # {}
      <4>1. PICK n \in last : n = (CHOOSE m \in last : TRUE)
        BY <3>2
      <4>2. x = ChangeTo(c, n)
        BY <2>2, <3>2, <4>1 DEF LeaveFor
      <4>3. PICK j \in J1 : j.buffer = n
        BY <1>11, <2>1, LastBuffersAre
      <4>4. n # b /\ JumpBuffer(c, n)
        BY <1>7, <4>3 DEF OutOf, JumpsOf
      <4>5. InList(n)
        <5>1. InList(n) \/ \E call \in Calls : ForgetsJumps(call, c, n)
          BY <1>4, <4>4 DEF JumpBuffer, Live
        <5>2. \A call \in Calls : call.do = "forget" => call.buffer = b
          BY <1>1, <1>2, <1>3 DEF Noise
        <5> QED
          BY <4>4, <5>1, <5>2 DEF ForgetsJumps
      <4>6. InList(n)'
        BY <1>23, <4>5 DEF InList
      <4>7. x.do = "change buffer" /\ x.client = c /\ x.buffer = n
        BY <4>2 DEF ChangeTo
      <4>8. Going(x) /\ Switch(x) /\ Moves(x) = c
        BY <4>7 DEF Going, Switch, Moves
      <4>9. InList(n)' => KnowsBuffer(x)'
        BY <1>4, <4>2, ChangeIs
      <4>10. KnowsClient(x)'
        BY <1>4, <4>2, ChangeIs
      <4>11. KnowsHook(x)'
        BY <1>4, <4>2, ChangeIs
      <4>12. KnowsNode(x)'
        BY <1>4, <4>2, ChangeIs
      <4>13. GoesOn(x)' /\ HeadsThere(x)'
        BY <4>7 DEF GoesOn, HeadsThere
      <4>14. Knows(x)'
        BY <4>6, <4>9, <4>10, <4>11, <4>12, <4>13 DEF Knows
      <4> QED
        BY <4>7, <4>8, <4>14
    <3> QED
      BY <3>1, <3>2
  <2>5. May(x, y) /\ \A f \in Rest : May(x, f)
    BY <1>3, <1>19, <2>4 DEF May
  <2>6. Stacked(<<x, y>>) /\ ToSet(<<x, y>>) = {x, y}
    BY <2>5, StackOfOne, OneOrNone
  <2>7. Calls' = {x, y} \cup Rest
    <3>1. \A t \in ToSet(<<x, y>>) : \A f \in Rest : May(t, f)
      BY <1>20, <2>5, <2>6
    <3> QED
      BY <1>1, <2>3, <2>6, <3>1, Replaced DEF ObjectsInv
  <2>8. GoesOn(y)'
    BY <1>19, <2>4, <2>7 DEF GoesOn
  <2>9. Knows(y)'
    BY <1>21, <2>8 DEF Knows
  <2>10. \A t \in ToSet(<<x, y>>) : /\ \A f \in Rest : May(t, f)
                                    /\ t.do \notin {"end jump", "joins"} /\ Knows(t)'
    BY <1>19, <1>20, <2>4, <2>5, <2>6, <2>9
  <2>11. y \in ToSet(<<x, y>>)
    BY <2>6
  <2> QED
    BY <1>24, <2>3, <2>6, <2>10, <2>11
<1>26. CASE BufferOf(client.context) # b
  <2>1. calls' = <<y>> \o Tail(calls)
    BY <1>2, <1>7, <1>18, <1>26 DEF ForgetBuffer, Call
  <2>2. Stacked(<<y>>) /\ ToSet(<<y>>) = {y}
    BY StackOfOne, OneOrNone
  <2>3. GoesOn(y)'
    BY <1>19, <1>22, <1>26 DEF GoesOn
  <2>4. Knows(y)'
    BY <1>21, <2>3 DEF Knows
  <2>5. y \in ToSet(<<y>>)
    BY <2>2
  <2>6. \A t \in ToSet(<<y>>) : /\ \A f \in Rest : May(t, f)
                                /\ t.do \notin {"end jump", "joins"} /\ Knows(t)'
    BY <1>19, <1>20, <2>2, <2>4
  <2> QED
    BY <1>24, <2>1, <2>2, <2>5, <2>6
<1> QED
  BY <1>25, <1>26

LEMMA ShownContextIs ==
  ASSUME ObjectsInv, NEW c \in Client, NEW change, UndoKnows(change), change.client = c,
         NEW sel \in NodesOf(c), sel.buffer = change.buffer
  PROVE  LET new == ShownContext(Context(c), change, sel)
         IN  /\ new \in ContextOf(NodesOf(c), JumpsOf(c)) /\ Sound(new)
             /\ BufferOf(new) = change.buffer
             /\ new.m_in_edition = Context(c).m_in_edition
<1>1. PICK ctx, S, J : ctx = Context(c) /\ S = NodesOf(c) /\ J = JumpsOf(c)
  OBVIOUS
<1>2. ctx \in ContextOf(S, J) /\ Sound(ctx)
  BY <1>1, ClientIs
<1>3. CASE change.select # Invalid
  <2>1. PICK next, back : next = change.select /\ back = change.backward
    OBVIOUS
  <2>2. /\ ctx.m_in_edition = 0 /\ back \in BOOLEAN /\ next = NextNode(ctx, back)
        /\ ctx.m_history[next].sel.buffer = change.buffer /\ next # Invalid
    BY <1>1, <1>3, <2>1 DEF UndoKnows, Steady
  <2>3. PICK new : new = SelectNext(ctx, next, back)
    OBVIOUS
  <2>4. /\ new \in ContextOf(S, J) /\ Sound(new) /\ SelectionsOf(new) = ctx.m_history[next].sel
        /\ new.m_in_edition = 0
    BY <1>2, <2>2, <2>3, SelectNextIsSound
  <2>5. ShownContext(Context(c), change, sel) = new
    BY <1>1, <1>3, <2>1, <2>3 DEF ShownContext
  <2> QED
    BY <1>1, <2>2, <2>4, <2>5 DEF BufferOf
<1>4. CASE change.select = Invalid
  <2>1. PICK new : new = InEdition(ctx, sel)
    OBVIOUS
  <2>2. /\ new \in ContextOf(S, J) /\ Sound(new) /\ SelectionsOf(new) = sel
        /\ new.m_in_edition = ctx.m_in_edition
    BY <1>1, <1>2, <2>1, InEditionIsSound
  <2>3. ShownContext(Context(c), change, sel) = new
    BY <1>1, <1>4, <2>1 DEF ShownContext
  <2> QED
    BY <1>1, <2>2, <2>3 DEF BufferOf
<1> QED
  BY <1>3, <1>4

LEMMA ShowBufferStep ==
  ASSUME ObjectsInv, HooksOnlyOpen, ShowBuffer
  PROVE  ObjectsInv'
<1>1. ~Idle /\ It.do = "show" /\ UNCHANGED <<server, m_clients, m_client_trash, running, ghosts>>
  BY DEF ShowBuffer, Doing, It
<1>2. PICK change, c, b, sel : change = It.change /\ c = change.client /\ b = change.buffer /\ sel = It.sel
  OBVIOUS
<1>3. Calls = {It} \cup Rest /\ Knows(It) /\ c \in Client /\ \A f \in Rest : Waits(f, c)
  <2>1. Moves(It) = c
    BY <1>1, <1>2 DEF Moves
  <2> QED
    BY <1>1, <2>1, WaitersAre
<1>4. InList(b) /\ sel \in Sel /\ sel.buffer = b /\ UndoKnows(change)
  BY <1>1, <1>2, <1>3 DEF Knows, KnowsBuffer, KnowsNode
<1>5. sel \in NodesOf(c)
  BY <1>4 DEF NodesOf, NodeBuffer
<1>6. PICK ctx, new, S, J : /\ ctx = Context(c) /\ new = ShownContext(ctx, change, sel)
                            /\ S = NodesOf(c) /\ J = JumpsOf(c)
  OBVIOUS
<1>7. /\ clients[c] \in ClientOf /\ ctx = clients[c].context /\ clients[c].m_window = BufferOf(ctx)
      /\ ctx \in ContextOf(S, J) /\ Sound(ctx) /\ SelectionsOf(ctx) \in Sel
      /\ ctx.m_in_edition =
             (IF clients[c].mode = "normal" THEN 0 ELSE 1) + (IF Jumping(c) THEN 1 ELSE 0)
  BY <1>3, <1>6, ClientIs
<1>8. /\ new \in ContextOf(S, J) /\ Sound(new) /\ BufferOf(new) = b
      /\ new.m_in_edition = ctx.m_in_edition
  BY <1>2, <1>3, <1>4, <1>5, <1>6, ShownContextIs
<1>9. TypeOK /\ b \in Buffer
  <2>1. TypeOK
    BY DEF ObjectsInv
  <2>2. ToSet(m_buffers) \in SUBSET Buffer
    BY <2>1, SeqIsList DEF TypeOK
  <2> QED
    BY <1>4, <2>1, <2>2 DEF InList
<1> DEFINE client == [clients[c] EXCEPT !.m_window = b, !.context = new]
<1>10. clients' = [clients EXCEPT ![c] = client]
       /\ m_free_windows' = WithFreeWindow(m_free_windows, clients[c])
  <2>1. clients' = [clients EXCEPT ![c].m_window = b,
                                   ![c].context = ShownContext(@, change, sel)]
    BY <1>2 DEF ShowBuffer
  <2>2. clients \in [Client -> ClientOf]
    BY <1>9 DEF TypeOK
  <2>3. clients' = [clients EXCEPT ![c] = client]
    BY <1>3, <1>6, <1>7, <2>1, <2>2
  <2>4. m_free_windows' = WithFreeWindow(m_free_windows, clients[c])
    BY <1>2 DEF ShowBuffer, LeftWindow
  <2> QED
    BY <2>3, <2>4
<1>11. /\ client \in ClientOf /\ client.context = new
       /\ client.m_window = b /\ client.mode = clients[c].mode
  <2>1. PICK r : r = [clients[c] EXCEPT !.context = new]
    OBVIOUS
  <2>2. r \in ClientOf /\ r.context = new /\ r.mode = clients[c].mode
    <3>1. new \in ContextOf(NodesOf(c), JumpsOf(c)) /\ clients[c] \in ClientOf
      BY <1>6, <1>7, <1>8
    <3> QED
      BY <2>1, <3>1, AnotherContext
  <2>3. client = [r EXCEPT !.m_window = b]
    BY <1>7, <2>1 DEF ClientOf
  <2> QED
    BY <1>9, <2>2, <2>3 DEF ClientOf
<1>12. client.m_window = BufferOf(client.context)
  BY <1>8, <1>11
<1>13. client.context.m_in_edition =
             (IF client.mode = "normal" THEN 0 ELSE 1) + (IF Jumping(c) THEN 1 ELSE 0)
  BY <1>7, <1>8, <1>11
<1> HIDE DEF client
<1>14. Context(c)' = new
  <2>1. clients \in [Client -> ClientOf]
    BY <1>9 DEF TypeOK
  <2> QED
    BY <1>3, <1>10, <1>11, <2>1 DEF Context
<1>15. /\ m_free_windows' \in Seq(WindowOf)
       /\ \A w \in ToSet(m_free_windows)' :
             w \in ToSet(m_free_windows) \/ (w.sel.buffer = w.buffer /\ InList(w.buffer))
  <2>1. PICK old, windows : old = clients[c] /\ windows = WithFreeWindow(m_free_windows, old)
    OBVIOUS
  <2>2. /\ old \in ClientOf /\ SelectionsOf(old.context) \in Sel
        /\ old.m_window = SelectionsOf(old.context).buffer
    BY <1>7, <2>1 DEF BufferOf
  <2>3. /\ windows \in Seq(WindowOf)
        /\ \A w \in ToSet(windows) :
              w \in ToSet(m_free_windows) \/ (w.sel.buffer = w.buffer /\ InList(w.buffer))
    BY <1>9, <2>1, <2>2, LeftWindowIs
  <2> QED
    BY <1>10, <2>1, <2>3
<1>16. PICK x : x = Shown(c, b)
  OBVIOUS
<1>17. x.do = "shown" /\ x.client = c /\ x.buffer = b
  BY <1>16 DEF Shown
<1>18. calls' = <<x>> \o Tail(calls)
  <2>1. Hook("WinDisplay", b[1], c) = <<>>
    <3>1. "WinDisplay" \notin Opening
      BY DEF Opening
    <3> QED
      BY <1>9, <3>1, HookIs
  <2>2. calls' = (<<>> \o <<x>>) \o Tail(calls)
    BY <1>2, <1>16, <2>1 DEF ShowBuffer, Call
  <2>3. <<>> \o <<x>> = <<x>>
    OBVIOUS
  <2> QED
    BY <2>2, <2>3
<1>19. /\ \A f \in Rest : ~Switch(f) /\ ~Going(f) /\ \A buffer : ~Locks(f, buffer)
       /\ \A call \in Calls : call.do = "forget" => call.buffer \in m_buffer_trash
  BY <1>1, <1>3, WaitersDont, ForgottenIsTrash
<1>20. Switch(x) /\ Moves(x) = c
  BY <1>17 DEF Switch, Moves
<1>21. \A f \in Rest : May(x, f)
  BY <1>3, <1>20 DEF May, Waits
<1>22. Stacked(<<x>>) /\ ToSet(<<x>>) = {x}
  BY StackOfOne, OneOrNone
<1>23. Calls' = {x} \cup Rest
  <2>1. \A t \in ToSet(<<x>>) : \A f \in Rest : May(t, f)
    BY <1>21, <1>22
  <2> QED
    BY <1>1, <1>18, <1>22, <2>1, Replaced DEF ObjectsInv
<1>24. Knows(x)'
  <2>1. (KnowsBuffer(x) /\ KnowsClient(x) /\ KnowsHook(x))'
    BY <1>3, <1>17, <1>20 DEF KnowsBuffer, KnowsClient, KnowsHook
  <2> QED
    BY <1>17, <2>1, PlainKnows
<1>25. LocksAreHeld'
  <2>1. \A buffer \in locked : Locks(It, buffer)
    BY <1>3, <1>19 DEF ObjectsInv, LocksAreHeld
  <2>2. \A buffer \in locked : buffer = b
    BY <1>1, <1>2, <2>1 DEF Locks
  <2>3. Locks(x, b)' /\ x \in Calls'
    BY <1>17, <1>23 DEF Locks
  <2>4. locked' = locked
    BY <1>1 DEF server
  <2> QED
    BY <2>2, <2>3, <2>4 DEF LocksAreHeld
<1>26. BufferOf(Context(c))' = b
  <2>1. BufferOf(Context(c))' = BufferOf(Context(c)')
    BY DEF BufferOf, SelectionsOf, Staged
  <2> QED
    BY <1>8, <1>14, <2>1
<1>27. ASSUME NEW f \in Rest
       PROVE  Knows(f)'
  <2>1. Knows(f) /\ Waits(f, c)
    BY <1>3 DEF ObjectsInv, CallsKnow
  <2>2. Steady(c) => Steady(c)'
    BY <1>3, <1>6, <1>8, <1>14 DEF Steady
  <2>3. f.do = "forget" => f.buffer \in m_buffer_trash'
    BY <1>1, <1>3, <1>19 DEF server
  <2>4. \A buffer : InList(buffer) => InList(buffer)'
    BY <1>1 DEF InList, server
  <2>5. ASSUME f.do \in {"forget selections", "end jump"}
        PROVE  GoesOn(f)' /\ HeadsThere(f)'
    <3>1. f.client = c
      BY <2>1, <2>5 DEF Waits, Noise, Forgetter
    <3>2. CASE f.do = "forget selections"
      <4>1. f.buffer \in m_buffer_trash
        BY <2>1, <3>2 DEF Knows, KnowsBuffer
      <4>2. f.buffer # b
        BY <1>4, <4>1 DEF ObjectsInv, Apart, InList
      <4>3. BufferOf(Context(f.client))' # f.buffer
        BY <1>26, <3>1, <4>2
      <4> QED
        BY <3>2, <4>3 DEF GoesOn, HeadsThere
    <3>3. CASE f.do = "end jump"
      <4>1. f.sel.buffer = b
        <5>1. HeadsThere(f) /\ It \in Calls /\ Switch(It)
          BY <1>1, <1>3, <2>1 DEF Knows, Switch
        <5> QED
          BY <1>1, <1>2, <3>3, <5>1 DEF HeadsThere
      <4>2. GoesOn(f)'
        BY <1>26, <3>1, <3>3, <4>1 DEF GoesOn
      <4>3. HeadsThere(f)'
        BY <1>17, <1>19, <1>23, <4>1 DEF HeadsThere
      <4> QED
        BY <4>2, <4>3
    <3> QED
      BY <2>5, <3>2, <3>3
  <2>6. hooks' = hooks /\ m_clients' = m_clients /\ m_buffer_trash' = m_buffer_trash
    BY <1>1 DEF running, server
  <2> QED
    BY <1>3, <2>1, <2>2, <2>3, <2>4, <2>5, <2>6, WaiterKnows
<1>28. S \in SUBSET NodesOf(c)' /\ J \in SUBSET JumpsOf(c)'
  <2>1. \A t \in Calls' : t.do # "joins"
    BY <1>3, <1>17, <1>23, WaiterIs
  <2>2. m_buffers' = m_buffers /\ m_clients' = m_clients /\ \A f \in Rest : f \in Calls'
    BY <1>1, <1>23 DEF server
  <2>3. /\ \A s \in JumpsOf(c) : s \in JumpsOf(c)'
        /\ \A s \in NodesOf(c) : s \in NodesOf(c)'
    BY <1>1, <2>1, <2>2, WaiterRefers
  <2> QED
    BY <1>6, <2>3
<1>29. \A t \in ToSet(<<x>>) : /\ \A f \in Rest : May(t, f)
                               /\ t.do \notin {"end jump", "joins"} /\ Knows(t)'
  BY <1>17, <1>21, <1>22, <1>24
<1>30. UNCHANGED <<m_buffers, m_buffer_trash, m_clients, m_client_trash, running>>
  BY <1>1 DEF server
<1>31. client.context \in ContextOf(S, J) /\ Sound(client.context)
  BY <1>8, <1>11
<1> QED
  BY <1>1, <1>3, <1>10, <1>11, <1>12, <1>13, <1>15, <1>18, <1>22, <1>25, <1>27, <1>28, <1>29, <1>30, <1>31,
     WaitingStep

-----------------------------------------------------------------------------
(* A buffer that is deleted, and the windows that showed it.                *)

LEMMA ClientsStay ==
  ASSUME ObjectsInv, clients' = clients, m_clients' = m_clients,
         \A c, buffer : InList(buffer) =>
             InList(buffer)' \/ c \notin ToSet(m_clients) \/ \E call \in Calls' : ForgetsJumps(call, c, buffer),
         \A call \in Calls : call.do \in {"forget", "forget selections", "end jump"} => call \in Calls',
         \A call \in Calls' : call.do \in {"end jump", "joins"} => call \in Calls,
         \A call \in Calls' : call.do # "joins"
  PROVE  ClientsFit'
<1>1. ASSUME NEW c \in Client
      PROVE  Fits(c)'
  <2>1. Live(c)' => c \in ToSet(m_clients)
    BY DEF Live
  <2>2. StillRefers(c)
    <3>1. c \in ToSet(m_clients) => \A buffer : InList(buffer) =>
             InList(buffer)' \/ \E call \in Calls' : ForgetsJumps(call, c, buffer)
      OBVIOUS
    <3> QED
      BY <2>1, <3>1 DEF StillRefers, Live
  <2>3. Jumping(c)' <=> Jumping(c)
    BY DEF Jumping
  <2>4. Fits(c) /\ clients'[c] = clients[c]
    BY DEF ObjectsInv, ClientsFit
  <2> QED
    BY <2>2, <2>3, <2>4, FitsStill
<1> QED
  BY <1>1 DEF ClientsFit

LEMMA SameInterval ==
  ASSUME NEW m \in Nat, NEW n \in Nat, 1 .. m = 1 .. n
  PROVE  m = n
<1>1. m > 0 => m \in 1 .. n
  OBVIOUS
<1>2. n > 0 => n \in 1 .. m
  OBVIOUS
<1> QED
  BY <1>1, <1>2

LEMMA RemoveBufferStep ==
  ASSUME ObjectsInv, HooksOnlyOpen, RemoveBuffer
  PROVE  ObjectsInv'
<1>1. ~Idle /\ It.do = "delete buffer"
  BY DEF RemoveBuffer, Doing, It
<1>2. PICK b : b = It.buffer
  OBVIOUS
<1>3. Calls = {It} \cup Rest /\ Knows(It) /\ \A f \in Rest : May(It, f)
  BY <1>1, Under, ItKnows DEF ObjectsInv
<1>4. \A f \in Rest : f.do = "forget" /\ f.buffer = b
  <2> TAKE f \in Rest
  <2>1. May(It, f) /\ ~Noise(It) /\ ~Switch(It) /\ ~Forgetter(It)
    BY <1>1, <1>3 DEF Noise, Switch, Forgetter
  <2> QED
    BY <1>1, <1>2, <2>1 DEF May
<1>5. TypeOK /\ InList(b) /\ b \in Buffer /\ b \notin Client
  <2>1. TypeOK
    BY DEF ObjectsInv
  <2>2. ToSet(m_buffers) \in SUBSET Buffer
    BY <2>1, SeqIsList DEF TypeOK
  <2>3. InList(b)
    BY <1>1, <1>2, <1>3 DEF Knows, KnowsBuffer
  <2> QED
    BY <2>1, <2>2, <2>3, NotAClient DEF InList
<1>6. \A call \in Calls : call.do \in {"delete buffer", "forget"}
  BY <1>1, <1>3, <1>4
<1>7. locked = {} /\ m_running_hooks = {}
  BY <1>6, NoneIsLocked, NoneRuns
<1>8. PICK F, C, H : /\ F = [i \in DOMAIN m_clients |-> Forget(m_clients[i], b)]
                     /\ C = CloseWindows(b) /\ H = Hook("BufClose", b[1], b)
  OBVIOUS
<1>9. /\ m_buffers' = Without(m_buffers, {b}) /\ m_buffer_trash' = m_buffer_trash \cup {b}
      /\ locked' = locked /\ UNCHANGED <<views, running>>
      /\ calls' = ((F \o <<C>>) \o H) \o Tail(calls)
  BY <1>2, <1>5, <1>7, <1>8 DEF RemoveBuffer, Registered, InList, Call
<1>10. UNCHANGED <<m_clients, m_client_trash, m_free_windows, clients, m_running_hooks, hooks>>
  BY <1>9 DEF views, lists, running
<1>11. m_buffers' \in Seq(Buffer) /\ \A x : InList(x)' <=> InList(x) /\ x # b
  <2>1. PICK s, u : s = m_buffers /\ u = Without(s, {b})
    OBVIOUS
  <2>2. s \in Seq(Buffer)
    BY <1>5, <2>1 DEF TypeOK
  <2>3. u \in Seq(Buffer) /\ \A x : x \in ToSet(u) <=> x \in ToSet(s) /\ x \notin {b}
    BY <2>1, <2>2, WithoutIs
  <2> QED
    BY <1>9, <2>1, <2>3 DEF InList
<1>12. C.do = "close windows" /\ C.buffer = b
  BY <1>8 DEF CloseWindows
<1>13. PICK n : n = Len(m_clients)
  OBVIOUS
<1>14. n \in Nat /\ DOMAIN m_clients = 1 .. n /\ F = [i \in 1 .. n |-> Forget(m_clients[i], b)]
  BY <1>5, <1>8, <1>13, LenProperties DEF TypeOK
<1>15. \A i \in 1 .. n : /\ F[i].do = "forget" /\ F[i].at = m_clients[i] /\ F[i].buffer = b
                         /\ m_clients[i] \in ToSet(m_clients) /\ m_clients[i] \in Client
  <2> TAKE i \in 1 .. n
  <2>1. F[i] = Forget(m_clients[i], b)
    BY <1>14
  <2>2. m_clients[i] \in ToSet(m_clients)
    BY <1>14 DEF ToSet
  <2>3. m_clients[i] \in Client
    BY <1>5, <1>13, ElementOfSeq DEF TypeOK
  <2> QED
    BY <2>1, <2>2, <2>3 DEF Forget
<1>16. IsList(F) /\ Len(F) = n /\ DOMAIN F = 1 .. n
  <2>1. F \in Seq({F[i] : i \in 1 .. n})
    <3>1. \A i \in 1 .. n : F[i] \in {F[j] : j \in 1 .. n}
      OBVIOUS
    <3>2. F = [i \in 1 .. n |-> F[i]]
      BY <1>14
    <3> QED
      BY <1>14, <3>1, <3>2, IsASeq
  <2>2. PICK T : T = {F[i] : i \in 1 .. n}
    OBVIOUS
  <2>3. F \in Seq(T)
    BY <2>1, <2>2
  <2>4. IsList(F) /\ DOMAIN F = 1 .. Len(F) /\ Len(F) \in Nat
    BY <2>3, SeqIsList, LenProperties
  <2>5. DOMAIN F = 1 .. n
    BY <1>14
  <2>6. Len(F) = n
    <3>1. 1 .. Len(F) = 1 .. n
      BY <2>4, <2>5
    <3> QED
      BY <1>14, <2>4, <3>1, SameInterval
  <2> QED
    BY <2>4, <2>5, <2>6
<1>17. /\ Stacked(F)
       /\ \A t \in ToSet(F) : /\ t.do = "forget" /\ t.buffer = b
                              /\ t.at \in ToSet(m_clients) /\ t.at \in Client
       /\ \A c \in ToSet(m_clients) : \E t \in ToSet(F) : ForgetsJumps(t, c, b)
  <2>1. \A i, j \in 1 .. n : i < j => May(F[i], F[j])
    BY <1>15 DEF May, Forgetter
  <2>2. Stacked(F)
    BY <1>16, <2>1 DEF Stacked
  <2>3. \A t \in ToSet(F) : \E i \in 1 .. n : t = F[i]
    BY <1>16 DEF ToSet
  <2>4. ASSUME NEW c \in ToSet(m_clients)
        PROVE  \E t \in ToSet(F) : ForgetsJumps(t, c, b)
    <3>1. PICK i \in 1 .. n : m_clients[i] = c
      BY <1>14 DEF ToSet
    <3>2. F[i] \in ToSet(F)
      BY <1>16 DEF ToSet
    <3> QED
      BY <1>15, <3>1, <3>2 DEF ForgetsJumps
  <2> QED
    BY <1>15, <2>2, <2>3, <2>4
<1>18. /\ Stacked(H) /\ hooks' = hooks
       /\ \A t \in ToSet(H) : Noise(t) /\ t.do = "hook" /\ (KnowsBuffer(t) /\ KnowsClient(t) /\ KnowsHook(t))'
  <2>1. Stacked(H) /\ \A t \in ToSet(H) : t.do = "hook"
    BY <1>5, <1>8, HookIs
  <2>2. \A t \in ToSet(H) : Noise(t) /\ (KnowsBuffer(t) /\ KnowsClient(t) /\ KnowsHook(t))'
    BY <1>5, <1>8, <1>10, HookKnows
  <2> QED
    BY <1>10, <2>1, <2>2
<1>19. Stacked(F \o <<C>>) /\ ToSet(F \o <<C>>) = ToSet(F) \cup {C}
  <2>1. Stacked(<<C>>) /\ ToSet(<<C>>) = {C}
    BY StackOfOne, OneOrNone
  <2>2. \A x \in ToSet(F) : \A y \in ToSet(<<C>>) : May(x, y)
    BY <1>12, <1>17, <2>1 DEF May, Forgetter
  <2> QED
    BY <1>17, <2>1, <2>2, StackedTogether
<1>20. PICK U : U = F \o <<C>>
  OBVIOUS
<1>21. \A x \in ToSet(U) : Forgetter(x) /\ x.buffer = b
  BY <1>12, <1>17, <1>19, <1>20 DEF Forgetter
<1>22. PICK todo : todo = U \o H
  OBVIOUS
<1>23. Stacked(todo) /\ ToSet(todo) = (ToSet(F) \cup {C}) \cup ToSet(H)
  <2>1. \A x \in ToSet(U) : \A y \in ToSet(H) : May(x, y)
    BY <1>18, <1>21 DEF May
  <2>2. Stacked(U)
    BY <1>19, <1>20
  <2>3. Stacked(todo) /\ ToSet(todo) = ToSet(U) \cup ToSet(H)
    BY <1>18, <1>22, <2>1, <2>2, StackedTogether
  <2> QED
    BY <1>19, <1>20, <2>3
<1>24. Stacked(calls') /\ Calls' = ((ToSet(F) \cup {C}) \cup ToSet(H)) \cup Rest
  <2>1. calls' = todo \o Tail(calls)
    BY <1>9, <1>20, <1>22
  <2>2. ASSUME NEW t \in ToSet(todo), NEW f \in Rest
        PROVE  May(t, f)
    <3>1. Forgetter(f) /\ ~Lone(f) /\ f.buffer = b
      BY <1>4 DEF Forgetter, Lone
    <3>2. (Forgetter(t) /\ t.buffer = b) \/ Noise(t)
      BY <1>18, <1>19, <1>20, <1>21, <1>23
    <3> QED
      BY <3>1, <3>2 DEF May
  <2> QED
    BY <1>1, <1>23, <2>1, <2>2, Replaced DEF ObjectsInv
<1>25. \A t \in Calls' : t.do \in {"forget", "close windows", "hook"}
  BY <1>4, <1>12, <1>17, <1>18, <1>24
<1>26. ASSUME NEW t \in Calls'
       PROVE  Knows(t)'
  <2>1. CASE t \in ToSet(H)
    BY <1>18, <2>1, PlainKnows
  <2>2. CASE t = C
    <3>1. (KnowsBuffer(t) /\ KnowsClient(t) /\ KnowsHook(t))'
      BY <1>5, <1>12, <2>2 DEF KnowsBuffer, KnowsClient, KnowsHook, Switch
    <3> QED
      BY <1>12, <2>2, <3>1, PlainKnows
  <2>3. CASE t \in ToSet(F) \cup Rest
    <3>1. t.do = "forget" /\ t.buffer = b /\ t.at \in Client /\ t.at \in ToSet(m_clients)
      <4>1. CASE t \in ToSet(F)
        BY <1>17, <4>1
      <4>2. CASE t \in Rest
        BY <1>3, <1>4, <4>2 DEF ObjectsInv, CallsKnow, Knows, KnowsClient
      <4> QED
        BY <2>3, <4>1, <4>2
    <3>2. t.buffer \in m_buffer_trash' /\ t.at \in ToSet(m_clients)'
      BY <1>9, <1>10, <3>1
    <3>3. (KnowsBuffer(t) /\ KnowsClient(t) /\ KnowsHook(t))'
      BY <3>1, <3>2 DEF KnowsBuffer, KnowsClient, KnowsHook, Switch
    <3> QED
      BY <3>1, <3>3, PlainKnows
  <2> QED
    BY <1>24, <2>1, <2>2, <2>3
<1>27. ClientsFit'
  <2>1. \A c, buffer : InList(buffer) =>
             InList(buffer)' \/ c \notin ToSet(m_clients) \/ \E call \in Calls' : ForgetsJumps(call, c, buffer)
    BY <1>11, <1>17, <1>24
  <2>2. \A call \in Calls : call.do \in {"forget", "forget selections", "end jump"} => call \in Calls'
    BY <1>1, <1>3, <1>24
  <2>3. \A call \in Calls' : call.do \notin {"end jump", "joins"}
    BY <1>25
  <2> QED
    BY <1>10, <2>1, <2>2, <2>3, ClientsStay
<1>28. ASSUME NEW w \in ToSet(m_free_windows)'
       PROVE  WindowIsOpen(w)'
  <2>1. WindowIsOpen(w)
    BY <1>10 DEF ObjectsInv, WindowsAreOpen
  <2>2. w.sel.buffer = w.buffer /\ InList(w.buffer)
    BY <1>6, <2>1 DEF WindowIsOpen
  <2>3. InList(w.buffer)' \/ (C \in Calls' /\ w.buffer = b)
    BY <1>11, <1>24, <2>2
  <2> QED
    BY <1>12, <2>2, <2>3 DEF WindowIsOpen
<1>29. TypeOK'
  <2>1. IsFiniteSet(m_buffer_trash \cup {b})
    BY <1>5, FS_AddElement DEF TypeOK
  <2> QED
    BY <1>5, <1>9, <1>10, <1>11, <2>1 DEF TypeOK
<1>30. Apart'
  <2>1. \A x : x \in ToSet(m_buffers)' <=> InList(x) /\ x # b
    BY <1>11 DEF InList
  <2> QED
    BY <1>9, <1>10, <2>1 DEF ObjectsInv, Apart, InList
<1>31. LocksAreHeld' /\ HooksAreRunning'
  BY <1>7, <1>9, <1>10 DEF LocksAreHeld, HooksAreRunning
<1> QED
  BY <1>24, <1>26, <1>27, <1>28, <1>29, <1>30, <1>31 DEF ObjectsInv, CallsKnow, WindowsAreOpen

LEMMA CloseFreeWindowsStep ==
  ASSUME ObjectsInv, HooksOnlyOpen, CloseFreeWindows
  PROVE  ObjectsInv'
<1>1. ~Idle /\ It.do = "close windows"
      /\ UNCHANGED <<server, m_clients, m_client_trash, clients, running, ghosts>>
  BY DEF CloseFreeWindows, Doing, It
<1>2. PICK b : b = It.buffer
  OBVIOUS
<1>3. Calls = {It} \cup Rest /\ \A f \in Rest : May(It, f)
  BY <1>1, Under DEF ObjectsInv
<1>4. \A f \in Rest : Noise(f) \/ (Forgetter(f) /\ f.buffer = b)
  <2> TAKE f \in Rest
  <2>1. May(It, f) /\ ~Noise(It) /\ ~Switch(It)
    BY <1>1, <1>3 DEF Noise, Switch
  <2> QED
    BY <1>1, <1>2, <2>1 DEF May
<1>5. TypeOK
  BY DEF ObjectsInv
<1>6. \A f \in Rest : /\ ~Lone(f) /\ ~Switch(f) /\ ~Going(f)
                      /\ f.do \in {"hook", "hook done", "command", "leave for", "created",
                                   "forget", "close windows"}
  <2> TAKE f \in Rest
  <2>1. CASE Noise(f)
    BY <2>1, NoSwitchIsNoise DEF Noise
  <2>2. CASE Forgetter(f)
    BY <2>2 DEF Forgetter, Lone, Switch, Going
  <2> QED
    BY <1>4, <2>1, <2>2
<1>7. locked = {}
  <2>1. \A call \in Calls : call.do \notin {"show", "shown", "connected", "joins"}
    BY <1>1, <1>3, <1>6
  <2> QED
    BY <2>1, NoneIsLocked
<1>8. PICK P : P = DOMAIN m_free_windows \ FreeWindows(b)
  OBVIOUS
<1>9. /\ m_free_windows' \in Seq(WindowOf)
      /\ \A w \in ToSet(m_free_windows)' : w \in ToSet(m_free_windows) /\ w.buffer # b
  <2>1. PICK s, u : s = m_free_windows /\ u = Kept(s, P)
    OBVIOUS
  <2>2. m_free_windows' = u
    BY <1>2, <1>8, <2>1 DEF CloseFreeWindows
  <2>3. s \in Seq(WindowOf) /\ Len(s) \in Nat /\ DOMAIN s = 1 .. Len(s)
    BY <1>5, <2>1, LenProperties DEF TypeOK
  <2>4. P \in SUBSET (1 .. Len(s)) /\ \A i \in P : i \in DOMAIN s /\ s[i].buffer # b
    BY <1>8, <2>1, <2>3 DEF FreeWindows
  <2>5. /\ u \in Seq(WindowOf) /\ Len(u) = Cardinality(P) /\ Cardinality(P) \in 0 .. Len(s)
        /\ \A k \in 1 .. Cardinality(P) : \E i \in P : u[k] = s[i]
    <3>1. s \in Seq(WindowOf) /\ P \in SUBSET (1 .. Len(s))
      BY <2>3, <2>4
    <3>2. /\ Kept(s, P) \in Seq(WindowOf) /\ Len(Kept(s, P)) = Cardinality(P)
          /\ Cardinality(P) \in 0 .. Len(s)
          /\ \A k \in 1 .. Cardinality(P) :
                \E i \in P : Kept(s, P)[k] = s[i] /\ Rank(P, i) = k - 1
      BY <3>1, KeptIs
    <3> QED
      BY <2>1, <3>2
  <2>6. DOMAIN u = 1 .. Cardinality(P)
    BY <2>5, LenProperties
  <2>7. ASSUME NEW w \in ToSet(u)
        PROVE  w \in ToSet(s) /\ w.buffer # b
    <3>1. PICK k \in 1 .. Cardinality(P) : u[k] = w
      BY <2>6 DEF ToSet
    <3>2. PICK i \in P : u[k] = s[i]
      BY <2>5, <3>1
    <3> QED
      BY <2>4, <3>1, <3>2 DEF ToSet
  <2> QED
    BY <2>1, <2>2, <2>5, <2>7
<1>10. b \notin Client
  BY <1>1, <1>2, ItKnows DEF Knows, KnowsClient
<1>11. \E todo : /\ calls' = todo \o Tail(calls) /\ Stacked(todo)
                 /\ \A t \in ToSet(todo) :
                       /\ t.do = "hook" /\ Noise(t)
                       /\ (KnowsBuffer(t) /\ KnowsClient(t) /\ KnowsHook(t))'
  <2>1. PICK H : H = Hook("WinClose", b[1], b)
    OBVIOUS
  <2>2. PICK n : n = Cardinality(FreeWindows(b))
    OBVIOUS
  <2>3. n \in Nat
    <3>1. PICK k : k = Len(m_free_windows)
      OBVIOUS
    <3>2. k \in Nat /\ FreeWindows(b) \in SUBSET (1 .. k)
      BY <1>5, <3>1, LenProperties DEF TypeOK, FreeWindows
    <3> QED
      BY <2>2, <3>2, FiniteOf
  <2>4. \A t \in ToSet(H) : /\ t.do = "hook" /\ Noise(t)
                            /\ (KnowsBuffer(t) /\ KnowsClient(t) /\ KnowsHook(t))'
    <3>1. hooks' = hooks
      BY <1>1 DEF running
    <3>2. \A t \in ToSet(H) : t.do = "hook"
      BY <1>5, <2>1, HookIs
    <3>3. \A t \in ToSet(H) : Noise(t) /\ (KnowsBuffer(t) /\ KnowsClient(t) /\ KnowsHook(t))'
      BY <1>5, <1>10, <2>1, <3>1, HookKnows
    <3> QED
      BY <3>2, <3>3
  <2>5. H = <<>> \/ \E x : H = <<x>>
    BY <2>1 DEF Hook
  <2>6. CASE H = <<>>
    <3>1. calls' = <<>> \o Tail(calls)
      BY <1>2, <2>1, <2>6 DEF CloseFreeWindows, Call
    <3>2. Stacked(<<>>) /\ ToSet(<<>>) = {}
      BY StackOfOne, OneOrNone
    <3> QED
      BY <3>1, <3>2
  <2>7. CASE H # <<>>
    <3>1. PICK x : H = <<x>>
      BY <2>5, <2>7
    <3>2. Head(H) = x /\ x \in ToSet(H)
      BY <3>1, OneOrNone
    <3>3. PICK todo : todo = [i \in 1 .. n |-> x]
      OBVIOUS
    <3>4. calls' = todo \o Tail(calls)
      BY <1>2, <2>1, <2>2, <2>7, <3>2, <3>3 DEF CloseFreeWindows, Call
    <3>5. todo \in Seq({x}) /\ \A i \in 1 .. n : todo[i] = x
      BY <2>3, <3>3, IsASeq
    <3>6. IsList(todo) /\ ToSet(todo) \in SUBSET {x} /\ DOMAIN todo = 1 .. Len(todo) /\ Len(todo) \in Nat
      BY <3>5, SeqIsList, LenProperties
    <3>7. Noise(x) /\ ~Lone(x)
      BY <2>4, <3>2, NoSwitchIsNoise
    <3>8. \A i \in 1 .. Len(todo) : todo[i] = x
      BY <3>3, <3>6
    <3>9. Stacked(todo)
      BY <3>6, <3>7, <3>8 DEF Stacked, May
    <3>10. \A t \in ToSet(todo) : t = x
      BY <3>6
    <3> QED
      BY <2>4, <3>2, <3>4, <3>9, <3>10
  <2> QED
    BY <2>6, <2>7
<1>12. PICK todo : /\ calls' = todo \o Tail(calls) /\ Stacked(todo)
                   /\ \A t \in ToSet(todo) :
                         /\ t.do = "hook" /\ Noise(t)
                         /\ (KnowsBuffer(t) /\ KnowsClient(t) /\ KnowsHook(t))'
  BY <1>11
<1>13. Stacked(calls') /\ Calls' = ToSet(todo) \cup Rest
  <2>1. \A t \in ToSet(todo) : \A f \in Rest : May(t, f)
    BY <1>6, <1>12 DEF May
  <2> QED
    BY <1>1, <1>12, <2>1, Replaced DEF ObjectsInv
<1>14. /\ UNCHANGED <<m_buffers, m_buffer_trash, locked, m_clients, m_client_trash>>
       /\ UNCHANGED <<clients, m_running_hooks, hooks>>
  BY <1>1 DEF server, running
<1>15. \A t \in Calls' : t.do \in {"hook", "hook done", "command", "leave for", "created",
                                   "forget", "close windows"}
  BY <1>6, <1>12, <1>13
<1>16. ASSUME NEW f \in Rest
       PROVE  Knows(f)'
  <2>1. Knows(f) /\ ~Switch(f)
    BY <1>3, <1>6 DEF ObjectsInv, CallsKnow
  <2>2. f.do = "forget" => f.buffer \in m_buffer_trash'
    <3>1. \A call \in Calls : call.do # "delete buffer"
      BY <1>1, <1>3, <1>6
    <3>2. DeleteBuffer(f.buffer) \notin Calls
      BY <3>1 DEF DeleteBuffer
    <3> QED
      BY <1>14, <2>1, <3>2 DEF Knows, KnowsBuffer
  <2>3. \A buffer : InList(buffer) => InList(buffer)'
    BY <1>14 DEF InList
  <2>4. f.do \notin {"change buffer", "show", "forget selections", "end jump", "new client",
                     "undo", "undo more", "delete buffer", "destroyed", "connected", "joins"}
    BY <1>6
  <2>5. hooks' = hooks /\ m_clients' = m_clients
    BY <1>14
  <2>6. (KnowsBuffer(f) /\ KnowsClient(f) /\ KnowsHook(f))'
    BY <2>1, <2>2, <2>3, <2>4, <2>5 DEF Knows, KnowsBuffer, KnowsClient, KnowsHook
  <2> QED
    BY <2>4, <2>6, PlainKnows
<1>17. ASSUME NEW t \in ToSet(todo)
       PROVE  Knows(t)'
  <2>1. t.do = "hook" /\ (KnowsBuffer(t) /\ KnowsClient(t) /\ KnowsHook(t))'
    BY <1>12
  <2>2. t.do \notin {"change buffer", "show", "forget selections", "end jump", "new client"}
    BY <2>1
  <2> QED
    BY <2>1, <2>2, PlainKnows
<1>18. ClientsFit'
  <2>1. \A c, buffer : InList(buffer) => InList(buffer)'
    BY <1>14 DEF InList
  <2>2. \A call \in Calls : call.do \in {"forget", "forget selections", "end jump"} => call \in Calls'
    <3> TAKE call \in Calls
    <3>1. call = It \/ call \in Rest
      BY <1>3
    <3> QED
      BY <1>1, <1>13, <3>1
  <2>3. \A call \in Calls' : call.do \notin {"end jump", "joins"}
    BY <1>15
  <2>4. clients' = clients /\ m_clients' = m_clients
    BY <1>14
  <2> QED
    BY <2>1, <2>2, <2>3, <2>4, ClientsStay
<1>19. ASSUME NEW w \in ToSet(m_free_windows)'
       PROVE  WindowIsOpen(w)'
  <2>1. WindowIsOpen(w) /\ w.buffer # b
    BY <1>9 DEF ObjectsInv, WindowsAreOpen
  <2>2. w.sel.buffer = w.buffer
    BY <2>1 DEF WindowIsOpen
  <2>3. InList(w.buffer) \/ \E call \in Rest : call.do = "close windows" /\ call.buffer = w.buffer
    BY <1>2, <1>3, <2>1 DEF WindowIsOpen
  <2>4. InList(w.buffer)' \/ \E call \in Calls' : call.do = "close windows" /\ call.buffer = w.buffer
    BY <1>13, <1>14, <2>3 DEF InList
  <2> QED
    BY <2>2, <2>4 DEF WindowIsOpen
<1>20. HooksAreRunning'
  <2>1. \A call \in Calls : call.do = "hook done" => call \in Calls'
    <3> TAKE call \in Calls
    <3>1. call = It \/ call \in Rest
      BY <1>3
    <3> QED
      BY <1>1, <1>13, <3>1
  <2>2. m_running_hooks' = m_running_hooks
    BY <1>14
  <2> QED
    BY <2>1, <2>2 DEF ObjectsInv, HooksAreRunning
<1>21. LocksAreHeld'
  BY <1>7, <1>14 DEF LocksAreHeld
<1>22. TypeOK' /\ Apart'
  BY <1>5, <1>9, <1>14 DEF TypeOK, ObjectsInv, Apart
<1> QED
  BY <1>13, <1>16, <1>17, <1>18, <1>19, <1>20, <1>21, <1>22 DEF ObjectsInv, CallsKnow, WindowsAreOpen

-----------------------------------------------------------------------------
(* The server starts with sound contexts and nothing to do.                 *)

LEMMA ObjectsInvInit ==
  ASSUME Init
  PROVE  ObjectsInv
<1>1. Calls = {} /\ Stacked(calls)
  BY OneOrNone, StackOfOne DEF Init, Calls
<1>2. ToSet(m_clients) = {} /\ ToSet(m_client_trash) = {} /\ ToSet(m_free_windows) = {}
  BY OneOrNone DEF Init
<1>3. PICK n : n = Len(Opened)
  OBVIOUS
<1>4. m_buffers \in Seq(Buffer)
  <2>1. Opened \in Seq(Names)
    BY NamesAssumption
  <2>2. n \in Nat /\ DOMAIN Opened = 1 .. n /\ \A i \in 1 .. n : Opened[i] \in Names
    BY <1>3, <2>1, LenProperties, ElementOfSeq
  <2>3. m_buffers = [i \in 1 .. n |-> <<Opened[i], 1>>]
    BY <2>2 DEF Init
  <2>4. \A i \in 1 .. n : <<Opened[i], 1>> \in Buffer
    BY <2>2 DEF Buffer
  <2> QED
    BY <2>2, <2>3, <2>4, IsASeq
<1>5. PICK sel, new, none : sel = SelIn(Invalid, 0) /\ new = NewContext(sel) /\ none = NoClient
  OBVIOUS
<1>6. sel \in Sel /\ sel.buffer = Invalid
  BY <1>5 DEF SelIn, Sel
<1>7. /\ new \in ContextOf(Sel, Sel) /\ Sound(new) /\ SelectionsOf(new) = sel
      /\ new.m_in_edition = 0
  BY <1>5, <1>6, NewContextIsSound
<1>8. /\ none \in ClientOf /\ none.context = new /\ none.m_window = Invalid
      /\ none.mode = "normal" /\ BufferOf(none.context) = Invalid
  BY <1>5, <1>6, <1>7 DEF NoClient, ClientOf, Modes, BufferOf
<1>9. clients = [c \in Client |-> none]
  BY <1>5 DEF Init
<1>10. TypeOK
  <2>1. clients \in [Client -> ClientOf]
    BY <1>8, <1>9
  <2>2. IsFiniteSet(m_buffer_trash) /\ m_buffer_trash \in SUBSET Buffer
    BY FS_EmptySet DEF Init
  <2>3. m_clients \in Seq(Client) /\ m_client_trash \in Seq(Client) /\ m_free_windows \in Seq(WindowOf)
    BY EmptySeq DEF Init
  <2>4. hooks \in HookConfigs
    BY DEF Init
  <2> QED
    BY <1>4, <2>1, <2>2, <2>3, <2>4 DEF TypeOK
<1>11. ASSUME NEW c \in Client
       PROVE  Fits(c)
  <2>1. ~Live(c) /\ ~Jumping(c)
    BY <1>1, <1>2 DEF Live, Jumping
  <2>2. NodesOf(c) = Sel /\ JumpsOf(c) = Sel
    BY <2>1 DEF NodesOf, JumpsOf, NodeBuffer, JumpBuffer
  <2>3. clients[c] = none /\ Context(c) = new
    BY <1>8, <1>9 DEF Context
  <2>4. EditionsOf(c) = 0
    BY <1>8, <2>1, <2>3 DEF EditionsOf
  <2> QED
    BY <1>7, <1>8, <2>2, <2>3, <2>4 DEF Fits
<1>12. locked = {} /\ m_running_hooks = {} /\ m_buffer_trash = {}
  BY DEF Init
<1> QED
  BY <1>1, <1>2, <1>10, <1>11, <1>12
  DEF ObjectsInv, CallsKnow, ClientsFit, LocksAreHeld, HooksAreRunning, WindowsAreOpen, Apart

-----------------------------------------------------------------------------
(* No step leaves the invariant.                                            *)

LEMMA StutterStep ==
  ASSUME ObjectsInv, UNCHANGED vars
  PROVE  ObjectsInv'
<1>1. /\ UNCHANGED <<m_buffers, m_buffer_trash, locked, m_clients, m_client_trash>>
      /\ UNCHANGED <<m_free_windows, clients, m_running_hooks, hooks, calls>>
  BY DEF vars, server, views, lists, running
<1>2. Calls' = Calls
  BY <1>1 DEF Calls
<1>3. QuietData
  BY <1>1 DEF ObjectsInv, TypeOK, QuietData, Apart, InList
<1>4. ASSUME NEW call \in Calls
      PROVE  Knows(call)'
  <2>1. Knows(call)
    BY DEF ObjectsInv, CallsKnow
  <2>2. (KnowsBuffer(call) /\ KnowsClient(call) /\ KnowsHook(call) /\ KnowsNode(call))'
    BY <1>2, <1>3, <2>1, QuietKnows DEF Knows
  <2>3. GoesOn(call)'
    BY <1>1, <1>2, <2>1 DEF Knows, GoesOn, Context
  <2>4. HeadsThere(call)'
    BY <1>2, <2>1 DEF Knows, HeadsThere
  <2> QED
    BY <2>2, <2>3, <2>4 DEF Knows
<1>5. ASSUME NEW c \in Client
      PROVE  Fits(c)'
  <2>1. StillRefers(c)
    BY <1>1, <1>2 DEF StillRefers, Live, InList
  <2>2. Jumping(c)' <=> Jumping(c)
    BY <1>2 DEF Jumping
  <2>3. Fits(c) /\ clients'[c] = clients[c]
    BY <1>1 DEF ObjectsInv, ClientsFit
  <2> QED
    BY <2>1, <2>2, <2>3, FitsStill
<1>6. LocksAreHeld' /\ HooksAreRunning'
  BY <1>1, <1>2 DEF ObjectsInv, LocksAreHeld, HooksAreRunning, Locks
<1>7. WindowsAreOpen' /\ Apart' /\ TypeOK'
  BY <1>1, <1>2 DEF ObjectsInv, WindowsAreOpen, WindowIsOpen, InList, Apart, TypeOK
<1>8. Stacked(calls')
  BY <1>1 DEF ObjectsInv
<1> QED
  BY <1>2, <1>4, <1>5, <1>6, <1>7, <1>8 DEF ObjectsInv, CallsKnow, ClientsFit

LEMMA CommandStep ==
  ASSUME ObjectsInv, HooksOnlyOpen, EndCreate \/ EditBuffer \/ LeaveBuffer
  PROVE  ObjectsInv'
<1>1. CASE EndCreate
  <2>1. ~Idle /\ It.do = "created"
    BY <1>1 DEF EndCreate, Doing, It
  <2>2. Then(It).do \in {"leave for", "to first buffer"}
    BY <2>1, ItKnows DEF Knows, KnowsBuffer
  <2> QED
    BY <1>1, <2>2, EndCreateInHookStep, EndCreateInSwitchStep, EndCreateForClientStep
<1>2. CASE EditBuffer
  BY <1>2, EditInHookStep, EditForClientStep
<1>3. CASE LeaveBuffer
  BY <1>3, LeaveInHookStep, LeaveBufferStep
<1> QED
  BY <1>1, <1>2, <1>3

LEMMA CallsStep ==
  ASSUME ObjectsInv, HooksOnlyOpen, Step
  PROVE  ObjectsInv'
<1>1. CASE RunHook \/ EndHook
  BY <1>1, RunHookStep, EndHookStep
<1>2. CASE ChangeBuffer \/ ShowBuffer \/ EndShow
  BY <1>2, ChangeBufferStep, ShowBufferStep, EndShowStep
<1>3. CASE EndCreate \/ EditBuffer \/ LeaveBuffer
  BY <1>3, CommandStep
<1>4. CASE GetFirstBuffer \/ RemoveBuffer \/ CloseFreeWindows
  BY <1>4, GetFirstBufferStep, RemoveBufferStep, CloseFreeWindowsStep
<1>5. CASE ForgetBuffer \/ ForgetInHook \/ ForgetHistory
  BY <1>5, ForgetBufferStep, ForgetInHookStep, ForgetHistoryStep
<1>6. CASE DeleteNamed \/ RemoveClient
  BY <1>6, DeleteNamedStep, RemoveClientStep
<1>7. CASE Undo \/ EndUndo \/ SelectJump
  BY <1>7, UndoStep, EndUndoStep, SelectJumpStep
<1>8. CASE OpenWindow \/ CreateClient \/ Join \/ DestroyClient
  BY <1>8, OpenWindowStep, CreateClientStep, JoinStep, DestroyClientStep
<1> QED
  BY <1>1, <1>2, <1>3, <1>4, <1>5, <1>6, <1>7, <1>8 DEF Step

LEMMA PressStep ==
  ASSUME ObjectsInv, NEW c \in Client, Press(c)
  PROVE  ObjectsInv'
<1>1. CASE \E cmd \in KeysOf[c] : Enter(c, cmd)
  BY <1>1, EnterStep
<1>2. CASE Select(c) \/ SaveSelections(c) \/ Escape(c)
  BY <1>2, SelectStep, SaveStep, EscapeStep
<1>3. CASE \E mode \in {"insert", "prompt"} : EnterMode(c, mode)
  BY <1>3, EnterModeStep
<1>4. CASE \E backward \in BOOLEAN : UndoSelections(c, backward)
  BY <1>4, UndoSelectionsStep
<1>5. CASE JumpBackward(c) \/ JumpForward(c) \/ GoToLast(c)
  BY <1>5, JumpBackwardStep, JumpForwardStep, GoToLastStep
<1> QED
  BY <1>1, <1>2, <1>3, <1>4, <1>5 DEF Press

LEMMA ObjectsInvStep ==
  ASSUME ObjectsInv, HooksOnlyOpen, [Next]_vars
  PROVE  ObjectsInv'
<1>1. CASE Step
  BY <1>1, CallsStep
<1>2. ASSUME NEW c \in Client, Press(c) \/ Connect(c)
      PROVE  ObjectsInv'
  BY <1>2, PressStep, ConnectStep
<1>3. CASE ClearTrash
  BY <1>3, ClearTrashStep
<1>4. CASE UNCHANGED vars
  BY <1>4, StutterStep
<1> QED
  BY <1>1, <1>2, <1>3, <1>4 DEF Next

-----------------------------------------------------------------------------
(* What the invariant says between keys.                                    *)

LEMMA ReferredIs ==
  ASSUME ObjectsInv, Idle, NEW c \in Client, c \in ToSet(m_clients)
  PROVE  Referred(clients[c]) \in SUBSET ToSet(m_buffers)
<1>1. Calls = {}
  BY IdleIs
<1>2. PICK client, ctx : client = clients[c] /\ ctx = Context(c)
  OBVIOUS
<1>3. PICK S, J : S = NodesOf(c) /\ J = JumpsOf(c)
  OBVIOUS
<1>4. /\ client.context = ctx /\ ctx \in ContextOf(S, J) /\ client.m_window = BufferOf(ctx)
  BY <1>2, <1>3, ClientIs
<1>5. /\ InList(BufferOf(ctx))
      /\ \A sel \in S : InList(sel.buffer)
      /\ \A sel \in J : InList(sel.buffer)
  BY <1>1, <1>2, <1>3, OfLiveClient
<1>6. ASSUME NEW node \in ToSet(ctx.m_history)
      PROVE  InList(node.sel.buffer)
  <2>1. PICK i \in DOMAIN ctx.m_history : node = ctx.m_history[i]
    BY DEF ToSet
  <2>2. node \in NodeOf(S)
    BY <1>4, <2>1, SoundIs
  <2>3. node.sel \in S
    BY <2>2 DEF NodeOf
  <2> QED
    BY <1>5, <2>3
<1>7. ASSUME NEW jump \in ToSet(ctx.m_jumps)
      PROVE  InList(jump.buffer)
  <2>1. PICK i \in DOMAIN ctx.m_jumps : jump = ctx.m_jumps[i]
    BY DEF ToSet
  <2>2. jump \in J
    BY <1>4, <2>1, SoundIs
  <2> QED
    BY <1>5, <2>2
<1>8. \A buffer \in Referred(client) : InList(buffer)
  BY <1>4, <1>5, <1>6, <1>7 DEF Referred
<1> QED
  BY <1>2, <1>8 DEF InList

LEMMA OfTheInvariant ==
  ASSUME ObjectsInv
  PROVE  NoStaleBuffers /\ WindowShowsSelections /\ HistoriesAreSound
<1>1. CASE ~Idle
  BY <1>1 DEF NoStaleBuffers, WindowShowsSelections, HistoriesAreSound
<1>2. CASE Idle
  <2>1. Calls = {} /\ locked = {} /\ m_running_hooks = {}
    BY <1>2, IdleIs
  <2>2. \A c \in ToSet(m_clients) : c \in Client
    <3>1. ToSet(m_clients) \in SUBSET Client
      BY SeqIsList DEF ObjectsInv, TypeOK
    <3> QED
      BY <3>1
  <2>3. \A w \in ToSet(m_free_windows) : w.buffer = w.sel.buffer /\ InList(w.buffer)
    BY <2>1 DEF ObjectsInv, WindowsAreOpen, WindowIsOpen
  <2>4. NoStaleBuffers
    <3>1. \A c \in ToSet(m_clients) : Referred(clients[c]) \in SUBSET ToSet(m_buffers)
      BY <1>2, <2>2, ReferredIs
    <3>2. \A w \in ToSet(m_free_windows) : w.buffer \in ToSet(m_buffers) /\ w.sel.buffer \in ToSet(m_buffers)
      BY <2>3 DEF InList
    <3> QED
      BY <3>1, <3>2 DEF NoStaleBuffers
  <2>5. WindowShowsSelections
    BY <2>1, <2>2, <2>3, ClientIs DEF WindowShowsSelections
  <2>6. HistoriesAreSound
    BY <1>2, <2>2, ClientIs, IdleClientIs DEF HistoriesAreSound
  <2> QED
    BY <2>4, <2>5, <2>6
<1> QED
  BY <1>1, <1>2

LEMMA HooksAreSet ==
  ASSUME [Next]_vars
  PROVE  hooks' = hooks
<1>1. CASE Step
  <2>1. Throw => UNCHANGED running
    BY DEF Throw
  <2>2. CASE \/ RunHook \/ EndHook
            \/ ChangeBuffer \/ ShowBuffer \/ EndShow
            \/ EndCreate \/ GetFirstBuffer
    BY <2>1, <2>2
    DEF RunHook, EndHook, ChangeBuffer, ShowBuffer, EndShow, EndCreate, GetFirstBuffer, running
  <2>3. CASE \/ RemoveBuffer \/ CloseFreeWindows
            \/ ForgetBuffer \/ ForgetInHook \/ ForgetHistory
    BY <2>1, <2>3
    DEF RemoveBuffer, CloseFreeWindows, ForgetBuffer, ForgetInHook, ForgetHistory, running
  <2>4. CASE EditBuffer \/ LeaveBuffer \/ DeleteNamed \/ RemoveClient
    BY <2>1, <2>4 DEF EditBuffer, LeaveBuffer, DeleteNamed, RemoveClient, running
  <2>5. CASE \/ Undo \/ EndUndo \/ SelectJump
            \/ OpenWindow \/ CreateClient \/ Join \/ DestroyClient
    BY <2>1, <2>5
    DEF Undo, EndUndo, SelectJump, OpenWindow, CreateClient, Join, DestroyClient, running
  <2> QED
    BY <1>1, <2>2, <2>3, <2>4, <2>5 DEF Step
<1>2. ASSUME NEW c \in Client, Press(c) \/ Connect(c)
      PROVE  hooks' = hooks
  <2>1. UNCHANGED running
    BY <1>2
    DEF Press, Connect, Enter, Act, Select, SaveSelections, Escape, EnterMode, UndoSelections,
        JumpBackward, JumpForward, GoToLast, Key
  <2> QED
    BY <2>1 DEF running
<1>3. CASE ClearTrash
  BY <1>3 DEF ClearTrash, running
<1>4. CASE UNCHANGED vars
  BY <1>4 DEF vars, running
<1> QED
  BY <1>1, <1>2, <1>3, <1>4 DEF Next

(* The invariant the properties of the server's objects follow from: what   *)
(* each call in progress has yet to do, which calls may be above which, and *)
(* what a client may refer to as long as a call that will make it forget is *)
(* among them (BufferManager::delete_buffer, Client::change_buffer).        *)
THEOREM ObjectsInvHolds == Spec /\ HooksOnlyOpen => []ObjectsInv
<1>1. Init => ObjectsInv
  BY ObjectsInvInit
<1>2. ObjectsInv /\ HooksOnlyOpen /\ [Next]_vars => ObjectsInv'
  <2> SUFFICES ASSUME ObjectsInv, HooksOnlyOpen, [Next]_vars
               PROVE  ObjectsInv'
    OBVIOUS
  <2> QED
    BY ObjectsInvStep
<1>3. HooksOnlyOpen /\ [Next]_vars => HooksOnlyOpen'
  <2> SUFFICES ASSUME HooksOnlyOpen, [Next]_vars
               PROVE  HooksOnlyOpen'
    OBVIOUS
  <2>1. hooks' = hooks
    BY HooksAreSet
  <2> QED
    BY <2>1 DEF HooksOnlyOpen
<1> QED
  BY <1>1, <1>2, <1>3, PTL DEF Spec

(* Between keys no client and no free window refers to a buffer that is     *)
(* gone, with any number of clients, names and keys and any hooks that open *)
(* files as buffers and windows come and go (Context::forget_buffer,        *)
(* ClientManager::ensure_no_client_uses_buffer).                            *)
THEOREM NoStaleBuffersHolds == Spec /\ HooksOnlyOpen => []NoStaleBuffers
<1>1. ObjectsInv => NoStaleBuffers
  BY OfTheInvariant
<1> QED
  BY <1>1, ObjectsInvHolds, PTL

(* A client's window shows the buffer of its selections between keys, and   *)
(* no buffer stays locked and no hook marked as running                     *)
(* (Client::change_buffer, HookManager::run_hook).                          *)
THEOREM WindowShowsSelectionsHolds == Spec /\ HooksOnlyOpen => []WindowShowsSelections
<1>1. ObjectsInv => WindowShowsSelections
  BY OfTheInvariant
<1> QED
  BY <1>1, ObjectsInvHolds, PTL

(* The history and the jump list of every context are sound between keys,   *)
(* and the only edition open is that of the client's mode                   *)
(* (SelectionHistory::forget_buffer, JumpList::forget_buffer).              *)
THEOREM HistoriesAreSoundHolds == Spec /\ HooksOnlyOpen => []HistoriesAreSound
<1>1. ObjectsInv => HistoriesAreSound
  BY OfTheInvariant
<1> QED
  BY <1>1, ObjectsInvHolds, PTL

=============================================================================
