---------------------------- MODULE BufferProofs ----------------------------
(***************************************************************************)
(* The history of a buffer, for every alphabet and every bound: undo, redo *)
(* and move_to only apply modifications that fit, and a buffer that is not *)
(* modified holds the text it last saved, provided no fifo is opened on a  *)
(* buffer that is being edited (FifoMidEdit = FALSE).                      *)
(***************************************************************************)
EXTENDS Buffer, SequenceTheorems, WellFoundedInduction, TLAPS

(* Texts and modifications: what splicing returns, and that a modification *)
(* that fits is exactly undone by its inverse.                              *)

(* A set of numbers that is not empty has a least element. *)
LEMMA LeastNatural ==
  ASSUME NEW S, S \subseteq Nat, S # {}
  PROVE  \E n \in S : \A k \in S : n <= k
<1> DEFINE Less == {ss \in Nat \X Nat : ss[1] < ss[2]}
<1>1. IsWellFoundedOn(Less, Nat)
  BY NatLessThanWellFounded DEF OpToRel
<1>2. \E n \in S : \A k \in S : ~ (<<k, n>> \in Less)
  <2> HIDE DEF Less
  <2> QED
    BY <1>1, WFMin
<1>3. \A k, n \in Nat : k < n => <<k, n>> \in Less
  OBVIOUS
<1> HIDE DEF Less
<1>4. PICK n \in S : \A k \in S : ~ (<<k, n>> \in Less)
  BY <1>2
<1>5. ASSUME NEW k \in S PROVE n <= k
  <2>1. n \in Nat /\ k \in Nat
    OBVIOUS
  <2>2. ~ (k < n)
    BY <1>3, <1>4, <2>1
  <2> QED
    BY <2>1, <2>2
<1> QED
  BY <1>5

(* A set of numbers below a bound has a greatest element. *)
LEMMA GreatestNatural ==
  ASSUME NEW N \in Nat, NEW S, S \subseteq 0 .. N, S # {}
  PROVE  \E n \in S : \A k \in S : k <= n
<1> DEFINE T == {m \in 0 .. N : N - m \in S}
<1>1. T \subseteq Nat /\ T # {}
  <2>1. PICK s \in S : TRUE
    OBVIOUS
  <2>2. N - s \in T
    BY <2>1
  <2> QED
    BY <2>2
<1>2. PICK m \in T : \A k \in T : m <= k
  <2> HIDE DEF T
  <2> QED BY <1>1, LeastNatural
<1>3. \A k \in S : k <= N - m
  <2> TAKE k \in S
  <2>1. N - k \in T
    OBVIOUS
  <2> QED
    BY <1>2, <2>1
<1> QED
  BY <1>2, <1>3

(* A function on 1 .. n is a sequence. *)
LEMMA FunctionIsText ==
  ASSUME NEW S, NEW n \in Nat, NEW f \in [1 .. n -> S]
  PROVE  f \in Seq(S) /\ Len(f) = n
<1>1. f \in Seq(S)
  BY SeqDef
<1> QED
  BY <1>1, LenProperties

(* Slices and splices are texts, of the lengths one expects. *)
LEMMA SliceIsText ==
  ASSUME NEW t \in Text, NEW pos \in Nat, NEW n \in Nat, pos + n <= Len(t)
  PROVE  Slice(t, pos, n) \in Text /\ Len(Slice(t, pos, n)) = n
<1>1. t \in [1 .. Len(t) -> Char]
  BY LenProperties DEF Text
<1>2. Slice(t, pos, n) \in [1 .. n -> Char]
  BY <1>1 DEF Slice, Text
<1> QED
  BY <1>2, FunctionIsText DEF Text

LEMMA SpliceIsText ==
  ASSUME NEW t \in Text, NEW pos \in Nat, NEW del \in Nat, NEW ins \in Text,
         pos + del <= Len(t)
  PROVE  /\ Splice(t, pos, del, ins) \in Text
         /\ Len(Splice(t, pos, del, ins)) = Len(t) - del + Len(ins)
<1>1. /\ t \in [1 .. Len(t) -> Char] /\ ins \in [1 .. Len(ins) -> Char]
      /\ Len(t) \in Nat /\ Len(ins) \in Nat
  BY LenProperties DEF Text
<1> DEFINE n == Len(t) - del + Len(ins)
<1>2. n \in Nat
  BY <1>1
<1>3. Splice(t, pos, del, ins) \in [1 .. n -> Char]
  BY <1>1, <1>2 DEF Splice
<1> QED
  BY <1>2, <1>3, FunctionIsText DEF Text

LEMMA InverseIsModification ==
  ASSUME NEW m \in Modification
  PROVE  /\ InverseOf(m) \in Modification
         /\ InverseOf(InverseOf(m)) = m
BY DEF Modification, InverseOf

LEMMA ApplyIsText ==
  ASSUME NEW t \in Text, NEW m \in Modification, Fits(m, t)
  PROVE  /\ Apply(m, t) \in Text
         /\ Len(Apply(m, t)) = IF m.type = "Insert"
                               THEN Len(t) + Len(m.content)
                               ELSE Len(t) - Len(m.content)
<1>1. /\ m.pos \in Nat /\ m.content \in Text /\ Len(m.content) \in Nat
      /\ Len(t) \in Nat /\ m.type \in {"Insert", "Erase"}
  BY LenProperties DEF Modification, Text
<1>2. <<>> \in Text /\ Len(<<>>) = 0
  BY EmptySeq DEF Text
<1>3. CASE m.type = "Insert"
  BY <1>1, <1>3, SpliceIsText DEF Apply, Fits
<1>4. CASE m.type = "Erase"
  <2>1. m.pos + Len(m.content) <= Len(t) /\ Apply(m, t) = Splice(t, m.pos, Len(m.content), <<>>)
    BY <1>4 DEF Apply, Fits
  <2>2. /\ Splice(t, m.pos, Len(m.content), <<>>) \in Text
        /\ Len(Splice(t, m.pos, Len(m.content), <<>>)) = Len(t) - Len(m.content) + Len(<<>>)
    BY <1>1, <1>2, <2>1, SpliceIsText
  <2>3. Len(t) - Len(m.content) + Len(<<>>) = Len(t) - Len(m.content)
    BY <1>1, <1>2
  <2>4. Len(Apply(m, t)) = Len(t) - Len(m.content) /\ m.type # "Insert"
    BY <1>4, <2>1, <2>2, <2>3
  <2> QED
    BY <2>1, <2>2, <2>4
<1> QED
  BY <1>1, <1>3, <1>4

(* The inverse of a modification fits where the modification led, and leads *)
(* back where it came from.                                                 *)
THEOREM InverseUndoes ==
  ASSUME NEW t \in Text, NEW m \in Modification, Fits(m, t)
  PROVE  /\ Fits(InverseOf(m), Apply(m, t))
         /\ Apply(InverseOf(m), Apply(m, t)) = t
<1> DEFINE c == m.content
           p == m.pos
           u == Apply(m, t)
           v == Apply(InverseOf(m), u)
<1>1. /\ p \in Nat /\ c \in Text /\ Len(c) \in Nat /\ Len(t) \in Nat
      /\ m.type \in {"Insert", "Erase"} /\ p <= Len(t)
      /\ c \in [1 .. Len(c) -> Char] /\ t \in [1 .. Len(t) -> Char]
      /\ m.pos = p /\ m.content = c
  BY LenProperties DEF Modification, Text, Fits
<1>2. <<>> \in Text /\ Len(<<>>) = 0
  BY EmptySeq DEF Text
<1>3. u \in Text /\ Len(u) \in Nat
  BY ApplyIsText, LenProperties DEF Text
<1> HIDE DEF c, p, u, v
<1>4. CASE m.type = "Insert"
  <2>1. InverseOf(m).type = "Erase" /\ InverseOf(m).pos = p /\ InverseOf(m).content = c
    BY <1>1, <1>4 DEF InverseOf
  <2>2. Len(u) = Len(t) + Len(c)
    BY <1>1, <1>4, ApplyIsText DEF u
  <2>3. \A i \in 1 .. Len(t) + Len(c) :
            u[i] = IF i <= p THEN t[i]
                   ELSE IF i <= p + Len(c) THEN c[i - p] ELSE t[i - Len(c)]
    BY <1>1, <1>4 DEF Apply, Splice, u
  <2>4. Slice(u, p, Len(c)) = c
    <3>1. \A i \in 1 .. Len(c) : u[p + i] = c[i]
      BY <1>1, <2>3
    <3> QED
      BY <1>1, <3>1 DEF Slice
  <2>5. Fits(InverseOf(m), u)
    BY <1>1, <2>1, <2>2, <2>4 DEF Fits
  <2>6. v = [i \in 1 .. Len(t) |-> IF i <= p THEN u[i] ELSE u[i + Len(c)]]
    <3>1. Len(u) - Len(c) + Len(<<>>) = Len(t)
      BY <1>1, <1>2, <2>2
    <3>2. \A i \in 1 .. Len(t) :
             (IF i <= p THEN u[i]
              ELSE IF i <= p + Len(<<>>) THEN <<>>[i - p]
              ELSE u[i - Len(<<>>) + Len(c)])
             = IF i <= p THEN u[i] ELSE u[i + Len(c)]
      BY <1>1, <1>2
    <3>3. v = Splice(u, p, Len(c), <<>>)
      BY <2>1 DEF Apply, v
    <3> QED
      BY <3>1, <3>2, <3>3 DEF Splice
  <2>7. \A i \in 1 .. Len(t) : v[i] = t[i]
    <3> TAKE i \in 1 .. Len(t)
    <3>1. CASE i <= p
      <4>1. i \in 1 .. Len(t) + Len(c)
        BY <1>1
      <4>2. u[i] = t[i]
        BY <2>3, <3>1, <4>1
      <4>3. v[i] = u[i]
        BY <2>6, <3>1
      <4> QED
        BY <4>2, <4>3
    <3>2. CASE p < i
      <4>1. i + Len(c) \in 1 .. Len(t) + Len(c) /\ i + Len(c) > p + Len(c)
        BY <1>1, <3>2
      <4>2. u[i + Len(c)] = t[(i + Len(c)) - Len(c)]
        BY <1>1, <2>3, <4>1
      <4> QED
        BY <1>1, <2>6, <3>2, <4>2
    <3> QED
      BY <1>1, <3>1, <3>2
  <2>8. v = t
    BY <1>1, <2>6, <2>7
  <2> QED
    BY <2>5, <2>8 DEF u, v
<1>5. CASE m.type = "Erase"
  <2>1. InverseOf(m).type = "Insert" /\ InverseOf(m).pos = p /\ InverseOf(m).content = c
    BY <1>1, <1>5 DEF InverseOf
  <2>2. /\ Len(u) = Len(t) - Len(c) /\ p + Len(c) <= Len(t)
        /\ Slice(t, p, Len(c)) = c
    BY <1>1, <1>5, ApplyIsText DEF Fits, u
  <2>3. \A i \in 1 .. Len(u) : u[i] = IF i <= p THEN t[i] ELSE t[i + Len(c)]
    <3>1. u = Splice(t, p, Len(c), <<>>)
      BY <1>1, <1>5 DEF Apply, u
    <3> QED
      BY <1>1, <1>2, <2>2, <3>1 DEF Splice
  <2>4. \A i \in 1 .. Len(c) : t[p + i] = c[i]
    BY <1>1, <2>2 DEF Slice
  <2>5. Fits(InverseOf(m), u)
    BY <1>1, <2>1, <2>2 DEF Fits
  <2>6. v = [i \in 1 .. Len(t) |->
               IF i <= p THEN u[i]
               ELSE IF i <= p + Len(c) THEN c[i - p] ELSE u[i - Len(c)]]
    <3>1. v = Splice(u, p, 0, c)
      BY <2>1 DEF Apply, v
    <3>2. Len(u) - 0 + Len(c) = Len(t)
      BY <1>1, <2>2
    <3>3. \A i \in 1 .. Len(t) : i - Len(c) + 0 = i - Len(c)
      BY <1>1
    <3> QED
      BY <3>1, <3>2, <3>3 DEF Splice
  <2>7. \A i \in 1 .. Len(t) : v[i] = t[i]
    <3> TAKE i \in 1 .. Len(t)
    <3>1. CASE i <= p
      <4>1. i \in 1 .. Len(u)
        BY <1>1, <2>2, <3>1
      <4>2. u[i] = t[i]
        BY <2>3, <3>1, <4>1
      <4>3. v[i] = u[i]
        BY <2>6, <3>1
      <4> QED
        BY <4>2, <4>3
    <3>2. CASE p < i /\ i <= p + Len(c)
      <4>1. t[p + (i - p)] = c[i - p]
        BY <1>1, <2>4, <3>2
      <4> QED
        BY <1>1, <2>6, <3>2, <4>1
    <3>3. CASE p + Len(c) < i
      <4>1. i - Len(c) \in 1 .. Len(u) /\ i - Len(c) > p
        BY <1>1, <2>2, <3>3
      <4>2. u[i - Len(c)] = t[(i - Len(c)) + Len(c)]
        BY <1>1, <2>3, <4>1
      <4> QED
        BY <1>1, <2>6, <3>3, <4>2
    <3> QED
      BY <1>1, <3>1, <3>2, <3>3
  <2>8. v = t
    BY <1>1, <2>6, <2>7
  <2> QED
    BY <2>5, <2>8 DEF u, v
<1> QED
  BY <1>1, <1>4, <1>5 DEF u, v

-----------------------------------------------------------------------------
(* The tree of the history: what the operators on it return, and what    *)
(* commit_undo_group and a recorded edit preserve.                         *)

LEMMA BranchProperties ==
  ASSUME TypeOK, HistoryIsATree, NEW n \in Ids
  PROVE  /\ Branch(n) \subseteq Ids
         /\ n \in Branch(n)
         /\ \A c \in Branch(n) : Parent(c) # Invalid => Parent(c) \in Branch(n)
         /\ First \in Branch(n)
<1>1. Branch(n) \subseteq Ids /\ n \in Branch(n)
  BY DEF Branch
<1>2. ASSUME NEW c \in Branch(n), Parent(c) # Invalid
      PROVE  Parent(c) \in Branch(n)
  <2>1. c \in Ids /\ c # First
    BY <1>1, <1>2 DEF HistoryIsATree, Parent, First, Invalid
  <2>2. Parent(c) \in Ids
    <3>1. Parent(c) \in 1 .. c - 1
      BY <2>1 DEF HistoryIsATree
    <3>2. Len(m_history) \in Nat
      BY LenProperties DEF TypeOK
    <3> QED
      BY <2>1, <3>1, <3>2 DEF Ids
  <2>3. ASSUME NEW S \in SUBSET Ids, n \in S,
               \A k \in S : Parent(k) # Invalid => Parent(k) \in S
        PROVE  Parent(c) \in S
    <3>1. c \in S
      BY <1>2, <2>3 DEF Branch
    <3> QED
      BY <1>2, <2>3, <3>1
  <2> QED
    BY <2>2, <2>3 DEF Branch
<1>3. First \in Branch(n)
  <2>1. Branch(n) \subseteq Nat
    BY <1>1 DEF Ids
  <2>2. PICK r \in Branch(n) : \A k \in Branch(n) : r <= k
    BY <1>1, <2>1, LeastNatural
  <2>3. r = First
    <3> SUFFICES ASSUME r # First PROVE FALSE
      OBVIOUS
    <3>1. r \in Ids
      BY <1>1
    <3>2. Parent(r) \in 1 .. r - 1
      BY <3>1 DEF HistoryIsATree
    <3>3. Parent(r) \in Branch(n)
      BY <1>2, <3>2 DEF Invalid
    <3>4. r <= Parent(r)
      BY <2>2, <3>3
    <3> QED
      BY <2>1, <3>2, <3>4
  <2> QED
    BY <2>3
<1> QED
  BY <1>1, <1>2, <1>3

(* Above n, a branch is the branch of its parent. *)
LEMMA BranchOfParent ==
  ASSUME TypeOK, HistoryIsATree, NEW n \in Ids \ {First}, NEW c \in Branch(n), c # n
  PROVE  Parent(n) \in Ids /\ c \in Branch(Parent(n))
<1>1. Parent(n) \in Ids
  <2>1. Parent(n) \in 1 .. n - 1
    BY DEF HistoryIsATree
  <2>2. Len(m_history) \in Nat
    BY LenProperties DEF TypeOK
  <2> QED
    BY <2>1, <2>2 DEF Ids
<1> DEFINE S == Branch(Parent(n)) \cup {n}
<1>2. S \in SUBSET Ids /\ n \in S
  BY <1>1, BranchProperties
<1>3. \A k \in S : Parent(k) # Invalid => Parent(k) \in S
  BY <1>1, BranchProperties
<1>4. c \in S
  BY <1>2, <1>3 DEF Branch
<1> QED
  BY <1>1, <1>4

(* Below an ancestor of n that is not n, there is another one. *)
LEMMA TowardProperties ==
  ASSUME TypeOK, HistoryIsATree, NEW n \in Ids, NEW c \in Branch(n), c # n
  PROVE  Toward(c, n) \in Branch(n) /\ Parent(Toward(c, n)) = c
<1>1. \E d \in Branch(n) : Parent(d) = c
  <2> SUFFICES ASSUME \A d \in Branch(n) : Parent(d) # c PROVE FALSE
    OBVIOUS
  <2> DEFINE S == Branch(n) \ {c}
  <2>1. S \in SUBSET Ids /\ n \in S
    BY BranchProperties
  <2>2. \A k \in S : Parent(k) # Invalid => Parent(k) \in S
    BY BranchProperties
  <2>3. c \in S
    BY <2>1, <2>2 DEF Branch
  <2> QED
    BY <2>3
<1> QED
  BY <1>1 DEF Toward

LEMMA LowestCommonParentProperties ==
  ASSUME TypeOK, HistoryIsATree, NEW a \in Ids, NEW b \in Ids
  PROVE  LowestCommonParent(a, b) \in Branch(a) \cap Branch(b)
<1> DEFINE S == Branch(a) \cap Branch(b)
<1>1. Len(m_history) \in Nat
  BY LenProperties DEF TypeOK
<1>2. S \subseteq 0 .. Len(m_history) /\ S # {}
  BY <1>1, BranchProperties DEF Ids
<1>3. \E c \in S : \A d \in S : d <= c
  <2> HIDE DEF S
  <2> QED BY <1>1, <1>2, GreatestNatural
<1> QED
  BY <1>3 DEF LowestCommonParent

-----------------------------------------------------------------------------
(* What the operators that build a history return. *)

LEMMA TracesAppend ==
  ASSUME NEW trail \in Seq(Text), NEW g \in Seq(Modification), Traces(trail, g),
         NEW m \in Modification, Fits(m, trail[Len(trail)]),
         NEW u, u = Apply(m, trail[Len(trail)])
  PROVE  /\ Append(trail, u) \in Seq(Text)
         /\ Append(g, m) \in Seq(Modification)
         /\ Traces(Append(trail, u), Append(g, m))
         /\ Append(trail, u)[1] = trail[1]
         /\ Append(trail, u)[Len(Append(trail, u))] = u
<1>1. /\ Len(g) \in Nat /\ Len(trail) = Len(g) + 1 /\ Len(trail) \in 1 .. Len(trail)
  BY LenProperties DEF Traces
<1>2. trail[Len(trail)] \in Text
  BY <1>1, ElementOfSeq
<1>3. u \in Text
  BY <1>2, ApplyIsText
<1>4. /\ Append(trail, u) \in Seq(Text)
      /\ Len(Append(trail, u)) = Len(trail) + 1
      /\ \A i \in 1 .. Len(trail) : Append(trail, u)[i] = trail[i]
      /\ Append(trail, u)[Len(trail) + 1] = u
  BY <1>3, AppendProperties
<1>5. /\ Append(g, m) \in Seq(Modification)
      /\ Len(Append(g, m)) = Len(g) + 1
      /\ \A i \in 1 .. Len(g) : Append(g, m)[i] = g[i]
      /\ Append(g, m)[Len(g) + 1] = m
  BY AppendProperties
<1>6. ASSUME NEW i \in 1 .. Len(g) + 1
      PROVE  /\ Fits(Append(g, m)[i], Append(trail, u)[i])
             /\ Append(trail, u)[i + 1] = Apply(Append(g, m)[i], Append(trail, u)[i])
  <2>1. CASE i = Len(g) + 1
    BY <1>1, <1>4, <1>5, <2>1
  <2>2. CASE i \in 1 .. Len(g)
    <3>1. i \in 1 .. Len(trail) /\ i + 1 \in 1 .. Len(trail)
      BY <1>1, <2>2
    <3> QED
      BY <1>4, <1>5, <2>2, <3>1 DEF Traces
  <2> QED
    BY <1>1, <2>1, <2>2
<1>7. Traces(Append(trail, u), Append(g, m))
  BY <1>1, <1>4, <1>5, <1>6 DEF Traces
<1> QED
  BY <1>1, <1>4, <1>5, <1>7

(* A text on its own is the trail of an empty group. *)
LEMMA SingleTrace ==
  ASSUME NEW t \in Text
  PROVE  <<t>> \in Seq(Text) /\ Traces(<<t>>, <<>>) /\ Len(<<t>>) = 1 /\ <<t>>[1] = t
BY DEF Traces

LEMMA LinkProperties ==
  ASSUME TypeOK, NEW n \in Ids, NEW c \in Nat
  PROVE  /\ LinkRedoChild(n, c) \in Seq(Node)
         /\ Len(LinkRedoChild(n, c)) = Len(m_history)
         /\ \A k \in Ids :
              /\ LinkRedoChild(n, c)[k].parent = Parent(k)
              /\ LinkRedoChild(n, c)[k].undo_group = Group(k)
              /\ LinkRedoChild(n, c)[k].redo_child = IF k = n THEN c ELSE RedoChild(k)
<1>1. /\ m_history \in [1 .. Len(m_history) -> Node] /\ Len(m_history) \in Nat
  BY LenProperties DEF TypeOK
<1> DEFINE nd == [parent |-> Parent(n), redo_child |-> c, undo_group |-> Group(n)]
<1>2. nd \in Node
  BY <1>1 DEF Node, Parent, Group, Ids
<1>3. LinkRedoChild(n, c) = [m_history EXCEPT ![n] = nd]
  BY DEF LinkRedoChild
<1>4. LinkRedoChild(n, c) \in [1 .. Len(m_history) -> Node]
  <2> HIDE DEF nd
  <2> QED BY <1>1, <1>2, <1>3
<1>5. \A k \in Ids : LinkRedoChild(n, c)[k] = IF k = n THEN nd ELSE m_history[k]
  <2> HIDE DEF nd
  <2> QED BY <1>1, <1>3 DEF Ids
<1>6. /\ LinkRedoChild(n, c) \in Seq(Node)
      /\ Len(LinkRedoChild(n, c)) = Len(m_history)
  BY <1>1, <1>4, FunctionIsText
<1> QED
  BY <1>5, <1>6 DEF Parent, Group, RedoChild

(* The trail of a node: a text before and after each of its modifications.  *)
LEMMA SnapshotProperties ==
  ASSUME TypeOK, HistoryIsTraced, NEW n \in Ids
  PROVE  /\ Group(n) \in Seq(Modification) /\ Len(Group(n)) \in Nat
         /\ snapshots[n] \in Seq(Text)
         /\ Len(snapshots[n]) = Len(Group(n)) + 1
         /\ \A i \in 1 .. Len(Group(n)) + 1 : snapshots[n][i] \in Text
         /\ Snapshot(n) = snapshots[n][Len(Group(n)) + 1]
         /\ Snapshot(n) \in Text
<1>1. m_history[n] \in Node
  BY ElementOfSeq DEF TypeOK, Ids
<1>2. Group(n) \in Seq(Modification) /\ Len(Group(n)) \in Nat
  BY <1>1, LenProperties DEF Node, Group
<1>3. snapshots[n] \in Seq(Text)
  BY ElementOfSeq DEF TypeOK, Ids, HistoryIsTraced
<1>4. Len(snapshots[n]) = Len(Group(n)) + 1
  BY DEF HistoryIsTraced, Traces
<1>5. \A i \in 1 .. Len(Group(n)) + 1 : snapshots[n][i] \in Text
  BY <1>3, <1>4, ElementOfSeq
<1> QED
  BY <1>2, <1>3, <1>4, <1>5 DEF Snapshot

-----------------------------------------------------------------------------
(* What commit_undo_group and a recorded edit preserve. *)

LEMMA CommitProperties ==
  ASSUME HistoryInv, m_walk.op \in {"idle", "reload"}, CommitUndoGroup
  PROVE  /\ m_history' \in Seq(Node) /\ m_history' # <<>>
         /\ m_history_id' \in Ids'
         /\ m_current_undo_group' = <<>>
         /\ snapshots' \in Seq(Seq(Text)) /\ pending' \in Seq(Text)
         /\ HistoryIsATree'
         /\ HistoryIsTraced'
         /\ Snapshot(m_history_id)' = text
         /\ Len(pending') = 1 /\ pending'[1] = text
         /\ \A n \in Ids : n \in Ids' /\ Snapshot(n)' = Snapshot(n)
         /\ NoUndo => m_history' = m_history
<1> USE DEF HistoryInv
<1>1. Len(m_history) \in Nat /\ m_history_id \in Ids /\ First \in Ids
  BY LenProperties DEF TypeOK, Ids, First
<1>2. /\ Traces(pending, m_current_undo_group)
      /\ pending[1] = Snapshot(m_history_id)
      /\ pending[Len(pending)] = text
  BY DEF CurrentGroupIsTraced
<1>3. CASE NoUndo \/ m_current_undo_group = <<>>
  <2>1. m_current_undo_group = <<>>
    BY <1>3 DEF NoUndoNoHistory
  <2>2. Len(pending) = 1 /\ pending[1] = text
    BY <1>2, <2>1 DEF Traces
  <2>3. UNCHANGED <<m_history, m_history_id, m_current_undo_group, snapshots, pending>>
    BY <1>3 DEF CommitUndoGroup
  <2>4. /\ HistoryIsATree' /\ HistoryIsTraced'
        /\ Snapshot(m_history_id)' = Snapshot(m_history_id)
        /\ Ids' = Ids
        /\ \A n \in Ids : Snapshot(n)' = Snapshot(n)
    BY <2>3 DEF HistoryIsATree, HistoryIsTraced, Ids, Parent, Group, RedoChild,
                Snapshot
  <2> QED
    BY <1>1, <1>2, <2>1, <2>2, <2>3, <2>4 DEF TypeOK
<1>4. CASE ~NoUndo /\ m_current_undo_group # <<>>
  <2>0. PICK L \in Nat : L = Len(m_history)
    BY <1>1
  <2> DEFINE linked == LinkRedoChild(m_history_id, L + 1)
             new == [parent |-> m_history_id, redo_child |-> Invalid,
                     undo_group |-> m_current_undo_group]
  <2>1. /\ m_history' = Append(linked, new) /\ m_history_id' = L + 1
        /\ m_current_undo_group' = <<>>
        /\ snapshots' = Append(snapshots, pending) /\ pending' = <<text>>
    <3>1. /\ m_history' = Append(LinkRedoChild(m_history_id, NextHistoryId), new)
          /\ m_history_id' = NextHistoryId
          /\ m_current_undo_group' = <<>>
          /\ snapshots' = Append(snapshots, pending) /\ pending' = <<text>>
      BY <1>4, Zenon DEF CommitUndoGroup
    <3>2. NextHistoryId = L + 1
      BY <2>0 DEF NextHistoryId
    <3> QED
      BY <3>1, <3>2
  <2>2. new \in Node
    BY <1>1 DEF TypeOK, Node, Ids, Invalid
  <2>3. /\ linked \in Seq(Node) /\ Len(linked) = L
        /\ \A k \in Ids : /\ linked[k].parent = Parent(k)
                          /\ linked[k].undo_group = Group(k)
                          /\ linked[k].redo_child = IF k = m_history_id THEN L + 1
                                                    ELSE RedoChild(k)
    BY <1>1, <2>0, LinkProperties
  <2> HIDE DEF linked, new
  <2>4. /\ m_history' \in Seq(Node) /\ m_history' # <<>> /\ Len(m_history') = L + 1
        /\ \A k \in Ids : m_history'[k] = linked[k]
        /\ m_history'[L + 1] = new
    <3>1. /\ Append(linked, new) \in Seq(Node) /\ Len(Append(linked, new)) = L + 1
          /\ \A k \in 1 .. L : Append(linked, new)[k] = linked[k]
          /\ Append(linked, new)[L + 1] = new
      BY <2>2, <2>3, AppendProperties
    <3> QED
      BY <2>0, <2>1, <3>1 DEF Ids
  <2>5. Ids' = Ids \cup {L + 1} /\ L + 1 \notin Ids
    BY <1>1, <2>0, <2>4 DEF Ids
  <2>6. /\ snapshots' \in Seq(Seq(Text)) /\ Len(snapshots') = L + 1
        /\ \A k \in Ids : snapshots'[k] = snapshots[k]
        /\ snapshots'[L + 1] = pending
    BY <2>0, <2>1, AppendProperties DEF TypeOK, HistoryIsTraced, Ids
  <2>7. \A k \in Ids : /\ Parent(k)' = Parent(k) /\ Group(k)' = Group(k)
                       /\ RedoChild(k)' = IF k = m_history_id THEN L + 1 ELSE RedoChild(k)
                       /\ Snapshot(k)' = Snapshot(k)
    BY <2>3, <2>4, <2>6 DEF Parent, Group, RedoChild, Snapshot
  <2>8. /\ Parent(L + 1)' = m_history_id /\ RedoChild(L + 1)' = Invalid
        /\ Group(L + 1)' = m_current_undo_group
        /\ Snapshot(L + 1)' = text
    BY <1>2, <2>4, <2>6 DEF new, Parent, Group, RedoChild, Snapshot
  <2>9. HistoryIsATree'
    <3>1. (m_history[First].parent = Invalid)'
      BY <1>1, <2>7 DEF HistoryIsATree, Parent
    <3>2. ASSUME NEW n \in Ids' \ {First}
          PROVE  Parent(n)' \in 1 .. n - 1 /\ Group(n)' # <<>>
      <4>1. CASE n \in Ids
        BY <2>7, <4>1 DEF HistoryIsATree
      <4>2. CASE n = L + 1
        BY <1>1, <1>4, <2>0, <2>8, <4>2 DEF Ids
      <4> QED
        BY <2>5, <4>1, <4>2
    <3>3. ASSUME NEW n \in Ids', RedoChild(n)' # Invalid
          PROVE  RedoChild(n)' \in Ids' /\ m_history'[RedoChild(n)'].parent = n
      <4>1. CASE n = m_history_id
        <5>1. RedoChild(n)' = L + 1
          BY <1>1, <2>7, <4>1
        <5> QED
          BY <2>5, <2>8, <4>1, <5>1 DEF Parent
      <4>2. CASE n \in Ids /\ n # m_history_id
        <5>1. RedoChild(n)' = RedoChild(n)
          BY <2>7, <4>2
        <5>2. RedoChild(n) \in Ids /\ Parent(RedoChild(n)) = n
          BY <3>3, <4>2, <5>1 DEF HistoryIsATree
        <5> QED
          BY <2>5, <2>7, <5>1, <5>2 DEF Parent
      <4>3. CASE n = L + 1
        BY <2>8, <3>3, <4>3
      <4> QED
        BY <2>5, <4>1, <4>2, <4>3
    <3> QED
      BY <3>1, <3>2, <3>3 DEF HistoryIsATree, Parent
  <2>10. HistoryIsTraced'
    <3>1. (Len(snapshots) = Len(m_history))'
      BY <2>4, <2>6
    <3>2. ASSUME NEW n \in Ids'
          PROVE  /\ Traces(snapshots'[n], Group(n)')
                 /\ n # First => snapshots'[n][1] = snapshots'[m_history'[n].parent][Len(snapshots'[m_history'[n].parent])]
      <4>1. CASE n \in Ids
        <5>1. Traces(snapshots'[n], Group(n)')
          BY <2>6, <2>7, <4>1 DEF HistoryIsTraced
        <5>2. n # First => Parent(n) \in Ids
          BY <1>1, <4>1 DEF HistoryIsATree, Ids
        <5>3. n # First => snapshots[n][1] = Snapshot(Parent(n))
          BY <4>1 DEF HistoryIsTraced
        <5> QED
          BY <2>6, <2>7, <4>1, <5>1, <5>2, <5>3 DEF Parent, Snapshot
      <4>2. CASE n = L + 1
        BY <1>1, <1>2, <2>6, <2>7, <2>8, <4>2 DEF Parent, Snapshot
      <4> QED
        BY <2>5, <4>1, <4>2
    <3> QED
      BY <3>1, <3>2 DEF HistoryIsTraced, Parent, Snapshot
  <2>11. pending' \in Seq(Text) /\ Len(pending') = 1 /\ pending'[1] = text
    BY <2>1, SingleTrace DEF TypeOK
  <2>12. Snapshot(m_history_id)' = text
    <3>1. Snapshot(m_history_id)' = Snapshot(L + 1)'
      BY <2>1 DEF Snapshot
    <3> QED
      BY <2>8, <3>1
  <2>13. \A n \in Ids : n \in Ids' /\ Snapshot(n)' = Snapshot(n)
    BY <2>5, <2>7
  <2>14. m_history_id' \in Ids'
    BY <2>1, <2>5
  <2> QED
    BY <1>4, <2>1, <2>4, <2>6, <2>9, <2>10, <2>11, <2>12, <2>13, <2>14
<1> QED
  BY <1>3, <1>4

(* What an edit does to the history: the current group stays traced, and    *)
(* nothing else moves, unless no undo data is kept.                         *)
Recorded ==
    /\ text' \in Text
    /\ m_current_undo_group' \in Seq(Modification)
    /\ snapshots' \in Seq(Seq(Text)) /\ pending' \in Seq(Text)
    /\ HistoryIsTraced'
    /\ Traces(pending', m_current_undo_group')
    /\ pending'[1] = Snapshot(m_history_id)'
    /\ pending'[Len(pending')] = text'
    /\ IF NoUndo THEN m_current_undo_group' = <<>> ELSE snapshots' = snapshots

(* The text of a buffer that keeps no undo data is changed. *)
LEMMA AmendProperties ==
  ASSUME HistoryInv, NoUndo, text' \in Text, pending' = <<text'>>,
         snapshots' = [snapshots EXCEPT ![m_history_id] = <<text'>>],
         UNCHANGED <<m_flags, history, m_current_undo_group>>
  PROVE  Recorded
<1> USE DEF HistoryInv
<1>1. m_history = <<Root>> /\ m_current_undo_group = <<>>
  BY DEF NoUndoNoHistory
<1>2. Ids = {First} /\ m_history_id = First /\ Len(m_history) = 1
  BY <1>1 DEF Ids, First, TypeOK
<1>3. /\ snapshots' \in Seq(Seq(Text)) /\ Len(snapshots') = 1
      /\ snapshots'[First] = <<text'>>
  <2>1. snapshots \in [1 .. 1 -> Seq(Text)]
    BY <1>2, LenProperties DEF TypeOK, HistoryIsTraced
  <2>2. <<text'>> \in Seq(Text)
    BY SingleTrace
  <2>3. snapshots' \in [1 .. 1 -> Seq(Text)] /\ snapshots'[First] = <<text'>>
    BY <1>2, <2>1, <2>2 DEF First
  <2> QED
    BY <2>3, FunctionIsText
<1>4. Group(First)' = <<>>
  BY <1>1 DEF Group, First, history, Root
<1>5. HistoryIsTraced'
  <2>1. Ids' = {First}
    BY <1>2 DEF history, Ids
  <2>2. Len(m_history') = 1
    BY <1>2 DEF history
  <2>3. Traces(snapshots'[First], Group(First)')
    BY <1>3, <1>4, SingleTrace
  <2> QED
    BY <1>3, <2>1, <2>2, <2>3 DEF HistoryIsTraced
<1>6. Snapshot(m_history_id)' = text'
  BY <1>2, <1>3, SingleTrace DEF history, Snapshot
<1> QED
  BY <1>1, <1>3, <1>5, <1>6, SingleTrace DEF TypeOK, Recorded

(* A modification that fits is made. *)
LEMMA EditProperties ==
  ASSUME HistoryInv, m_walk.op \in {"idle", "reload", "replace"},
         NEW m \in Modification, Fits(m, text), Edit(m),
         UNCHANGED <<m_flags, history>>
  PROVE  Recorded
<1> USE DEF HistoryInv
<1>1. text' \in Text /\ text' = Apply(m, text)
  BY ApplyIsText DEF Edit, TypeOK
<1>2. /\ Traces(pending, m_current_undo_group)
      /\ pending[1] = Snapshot(m_history_id)
      /\ pending[Len(pending)] = text
  BY DEF CurrentGroupIsTraced
<1>3. CASE NoUndo
  BY <1>1, <1>3, AmendProperties DEF Edit
<1>4. CASE ~NoUndo
  <2>1. /\ m_current_undo_group' = Append(m_current_undo_group, m)
        /\ pending' = Append(pending, text') /\ snapshots' = snapshots
    BY <1>4 DEF Edit
  <2>2. HistoryIsTraced'
    BY <2>1 DEF HistoryIsTraced, history, Ids, Group, Parent, Snapshot
  <2>3. Snapshot(m_history_id)' = Snapshot(m_history_id)
    BY <2>1 DEF Snapshot, history
  <2>4. /\ pending' \in Seq(Text) /\ m_current_undo_group' \in Seq(Modification)
        /\ Traces(pending', m_current_undo_group')
        /\ pending'[1] = pending[1] /\ pending'[Len(pending')] = text'
    <3>1. pending \in Seq(Text) /\ m_current_undo_group \in Seq(Modification)
      BY DEF TypeOK
    <3>2. Fits(m, pending[Len(pending)]) /\ text' = Apply(m, pending[Len(pending)])
      BY <1>1, <1>2
    <3>3. /\ Append(pending, text') \in Seq(Text)
          /\ Append(m_current_undo_group, m) \in Seq(Modification)
          /\ Traces(Append(pending, text'), Append(m_current_undo_group, m))
          /\ Append(pending, text')[1] = pending[1]
          /\ Append(pending, text')[Len(Append(pending, text'))] = text'
      BY <1>2, <3>1, <3>2, TracesAppend
    <3> QED
      BY <2>1, <3>3
  <2>5. snapshots' \in Seq(Seq(Text)) /\ pending'[1] = Snapshot(m_history_id)'
    BY <1>2, <2>1, <2>3, <2>4 DEF TypeOK
  <2> QED
    BY <1>1, <1>4, <2>1, <2>2, <2>4, <2>5 DEF Recorded
<1> QED
  BY <1>3, <1>4

-----------------------------------------------------------------------------
(* The modifications made by the calls fit the text they are made to. *)

LEMMA InsertionFits ==
  ASSUME NEW t \in Text, NEW pos \in Nat, pos <= Len(t),
         NEW s \in Text, s # <<>>
  PROVE  InsertionAt(t, pos, s) \in Modification /\ Fits(InsertionAt(t, pos, s), t)
<1> DEFINE c == IF pos = Len(t) /\ s[Len(s)] # EOL THEN Append(s, EOL) ELSE s
<1>1. c \in Text
  BY AppendProperties, CharAssumption DEF Text
<1>2. InsertionAt(t, pos, s) = [type |-> "Insert", pos |-> pos, content |-> c]
  BY DEF InsertionAt, Insertion
<1> HIDE DEF c
<1> QED
  BY <1>1, <1>2 DEF Modification, Fits

LEMMA ErasureFits ==
  ASSUME NEW t \in Text, NEW pos \in Nat, NEW n \in Nat, pos + n <= Len(t)
  PROVE  /\ Erasure(pos, Slice(t, pos, n)) \in Modification
         /\ Fits(Erasure(pos, Slice(t, pos, n)), t)
         /\ Apply(Erasure(pos, Slice(t, pos, n)), t) \in Text
         /\ Len(Apply(Erasure(pos, Slice(t, pos, n)), t)) = Len(t) - n
<1> DEFINE c == Slice(t, pos, n)
           m == Erasure(pos, c)
<1>1. c \in Text /\ Len(c) = n
  BY SliceIsText
<1>2. Len(t) \in Nat
  BY LenProperties DEF Text
<1>3. m = [type |-> "Erase", pos |-> pos, content |-> c]
  BY DEF Erasure
<1>4. Slice(t, pos, Len(c)) = c
  BY <1>1
<1> HIDE DEF c, m
<1>5. m \in Modification /\ Fits(m, t)
  BY <1>1, <1>2, <1>3, <1>4 DEF Modification, Fits
<1>6. Apply(m, t) \in Text /\ Len(Apply(m, t)) = Len(t) - n
  BY <1>1, <1>3, <1>5, ApplyIsText
<1> QED
  BY <1>5, <1>6 DEF m, c

(* Edits leave the last line ended. *)

LEMMA InsertionKeepsEol ==
  ASSUME NEW t \in Text, NEW pos \in Nat, pos <= Len(t), EndsWithEol(t),
         NEW s \in Text, s # <<>>
  PROVE  EndsWithEol(Apply(InsertionAt(t, pos, s), t))
<1> DEFINE c == IF pos = Len(t) /\ s[Len(s)] # EOL THEN Append(s, EOL) ELSE s
           u == Splice(t, pos, 0, c)
<1>1. c \in Text /\ Len(c) \in Nat /\ Len(c) > 0
  <2>1. Len(s) \in Nat /\ Len(s) # 0
    BY LenProperties, EmptySeq DEF Text
  <2>2. Append(s, EOL) \in Text /\ Len(Append(s, EOL)) = Len(s) + 1
    BY AppendProperties, CharAssumption DEF Text
  <2> QED
    BY <2>1, <2>2
<1>2. pos = Len(t) => c[Len(c)] = EOL
  BY AppendProperties, CharAssumption DEF Text
<1>3. Apply(InsertionAt(t, pos, s), t) = u
  BY DEF Apply, InsertionAt, Insertion
<1>4. Len(t) \in Nat /\ t[Len(t)] = EOL
  BY LenProperties DEF Text, EndsWithEol
<1> HIDE DEF c
<1>5. u \in Text /\ Len(u) = Len(t) + Len(c)
  BY <1>1, <1>4, SpliceIsText
<1>6. u[Len(t) + Len(c)] = EOL
  <2>1. u[Len(t) + Len(c)] = IF pos = Len(t) THEN c[Len(c)] ELSE t[Len(t)]
    BY <1>1, <1>4 DEF Splice
  <2> QED
    BY <1>2, <1>4, <2>1
<1>7. u # <<>>
  BY <1>1, <1>4, <1>5, EmptySeq
<1> HIDE DEF u
<1> QED
  BY <1>3, <1>5, <1>6, <1>7 DEF EndsWithEol

LEMMA ErasureKeepsEol ==
  ASSUME NEW t \in Text, EndsWithEol(t), NEW b \in Nat, NEW n \in Nat,
         b + n <= Len(t), b + n < Len(t) \/ (b > 0 /\ t[b] = EOL)
  PROVE  EndsWithEol(Apply(Erasure(b, Slice(t, b, n)), t))
<1> DEFINE u == Splice(t, b, n, <<>>)
<1>1. Len(t) \in Nat /\ t[Len(t)] = EOL
  BY LenProperties DEF Text, EndsWithEol
<1>2. Apply(Erasure(b, Slice(t, b, n)), t) = u
  BY <1>1, SliceIsText DEF Apply, Erasure
<1>3. u \in Text /\ Len(u) = Len(t) - n
  <2>1. <<>> \in Text /\ Len(<<>>) = 0
    BY EmptySeq DEF Text
  <2> QED
    BY <1>1, <2>1, SpliceIsText
<1>4. u[Len(t) - n] = EOL /\ Len(t) - n > 0
  <2>1. Len(t) - n > 0
    BY <1>1
  <2>2. u[Len(t) - n] = IF Len(t) - n <= b THEN t[Len(t) - n] ELSE t[Len(t)]
    BY <1>1, <2>1, EmptySeq DEF Splice
  <2> QED
    BY <1>1, <2>1, <2>2
<1>5. u # <<>>
  BY <1>3, <1>4, EmptySeq
<1> HIDE DEF u
<1> QED
  BY <1>2, <1>3, <1>4, <1>5 DEF EndsWithEol

LEMMA EraseEndProperties ==
  ASSUME NEW t \in Text, NEW b \in 0 .. Len(t), NEW e \in 0 .. Len(t),
         b < EraseEnd(t, b, e)
  PROVE  /\ EraseEnd(t, b, e) \in b + 1 .. Len(t)
         /\ EraseEnd(t, b, e) < Len(t) \/ (b > 0 /\ t[b] = EOL)
<1>1. Len(t) \in Nat
  BY LenProperties DEF Text
<1> QED
  BY <1>1 DEF EraseEnd, InsideLine

(* What comes out of a fifo leaves the last line ended. *)
LEMMA ReceivedIsText ==
  ASSUME NEW t \in Text, EndsWithEol(t), NEW s \in Text, s # <<>>,
         NEW scroll \in AutoScroll, NEW had \in BOOLEAN
  PROVE  Received(t, s, scroll, had) \in Text /\ EndsWithEol(Received(t, s, scroll, had))
<1>1. PICK pos : pos = ReadPosition(t, scroll, had)
  OBVIOUS
<1>2. /\ Len(t) \in Nat /\ Len(t) > 0 /\ Len(s) \in Nat /\ Len(s) > 0
  BY LenProperties, EmptySeq DEF Text, EndsWithEol
<1>3. pos \in Nat /\ pos <= Len(t) /\ (scroll = "No" /\ ~had /\ ~IsFirst(t) => pos = Len(t) - 1)
  BY <1>1, <1>2 DEF ReadPosition
<1>4. PICK u : u = Apply(InsertionAt(t, pos, s), t)
  OBVIOUS
<1>5. u \in Text /\ EndsWithEol(u) /\ Len(u) \in Nat /\ Len(u) >= Len(t) + Len(s)
  <2> DEFINE m == InsertionAt(t, pos, s)
  <2>1. m \in Modification /\ Fits(m, t)
    BY <1>3, InsertionFits
  <2>2. m.type = "Insert" /\ Len(m.content) \in Nat /\ Len(m.content) >= Len(s)
    <3>1. Append(s, EOL) \in Text /\ Len(Append(s, EOL)) = Len(s) + 1
      BY AppendProperties, CharAssumption DEF Text
    <3>2. m.type = "Insert" /\ m.content \in {s, Append(s, EOL)}
      BY DEF InsertionAt, Insertion
    <3> QED
      BY <1>2, <3>1, <3>2
  <2>3. u \in Text /\ Len(u) = Len(t) + Len(m.content)
    BY <1>4, <2>1, <2>2, ApplyIsText
  <2>4. EndsWithEol(u)
    BY <1>3, <1>4, InsertionKeepsEol
  <2> QED
    BY <1>2, <2>2, <2>3, <2>4
<1>6. ASSUME NEW b \in Nat, b + 1 < Len(u)
      PROVE  Splice(u, b, 1, <<>>) \in Text /\ EndsWithEol(Splice(u, b, 1, <<>>))
  <2>1. b + 1 <= Len(u) /\ 1 \in Nat
    BY <1>5, <1>6
  <2>2. Len(Slice(u, b, 1)) = 1
    BY <1>5, <2>1, SliceIsText
  <2>3. Apply(Erasure(b, Slice(u, b, 1)), u) = Splice(u, b, 1, <<>>)
    BY <2>2 DEF Apply, Erasure
  <2> QED
    BY <1>5, <1>6, <2>1, <2>3, ErasureFits, ErasureKeepsEol
<1>7. PICK v : v = Splice(u, 0, 1, <<>>)
  OBVIOUS
<1>8. v \in Text /\ EndsWithEol(v) /\ Len(v) \in Nat
  <2>1. 0 \in Nat /\ 0 + 1 < Len(u)
    BY <1>2, <1>5
  <2> QED
    BY <1>6, <1>7, <2>1, LenProperties DEF Text
<1>9. Splice(v, Len(v), 0, <<EOL>>) \in Text /\ EndsWithEol(Splice(v, Len(v), 0, <<EOL>>))
  <2>1. <<EOL>> \in Text /\ <<EOL>> # <<>> /\ <<EOL>>[Len(<<EOL>>)] = EOL
    BY CharAssumption DEF Text
  <2>2. InsertionAt(v, Len(v), <<EOL>>) = Insertion(Len(v), <<EOL>>)
    BY <2>1 DEF InsertionAt
  <2>3. Apply(InsertionAt(v, Len(v), <<EOL>>), v) = Splice(v, Len(v), 0, <<EOL>>)
    BY <2>2 DEF Apply, Insertion
  <2>4. Len(v) <= Len(v)
    BY <1>8
  <2>5. /\ InsertionAt(v, Len(v), <<EOL>>) \in Modification
        /\ Fits(InsertionAt(v, Len(v), <<EOL>>), v)
    BY <1>8, <2>1, <2>4, InsertionFits
  <2>6. Apply(InsertionAt(v, Len(v), <<EOL>>), v) \in Text
    BY <1>8, <2>5, ApplyIsText
  <2>7. EndsWithEol(Apply(InsertionAt(v, Len(v), <<EOL>>), v))
    BY <1>8, <2>1, <2>4, InsertionKeepsEol
  <2> QED
    BY <2>3, <2>6, <2>7
<1>10. CASE scroll # "Yes" /\ IsFirst(t)
  BY <1>1, <1>4, <1>7, <1>8, <1>9, <1>10 DEF Received
<1>11. CASE ~(scroll # "Yes" /\ IsFirst(t)) /\ scroll = "No" /\ ~had /\ EndsWithEol(s)
  <2>1. pos + Len(s) - 1 \in Nat /\ (pos + Len(s) - 1) + 1 < Len(u)
    BY <1>2, <1>3, <1>5, <1>11
  <2>2. Received(t, s, scroll, had) = Splice(u, pos + Len(s) - 1, 1, <<>>)
    BY <1>1, <1>4, <1>11 DEF Received
  <2> QED
    BY <1>6, <2>1, <2>2
<1>12. CASE ~(scroll # "Yes" /\ IsFirst(t)) /\ ~(scroll = "No" /\ ~had /\ EndsWithEol(s))
  BY <1>1, <1>4, <1>5, <1>12 DEF Received
<1> QED
  BY <1>10, <1>11, <1>12

LEMMA FirstLineProperties ==
  ASSUME NEW t \in Text, EndsWithEol(t)
  PROVE  /\ FirstLine(t) \in 1 .. Len(t) /\ t[FirstLine(t)] = EOL
         /\ Slice(t, 0, FirstLine(t)) \in Text
         /\ Len(Slice(t, 0, FirstLine(t))) = FirstLine(t)
         /\ Slice(t, FirstLine(t), Len(t) - FirstLine(t)) \in Text
         /\ Slice(t, FirstLine(t), Len(t) - FirstLine(t)) # <<>> =>
              EndsWithEol(Slice(t, FirstLine(t), Len(t) - FirstLine(t)))
<1>1. Len(t) \in Nat /\ Len(t) # 0 /\ t[Len(t)] = EOL
  BY LenProperties, EmptySeq DEF Text, EndsWithEol
<1> DEFINE S == {n \in 1 .. Len(t) : t[n] = EOL}
<1>2. \E n \in S : \A k \in S : n <= k
  <2>1. S \subseteq Nat /\ S # {}
    BY <1>1
  <2> HIDE DEF S
  <2> QED
    BY <2>1, LeastNatural
<1>3. \E n \in 1 .. Len(t) : t[n] = EOL /\ \A k \in 1 .. n - 1 : t[k] # EOL
  <2>1. PICK n \in S : \A k \in S : n <= k
    BY <1>2
  <2>2. \A k \in 1 .. n - 1 : t[k] # EOL
    BY <1>1, <2>1
  <2> QED
    BY <2>1, <2>2
<1>4. FirstLine(t) \in 1 .. Len(t) /\ t[FirstLine(t)] = EOL
  BY <1>3 DEF FirstLine
<1>5. PICK n \in 1 .. Len(t) : n = FirstLine(t)
  BY <1>4
<1>6. Slice(t, 0, n) \in Text /\ Len(Slice(t, 0, n)) = n
  BY <1>1, <1>5, SliceIsText
<1>7. /\ Slice(t, n, Len(t) - n) \in Text
      /\ Len(Slice(t, n, Len(t) - n)) = Len(t) - n
  BY <1>1, <1>5, SliceIsText
<1>8. ASSUME Slice(t, n, Len(t) - n) # <<>> PROVE EndsWithEol(Slice(t, n, Len(t) - n))
  <2>1. Len(t) - n # 0
    BY <1>7, <1>8, EmptySeq DEF Text
  <2>2. Slice(t, n, Len(t) - n)[Len(t) - n] = t[Len(t)]
    BY <1>1, <1>5, <2>1 DEF Slice
  <2> QED
    BY <1>1, <1>7, <1>8, <2>2 DEF EndsWithEol
<1> QED
  BY <1>4, <1>5, <1>6, <1>7, <1>8

LEMMA LastLineStartProperties ==
  ASSUME NEW t \in Text, Len(t) > 0
  PROVE  LastLineStart(t) \in 0 .. Len(t) - 1
<1>1. Len(t) \in Nat
  BY LenProperties DEF Text
<1> DEFINE S == {p \in 0 .. Len(t) - 1 : ~InsideLine(t, p)}
<1>2. \E p \in S : \A k \in S : k <= p
  <2>1. S \subseteq 0 .. Len(t) /\ S # {}
    BY <1>1 DEF InsideLine
  <2> HIDE DEF S
  <2> QED
    BY <1>1, <2>1, GreatestNatural
<1>3. \E p \in 0 .. Len(t) - 1 :
         ~InsideLine(t, p) /\ \A k \in p + 1 .. Len(t) - 1 : t[k] # EOL
  <2>1. PICK p \in S : \A k \in S : k <= p
    BY <1>2
  <2>2. \A k \in p + 1 .. Len(t) - 1 : t[k] # EOL
    BY <1>1, <2>1 DEF InsideLine
  <2> QED
    BY <2>1, <2>2
<1> QED
  BY <1>3 DEF LastLineStart

-----------------------------------------------------------------------------
(* What the invariant says at rest, and three ways to step from it. *)

LEMMA AtRest ==
  ASSUME HistoryInv
  PROVE  /\ TypeOK /\ HistoryIsATree /\ HistoryIsTraced
         /\ text \in Text /\ Len(text) \in Nat
         /\ Len(m_history) \in Nat /\ First \in Ids /\ m_history_id \in Ids
         /\ m_walk \in Walks
         /\ m_walk.op \in {"idle", "replace", "move"} => EndsWithEol(text)
<1>1. TypeOK
  BY DEF HistoryInv
<1>2. Len(text) \in Nat /\ Len(m_history) \in Nat /\ First \in Ids
  BY <1>1, LenProperties, EmptySeq DEF TypeOK, Text, Ids, First
<1> QED
  BY <1>1, <1>2 DEF HistoryInv, TypeOK, LinesAreEnded

(* The text is edited by a call that leaves the rest alone. *)
LEMMA RecordedPreserves ==
  ASSUME HistoryInv, Recorded,
         UNCHANGED <<m_flags, history, m_last_save_history_id, saved>>,
         m_walk' \in Walks, m_walk'.op \in {"idle", "reload", "replace"},
         NoUndo => m_walk'.op # "reload",
         m_walk'.op # "reload" => EndsWithEol(text'),
         incoming' \in Text, WalkIsOnTrack'
  PROVE  HistoryInv'
<1>1. /\ TypeOK /\ HistoryIsATree /\ NoUndoNoHistory /\ SavedNodeIsSaved
      /\ VersionsAreEnded
  BY DEF HistoryInv
<1>2. /\ text' \in Text
      /\ m_current_undo_group' \in Seq(Modification)
      /\ snapshots' \in Seq(Seq(Text)) /\ pending' \in Seq(Text)
      /\ HistoryIsTraced'
      /\ Traces(pending', m_current_undo_group')
      /\ pending'[1] = Snapshot(m_history_id)'
      /\ pending'[Len(pending')] = text'
      /\ NoUndo => m_current_undo_group' = <<>>
      /\ ~NoUndo => snapshots' = snapshots
  BY DEF Recorded
<1>3. m_flags' = m_flags /\ m_history' = m_history /\ m_history_id' = m_history_id
  BY DEF history
<1>4. TypeOK'
  BY <1>1, <1>2, <1>3 DEF TypeOK, Ids
<1>5. HistoryIsATree'
  BY <1>1, <1>3 DEF HistoryIsATree, Ids, Parent, Group, RedoChild
<1>6. CurrentGroupIsTraced'
  BY <1>2 DEF CurrentGroupIsTraced
<1>7. NoUndoNoHistory'
  BY <1>1, <1>2, <1>3 DEF NoUndoNoHistory, NoUndo
<1>8. SavedNodeIsSaved'
  <2> SUFFICES ASSUME "File" \in m_flags', m_last_save_history_id' # Invalid
               PROVE  saved' = Snapshot(m_last_save_history_id)'
    BY DEF SavedNodeIsSaved
  <2>1. m_last_save_history_id \in Ids
    BY <1>1 DEF TypeOK
  <2>2. ~NoUndo
    BY <1>1, <1>3 DEF NoUndoNoHistory
  <2>3. Snapshot(m_last_save_history_id)' = Snapshot(m_last_save_history_id)
    BY <1>2, <2>2 DEF Snapshot
  <2> QED
    BY <1>1, <1>3, <2>3 DEF SavedNodeIsSaved
<1>9. LinesAreEnded'
  BY DEF LinesAreEnded
<1>10. VersionsAreEnded'
  <2>1. CASE NoUndo
    <3>1. Len(m_history) = 1 /\ m_history_id = 1
      <4>1. m_history = <<Root>> /\ m_history_id \in 1 .. Len(m_history)
        BY <1>1, <2>1 DEF NoUndoNoHistory, TypeOK, Ids
      <4>2. Len(<<Root>>) = 1
        OBVIOUS
      <4> QED
        BY <4>1, <4>2
    <3>2. Len(pending') = 1
      BY <1>2, <2>1, EmptySeq DEF Traces
    <3>3. Snapshot(1)' = text'
      BY <1>2, <1>3, <3>1, <3>2 DEF Snapshot
    <3> QED
      BY <1>3, <2>1, <3>1, <3>3 DEF VersionsAreEnded, Ids, Snapshot
  <2>2. CASE ~NoUndo
    BY <1>1, <1>2, <1>3, <2>2 DEF VersionsAreEnded, Ids, Snapshot
  <2> QED
    BY <2>1, <2>2
<1> QED
  BY <1>2, <1>4, <1>5, <1>6, <1>7, <1>8, <1>9, <1>10 DEF HistoryInv

(* A modification is recorded. *)
LEMMA EditPreserves ==
  ASSUME HistoryInv, m_walk.op \in {"idle", "reload", "replace"},
         NEW m \in Modification, Fits(m, text), Edit(m),
         UNCHANGED <<m_flags, history, m_last_save_history_id, saved>>,
         m_walk' \in Walks, m_walk'.op \in {"idle", "reload", "replace"},
         NoUndo => m_walk'.op # "reload",
         m_walk'.op # "reload" => EndsWithEol(text'),
         incoming' \in Text, WalkIsOnTrack'
  PROVE  HistoryInv'
BY EditProperties, RecordedPreserves

(* A call in progress moves on. *)
LEMMA NothingEdited ==
  ASSUME HistoryInv, m_walk.op \in {"idle", "reload", "replace"},
         UNCHANGED <<text, m_flags, history, m_last_save_history_id,
                     m_current_undo_group, snapshots, pending, saved>>,
         m_walk' \in Walks, m_walk'.op \in {"idle", "reload", "replace"},
         NoUndo => m_walk'.op # "reload",
         m_walk'.op # "reload" => EndsWithEol(text),
         incoming' \in Text, WalkIsOnTrack'
  PROVE  HistoryInv'
<1>1. m_history' = m_history /\ m_history_id' = m_history_id
  BY DEF history
<1>2. TypeOK'
  BY <1>1 DEF HistoryInv, TypeOK, Ids
<1>3. HistoryIsATree' /\ HistoryIsTraced' /\ VersionsAreEnded' /\ SavedNodeIsSaved'
  BY <1>1 DEF HistoryInv, HistoryIsATree, HistoryIsTraced, VersionsAreEnded,
              SavedNodeIsSaved, Ids, Parent, Group, RedoChild, Snapshot
<1>4. CurrentGroupIsTraced' /\ NoUndoNoHistory' /\ LinesAreEnded'
  BY <1>1 DEF HistoryInv, CurrentGroupIsTraced, NoUndoNoHistory, LinesAreEnded,
              Snapshot, NoUndo
<1> QED
  BY <1>2, <1>3, <1>4 DEF HistoryInv

(* A commit, with what the call does to the flags and to what was saved. *)
LEMMA CommitPreserves ==
  ASSUME HistoryInv, m_walk.op \in {"idle", "reload"}, CommitUndoGroup,
         EndsWithEol(text), UNCHANGED text, m_flags' \subseteq Flag,
         NoUndo' <=> NoUndo, "File" \in m_flags' <=> "File" \in m_flags,
         "Fifo" \in m_flags' => "Fifo" \in m_flags,
         \/ UNCHANGED <<m_last_save_history_id, saved>>
         \/ m_last_save_history_id' = m_history_id' /\ saved' = text,
         m_walk' \in Walks,
         NoUndo => m_walk'.op \in {"idle", "move"},
         incoming' \in Text, WalkIsOnTrack'
  PROVE  HistoryInv'
<1>1. /\ TypeOK /\ NoUndoNoHistory /\ SavedNodeIsSaved
  BY DEF HistoryInv
<1>2. /\ m_history' \in Seq(Node) /\ m_history' # <<>>
      /\ m_history_id' \in Ids'
      /\ m_current_undo_group' = <<>>
      /\ snapshots' \in Seq(Seq(Text)) /\ pending' \in Seq(Text)
      /\ HistoryIsATree'
      /\ HistoryIsTraced'
      /\ Snapshot(m_history_id)' = text
      /\ Len(pending') = 1 /\ pending'[1] = text
      /\ \A n \in Ids : n \in Ids' /\ Snapshot(n)' = Snapshot(n)
      /\ NoUndo => m_history' = m_history
  BY CommitProperties
<1>3. m_last_save_history_id' \in Ids' \cup {Invalid} /\ saved' \in Text
  BY <1>1, <1>2 DEF TypeOK
<1>4. TypeOK'
  BY <1>1, <1>2, <1>3 DEF TypeOK
<1>5. Traces(pending', <<>>)
  BY <1>2 DEF Traces
<1>6. CurrentGroupIsTraced'
  BY <1>2, <1>5 DEF CurrentGroupIsTraced
<1>7. NoUndoNoHistory'
  BY <1>1, <1>2 DEF NoUndoNoHistory, NoUndo
<1>8. SavedNodeIsSaved'
  <2>1. CASE UNCHANGED <<m_last_save_history_id, saved>>
    BY <1>1, <1>2, <2>1 DEF SavedNodeIsSaved, Snapshot, TypeOK
  <2>2. CASE m_last_save_history_id' = m_history_id' /\ saved' = text
    BY <1>2, <2>2 DEF SavedNodeIsSaved, Snapshot
  <2> QED
    BY <2>1, <2>2
<1>9. LinesAreEnded'
  BY DEF LinesAreEnded
<1>10. VersionsAreEnded'
  <2>1. CASE NoUndo \/ m_current_undo_group = <<>>
    BY <2>1 DEF CommitUndoGroup, HistoryInv, VersionsAreEnded, Ids, Snapshot
  <2>2. CASE ~NoUndo /\ m_current_undo_group # <<>>
    <3> SUFFICES ASSUME NEW n \in Ids' PROVE EndsWithEol(Snapshot(n)')
      BY DEF VersionsAreEnded
    <3>1. Len(m_history') = Len(m_history) + 1 /\ m_history_id' = Len(m_history) + 1
      <4>1. /\ m_history_id' = NextHistoryId
            /\ m_history' = Append(LinkRedoChild(m_history_id, NextHistoryId),
                                   [parent |-> m_history_id, redo_child |-> Invalid,
                                    undo_group |-> m_current_undo_group])
        BY <2>2, Zenon DEF CommitUndoGroup
      <4>2. NextHistoryId \in Nat /\ NextHistoryId = Len(m_history) + 1
        BY AtRest DEF NextHistoryId
      <4>3. /\ LinkRedoChild(m_history_id, NextHistoryId) \in Seq(Node)
            /\ Len(LinkRedoChild(m_history_id, NextHistoryId)) = Len(m_history)
        BY <4>2, AtRest, LinkProperties
      <4> QED
        BY <4>1, <4>2, <4>3 DEF Ids
    <3>2. n \in Ids \/ n = m_history_id'
      BY <3>1, AtRest DEF Ids
    <3>3. n \in Ids => EndsWithEol(Snapshot(n)')
      BY <1>2 DEF HistoryInv, VersionsAreEnded
    <3>4. n = m_history_id' => EndsWithEol(Snapshot(n)')
      BY <1>2 DEF Snapshot
    <3> QED
      BY <3>2, <3>3, <3>4
  <2> QED
    BY <2>1, <2>2
<1> QED
  BY <1>2, <1>4, <1>6, <1>7, <1>8, <1>9, <1>10 DEF HistoryInv

(* A step through the history that leaves its nodes as they are. *)
LEMMA WalkPreserves ==
  ASSUME HistoryInv, m_current_undo_group = <<>>,
         UNCHANGED <<m_flags, m_history, m_last_save_history_id,
                     m_current_undo_group, incoming, snapshots, saved>>,
         text' \in Text, pending' \in Seq(Text), m_history_id' \in Ids,
         ~NoUndo \/ m_walk'.op = "idle",
         m_walk' \in Walks, m_walk'.op # "move", WalkIsOnTrack',
         m_walk'.op \in {"idle", "reload", "replace"} =>
             pending' = <<text'>> /\ text' = Snapshot(m_history_id')
  PROVE  HistoryInv'
<1>1. /\ TypeOK /\ HistoryIsATree /\ HistoryIsTraced /\ NoUndoNoHistory
      /\ SavedNodeIsSaved
  BY DEF HistoryInv
<1>2. TypeOK'
  BY <1>1 DEF TypeOK, Ids
<1>3. HistoryIsATree'
  BY <1>1 DEF HistoryIsATree, Ids, Parent, Group, RedoChild
<1>4. HistoryIsTraced'
  BY <1>1 DEF HistoryIsTraced, Ids, Parent, Group, Snapshot
<1>5. CurrentGroupIsTraced'
  <2>1. CASE m_walk'.op \in {"idle", "reload", "replace"}
    <3>1. /\ Traces(<<text'>>, <<>>) /\ <<text'>>[1] = text'
          /\ <<text'>>[Len(<<text'>>)] = text'
      BY SingleTrace
    <3>2. text' = Snapshot(m_history_id)'
      BY <2>1 DEF Snapshot
    <3> QED
      BY <2>1, <3>1, <3>2 DEF CurrentGroupIsTraced
  <2>2. CASE m_walk'.op \notin {"idle", "reload", "replace"}
    BY <2>2 DEF CurrentGroupIsTraced
  <2> QED
    BY <2>1, <2>2
<1>6. NoUndoNoHistory'
  BY <1>1 DEF NoUndoNoHistory, NoUndo
<1>7. SavedNodeIsSaved'
  BY <1>1 DEF SavedNodeIsSaved, Snapshot
<1>8. VersionsAreEnded'
  BY DEF HistoryInv, VersionsAreEnded, Ids, Snapshot
<1>9. LinesAreEnded'
  BY DEF HistoryInv, VersionsAreEnded, LinesAreEnded, TypeOK, Walks, Ops
<1> QED
  BY <1>2, <1>3, <1>4, <1>5, <1>6, <1>7, <1>8, <1>9 DEF HistoryInv

-----------------------------------------------------------------------------
(* Editing. *)

LEMMA InsertPreserves ==
  ASSUME HistoryInv, NEW pos \in 0 .. Len(text), NEW s \in Contents, Insert(pos, s)
  PROVE  HistoryInv'
<1> DEFINE m == InsertionAt(text, pos, s)
<1>1. /\ m_walk = Idle /\ s # <<>> /\ Edit(m)
      /\ UNCHANGED <<m_flags, history, m_last_save_history_id, m_walk, incoming, saved>>
  BY DEF Insert, CanEdit
<1>2. m \in Modification /\ Fits(m, text)
  BY <1>1, AtRest, BufferAssumption, InsertionFits
<1>3. WalkIsOnTrack'
  BY <1>1 DEF WalkIsOnTrack, Idle
<1>4. EndsWithEol(text')
  BY <1>1, AtRest, BufferAssumption, InsertionKeepsEol DEF Edit, Idle
<1> HIDE DEF m
<1> QED
  BY <1>1, <1>2, <1>3, <1>4, AtRest, EditPreserves DEF Idle, TypeOK

LEMMA ErasePreserves ==
  ASSUME HistoryInv, NEW b \in 0 .. Len(text), NEW e \in 0 .. Len(text), Erase(b, e)
  PROVE  HistoryInv'
<1>1. PICK end : end = EraseEnd(text, b, e)
  OBVIOUS
<1> DEFINE m == Erasure(b, Slice(text, b, end - b))
<1>2. /\ m_walk = Idle /\ b < end /\ Edit(m)
      /\ UNCHANGED <<m_flags, history, m_last_save_history_id, m_walk, incoming, saved>>
  BY <1>1 DEF Erase, CanEdit
<1>3. end \in b + 1 .. Len(text) /\ (end < Len(text) \/ (b > 0 /\ text[b] = EOL))
  BY <1>1, <1>2, AtRest, EraseEndProperties
<1>4. m \in Modification /\ Fits(m, text) /\ EndsWithEol(Apply(m, text))
  <2>1. end - b \in Nat /\ b + (end - b) = end /\ end <= Len(text) /\ b \in Nat
    BY <1>3, AtRest
  <2>2. EndsWithEol(text)
    BY <1>2, AtRest DEF Idle
  <2> QED
    BY <1>3, <2>1, <2>2, AtRest, ErasureFits, ErasureKeepsEol
<1>6. text' = Apply(m, text)
  BY <1>2 DEF Edit
<1>5. WalkIsOnTrack'
  BY <1>2 DEF WalkIsOnTrack, Idle
<1> HIDE DEF m
<1> QED
  BY <1>2, <1>4, <1>5, <1>6, AtRest, EditPreserves DEF Idle, TypeOK

LEMMA ReplacePreserves ==
  ASSUME HistoryInv, NEW b \in 0 .. Len(text), NEW e \in 0 .. Len(text),
         NEW s \in Contents, Replace(b, e, s)
  PROVE  HistoryInv'
<1>1. PICK keepEol \in BOOLEAN : keepEol = (e = Len(text) /\ EndsWithEol(s))
  OBVIOUS
<1>2. PICK end : end = IF keepEol THEN e - 1 ELSE EraseEnd(text, b, e)
  OBVIOUS
<1> DEFINE m == Erasure(b, Slice(text, b, end - b))
<1>3. /\ m_walk = Idle /\ b < e
      /\ IF b < end THEN Edit(m)
         ELSE UNCHANGED <<text, pending, snapshots, m_current_undo_group>>
      /\ incoming' = IF keepEol THEN Slice(s, 0, Len(s) - 1) ELSE s
      /\ m_walk' = Walk("replace", b, 0, 0, 0)
      /\ UNCHANGED <<m_flags, history, m_last_save_history_id, saved>>
  BY <1>1, <1>2 DEF Replace, CanEdit
<1>4. s \in Text /\ Len(s) \in Nat
  BY BufferAssumption, LenProperties DEF Text
<1>5. incoming' \in Text
  <2>1. CASE keepEol
    <3>1. Len(s) - 1 \in Nat /\ 0 + (Len(s) - 1) <= Len(s)
      <4>1. s # <<>>
        BY <1>1, <2>1 DEF EndsWithEol
      <4>2. Len(s) # 0
        BY <1>4, <4>1, EmptySeq DEF Text
      <4> QED
        BY <1>4, <4>2
    <3> QED
      BY <1>3, <1>4, <2>1, <3>1, SliceIsText
  <2> QED
    BY <1>3, <1>4, <2>1
<1>6. /\ m_walk' \in Walks /\ m_walk'.op = "replace" /\ m_walk'.at = b /\ b \in Nat
  BY <1>3, AtRest DEF Walk, Walks, Ops
<1>7. CASE b < end
  <2>1. end \in b + 1 .. Len(text) /\ (end < Len(text) \/ (b > 0 /\ text[b] = EOL))
    BY <1>1, <1>2, <1>7, AtRest, EraseEndProperties
  <2>2. end - b \in Nat /\ b + (end - b) = end /\ end <= Len(text)
        /\ Len(text) - (end - b) >= b
    BY <1>6, <2>1, AtRest
  <2>3. /\ m \in Modification /\ Fits(m, text)
        /\ Apply(m, text) \in Text /\ Len(Apply(m, text)) = Len(text) - (end - b)
    BY <1>6, <2>2, AtRest, ErasureFits
  <2>4. text' = Apply(m, text)
    BY <1>3, <1>7 DEF Edit
  <2>5. WalkIsOnTrack'
    BY <1>6, <2>2, <2>3, <2>4 DEF WalkIsOnTrack
  <2>6. m_walk.op = "idle"
    BY <1>3 DEF Idle
  <2>7. EndsWithEol(Apply(m, text))
    BY <1>6, <2>1, <2>2, <2>6, AtRest, ErasureKeepsEol
  <2> HIDE DEF m
  <2> QED
    BY <1>3, <1>5, <1>6, <1>7, <2>3, <2>4, <2>5, <2>6, <2>7, EditPreserves
<1>8. CASE ~(b < end)
  <2>1. UNCHANGED <<text, pending, snapshots, m_current_undo_group, m_flags,
                    history, m_last_save_history_id, saved>>
    BY <1>3, <1>8
  <2>2. WalkIsOnTrack'
    BY <1>6, <2>1, AtRest DEF WalkIsOnTrack
  <2>3. m_walk.op = "idle"
    BY <1>3 DEF Idle
  <2> QED
    BY <1>5, <1>6, <2>1, <2>2, <2>3, AtRest, NothingEdited
<1> QED
  BY <1>7, <1>8

LEMMA ReplaceInsertPreserves ==
  ASSUME HistoryInv, ReplaceInsert
  PROVE  HistoryInv'
<1> DEFINE m == InsertionAt(text, m_walk.at, incoming)
<1>1. /\ m_walk.op = "replace" /\ incoming' = <<>> /\ m_walk' = Idle
      /\ IF incoming = <<>>
         THEN UNCHANGED <<text, pending, snapshots, m_current_undo_group>>
         ELSE Edit(m)
      /\ UNCHANGED <<m_flags, history, m_last_save_history_id, saved>>
  BY DEF ReplaceInsert
<1>2. /\ m_walk' \in Walks /\ m_walk'.op = "idle" /\ incoming' \in Text
      /\ WalkIsOnTrack'
  BY <1>1 DEF Idle, Walks, Ops, Text, WalkIsOnTrack
<1>3. CASE incoming = <<>>
  <2>1. EndsWithEol(text)
    BY <1>1, AtRest
  <2> QED
    BY <1>1, <1>2, <1>3, <2>1, NothingEdited
<1>4. CASE incoming # <<>>
  <2>1. m_walk.at \in Nat /\ m_walk.at <= Len(text) /\ incoming \in Text
    BY <1>1 DEF HistoryInv, WalkIsOnTrack, TypeOK, Walks
  <2>2. /\ m \in Modification /\ Fits(m, text)
        /\ EndsWithEol(Apply(m, text))
    BY <1>1, <1>4, <2>1, AtRest, InsertionFits, InsertionKeepsEol
  <2>3. Edit(m) /\ text' = Apply(m, text)
    BY <1>1, <1>4 DEF Edit
  <2> HIDE DEF m
  <2> QED
    BY <1>1, <1>2, <2>2, <2>3, EditPreserves
<1> QED
  BY <1>3, <1>4

LEMMA ReadFifoPreserves ==
  ASSUME HistoryInv, NEW s \in Contents, ReadFifo(s)
  PROVE  HistoryInv'
<1>1. PICK scroll \in AutoScroll, had \in BOOLEAN : text' = Received(text, s, scroll, had)
  BY DEF ReadFifo
<1>2. /\ m_walk = Idle /\ s # <<>> /\ "Fifo" \in m_flags /\ pending' = <<text'>>
      /\ snapshots' = [snapshots EXCEPT ![m_history_id] = <<text'>>]
      /\ UNCHANGED <<m_flags, history, m_last_save_history_id,
                     m_current_undo_group, m_walk, incoming, saved>>
  BY DEF ReadFifo
<1>3. EndsWithEol(text) /\ s \in Text
  BY <1>2, AtRest, BufferAssumption DEF Idle
<1>4. text' \in Text /\ EndsWithEol(text')
  BY <1>1, <1>2, <1>3, AtRest, ReceivedIsText
<1>5. NoUndo
  BY <1>2 DEF HistoryInv, NoUndoNoHistory
<1>6. Recorded
  BY <1>2, <1>4, <1>5, AmendProperties
<1>7. WalkIsOnTrack'
  BY <1>2 DEF WalkIsOnTrack, Idle
<1> QED
  BY <1>2, <1>4, <1>6, <1>7, AtRest, RecordedPreserves DEF Idle, TypeOK

-----------------------------------------------------------------------------
(* Committing. *)

LEMMA CommitActionPreserves ==
  ASSUME HistoryInv, Commit
  PROVE  HistoryInv'
<1>1. /\ m_walk = Idle /\ CommitUndoGroup
      /\ UNCHANGED <<text, m_flags, m_last_save_history_id, m_walk, incoming, saved>>
  BY DEF Commit
<1>2. WalkIsOnTrack'
  BY <1>1 DEF WalkIsOnTrack, Idle
<1> QED
  BY <1>1, <1>2, AtRest, CommitPreserves DEF Idle, TypeOK, NoUndo

LEMMA NotifySavedPreserves ==
  ASSUME HistoryInv, NotifySaved
  PROVE  HistoryInv'
<1>1. /\ m_walk = Idle /\ CommitUndoGroup
      /\ m_flags' = m_flags \ {"New"}
      /\ m_last_save_history_id' = m_history_id' /\ saved' = text
      /\ UNCHANGED <<text, m_walk, incoming>>
  BY DEF NotifySaved
<1>2. WalkIsOnTrack'
  BY <1>1 DEF WalkIsOnTrack, Idle
<1>3. /\ m_flags' \subseteq Flag /\ (NoUndo' <=> NoUndo)
      /\ "File" \in m_flags' <=> "File" \in m_flags
      /\ "Fifo" \in m_flags' => "Fifo" \in m_flags
  BY <1>1, AtRest DEF NoUndo, TypeOK
<1> QED
  BY <1>1, <1>2, <1>3, AtRest, CommitPreserves DEF Idle, TypeOK

LEMMA ReloadPreserves ==
  ASSUME HistoryInv, NEW t \in FileTexts, Reload(t)
  PROVE  HistoryInv'
<1>1. /\ m_walk = Idle /\ CommitUndoGroup /\ ~NoUndo
      /\ incoming' = t /\ m_walk' = Walk("reload", 0, 0, 0, 0)
      /\ UNCHANGED <<text, m_flags, m_last_save_history_id, saved>>
  BY DEF Reload
<1>2. t \in Text /\ EndsWithEol(t) /\ t # <<>>
  BY BufferAssumption DEF EndsWithEol
<1>3. m_walk' \in Walks /\ WalkIsOnTrack'
  BY <1>1, <1>2, AtRest DEF WalkIsOnTrack, Walk, Walks, Ops
<1> QED
  BY <1>1, <1>2, <1>3, AtRest, CommitPreserves DEF Idle, TypeOK, NoUndo

LEMMA ReloadDonePreserves ==
  ASSUME HistoryInv, ReloadDone
  PROVE  HistoryInv'
<1>1. /\ m_walk.op = "reload" /\ m_walk.at = Len(text) /\ incoming = <<>>
      /\ CommitUndoGroup
      /\ m_last_save_history_id' = m_history_id'
      /\ m_flags' = m_flags \ {"New"} /\ saved' = text /\ m_walk' = Idle
      /\ UNCHANGED <<text, incoming>>
  BY DEF ReloadDone, Reloading
<1>2. m_walk' \in Walks /\ WalkIsOnTrack' /\ m_walk'.op = "idle"
  BY <1>1 DEF WalkIsOnTrack, Idle, Walks, Ops
<1>3. EndsWithEol(text)
  <2>1. IF m_walk.at = 0 THEN incoming # <<>> ELSE text[m_walk.at] = EOL
    BY <1>1 DEF HistoryInv, WalkIsOnTrack
  <2>2. Len(text) # 0 /\ text[Len(text)] = EOL
    BY <1>1, <2>1
  <2> QED
    BY <2>2, EmptySeq DEF EndsWithEol
<1>4. /\ m_flags' \subseteq Flag /\ (NoUndo' <=> NoUndo)
      /\ "File" \in m_flags' <=> "File" \in m_flags
      /\ "Fifo" \in m_flags' => "Fifo" \in m_flags
      /\ incoming' \in Text
  BY <1>1, AtRest DEF NoUndo, TypeOK
<1> QED
  BY <1>1, <1>2, <1>3, <1>4, CommitPreserves

LEMMA MoveToPreserves ==
  ASSUME HistoryInv, NEW id \in Ids, MoveTo(id)
  PROVE  HistoryInv'
<1>1. /\ m_walk = Idle /\ CommitUndoGroup /\ m_walk' = Walk("move", 0, 0, 0, id)
      /\ UNCHANGED <<text, m_flags, m_last_save_history_id, incoming, saved>>
  BY DEF MoveTo
<1>2. m_walk.op = "idle" /\ id \in Ids' /\ Snapshot(m_history_id)' = text
  BY <1>1, CommitProperties DEF Idle
<1>3. /\ m_walk' \in Walks /\ m_walk'.op = "move" /\ m_walk'.target = id
  BY <1>1, AtRest DEF Walk, Walks, Ops, Ids
<1>4. WalkIsOnTrack'
  <2>1. text' = Snapshot(m_history_id)'
    BY <1>1, <1>2
  <2> QED
    BY <1>2, <1>3, <2>1 DEF WalkIsOnTrack
<1> QED
  BY <1>1, <1>2, <1>3, <1>4, AtRest, CommitPreserves DEF TypeOK, NoUndo

LEMMA UndoPreserves ==
  ASSUME HistoryInv, NEW count \in 1 .. MaxHistory, Undo(count)
  PROVE  HistoryInv'
<1>1. /\ m_walk = Idle /\ CommitUndoGroup
      /\ m_walk' = IF m_history'[m_history_id'].parent = Invalid THEN Idle
                   ELSE Walk("undo", m_history_id',
                             Len(m_history'[m_history_id'].undo_group), count, 0)
      /\ UNCHANGED <<text, m_flags, m_last_save_history_id, incoming, saved>>
  BY DEF Undo
<1>2. /\ m_history' \in Seq(Node) /\ m_history_id' \in Ids'
      /\ HistoryIsATree' /\ HistoryIsTraced'
      /\ Snapshot(m_history_id)' = text
      /\ NoUndo => m_history' = m_history
  BY <1>1, CommitProperties DEF Idle
<1>3. PICK id : id = m_history_id'
  OBVIOUS
<1>4. m_history'[id] \in Node /\ id \in Nat
  BY <1>2, <1>3, ElementOfSeq DEF Ids
<1>5. PICK g \in Seq(Modification) : g = m_history'[id].undo_group
  BY <1>4 DEF Node
<1>6. CASE m_history'[id].parent = Invalid
  <2>1. m_walk' = Idle
    BY <1>1, <1>3, <1>6
  <2>2. WalkIsOnTrack'
    BY <2>1 DEF WalkIsOnTrack, Idle
  <2> QED
    BY <1>1, <2>1, <2>2, AtRest, CommitPreserves DEF Idle, TypeOK, NoUndo
<1>7. CASE m_history'[id].parent # Invalid
  <2>1. m_walk' = Walk("undo", id, Len(g), count, 0) /\ Len(g) \in Nat
    BY <1>1, <1>3, <1>5, <1>7, LenProperties
  <2>2. /\ m_walk' \in Walks /\ m_walk'.op = "undo" /\ m_walk'.at = id
        /\ m_walk'.i = Len(g) /\ m_walk'.count = count /\ count > 0
    BY <1>4, <2>1 DEF Walk, Walks, Ops
  <2>3. id # First
    BY <1>2, <1>7 DEF HistoryIsATree
  <2>4. ~NoUndo
    BY <1>1, <1>2, <1>3, <1>7 DEF HistoryInv, NoUndoNoHistory, TypeOK, Ids, Root
  <2>5. Len(snapshots'[id]) = Len(g) + 1
    BY <1>2, <1>3, <1>5 DEF HistoryIsTraced, Traces, Group
  <2>6. text' = snapshots'[id][Len(g) + 1]
    BY <1>1, <1>2, <1>3, <2>5 DEF Snapshot
  <2>7. WalkIsOnTrack'
    BY <1>2, <1>3, <1>5, <2>1, <2>2, <2>3, <2>6 DEF WalkIsOnTrack, Group
  <2> QED
    BY <1>1, <2>2, <2>4, <2>7, AtRest, CommitPreserves DEF Idle, TypeOK, NoUndo
<1> QED
  BY <1>6, <1>7

-----------------------------------------------------------------------------
(* Going through the history. *)

(* The modification that comes next on the way down, or up, fits. *)
LEMMA NextModification ==
  ASSUME HistoryInv, NEW n \in Ids, NEW i \in 1 .. Len(Group(n))
  PROVE  /\ Fits(Group(n)[i], snapshots[n][i])
         /\ Apply(Group(n)[i], snapshots[n][i]) = snapshots[n][i + 1]
         /\ Fits(InverseOf(Group(n)[i]), snapshots[n][i + 1])
         /\ Apply(InverseOf(Group(n)[i]), snapshots[n][i + 1]) = snapshots[n][i]
         /\ snapshots[n][i] \in Text /\ snapshots[n][i + 1] \in Text
<1>1. TypeOK /\ HistoryIsTraced
  BY DEF HistoryInv
<1>2. /\ Group(n) \in Seq(Modification) /\ Len(Group(n)) \in Nat
      /\ \A k \in 1 .. Len(Group(n)) + 1 : snapshots[n][k] \in Text
  BY <1>1, SnapshotProperties
<1>3. /\ Fits(Group(n)[i], snapshots[n][i])
      /\ Apply(Group(n)[i], snapshots[n][i]) = snapshots[n][i + 1]
  BY <1>1 DEF HistoryIsTraced, Traces
<1>4. Group(n)[i] \in Modification
  BY <1>2, ElementOfSeq
<1>5. snapshots[n][i] \in Text /\ snapshots[n][i + 1] \in Text
  BY <1>2
<1>6. /\ Fits(InverseOf(Group(n)[i]), Apply(Group(n)[i], snapshots[n][i]))
      /\ Apply(InverseOf(Group(n)[i]), Apply(Group(n)[i], snapshots[n][i])) = snapshots[n][i]
  BY <1>3, <1>4, <1>5, InverseUndoes
<1> QED
  BY <1>3, <1>5, <1>6

(* Where a call that is going through the history stands. *)
LEMMA OnTheWay ==
  ASSUME HistoryInv, m_walk.op \in {"undo", "redo", "up", "down"}
  PROVE  /\ m_walk.at \in Ids \ {First} /\ m_walk.i \in Nat
         /\ m_walk.i <= Len(Group(m_walk.at)) /\ Len(Group(m_walk.at)) \in Nat
         /\ text = snapshots[m_walk.at][m_walk.i + 1]
         /\ m_current_undo_group = <<>> /\ ~NoUndo
<1>1. m_walk.i \in Nat
  BY DEF HistoryInv, TypeOK, Walks
<1>2. /\ m_walk.at \in Ids \ {First}
      /\ m_walk.i <= Len(Group(m_walk.at))
      /\ text = snapshots[m_walk.at][m_walk.i + 1]
  BY DEF HistoryInv, WalkIsOnTrack
<1>3. Len(Group(m_walk.at)) \in Nat
  BY <1>2, SnapshotProperties DEF HistoryInv
<1>4. m_current_undo_group = <<>> /\ ~NoUndo
  BY DEF HistoryInv, CurrentGroupIsTraced, NoUndoNoHistory
<1> QED
  BY <1>1, <1>2, <1>3, <1>4

LEMMA ParentProperties ==
  ASSUME HistoryInv, NEW n \in Ids \ {First}
  PROVE  /\ Parent(n) \in Ids /\ Parent(n) # n
         /\ snapshots[n][1] = Snapshot(Parent(n))
<1>1. Parent(n) \in 1 .. n - 1
  BY DEF HistoryInv, HistoryIsATree
<1>2. Parent(n) \in Ids /\ Parent(n) # n
  BY <1>1, AtRest DEF Ids
<1> QED
  BY <1>2 DEF HistoryInv, HistoryIsTraced

LEMMA RootAlone ==
  ASSUME m_history = <<Root>>
  PROVE  Len(m_history) = 1 /\ Ids = {First}
<1>1. Len(<<Root>>) = 1
  OBVIOUS
<1>2. Len(m_history) = 1
  BY <1>1
<1> QED
  BY <1>2 DEF Ids, First

LEMMA ChildProperties ==
  ASSUME HistoryInv, NEW c \in Ids, NEW n \in Ids, Parent(c) = n
  PROVE  c # First /\ snapshots[c][1] = Snapshot(n) /\ ~NoUndo
<1>1. c # First
  BY DEF HistoryInv, HistoryIsATree, Parent, Ids, Invalid
<1>2. ~NoUndo
  <2>1. m_history # <<Root>>
    BY <1>1, RootAlone
  <2> QED
    BY <2>1 DEF HistoryInv, NoUndoNoHistory
<1> QED
  BY <1>1, <1>2, ParentProperties

LEMMA RevertModificationPreserves ==
  ASSUME HistoryInv, RevertModification
  PROVE  HistoryInv'
<1>1. /\ m_walk.op \in {"undo", "up"} /\ m_walk.i > 0
      /\ text' = Apply(InverseOf(Group(m_walk.at)[m_walk.i]), text)
      /\ m_walk' = [m_walk EXCEPT !.i = @ - 1]
      /\ UNCHANGED <<m_flags, m_history, m_history_id, m_last_save_history_id,
                     m_current_undo_group, incoming, snapshots, pending, saved>>
  BY DEF RevertModification, history, LatestApplied
<1>2. PICK i \in Nat : i + 1 = m_walk.i
  <2>1. m_walk.i - 1 \in Nat /\ (m_walk.i - 1) + 1 = m_walk.i
    BY <1>1, OnTheWay
  <2> QED
    BY <2>1
<1>3. i + 1 \in 1 .. Len(Group(m_walk.at)) /\ text = snapshots[m_walk.at][(i + 1) + 1]
  BY <1>1, <1>2, OnTheWay
<1>4. text' = snapshots[m_walk.at][i + 1] /\ text' \in Text
  BY <1>1, <1>2, <1>3, OnTheWay, NextModification
<1>5. /\ m_walk' \in Walks /\ m_walk'.op = m_walk.op /\ m_walk'.at = m_walk.at
      /\ m_walk'.i = i /\ m_walk'.target = m_walk.target /\ m_walk'.count = m_walk.count
  BY <1>1, <1>2, AtRest DEF Walks
<1>6. WalkIsOnTrack'
  <2>1. i <= Len(Group(m_walk.at))
    BY <1>3, OnTheWay
  <2>2. Group(m_walk.at)' = Group(m_walk.at) /\ Ids' = Ids
    BY <1>1, <1>5 DEF Group, Ids
  <2>3. m_walk.op = "undo" => m_walk.at = m_history_id /\ m_walk.count > 0
    BY DEF HistoryInv, WalkIsOnTrack
  <2>4. m_walk.op = "up" =>
          /\ m_walk.target \in Ids
          /\ m_walk.at # LowestCommonParent(m_history_id, m_walk.target)
          /\ LowestCommonParent(m_history_id, m_walk.target) \in Branch(m_walk.at)
    BY DEF HistoryInv, WalkIsOnTrack
  <2>5. /\ LowestCommonParent(m_history_id, m_walk.target)'
             = LowestCommonParent(m_history_id, m_walk.target)
        /\ Branch(m_walk.at)' = Branch(m_walk.at)
    BY <1>1, <1>5 DEF LowestCommonParent, Branch, Ids, Parent
  <2> QED
    BY <1>1, <1>4, <1>5, <2>1, <2>2, <2>3, <2>4, <2>5, OnTheWay DEF WalkIsOnTrack
<1> QED
  BY <1>1, <1>4, <1>5, <1>6, OnTheWay, WalkPreserves DEF HistoryInv, TypeOK

LEMMA ApplyModificationPreserves ==
  ASSUME HistoryInv, ApplyModification
  PROVE  HistoryInv'
<1>1. /\ m_walk.op \in {"redo", "down"} /\ m_walk.i < Len(Group(m_walk.at))
      /\ text' = Apply(Group(m_walk.at)[m_walk.i + 1], text)
      /\ m_walk' = [m_walk EXCEPT !.i = @ + 1]
      /\ UNCHANGED <<m_flags, m_history, m_history_id, m_last_save_history_id,
                     m_current_undo_group, incoming, snapshots, pending, saved>>
  BY DEF ApplyModification, history
<1>2. PICK i \in Nat : i = m_walk.i
  BY <1>1, OnTheWay
<1>3. i + 1 \in 1 .. Len(Group(m_walk.at)) /\ text = snapshots[m_walk.at][i + 1]
  BY <1>1, <1>2, OnTheWay
<1>4. text' = snapshots[m_walk.at][(i + 1) + 1] /\ text' \in Text
  BY <1>1, <1>2, <1>3, OnTheWay, NextModification
<1>5. /\ m_walk' \in Walks /\ m_walk'.op = m_walk.op /\ m_walk'.at = m_walk.at
      /\ m_walk'.i = i + 1 /\ m_walk'.target = m_walk.target
      /\ m_walk'.count = m_walk.count
  BY <1>1, <1>2, AtRest DEF Walks
<1>6. WalkIsOnTrack'
  <2>1. i + 1 <= Len(Group(m_walk.at))
    BY <1>3, OnTheWay
  <2>2. Group(m_walk.at)' = Group(m_walk.at) /\ Ids' = Ids
    BY <1>1, <1>5 DEF Group, Ids
  <2>3. /\ m_walk.op = "redo" => m_walk.at = m_history_id /\ m_walk.count > 0
        /\ m_walk.op = "down" =>
             m_walk.target \in Ids /\ m_walk.at \in Branch(m_walk.target)
    BY DEF HistoryInv, WalkIsOnTrack
  <2>4. Branch(m_walk.target)' = Branch(m_walk.target)
    BY <1>1, <1>5 DEF Branch, Ids, Parent
  <2> QED
    BY <1>1, <1>4, <1>5, <2>1, <2>2, <2>3, <2>4, OnTheWay DEF WalkIsOnTrack
<1> QED
  BY <1>1, <1>4, <1>5, <1>6, OnTheWay, WalkPreserves DEF HistoryInv, TypeOK

LEMMA UndoNextPreserves ==
  ASSUME HistoryInv, UndoNext
  PROVE  HistoryInv'
<1>1. PICK p : p = Parent(m_walk.at)
  OBVIOUS
<1>2. /\ m_walk.op = "undo" /\ m_walk.i = 0 /\ m_history_id' = p /\ pending' = <<text>>
      /\ m_walk' = IF m_walk.count = 1 \/ Parent(p) = Invalid THEN Idle
                   ELSE Walk("undo", p, Len(Group(p)), m_walk.count - 1, 0)
      /\ UNCHANGED <<text, m_flags, m_history, m_last_save_history_id,
                     m_current_undo_group, incoming, snapshots, saved>>
  BY <1>1 DEF UndoNext
<1>3. p \in Ids /\ text = Snapshot(p) /\ Len(Group(p)) \in Nat
      /\ Snapshot(p) = snapshots[p][Len(Group(p)) + 1]
  BY <1>1, <1>2, OnTheWay, ParentProperties, SnapshotProperties DEF HistoryInv
<1>4. pending' \in Seq(Text)
  BY <1>2, AtRest, SingleTrace
<1>5. CASE m_walk.count = 1 \/ Parent(p) = Invalid
  <2>1. m_walk' = Idle
    BY <1>2, <1>5
  <2>2. m_walk' \in Walks /\ m_walk'.op = "idle" /\ WalkIsOnTrack'
    BY <2>1 DEF WalkIsOnTrack, Idle, Walks, Ops
  <2> QED
    BY <1>2, <1>3, <1>4, <2>2, AtRest, OnTheWay, WalkPreserves DEF Snapshot
<1>6. CASE ~(m_walk.count = 1 \/ Parent(p) = Invalid)
  <2>1. m_walk' = Walk("undo", p, Len(Group(p)), m_walk.count - 1, 0)
    BY <1>2, <1>6
  <2>2. m_walk.count - 1 \in Nat /\ m_walk.count - 1 > 0
    BY <1>2, <1>6, AtRest DEF HistoryInv, WalkIsOnTrack, Walks
  <2>3. /\ m_walk' \in Walks /\ m_walk'.op = "undo" /\ m_walk'.at = p
        /\ m_walk'.i = Len(Group(p)) /\ m_walk'.count = m_walk.count - 1
    BY <1>3, <2>1, <2>2, AtRest DEF Walk, Walks, Ops, Ids
  <2>4. p # First
    BY <1>6 DEF HistoryInv, HistoryIsATree, Parent
  <2>5. Ids' = Ids /\ Group(p)' = Group(p)
    BY <1>2 DEF Ids, Group
  <2>6. m_history'[p].undo_group = Group(p)
    BY <1>2 DEF Group
  <2>7. WalkIsOnTrack'
    BY <1>2, <1>3, <2>2, <2>3, <2>4, <2>5, <2>6 DEF WalkIsOnTrack, Group
  <2> QED
    BY <1>2, <1>3, <1>4, <2>3, <2>7, AtRest, OnTheWay, WalkPreserves
<1> QED
  BY <1>5, <1>6

(* redo goes down to the child c of the current node. *)
LEMMA RedoToChild ==
  ASSUME HistoryInv, m_current_undo_group = <<>>, text = Snapshot(m_history_id),
         NEW c \in Ids, Parent(c) = m_history_id, NEW count \in Nat, count > 0,
         m_history_id' = c, m_walk' = Walk("redo", c, 0, count, 0),
         pending' \in Seq(Text),
         UNCHANGED <<text, m_flags, m_history, m_last_save_history_id,
                     m_current_undo_group, incoming, snapshots, saved>>
  PROVE  HistoryInv'
<1>1. c # First /\ text = snapshots[c][1] /\ ~NoUndo
  BY AtRest, ChildProperties
<1>2. /\ m_walk' \in Walks /\ m_walk'.op = "redo" /\ m_walk'.at = c
      /\ m_walk'.i = 0 /\ m_walk'.count = count
  BY AtRest DEF Walk, Walks, Ops, Ids
<1>3. Len(m_history[c].undo_group) \in Nat
  BY AtRest, SnapshotProperties DEF Group
<1>4. WalkIsOnTrack'
  BY <1>1, <1>2, <1>3 DEF WalkIsOnTrack, Ids, Group
<1> QED
  BY <1>1, <1>2, <1>4, AtRest, WalkPreserves

LEMMA RedoPreserves ==
  ASSUME HistoryInv, NEW count \in 1 .. MaxHistory, Redo(count)
  PROVE  HistoryInv'
<1>1. PICK c : c = RedoChild(m_history_id)
  OBVIOUS
<1>2. /\ m_walk = Idle /\ c # Invalid /\ m_current_undo_group = <<>>
      /\ m_history_id' = c /\ m_walk' = Walk("redo", c, 0, count, 0)
      /\ UNCHANGED <<text, m_flags, m_history, m_last_save_history_id,
                     m_current_undo_group, incoming, ghosts>>
  BY <1>1 DEF Redo, NothingToRedo
<1>3. c \in Ids /\ Parent(c) = m_history_id
  BY <1>1, <1>2, AtRest DEF HistoryIsATree
<1>4. text = Snapshot(m_history_id)
  <2>1. /\ Traces(pending, <<>>)
        /\ pending[1] = Snapshot(m_history_id) /\ pending[Len(pending)] = text
    BY <1>2 DEF HistoryInv, CurrentGroupIsTraced, Idle
  <2>2. Len(pending) = 1
    BY <2>1 DEF Traces
  <2> QED
    BY <2>1, <2>2
<1>5. pending' \in Seq(Text) /\ UNCHANGED <<snapshots, saved>>
  BY <1>2, AtRest DEF ghosts, TypeOK
<1>6. count \in Nat /\ count > 0
  OBVIOUS
<1> QED
  BY <1>2, <1>3, <1>4, <1>5, <1>6, RedoToChild

LEMMA RedoNextPreserves ==
  ASSUME HistoryInv, RedoNext
  PROVE  HistoryInv'
<1>1. PICK c : c = RedoChild(m_walk.at)
  OBVIOUS
<1>2. /\ m_walk.op = "redo" /\ m_walk.i = Len(Group(m_walk.at)) /\ pending' = <<text>>
      /\ IF m_walk.count = 1 \/ c = Invalid
         THEN m_walk' = Idle /\ UNCHANGED m_history_id
         ELSE /\ m_walk' = Walk("redo", c, 0, m_walk.count - 1, 0)
              /\ m_history_id' = c
      /\ UNCHANGED <<text, m_flags, m_history, m_last_save_history_id,
                     m_current_undo_group, incoming, snapshots, saved>>
  BY <1>1 DEF RedoNext
<1>3. m_walk.at = m_history_id /\ m_walk.count > 0
  BY <1>2 DEF HistoryInv, WalkIsOnTrack
<1>4. text = Snapshot(m_history_id)
  BY <1>2, <1>3, AtRest, OnTheWay, SnapshotProperties
<1>5. pending' \in Seq(Text)
  BY <1>2, AtRest, SingleTrace
<1>6. CASE m_walk.count = 1 \/ c = Invalid
  <2>1. m_walk' = Idle /\ m_history_id' = m_history_id
    BY <1>2, <1>6
  <2>2. m_walk' \in Walks /\ m_walk'.op = "idle" /\ WalkIsOnTrack'
    BY <2>1 DEF WalkIsOnTrack, Idle, Walks, Ops
  <2>3. m_history_id' \in Ids /\ text' = Snapshot(m_history_id') /\ pending' = <<text'>>
    BY <1>2, <1>4, <2>1, AtRest
  <2> QED
    BY <1>2, <1>5, <2>2, <2>3, AtRest, OnTheWay, WalkPreserves
<1>7. CASE ~(m_walk.count = 1 \/ c = Invalid)
  <2>1. m_walk' = Walk("redo", c, 0, m_walk.count - 1, 0) /\ m_history_id' = c
    BY <1>2, <1>7
  <2>2. m_walk.count - 1 \in Nat /\ m_walk.count - 1 > 0
    BY <1>3, <1>7, AtRest DEF Walks
  <2>3. c \in Ids /\ Parent(c) = m_history_id
    BY <1>1, <1>3, <1>7, AtRest DEF HistoryIsATree
  <2>4. m_current_undo_group = <<>>
    BY <1>2, OnTheWay
  <2> QED
    BY <1>2, <1>4, <1>5, <2>1, <2>2, <2>3, <2>4, RedoToChild
<1> QED
  BY <1>6, <1>7

(* move_to goes up to the parent of n, or down towards the target from n. *)

LEMMA AscendPreserves ==
  ASSUME HistoryInv, m_current_undo_group = <<>>, NEW n \in Ids, text = Snapshot(n),
         m_walk.target \in Ids,
         n # LowestCommonParent(m_history_id, m_walk.target),
         LowestCommonParent(m_history_id, m_walk.target) \in Branch(n),
         Ascend(n),
         UNCHANGED <<text, m_flags, m_last_save_history_id,
                     m_current_undo_group, incoming, snapshots, saved>>
  PROVE  HistoryInv'
<1>1. /\ m_walk' = Walk("up", n, Len(Group(n)), 0, m_walk.target)
      /\ m_history' = m_history /\ m_history_id' = m_history_id /\ pending' = pending
  BY DEF Ascend, history
<1>2. Len(Group(n)) \in Nat /\ text = snapshots[n][Len(Group(n)) + 1]
  BY AtRest, SnapshotProperties
<1>3. /\ m_walk' \in Walks /\ m_walk'.op = "up" /\ m_walk'.at = n
      /\ m_walk'.i = Len(Group(n)) /\ m_walk'.target = m_walk.target
  BY <1>1, <1>2, AtRest DEF Walk, Walks, Ops, Ids
<1>4. n # First
  <2> SUFFICES ASSUME n = First PROVE FALSE
    OBVIOUS
  <2> DEFINE top == LowestCommonParent(m_history_id, m_walk.target)
  <2>1. {First} \in SUBSET Ids /\ Parent(First) = Invalid
    BY AtRest DEF HistoryIsATree, Parent
  <2>2. top \in {First}
    BY <2>1 DEF Branch
  <2> QED
    BY <2>2
<1>5. ~NoUndo
  <2>1. m_history # <<Root>>
    BY <1>4, RootAlone
  <2> QED
    BY <2>1 DEF HistoryInv, NoUndoNoHistory
<1>6. WalkIsOnTrack'
  <2>1. Ids' = Ids /\ m_history'[n].undo_group = Group(n)
    BY <1>1 DEF Ids, Group
  <2>2. /\ LowestCommonParent(m_history_id, m_walk.target)'
             = LowestCommonParent(m_history_id, m_walk.target)
        /\ Branch(m_walk.at)' = Branch(n)
    BY <1>1, <1>3 DEF LowestCommonParent, Branch, Ids, Parent
  <2> QED
    BY <1>1, <1>2, <1>3, <1>4, <2>1, <2>2 DEF WalkIsOnTrack, Group
<1> QED
  BY <1>1, <1>3, <1>5, <1>6, AtRest, WalkPreserves DEF TypeOK

LEMMA DescendPreserves ==
  ASSUME HistoryInv, m_current_undo_group = <<>>, NEW n \in Ids, text = Snapshot(n),
         m_walk.target \in Ids, n \in Branch(m_walk.target),
         Descend(n),
         UNCHANGED <<text, m_flags, m_last_save_history_id,
                     m_current_undo_group, incoming, snapshots, saved>>
  PROVE  HistoryInv'
<1>1. CASE n = m_walk.target
  <2>1. /\ m_history_id' = n /\ pending' = <<text>> /\ m_walk' = Idle
        /\ m_history' = m_history
    BY <1>1 DEF Descend
  <2>2. m_walk' \in Walks /\ m_walk'.op = "idle" /\ WalkIsOnTrack'
    BY <2>1 DEF WalkIsOnTrack, Idle, Walks, Ops
  <2>3. pending' \in Seq(Text)
    BY <2>1, AtRest, SingleTrace
  <2>4. m_history_id' \in Ids /\ text' = Snapshot(m_history_id') /\ pending' = <<text'>>
    BY <2>1
  <2> QED
    BY <2>1, <2>2, <2>3, <2>4, AtRest, WalkPreserves
<1>2. CASE n # m_walk.target
  <2>1. PICK c : c = Toward(n, m_walk.target)
    OBVIOUS
  <2>2. /\ m_history' = LinkRedoChild(n, c)
        /\ m_walk' = Walk("down", c, 0, 0, m_walk.target)
        /\ m_history_id' = m_history_id /\ pending' = pending
    BY <1>2, <2>1 DEF Descend
  <2>3. c \in Branch(m_walk.target) /\ Parent(c) = n /\ c \in Ids
    BY <1>2, <2>1, AtRest, TowardProperties, BranchProperties
  <2>4. c # First /\ text = snapshots[c][1] /\ ~NoUndo
    BY <2>3, ChildProperties
  <2>5. c \in Nat
    BY <2>3 DEF Ids
  <2>6. /\ m_history' \in Seq(Node) /\ Len(m_history') = Len(m_history)
        /\ \A k \in Ids : /\ m_history'[k].parent = Parent(k)
                          /\ m_history'[k].undo_group = Group(k)
                          /\ m_history'[k].redo_child = IF k = n THEN c ELSE RedoChild(k)
    BY <2>2, <2>5, AtRest, LinkProperties
  <2>7. Ids' = Ids
    BY <2>6 DEF Ids
  <2>8. TypeOK'
    <3>1. m_walk' \in Walks
      BY <2>2, <2>5, AtRest DEF Walk, Walks, Ops
    <3>2. m_history' # <<>>
      BY <2>6, AtRest, EmptySeq DEF Ids, First
    <3> QED
      BY <2>2, <2>6, <2>7, <3>1, <3>2, AtRest DEF TypeOK
  <2>9. HistoryIsATree'
    <3>1. m_history'[First].parent = Invalid
      BY <2>6, AtRest DEF HistoryIsATree, Parent
    <3>2. \A k \in Ids \ {First} : /\ m_history'[k].parent \in 1 .. k - 1
                                   /\ m_history'[k].undo_group # <<>>
      BY <2>6, AtRest DEF HistoryIsATree
    <3>3. ASSUME NEW k \in Ids, m_history'[k].redo_child # Invalid
          PROVE  /\ m_history'[k].redo_child \in Ids
                 /\ m_history'[m_history'[k].redo_child].parent = k
      <4>1. CASE k = n
        BY <2>3, <2>6, <4>1
      <4>2. CASE k # n
        BY <2>6, <3>3, <4>2, AtRest DEF HistoryIsATree
      <4> QED
        BY <4>1, <4>2
    <3> QED
      BY <2>7, <3>1, <3>2, <3>3 DEF HistoryIsATree, Parent, Group, RedoChild
  <2>10. HistoryIsTraced'
    <3>1. ASSUME NEW k \in Ids
          PROVE  /\ Traces(snapshots[k], m_history'[k].undo_group)
                 /\ k # First => snapshots[k][1] = Snapshot(m_history'[k].parent)
      BY <2>6, <3>1, AtRest DEF HistoryIsTraced
    <3>2. Len(snapshots) = Len(m_history')
      BY <2>6, AtRest DEF HistoryIsTraced
    <3> QED
      BY <2>7, <3>1, <3>2 DEF HistoryIsTraced, Group, Parent, Snapshot
  <2>11. /\ m_walk'.op = "down" /\ m_walk'.at = c /\ m_walk'.i = 0
         /\ m_walk'.target = m_walk.target
    BY <2>2 DEF Walk
  <2>12. CurrentGroupIsTraced'
    BY <2>11 DEF CurrentGroupIsTraced
  <2>13. WalkIsOnTrack'
    <3>1. Branch(m_walk.target)' = Branch(m_walk.target)
      BY <2>6, <2>7, <2>11 DEF Branch, Parent
    <3>2. Len(Group(c)) \in Nat /\ m_history'[c].undo_group = Group(c)
      BY <2>3, <2>6, AtRest, SnapshotProperties
    <3> QED
      BY <2>3, <2>4, <2>7, <2>11, <3>1, <3>2 DEF WalkIsOnTrack, Group
  <2>14. NoUndoNoHistory' /\ LinesAreEnded'
    BY <2>4, <2>11 DEF HistoryInv, NoUndoNoHistory, NoUndo, LinesAreEnded
  <2>15. SavedNodeIsSaved' /\ VersionsAreEnded'
    BY <2>7 DEF HistoryInv, SavedNodeIsSaved, VersionsAreEnded, Snapshot
  <2> QED
    BY <2>8, <2>9, <2>10, <2>12, <2>13, <2>14, <2>15 DEF HistoryInv
<1> QED
  BY <1>1, <1>2

LEMMA MoveNextPreserves ==
  ASSUME HistoryInv, MoveNext
  PROVE  HistoryInv'
<1> DEFINE top == LowestCommonParent(m_history_id, m_walk.target)
<1>1. UNCHANGED <<text, m_flags, m_last_save_history_id,
                  m_current_undo_group, incoming, snapshots, saved>>
  BY DEF MoveNext
<1>2. m_walk.op \in {"move", "up", "down"}
  BY DEF MoveNext
<1>3. m_walk.target \in Ids /\ m_current_undo_group = <<>>
  BY <1>2 DEF HistoryInv, WalkIsOnTrack, CurrentGroupIsTraced
<1>4. top \in Branch(m_history_id) /\ top \in Branch(m_walk.target) /\ top \in Ids
  BY <1>3, AtRest, LowestCommonParentProperties, BranchProperties
<1>5. CASE /\ m_walk.op = "move"
           /\ IF m_history_id = top THEN Descend(top) ELSE Ascend(m_history_id)
  <2>1. text = Snapshot(m_history_id)
    BY <1>5 DEF HistoryInv, WalkIsOnTrack
  <2>2. CASE m_history_id = top
    BY <1>1, <1>3, <1>4, <1>5, <2>1, <2>2, DescendPreserves
  <2>3. CASE m_history_id # top
    BY <1>1, <1>3, <1>4, <1>5, <2>1, <2>3, AtRest, AscendPreserves
  <2> QED
    BY <2>2, <2>3
<1>6. CASE /\ m_walk.op = "up" /\ m_walk.i = 0
           /\ IF Parent(m_walk.at) = top THEN Descend(top) ELSE Ascend(Parent(m_walk.at))
  <2>1. PICK p : p = Parent(m_walk.at)
    OBVIOUS
  <2>2. m_walk.at \in Ids \ {First} /\ text = snapshots[m_walk.at][1]
    BY <1>6, OnTheWay
  <2>3. p \in Ids /\ text = Snapshot(p)
    BY <2>1, <2>2, ParentProperties
  <2>4. m_walk.at # top /\ top \in Branch(m_walk.at)
    BY <1>6 DEF HistoryInv, WalkIsOnTrack
  <2>5. top \in Branch(p)
    BY <2>1, <2>2, <2>4, AtRest, BranchOfParent
  <2>6. CASE p = top
    BY <1>1, <1>3, <1>4, <1>6, <2>1, <2>3, <2>6, DescendPreserves
  <2>7. CASE p # top
    BY <1>1, <1>3, <1>6, <2>1, <2>3, <2>5, <2>7, AscendPreserves
  <2> QED
    BY <2>6, <2>7
<1>7. CASE /\ m_walk.op = "down" /\ m_walk.i = Len(Group(m_walk.at))
           /\ Descend(m_walk.at)
  <2>1. /\ m_walk.at \in Ids
        /\ text = snapshots[m_walk.at][Len(Group(m_walk.at)) + 1]
    BY <1>7, OnTheWay
  <2>2. text = Snapshot(m_walk.at)
    BY <2>1, AtRest, SnapshotProperties
  <2>3. m_walk.at \in Branch(m_walk.target)
    BY <1>7 DEF HistoryInv, WalkIsOnTrack
  <2> QED
    BY <1>1, <1>3, <1>7, <2>1, <2>2, <2>3, DescendPreserves
<1> QED
  BY <1>5, <1>6, <1>7 DEF MoveNext

-----------------------------------------------------------------------------
(* Reloading. *)

LEMMA WhileReloading ==
  ASSUME HistoryInv, m_walk.op = "reload"
  PROVE  /\ m_walk.at \in Nat /\ m_walk.i \in Nat
         /\ m_walk.at + m_walk.i <= Len(text)
         /\ incoming \in Text /\ Len(incoming) \in Nat
         /\ incoming # <<>> => EndsWithEol(incoming)
         /\ IF m_walk.at = 0 THEN incoming # <<>> ELSE text[m_walk.at] = EOL
         /\ ~NoUndo
<1>1. incoming \in Text /\ m_walk \in Walks
  BY DEF HistoryInv, TypeOK
<1> QED
  BY <1>1, LenProperties DEF HistoryInv, Text, Walks, WalkIsOnTrack, NoUndoNoHistory

LEMMA ReloadKeepPreserves ==
  ASSUME HistoryInv, ReloadKeep
  PROVE  HistoryInv'
<1>1. PICK n : n = FirstLine(incoming)
  OBVIOUS
<1>2. /\ m_walk.op = "reload" /\ m_walk.i = 0 /\ incoming # <<>>
      /\ m_walk.at + n <= Len(text)
      /\ Slice(text, m_walk.at, n) = Slice(incoming, 0, n)
      /\ incoming' = Slice(incoming, n, Len(incoming) - n)
      /\ m_walk' = [m_walk EXCEPT !.at = @ + n]
      /\ UNCHANGED <<text, m_flags, history, m_last_save_history_id,
                     m_current_undo_group, snapshots, pending, saved>>
  BY <1>1 DEF ReloadKeep, Reloading, ghosts
<1>3. /\ n \in 1 .. Len(incoming) /\ incoming[n] = EOL
      /\ incoming' \in Text /\ (incoming' # <<>> => EndsWithEol(incoming'))
  BY <1>1, <1>2, WhileReloading, FirstLineProperties
<1>4. /\ m_walk.at + n \in Nat /\ n \in Nat /\ m_walk.at + n # 0
  <2>1. m_walk.at \in Nat /\ Len(incoming) \in Nat
    BY <1>2, WhileReloading
  <2>2. n \in 1 .. Len(incoming)
    BY <1>3
  <2> QED
    BY <2>1, <2>2
<1>5. /\ m_walk' \in Walks /\ m_walk'.op = "reload" /\ m_walk'.at = m_walk.at + n
      /\ m_walk'.i = 0
  BY <1>2, <1>4, AtRest DEF Walks
<1>6. text[m_walk.at + n] = EOL
  <2>1. Slice(text, m_walk.at, n)[n] = text[m_walk.at + n] /\ Slice(incoming, 0, n)[n] = incoming[0 + n]
    BY <1>3, <1>4 DEF Slice
  <2> QED
    BY <1>2, <1>3, <1>4, <2>1
<1>7. WalkIsOnTrack'
  BY <1>2, <1>3, <1>4, <1>5, <1>6 DEF WalkIsOnTrack
<1> QED
  BY <1>2, <1>3, <1>5, <1>7, WhileReloading, NothingEdited

LEMMA ReloadAddPreserves ==
  ASSUME HistoryInv, ReloadAdd
  PROVE  HistoryInv'
<1>1. PICK n : n = FirstLine(incoming)
  OBVIOUS
<1>2. PICK c : c = Slice(incoming, 0, n)
  OBVIOUS
<1> DEFINE m == Insertion(m_walk.at, c)
<1>3. /\ m_walk.op = "reload" /\ m_walk.i = 0 /\ incoming # <<>> /\ Edit(m)
      /\ incoming' = Slice(incoming, n, Len(incoming) - n)
      /\ m_walk' = [m_walk EXCEPT !.at = @ + n]
      /\ UNCHANGED <<m_flags, history, m_last_save_history_id, saved>>
  BY <1>1, <1>2 DEF ReloadAdd, Reloading
<1>4. /\ n \in 1 .. Len(incoming) /\ incoming[n] = EOL
      /\ c \in Text /\ Len(c) = n /\ n \in Nat
      /\ incoming' \in Text /\ (incoming' # <<>> => EndsWithEol(incoming'))
  <2>1. /\ incoming \in Text /\ EndsWithEol(incoming) /\ Len(incoming) \in Nat
    BY <1>3, WhileReloading
  <2>2. /\ n \in 1 .. Len(incoming) /\ incoming[n] = EOL
        /\ c \in Text /\ Len(c) = n
        /\ Slice(incoming, n, Len(incoming) - n) \in Text
        /\ Slice(incoming, n, Len(incoming) - n) # <<>> =>
             EndsWithEol(Slice(incoming, n, Len(incoming) - n))
    BY <1>1, <1>2, <2>1, FirstLineProperties
  <2>3. n \in Nat
    BY <2>1, <2>2
  <2> QED
    BY <1>3, <2>2, <2>3
<1>5. m_walk.at \in Nat /\ m_walk.at <= Len(text)
  BY <1>3, WhileReloading, AtRest
<1>6. m_walk.at + n \in Nat /\ m_walk.at + n # 0
  BY <1>4, <1>5
<1>7. /\ m \in Modification /\ Fits(m, text) /\ Apply(m, text) = Splice(text, m_walk.at, 0, c)
  BY <1>4, <1>5 DEF Modification, Insertion, Fits, Apply
<1>8. text' = Splice(text, m_walk.at, 0, c)
  BY <1>3, <1>7 DEF Edit
<1>9. Len(text') = Len(text) + n /\ text'[m_walk.at + n] = EOL
  <2>1. Len(Splice(text, m_walk.at, 0, c)) = Len(text) - 0 + Len(c)
    BY <1>4, <1>5, AtRest, SpliceIsText
  <2>2. c[n] = EOL
    <3>1. c[n] = incoming[0 + n]
      BY <1>2, <1>4 DEF Slice
    <3> QED
      BY <1>4, <3>1
  <2>3. Splice(text, m_walk.at, 0, c)[m_walk.at + n] = c[n]
    <3>1. m_walk.at + n \in 1 .. (Len(text) - 0 + Len(c))
      BY <1>4, <1>5, AtRest
    <3>2. ~(m_walk.at + n <= m_walk.at) /\ m_walk.at + n <= m_walk.at + Len(c)
          /\ m_walk.at + n - m_walk.at = n
      BY <1>4, <1>5
    <3>3. PICK k \in Nat : k = m_walk.at + n
      BY <1>6
    <3> HIDE DEF m
    <3>4. /\ k \in 1 .. (Len(text) - 0 + Len(c)) /\ ~(k <= m_walk.at)
          /\ k <= m_walk.at + Len(c) /\ k - m_walk.at = n
      BY <1>4, <1>5, <3>1, <3>3, AtRest
    <3>5. Splice(text, m_walk.at, 0, c)[k] = c[k - m_walk.at]
      BY <3>4 DEF Splice
    <3> QED
      BY <3>3, <3>4, <3>5
  <2> QED
    BY <1>4, <1>8, <2>1, <2>2, <2>3, AtRest
<1>10. /\ m_walk' \in Walks /\ m_walk'.op = "reload" /\ m_walk'.at = m_walk.at + n
       /\ m_walk'.i = 0
  BY <1>3, <1>6, AtRest DEF Walks
<1>11. WalkIsOnTrack'
  <2>1. m_walk'.at + m_walk'.i <= Len(text')
    BY <1>4, <1>5, <1>9, <1>10, AtRest
  <2> QED
    BY <1>4, <1>6, <1>9, <1>10, <2>1 DEF WalkIsOnTrack
<1> HIDE DEF m
<1> QED
  BY <1>3, <1>4, <1>7, <1>10, <1>11, WhileReloading, EditPreserves

LEMMA ReloadRemovePreserves ==
  ASSUME HistoryInv, NEW len \in 1 .. Len(text), ReloadRemove(len)
  PROVE  HistoryInv'
<1>1. /\ m_walk.op = "reload" /\ m_walk.at + len <= Len(text)
      /\ m_walk' = [m_walk EXCEPT !.i = len]
      /\ UNCHANGED <<text, m_flags, history, m_last_save_history_id,
                     m_current_undo_group, incoming, snapshots, pending, saved>>
  BY DEF ReloadRemove, Reloading, ghosts
<1>2. /\ m_walk' \in Walks /\ m_walk'.op = "reload" /\ m_walk'.at = m_walk.at
      /\ m_walk'.i = len
  BY <1>1, AtRest DEF Walks
<1>3. WalkIsOnTrack'
  BY <1>1, <1>2, WhileReloading DEF WalkIsOnTrack
<1> QED
  BY <1>1, <1>2, <1>3, WhileReloading, NothingEdited

LEMMA ReloadRemoveLinePreserves ==
  ASSUME HistoryInv, ReloadRemoveLine
  PROVE  HistoryInv'
<1>1. PICK start : start = LastLineStart(Slice(text, m_walk.at, m_walk.i))
  OBVIOUS
<1> DEFINE pos == m_walk.at + start
           m == Erasure(pos, Slice(text, pos, m_walk.i - start))
<1>2. /\ m_walk.op = "reload" /\ m_walk.i > 0 /\ Edit(m)
      /\ m_walk' = [m_walk EXCEPT !.i = start]
      /\ UNCHANGED <<m_flags, history, m_last_save_history_id, incoming, saved>>
  BY <1>1 DEF ReloadRemoveLine
<1>3. start \in 0 .. m_walk.i - 1
  <2>1. /\ Slice(text, m_walk.at, m_walk.i) \in Text
        /\ Len(Slice(text, m_walk.at, m_walk.i)) = m_walk.i
    BY <1>2, WhileReloading, AtRest, SliceIsText
  <2> QED
    BY <1>1, <1>2, <2>1, LastLineStartProperties
<1>4. /\ pos \in Nat /\ m_walk.i - start \in Nat /\ start \in Nat
      /\ pos + (m_walk.i - start) <= Len(text)
      /\ Len(text) - (m_walk.i - start) >= m_walk.at + start
      /\ m_walk.at <= pos
  <2>1. /\ m_walk.at \in Nat /\ m_walk.i \in Nat /\ m_walk.at + m_walk.i <= Len(text)
        /\ Len(text) \in Nat
    BY <1>2, WhileReloading, AtRest
  <2>2. start \in Nat /\ start < m_walk.i
    BY <1>3, <2>1
  <2> QED
    BY <2>1, <2>2
<1>5. /\ m \in Modification /\ Fits(m, text)
      /\ Len(Apply(m, text)) = Len(text) - (m_walk.i - start)
  BY <1>4, AtRest, ErasureFits
<1>6. text' = Apply(m, text)
  BY <1>2 DEF Edit
<1>7. m_walk.at # 0 => text'[m_walk.at] = EOL
  <2> SUFFICES ASSUME m_walk.at # 0 PROVE text'[m_walk.at] = EOL
    OBVIOUS
  <2> DEFINE c == Slice(text, pos, m_walk.i - start)
  <2>1. c \in Text /\ Len(c) = m_walk.i - start
    BY <1>4, AtRest, SliceIsText
  <2>2. Apply(m, text) = Splice(text, pos, Len(c), <<>>)
    BY DEF Apply, Erasure
  <2>3. m_walk.at \in 1 .. (Len(text) - Len(c) + Len(<<>>)) /\ m_walk.at <= pos
    <3>1. m_walk.at \in Nat /\ Len(text) \in Nat /\ Len(<<>>) = 0
      BY <1>2, WhileReloading, AtRest, EmptySeq
    <3> HIDE DEF c
    <3> QED
      BY <1>4, <2>1, <3>1
  <2>4. Splice(text, pos, Len(c), <<>>)[m_walk.at] = text[m_walk.at]
    <3> HIDE DEF c, pos
    <3> QED BY <2>3 DEF Splice
  <2> QED
    BY <1>2, <1>6, <2>2, <2>4, WhileReloading
<1>8. /\ m_walk' \in Walks /\ m_walk'.op = "reload" /\ m_walk'.at = m_walk.at
      /\ m_walk'.i = start
  BY <1>2, <1>4, AtRest DEF Walks
<1>9. WalkIsOnTrack'
  <2>1. m_walk'.at + m_walk'.i <= Len(text')
    BY <1>4, <1>5, <1>6, <1>8
  <2> QED
    BY <1>2, <1>7, <1>8, <2>1, WhileReloading DEF WalkIsOnTrack
<1> HIDE DEF m
<1> QED
  BY <1>2, <1>5, <1>8, <1>9, WhileReloading, EditPreserves

-----------------------------------------------------------------------------
(* Flags and fifos. *)

(* Only the flags, or the name, change. *)
LEMMA FlagsPreserve ==
  ASSUME HistoryInv, m_walk.op = "idle",
         UNCHANGED <<text, history, m_current_undo_group, m_walk, incoming, ghosts>>,
         m_flags' \subseteq Flag, NoUndo' => NoUndo, "Fifo" \in m_flags' => NoUndo',
         "File" \in m_flags' <=> "File" \in m_flags,
         m_last_save_history_id' \in {m_last_save_history_id, Invalid}
  PROVE  HistoryInv'
<1>1. /\ m_history' = m_history /\ m_history_id' = m_history_id
      /\ snapshots' = snapshots /\ pending' = pending /\ saved' = saved
  BY DEF history, ghosts
<1>2. TypeOK'
  BY <1>1 DEF HistoryInv, TypeOK, Ids
<1>3. HistoryIsATree' /\ HistoryIsTraced' /\ VersionsAreEnded' /\ SavedNodeIsSaved'
  BY <1>1 DEF HistoryInv, HistoryIsATree, HistoryIsTraced, VersionsAreEnded,
              SavedNodeIsSaved, Ids, Parent, Group, RedoChild, Snapshot
<1>4. CurrentGroupIsTraced' /\ NoUndoNoHistory' /\ LinesAreEnded'
  BY <1>1 DEF HistoryInv, CurrentGroupIsTraced, NoUndoNoHistory, LinesAreEnded,
              Snapshot, NoUndo
<1>5. WalkIsOnTrack'
  BY <1>1 DEF HistoryInv, WalkIsOnTrack, Idle
<1> QED
  BY <1>2, <1>3, <1>4, <1>5 DEF HistoryInv

LEMMA SetNamePreserves ==
  ASSUME HistoryInv, SetName
  PROVE  HistoryInv'
BY AtRest, FlagsPreserve DEF SetName, TypeOK, Flag, NoUndo, Idle, HistoryInv, NoUndoNoHistory

LEMMA SetReadOnlyPreserves ==
  ASSUME HistoryInv, NEW on \in BOOLEAN, SetReadOnly(on)
  PROVE  HistoryInv'
<1>1. m_flags' = IF on THEN m_flags \cup {"ReadOnly"} ELSE m_flags \ {"ReadOnly"}
  BY DEF SetReadOnly
<1>2. /\ m_flags' \subseteq Flag /\ (NoUndo' => NoUndo)
      /\ "File" \in m_flags' <=> "File" \in m_flags
      /\ "Fifo" \in m_flags' => NoUndo'
  BY <1>1, AtRest DEF TypeOK, Flag, NoUndo, HistoryInv, NoUndoNoHistory
<1> QED
  BY <1>2, FlagsPreserve DEF SetReadOnly, Idle

LEMMA CloseFifoPreserves ==
  ASSUME HistoryInv, CloseFifo
  PROVE  HistoryInv'
<1>1. m_flags' = m_flags \ {"Fifo", "NoUndo"}
  BY DEF CloseFifo
<1>2. /\ m_flags' \subseteq Flag /\ (NoUndo' => NoUndo)
      /\ "File" \in m_flags' <=> "File" \in m_flags
      /\ "Fifo" \notin m_flags'
  BY <1>1, AtRest DEF TypeOK, NoUndo
<1> QED
  BY <1>2, FlagsPreserve DEF CloseFifo, Idle

(* A buffer with no history but its root, at rest. *)
LEMMA FreshBuffer ==
  ASSUME text \in Text, EndsWithEol(text), m_flags \subseteq Flag,
         m_history = <<Root>>, m_history_id = First,
         m_last_save_history_id = First, m_current_undo_group = <<>>,
         m_walk = Idle, incoming \in Text,
         snapshots = << <<text>> >>, pending = <<text>>, saved = text,
         NoUndo => "File" \notin m_flags, "Fifo" \in m_flags => NoUndo
  PROVE  HistoryInv
<1>1. /\ Len(m_history) = 1 /\ Ids = {First}
  BY RootAlone
<1>2. Root \in Node /\ Parent(First) = Invalid /\ RedoChild(First) = Invalid
      /\ Group(First) = <<>>
  BY DEF Root, Node, Parent, RedoChild, Group, First, Invalid
<1>3. /\ <<text>> \in Seq(Text) /\ Traces(<<text>>, <<>>)
      /\ Len(<<text>>) = 1 /\ <<text>>[1] = text
  BY SingleTrace
<1>4. /\ snapshots \in Seq(Seq(Text)) /\ Len(snapshots) = 1
      /\ snapshots[First] = <<text>> /\ Snapshot(First) = text
  BY <1>3 DEF First, Snapshot
<1>5. Idle \in Walks /\ Idle.op = "idle"
  BY DEF Idle, Walks, Ops
<1>6. TypeOK
  <2>1. m_history \in Seq(Node) /\ m_history # <<>>
    BY <1>2
  <2> QED
    BY <1>1, <1>3, <1>4, <1>5, <2>1 DEF TypeOK
<1>7. HistoryIsATree
  BY <1>1, <1>2 DEF HistoryIsATree, Parent
<1>8. HistoryIsTraced /\ VersionsAreEnded /\ SavedNodeIsSaved
  BY <1>1, <1>2, <1>3, <1>4 DEF HistoryIsTraced, VersionsAreEnded, SavedNodeIsSaved
<1>9. CurrentGroupIsTraced
  BY <1>3, <1>4, <1>5 DEF CurrentGroupIsTraced
<1>10. WalkIsOnTrack
  BY <1>5 DEF WalkIsOnTrack
<1>11. NoUndoNoHistory /\ LinesAreEnded
  BY <1>5 DEF NoUndoNoHistory, LinesAreEnded
<1> QED
  BY <1>6, <1>7, <1>8, <1>9, <1>10, <1>11 DEF HistoryInv

LEMMA OpenFifoPreserves ==
  ASSUME HistoryInv, FifoMidEdit = FALSE, OpenFifo
  PROVE  HistoryInv'
<1>1. /\ m_walk = Idle /\ m_current_undo_group = <<>>
      /\ m_flags' = {"Fifo", "NoUndo"} /\ text' = <<EOL>>
      /\ m_history' = <<Root>> /\ m_history_id' = First
      /\ m_last_save_history_id' = First
      /\ snapshots' = << <<text'>> >> /\ pending' = <<text'>> /\ saved' = text'
      /\ UNCHANGED <<m_current_undo_group, m_walk, incoming>>
  BY DEF OpenFifo
<1>2. text' \in Text /\ EndsWithEol(text')
  <2>1. <<EOL>> \in Seq(Char) /\ <<EOL>> # <<>> /\ <<EOL>>[Len(<<EOL>>)] = EOL
    BY CharAssumption
  <2> QED
    BY <1>1, <2>1 DEF Text, EndsWithEol
<1>3. m_flags' \subseteq Flag /\ "File" \notin m_flags' /\ NoUndo'
  BY <1>1 DEF Flag, NoUndo
<1>4. incoming' \in Text
  BY <1>1, AtRest DEF TypeOK
<1>5. Len(m_history') = 1 /\ Ids' = {First}
  <2>1. Len(<<Root>>) = 1
    OBVIOUS
  <2>2. Len(m_history') = 1
    BY <1>1, <2>1
  <2> QED
    BY <2>2 DEF Ids, First
<1>6. /\ Root \in Node /\ m_history'[First] = Root
      /\ Root.parent = Invalid /\ Root.redo_child = Invalid /\ Root.undo_group = <<>>
  BY <1>1 DEF Root, Node, First, Invalid
<1>7. /\ <<text'>> \in Seq(Text) /\ Traces(<<text'>>, <<>>)
      /\ Len(<<text'>>) = 1 /\ <<text'>>[1] = text'
  BY <1>2, SingleTrace
<1>8. /\ snapshots' \in Seq(Seq(Text)) /\ Len(snapshots') = 1
      /\ snapshots'[First] = <<text'>> /\ Snapshot(First)' = text'
  BY <1>1, <1>7 DEF First, Snapshot
<1>9. m_walk' \in Walks /\ m_walk'.op = "idle"
  BY <1>1 DEF Idle, Walks, Ops
<1>10. TypeOK'
  <2>1. m_history' \in Seq(Node) /\ m_history' # <<>>
    BY <1>1, <1>6
  <2>2. m_current_undo_group' \in Seq(Modification)
    BY <1>1
  <2>3. m_history_id' \in Ids' /\ m_last_save_history_id' \in Ids' \cup {Invalid}
    BY <1>1, <1>5
  <2> QED
    BY <1>1, <1>2, <1>3, <1>4, <1>7, <1>8, <1>9, <2>1, <2>2, <2>3 DEF TypeOK
<1>11. HistoryIsATree'
  BY <1>5, <1>6 DEF HistoryIsATree, Parent, RedoChild
<1>12. HistoryIsTraced' /\ VersionsAreEnded' /\ SavedNodeIsSaved'
  BY <1>2, <1>3, <1>5, <1>6, <1>7, <1>8
     DEF HistoryIsTraced, VersionsAreEnded, SavedNodeIsSaved, Group
<1>13. CurrentGroupIsTraced'
  BY <1>1, <1>7, <1>8, <1>9 DEF CurrentGroupIsTraced, Snapshot
<1>14. WalkIsOnTrack'
  BY <1>1, <1>9 DEF WalkIsOnTrack
<1>15. NoUndoNoHistory' /\ LinesAreEnded'
  BY <1>1, <1>2, <1>3, <1>9 DEF NoUndoNoHistory, LinesAreEnded
<1> QED
  BY <1>10, <1>11, <1>12, <1>13, <1>14, <1>15 DEF HistoryInv

-----------------------------------------------------------------------------
(* The theorems. *)

LEMMA InitHistoryInv == Init => HistoryInv
<1> SUFFICES ASSUME Init PROVE HistoryInv
  OBVIOUS
<1>1. /\ m_history = <<Root>> /\ m_history_id = First
      /\ m_last_save_history_id = First /\ m_current_undo_group = <<>>
      /\ m_walk = Idle /\ incoming = <<>>
      /\ snapshots = << <<text>> >> /\ pending = <<text>> /\ saved = text
  BY DEF Init
<1>2. text \in Text /\ EndsWithEol(text)
  <2>1. <<EOL>> \in Seq(Char) /\ <<EOL>> # <<>> /\ <<EOL>>[Len(<<EOL>>)] = EOL
    BY CharAssumption
  <2> QED
    BY <2>1, BufferAssumption DEF Init, Text, EndsWithEol
<1>3. /\ m_flags \subseteq Flag /\ (NoUndo => "File" \notin m_flags)
      /\ "Fifo" \in m_flags => NoUndo
  BY DEF Init, Flag, NoUndo
<1>4. incoming \in Text
  BY <1>1 DEF Text
<1> QED
  BY <1>1, <1>2, <1>3, <1>4, FreshBuffer

LEMMA NextHistoryInv ==
  ASSUME FifoMidEdit = FALSE
  PROVE  HistoryInv /\ [Next]_vars => HistoryInv'
<1> SUFFICES ASSUME HistoryInv, [Next]_vars PROVE HistoryInv'
  OBVIOUS
<1>1. CASE UNCHANGED vars
  <2>1. /\ m_history' = m_history /\ m_history_id' = m_history_id
        /\ text' = text /\ m_flags' = m_flags /\ m_walk' = m_walk
        /\ m_last_save_history_id' = m_last_save_history_id
        /\ m_current_undo_group' = m_current_undo_group
        /\ incoming' = incoming /\ snapshots' = snapshots /\ pending' = pending
        /\ saved' = saved
    BY <1>1 DEF vars
  <2>2. TypeOK' /\ HistoryIsATree'
    BY <2>1 DEF HistoryInv, TypeOK, HistoryIsATree, Ids, Parent, Group, RedoChild
  <2>3. HistoryIsTraced' /\ VersionsAreEnded' /\ SavedNodeIsSaved' /\ CurrentGroupIsTraced'
    BY <2>1 DEF HistoryInv, HistoryIsTraced, VersionsAreEnded, SavedNodeIsSaved,
       CurrentGroupIsTraced, Ids, Parent, Group, Snapshot
  <2>4. WalkIsOnTrack'
    <3>1. /\ Ids' = Ids /\ Group(m_walk.at)' = Group(m_walk.at)
          /\ Snapshot(m_history_id)' = Snapshot(m_history_id)
      BY <2>1 DEF Ids, Group, Snapshot
    <3>2. /\ Branch(m_walk.at)' = Branch(m_walk.at)
          /\ Branch(m_walk.target)' = Branch(m_walk.target)
          /\ LowestCommonParent(m_history_id, m_walk.target)'
               = LowestCommonParent(m_history_id, m_walk.target)
      BY <2>1 DEF Branch, LowestCommonParent, Ids, Parent
    <3>3. WalkIsOnTrack
      BY DEF HistoryInv
    <3> QED
      BY <2>1, <3>1, <3>2, <3>3 DEF WalkIsOnTrack
  <2>5. NoUndoNoHistory' /\ LinesAreEnded'
    BY <2>1 DEF HistoryInv, NoUndoNoHistory, NoUndo, LinesAreEnded
  <2> QED
    BY <2>2, <2>3, <2>4, <2>5 DEF HistoryInv
<1>2. CASE Editing
  BY <1>2, InsertPreserves, ErasePreserves, ReplacePreserves DEF Editing
<1>3. CASE Commit
  BY <1>3, CommitActionPreserves
<1>4. CASE \E count \in 1 .. MaxHistory : Undo(count) \/ Redo(count)
  BY <1>4, UndoPreserves, RedoPreserves
<1>5. CASE \E id \in Ids : MoveTo(id)
  BY <1>5, MoveToPreserves
<1>6. CASE \E t \in FileTexts : Reload(t)
  BY <1>6, ReloadPreserves
<1>7. CASE NotifySaved \/ SetName
  BY <1>7, NotifySavedPreserves, SetNamePreserves
<1>8. CASE \E on \in BOOLEAN : SetReadOnly(on)
  BY <1>8, SetReadOnlyPreserves
<1>9. CASE OpenFifo \/ CloseFifo
  BY <1>9, OpenFifoPreserves, CloseFifoPreserves
<1>10. CASE \E s \in Contents : ReadFifo(s)
  BY <1>10, ReadFifoPreserves
<1>11. CASE Step
  BY <1>11, ReplaceInsertPreserves, RevertModificationPreserves,
     ApplyModificationPreserves, UndoNextPreserves, RedoNextPreserves,
     MoveNextPreserves, ReloadKeepPreserves, ReloadAddPreserves,
     ReloadRemovePreserves, ReloadRemoveLinePreserves, ReloadDonePreserves DEF Step
<1> QED
  BY <1>1, <1>2, <1>3, <1>4, <1>5, <1>6, <1>7, <1>8, <1>9, <1>10, <1>11 DEF Next

THEOREM HistoryIsSound ==
  ASSUME FifoMidEdit = FALSE
  PROVE  Spec => []HistoryInv
<1>1. Init => HistoryInv
  BY InitHistoryInv
<1>2. HistoryInv /\ [Next]_vars => HistoryInv'
  BY NextHistoryInv
<1> QED
  BY <1>1, <1>2, PTL DEF Spec

(* Every variable keeps to its type. *)
THEOREM TypeCorrect ==
  ASSUME FifoMidEdit = FALSE
  PROVE  Spec => []TypeOK
<1>1. HistoryInv => TypeOK
  BY DEF HistoryInv
<1> QED
  BY <1>1, HistoryIsSound, PTL

(* Undo, redo and move_to only apply modifications that fit the text: the   *)
(* assertions of apply_modification hold.                                   *)
THEOREM ModificationsAlwaysFit ==
  ASSUME FifoMidEdit = FALSE
  PROVE  Spec => []ModificationsFit
<1>1. HistoryInv => ModificationsFit
  <2> SUFFICES ASSUME HistoryInv PROVE ModificationsFit
    OBVIOUS
  <2>1. ASSUME m_walk.op \in {"undo", "up"}, m_walk.i > 0
        PROVE  Fits(InverseOf(Group(m_walk.at)[m_walk.i]), text)
    BY <2>1, OnTheWay, NextModification
  <2>2. ASSUME m_walk.op \in {"redo", "down"}, m_walk.i < Len(Group(m_walk.at))
        PROVE  Fits(Group(m_walk.at)[m_walk.i + 1], text)
    BY <2>2, OnTheWay, NextModification
  <2> QED
    BY <2>1, <2>2 DEF ModificationsFit, LatestApplied
<1> QED
  BY <1>1, HistoryIsSound, PTL

(* Between two calls the text has lines, and its last one is ended. *)
THEOREM LinesAreAlwaysEnded ==
  ASSUME FifoMidEdit = FALSE
  PROVE  Spec => []LinesAreEnded
<1>1. HistoryInv => LinesAreEnded
  BY DEF HistoryInv
<1> QED
  BY <1>1, HistoryIsSound, PTL

(* The history stays a tree. *)
THEOREM HistoryStaysATree ==
  ASSUME FifoMidEdit = FALSE
  PROVE  Spec => []HistoryIsATree
<1>1. HistoryInv => HistoryIsATree
  BY DEF HistoryInv
<1> QED
  BY <1>1, HistoryIsSound, PTL

(* A file buffer that is not said to be modified holds the text last saved. *)
THEOREM UnmodifiedIsAlwaysSaved ==
  ASSUME FifoMidEdit = FALSE
  PROVE  Spec => []UnmodifiedIsSaved
<1>1. HistoryInv => UnmodifiedIsSaved
  <2> SUFFICES ASSUME HistoryInv, m_walk = Idle, "File" \in m_flags, ~IsModified
               PROVE  text = saved
    BY DEF UnmodifiedIsSaved
  <2>1. m_history_id = m_last_save_history_id /\ m_current_undo_group = <<>>
    BY DEF IsModified
  <2>2. m_history_id # Invalid
    BY AtRest DEF Ids, Invalid
  <2>3. saved = Snapshot(m_history_id)
    BY <2>1, <2>2 DEF HistoryInv, SavedNodeIsSaved
  <2>4. /\ Traces(pending, <<>>)
        /\ pending[1] = Snapshot(m_history_id) /\ pending[Len(pending)] = text
    BY <2>1 DEF HistoryInv, CurrentGroupIsTraced, Idle
  <2>5. Len(pending) = 1
    BY <2>4 DEF Traces
  <2> QED
    BY <2>3, <2>4, <2>5
<1> QED
  BY <1>1, HistoryIsSound, PTL

-----------------------------------------------------------------------------
(***************************************************************************)
(* A buffer implements the tree of versions that its users see: each step  *)
(* of the calls that go through the history, one modification at a time,   *)
(* is a step of VersionTree or none.  What it takes beyond the invariant   *)
(* of the history is that the redo_child links lead to the current node.   *)
(***************************************************************************)

(* The branch of n is linked: redo goes down along it. *)
Linked(n) == \A c \in Branch(n) \ {First} : RedoChild(Parent(c)) = c

(* The nodes of a branch come before its end. *)
LEMMA BranchIsBelow ==
  ASSUME HistoryInv, NEW n \in Ids, NEW c \in Branch(n)
  PROVE  c <= n
<1> DEFINE S == 1 .. n
<1>1. S \in SUBSET Ids /\ n \in S
  BY AtRest DEF Ids
<1>2. \A k \in S : Parent(k) # Invalid => Parent(k) \in S
  <2> SUFFICES ASSUME NEW k \in S, Parent(k) # Invalid PROVE Parent(k) \in S
    OBVIOUS
  <2>1. k \in Ids /\ k # First
    BY <1>1, AtRest DEF HistoryIsATree, Parent
  <2>2. Parent(k) \in 1 .. k - 1
    BY <2>1, AtRest DEF HistoryIsATree
  <2> QED
    BY <2>2, AtRest DEF Ids
<1>3. c \in S
  BY <1>1, <1>2 DEF Branch
<1> QED
  BY <1>3

(* The branch of an ancestor is part of the branch. *)
LEMMA BranchOfAncestor ==
  ASSUME NEW n \in Ids, NEW a \in Branch(n)
  PROVE  Branch(a) \subseteq Branch(n)
BY DEF Branch

LEMMA LinkedAncestor ==
  ASSUME NEW n \in Ids, NEW a \in Branch(n), Linked(n)
  PROVE  Linked(a)
BY BranchOfAncestor DEF Linked

(* A child that its parent links to is at the end of a linked branch. *)
LEMMA LinkedChild ==
  ASSUME HistoryInv, NEW c \in Ids \ {First}, Linked(Parent(c)), RedoChild(Parent(c)) = c
  PROVE  Linked(c)
<1> SUFFICES ASSUME NEW d \in Branch(c) \ {First} PROVE RedoChild(Parent(d)) = d
  BY DEF Linked
<1>1. CASE d = c
  BY <1>1
<1>2. CASE d # c
  <2>1. d \in Branch(Parent(c))
    BY <1>2, AtRest, BranchOfParent
  <2> QED
    BY <2>1 DEF Linked
<1> QED
  BY <1>1, <1>2

(* As long as the nodes keep their parents and children, so do branches. *)
LEMMA SameLinks ==
  ASSUME m_history' = m_history, NEW n
  PROVE  Linked(n)' = Linked(n) /\ Branch(n)' = Branch(n) /\ Ids' = Ids
BY DEF Linked, Branch, Ids, Parent, RedoChild

(* What commit_undo_group does to the tree. *)
LEMMA CommitTree ==
  ASSUME HistoryInv, ~NoUndo, m_current_undo_group # <<>>, CommitUndoGroup,
         NEW L, L = Len(m_history)
  PROVE  /\ L \in Nat /\ m_history_id' = L + 1
         /\ Ids' = Ids \cup {L + 1} /\ L + 1 \notin Ids
         /\ Len(m_history') = L + 1 /\ Len(snapshots') = L + 1
         /\ \A k \in Ids :
              /\ m_history'[k].parent = Parent(k)
              /\ m_history'[k].redo_child = IF k = m_history_id THEN L + 1
                                            ELSE RedoChild(k)
              /\ snapshots'[k] = snapshots[k]
         /\ m_history'[L + 1].parent = m_history_id
         /\ m_history'[L + 1].redo_child = Invalid
         /\ snapshots'[L + 1] = pending
<1>1. L \in Nat /\ m_history_id \in Ids /\ NextHistoryId = L + 1
  BY AtRest DEF NextHistoryId
<1>2. PICK linked : linked = LinkRedoChild(m_history_id, L + 1)
  OBVIOUS
<1>3. PICK new : new = [parent |-> m_history_id, redo_child |-> Invalid,
                        undo_group |-> m_current_undo_group]
  OBVIOUS
<1>4. /\ m_history' = Append(linked, new) /\ m_history_id' = L + 1
      /\ snapshots' = Append(snapshots, pending)
  <2>1. /\ m_history' = Append(LinkRedoChild(m_history_id, NextHistoryId),
                               [parent |-> m_history_id, redo_child |-> Invalid,
                                undo_group |-> m_current_undo_group])
        /\ m_history_id' = NextHistoryId
        /\ snapshots' = Append(snapshots, pending)
    BY Zenon DEF CommitUndoGroup
  <2> QED
    BY <1>1, <1>2, <1>3, <2>1
<1>5. new \in Node
  BY <1>1, <1>3, AtRest DEF TypeOK, Node, Ids, Invalid
<1>6. /\ linked \in Seq(Node) /\ Len(linked) = L
      /\ \A k \in Ids : /\ linked[k].parent = Parent(k)
                        /\ linked[k].redo_child = IF k = m_history_id THEN L + 1
                                                  ELSE RedoChild(k)
  BY <1>1, <1>2, AtRest, LinkProperties
<1>7. /\ Len(m_history') = L + 1
      /\ \A k \in Ids : m_history'[k] = linked[k]
      /\ m_history'[L + 1] = new
  <2>1. /\ Len(Append(linked, new)) = L + 1
        /\ \A k \in 1 .. L : Append(linked, new)[k] = linked[k]
        /\ Append(linked, new)[L + 1] = new
    BY <1>5, <1>6, AppendProperties
  <2> QED
    BY <1>4, <2>1 DEF Ids
<1>8. /\ Len(snapshots') = L + 1
      /\ \A k \in Ids : snapshots'[k] = snapshots[k]
      /\ snapshots'[L + 1] = pending
  BY <1>4, AtRest, AppendProperties DEF TypeOK, HistoryIsTraced, Ids
<1>9. Ids' = Ids \cup {L + 1} /\ L + 1 \notin Ids
  BY <1>1, <1>7 DEF Ids
<1>10. /\ m_history'[L + 1].parent = m_history_id
       /\ m_history'[L + 1].redo_child = Invalid
  BY <1>3, <1>7
<1> QED
  BY <1>1, <1>4, <1>6, <1>7, <1>8, <1>9, <1>10

(* The branches of the nodes there were keep, and that of the new node adds *)
(* it to that of its parent.                                                *)
LEMMA CommitBranch ==
  ASSUME HistoryInv, ~NoUndo, m_current_undo_group # <<>>, CommitUndoGroup,
         NEW L, L = Len(m_history)
  PROVE  /\ \A n \in Ids : Branch(n)' = Branch(n)
         /\ Branch(L + 1)' = Branch(m_history_id) \cup {L + 1}
<1>1. /\ Ids' = Ids \cup {L + 1} /\ L + 1 \notin Ids /\ L \in Nat
      /\ \A k \in Ids : Parent(k)' = Parent(k)
      /\ Parent(L + 1)' = m_history_id /\ m_history_id \in Ids
      /\ m_history_id # Invalid
  BY CommitTree, AtRest DEF Parent, Ids, Invalid
<1>2. \A k \in Ids : Parent(k) # Invalid => Parent(k) \in Ids
  BY AtRest, BranchProperties
<1>3. ASSUME NEW n \in Ids
      PROVE  Branch(n)' = Branch(n)
  <2>1. ASSUME NEW c \in Branch(n)' PROVE c \in Branch(n)
    <3>1. c \in Ids
      BY <1>1, <1>2, <2>1 DEF Branch
    <3>2. ASSUME NEW S \in SUBSET Ids, n \in S,
                 \A k \in S : Parent(k) # Invalid => Parent(k) \in S
          PROVE  c \in S
      <4>1. S \in SUBSET Ids' /\ \A k \in S : Parent(k)' # Invalid => Parent(k)' \in S
        BY <1>1, <3>2
      <4> QED
        BY <2>1, <3>2, <4>1 DEF Branch
    <3> QED
      BY <3>1, <3>2 DEF Branch
  <2>2. ASSUME NEW c \in Branch(n) PROVE c \in Branch(n)'
    <3>1. c \in Ids'
      BY <1>1, <2>2 DEF Branch
    <3>2. ASSUME NEW S \in SUBSET Ids', n \in S,
                 \A k \in S : Parent(k)' # Invalid => Parent(k)' \in S
          PROVE  c \in S
      <4>1. PICK R : R = S \cap Ids
        OBVIOUS
      <4>2. /\ R \in SUBSET Ids /\ n \in R
            /\ \A k \in R : Parent(k) # Invalid => Parent(k) \in R
        BY <1>1, <1>2, <3>2, <4>1
      <4>3. c \in R
        BY <2>2, <4>2 DEF Branch
      <4> QED
        BY <4>1, <4>3
    <3> QED
      BY <3>1, <3>2 DEF Branch
  <2> QED
    BY <2>1, <2>2
<1>4. Branch(L + 1)' = Branch(m_history_id) \cup {L + 1}
  <2>1. ASSUME NEW c \in Branch(L + 1)', c # L + 1 PROVE c \in Branch(m_history_id)
    <3>1. c \in Ids
      BY <1>1, <2>1 DEF Branch
    <3>2. ASSUME NEW S \in SUBSET Ids, m_history_id \in S,
                 \A k \in S : Parent(k) # Invalid => Parent(k) \in S
          PROVE  c \in S
      <4>1. PICK R : R = S \cup {L + 1}
        OBVIOUS
      <4>2. /\ R \in SUBSET Ids' /\ L + 1 \in R
            /\ \A k \in R : Parent(k)' # Invalid => Parent(k)' \in R
        BY <1>1, <3>2, <4>1
      <4>3. c \in R
        BY <2>1, <4>2 DEF Branch
      <4> QED
        BY <2>1, <4>1, <4>3
    <3> QED
      BY <3>1, <3>2 DEF Branch
  <2>2. ASSUME NEW c \in Branch(m_history_id) PROVE c \in Branch(L + 1)'
    <3>0. PICK h \in Ids : h = m_history_id
      BY <1>1
    <3>1. c \in Branch(h)'
      BY <1>3, <2>2, <3>0
    <3>2. c \in Ids'
      BY <1>1, <2>2 DEF Branch
    <3>3. ASSUME NEW S \in SUBSET Ids', L + 1 \in S,
                 \A k \in S : Parent(k)' # Invalid => Parent(k)' \in S
          PROVE  c \in S
      <4>1. h \in S
        BY <1>1, <3>0, <3>3
      <4> QED
        BY <3>1, <3>3, <4>1 DEF Branch
    <3> QED
      BY <3>2, <3>3 DEF Branch
  <2>3. L + 1 \in Branch(L + 1)'
    BY <1>1 DEF Branch
  <2> QED
    BY <2>1, <2>2, <2>3
<1> QED
  BY <1>3, <1>4

(* The links lead to the node that a commit adds. *)
LEMMA CommitLinks ==
  ASSUME HistoryInv, Linked(m_history_id), CommitUndoGroup, NEW h, h = m_history_id'
  PROVE  Linked(h)'
<1>1. CASE NoUndo \/ m_current_undo_group = <<>>
  <2>1. m_history' = m_history /\ h = m_history_id
    BY <1>1, CommitProperties DEF CommitUndoGroup
  <2> QED
    BY <2>1, SameLinks
<1>2. CASE ~NoUndo /\ m_current_undo_group # <<>>
  <2>1. PICK L : L = Len(m_history)
    OBVIOUS
  <2>2. /\ h = L + 1 /\ L \in Nat /\ m_history_id \in Ids
        /\ Branch(h)' = Branch(m_history_id) \cup {L + 1}
    BY <1>2, <2>1, AtRest, CommitTree, CommitBranch
  <2>3. ASSUME NEW c \in Branch(m_history_id) \ {First}
        PROVE  RedoChild(Parent(c))' = c
    <3>1. c \in Ids /\ c <= m_history_id
      BY <2>2, AtRest, BranchProperties, BranchIsBelow
    <3>2. PICK p : p = Parent(c)
      OBVIOUS
    <3>3. p \in Ids /\ p # m_history_id
      BY <3>1, <3>2, <2>2, AtRest DEF HistoryIsATree, Ids
    <3>4. m_history'[c].parent = p /\ m_history'[p].redo_child = RedoChild(p)
      BY <1>2, <2>1, <3>1, <3>2, <3>3, CommitTree
    <3> QED
      BY <3>2, <3>4 DEF Linked, Parent, RedoChild
  <2>4. RedoChild(Parent(L + 1))' = L + 1
    BY <1>2, <2>1, <2>2, CommitTree DEF Parent, RedoChild
  <2> QED
    BY <2>2, <2>3, <2>4 DEF Linked
<1> QED
  BY <1>1, <1>2

-----------------------------------------------------------------------------
(* Redo follows the current branch. *)

LEMMA LinkedToReached ==
  ASSUME RedoFollowsCurrentBranch
  PROVE  Linked(Reached)
BY DEF RedoFollowsCurrentBranch, Linked

LEMMA ReachedIsLinked ==
  ASSUME NEW h, h = Reached', Linked(h)'
  PROVE  RedoFollowsCurrentBranch'
BY DEF RedoFollowsCurrentBranch, Linked

(* The calls that neither move in the history nor add to it. *)
LEMMA StaysLinked ==
  ASSUME RedoFollowsCurrentBranch, m_history' = m_history,
         Reached' = Reached
  PROVE  RedoFollowsCurrentBranch'
<1>1. PICK h : h = Reached
  OBVIOUS
<1>2. Linked(h)'
  BY <1>1, LinkedToReached, SameLinks
<1> QED
  BY <1>1, <1>2, ReachedIsLinked

LEMMA CommitKeepsLinked ==
  ASSUME HistoryInv, RedoFollowsCurrentBranch, CommitUndoGroup,
         m_walk.op # "down", m_walk'.op # "down"
  PROVE  RedoFollowsCurrentBranch'
<1>1. PICK h : h = m_history_id'
  OBVIOUS
<1>2. Linked(h)'
  BY <1>1, LinkedToReached, CommitLinks DEF Reached
<1> QED
  BY <1>1, <1>2, ReachedIsLinked DEF Reached

LEMMA UndoKeepsLinked ==
  ASSUME HistoryInv, RedoFollowsCurrentBranch, UndoNext
  PROVE  RedoFollowsCurrentBranch'
<1>1. /\ m_walk.op = "undo" /\ m_history_id' = Parent(m_walk.at) /\ m_history' = m_history
      /\ m_walk'.op # "down"
  BY DEF UndoNext, Idle, Walk
<1>2. m_walk.at \in Ids \ {First} /\ m_walk.at = m_history_id
  BY <1>1, OnTheWay DEF HistoryInv, WalkIsOnTrack
<1>3. PICK p : p = Parent(m_walk.at)
  OBVIOUS
<1>4. p \in Branch(m_history_id)
  BY <1>2, <1>3, AtRest, ParentProperties, BranchProperties DEF Ids, Invalid
<1>5. Linked(p)
  BY <1>1, <1>2, <1>4, LinkedToReached, LinkedAncestor DEF Reached
<1> QED
  BY <1>1, <1>3, <1>5, SameLinks, ReachedIsLinked DEF Reached

LEMMA RedoKeepsLinked ==
  ASSUME HistoryInv, RedoFollowsCurrentBranch, m_walk.op # "down", m_walk'.op # "down",
         NEW c, c = RedoChild(m_history_id), c # Invalid,
         m_history_id' = c, m_history' = m_history
  PROVE  RedoFollowsCurrentBranch'
<1>1. c \in Ids /\ Parent(c) = m_history_id
  BY AtRest DEF HistoryIsATree
<1>2. c # First
  BY <1>1, AtRest, ChildProperties
<1>3. Linked(c)
  BY <1>1, <1>2, LinkedToReached, LinkedChild DEF Reached
<1> QED
  BY <1>3, SameLinks, ReachedIsLinked DEF Reached

(* The links to n and to what comes next on the way down. *)
LEMMA DescendKeepsLinked ==
  ASSUME HistoryInv, NEW n \in Ids, Linked(n), Descend(n),
         m_walk.target \in Ids, n \in Branch(m_walk.target)
  PROVE  RedoFollowsCurrentBranch'
<1>1. CASE n = m_walk.target
  <2>1. m_history_id' = n /\ m_walk'.op # "down" /\ m_history' = m_history
    BY <1>1 DEF Descend, Idle
  <2> QED
    BY <2>1, SameLinks, ReachedIsLinked DEF Reached
<1>2. CASE n # m_walk.target
  <2>1. PICK c : c = Toward(n, m_walk.target)
    OBVIOUS
  <2>2. m_history' = LinkRedoChild(n, c) /\ m_walk'.op = "down" /\ m_walk'.at = c
    BY <1>2, <2>1 DEF Descend, Walk
  <2>3. Parent(c) = n /\ c \in Ids
    BY <1>2, <2>1, AtRest, TowardProperties, BranchProperties
  <2>4. /\ c # First /\ Ids' = Ids
        /\ \A k \in Ids : /\ Parent(k)' = Parent(k)
                          /\ RedoChild(k)' = IF k = n THEN c ELSE RedoChild(k)
    <3>1. c \in Nat
      BY <2>3, AtRest DEF Ids
    <3>2. /\ Len(m_history') = Len(m_history)
          /\ \A k \in Ids : /\ m_history'[k].parent = Parent(k)
                            /\ m_history'[k].redo_child = IF k = n THEN c ELSE RedoChild(k)
      BY <2>2, <3>1, AtRest, LinkProperties
    <3> QED
      BY <2>3, <3>2, AtRest, ChildProperties DEF Ids, Parent, RedoChild
  <2>5. Branch(c)' = Branch(c)
    BY <2>4 DEF Branch
  <2>6. ASSUME NEW d \in Branch(c) \ {First}
        PROVE  RedoChild(Parent(d))' = d
    <3>1. d \in Ids /\ Parent(d) \in Ids
      BY <2>3, <2>6, AtRest, BranchProperties, ParentProperties
    <3>2. CASE d = c
      BY <2>3, <2>4, <3>1, <3>2
    <3>3. CASE d # c
      <4>1. d \in Branch(n)
        BY <2>3, <2>4, <2>6, <3>3, AtRest, BranchOfParent
      <4>2. Parent(d) # n
        <5>1. d <= n
          BY <4>1, BranchIsBelow
        <5>2. Parent(d) \in 1 .. d - 1
          BY <2>6, <3>1, AtRest DEF HistoryIsATree
        <5> QED
          BY <5>1, <5>2, <3>1 DEF Ids
      <4>3. RedoChild(Parent(d)) = d
        BY <2>6, <4>1 DEF Linked
      <4>4. PICK p \in Ids : p = Parent(d)
        BY <3>1
      <4>5. RedoChild(p)' = d /\ Parent(d)' = p
        BY <2>4, <3>1, <4>2, <4>3, <4>4
      <4> QED
        BY <4>5
    <3> QED
      BY <3>2, <3>3
  <2>7. Linked(c)'
    BY <2>5, <2>6 DEF Linked
  <2> QED
    BY <2>2, <2>7, ReachedIsLinked DEF Reached
<1> QED
  BY <1>1, <1>2

LEMMA MoveKeepsLinked ==
  ASSUME HistoryInv, RedoFollowsCurrentBranch, MoveNext
  PROVE  RedoFollowsCurrentBranch'
<1> DEFINE top == LowestCommonParent(m_history_id, m_walk.target)
<1>1. m_walk.target \in Ids
  BY DEF HistoryInv, WalkIsOnTrack, MoveNext
<1>2. top \in Branch(m_history_id) /\ top \in Branch(m_walk.target) /\ top \in Ids
  BY <1>1, AtRest, LowestCommonParentProperties, BranchProperties
<1>3. CASE m_walk.op # "down" /\ Descend(top)
  <2>1. Linked(top)
    BY <1>2, <1>3, AtRest, LinkedToReached, LinkedAncestor DEF Reached
  <2> QED
    BY <1>1, <1>2, <1>3, <2>1, DescendKeepsLinked
<1>4. ASSUME NEW n, Ascend(n), m_walk.op # "down"
      PROVE  RedoFollowsCurrentBranch'
  BY <1>4, StaysLinked DEF Ascend, Walk, history, Reached
<1>5. CASE m_walk.op = "down" /\ Descend(m_walk.at)
  <2>1. m_walk.at \in Ids /\ m_walk.at \in Branch(m_walk.target)
    BY <1>5, OnTheWay DEF HistoryInv, WalkIsOnTrack
  <2>2. Linked(m_walk.at)
    BY <1>5, LinkedToReached DEF Reached
  <2> QED
    BY <1>1, <1>5, <2>1, <2>2, DescendKeepsLinked
<1> QED
  BY <1>3, <1>4, <1>5 DEF MoveNext

LEMMA OpenFifoIsLinked ==
  ASSUME OpenFifo
  PROVE  RedoFollowsCurrentBranch'
<1>1. m_history' = <<Root>> /\ m_history_id' = First /\ m_walk'.op # "down"
  BY DEF OpenFifo, Idle
<1>2. Ids' = {First}
  BY <1>1 DEF Ids, First
<1>3. Branch(First)' \subseteq {First}
  BY <1>2 DEF Branch
<1>4. Linked(First)'
  BY <1>3 DEF Linked
<1> QED
  BY <1>1, <1>4, ReachedIsLinked DEF Reached

LEMMA InitIsLinked == Init => RedoFollowsCurrentBranch
<1> SUFFICES ASSUME Init PROVE RedoFollowsCurrentBranch
  OBVIOUS
<1>1. m_history = <<Root>> /\ Reached = First
  BY DEF Init, Idle, Reached
<1>2. Branch(First) \subseteq {First}
  BY <1>1, RootAlone DEF Branch
<1> QED
  BY <1>1, <1>2 DEF RedoFollowsCurrentBranch

LEMMA NextKeepsLinked ==
  ASSUME HistoryInv, RedoFollowsCurrentBranch, [Next]_vars
  PROVE  RedoFollowsCurrentBranch'
<1>1. CASE UNCHANGED vars
  BY <1>1, StaysLinked DEF vars, Reached
<1>2. CASE Editing
  <2>1. /\ m_walk.op # "down" /\ m_walk'.op # "down"
        /\ m_history' = m_history /\ m_history_id' = m_history_id
    BY <1>2 DEF Editing, Insert, Erase, Replace, CanEdit, Idle, Walk, history
  <2> QED
    BY <2>1, StaysLinked DEF Reached
<1>3. CASE \/ Commit \/ NotifySaved \/ ReloadDone
           \/ \E count \in 1 .. MaxHistory : Undo(count)
           \/ \E id \in Ids : MoveTo(id)
           \/ \E t \in FileTexts : Reload(t)
  <2>1. m_walk.op # "down" /\ m_walk'.op # "down" /\ CommitUndoGroup
    <3>1. ASSUME NEW count \in 1 .. MaxHistory, Undo(count)
          PROVE  m_walk.op # "down" /\ m_walk'.op # "down" /\ CommitUndoGroup
      BY <3>1 DEF Undo, Idle, Walk
    <3> QED
      BY <1>3, <3>1 DEF Commit, NotifySaved, ReloadDone, Reloading, MoveTo, Reload, Idle, Walk
  <2> QED
    BY <2>1, CommitKeepsLinked
<1>4. CASE \E count \in 1 .. MaxHistory : Redo(count)
  <2>1. /\ m_walk.op # "down" /\ m_walk'.op # "down" /\ m_history' = m_history
        /\ m_history_id' = RedoChild(m_history_id) /\ RedoChild(m_history_id) # Invalid
    BY <1>4 DEF Redo, NothingToRedo, Idle, Walk
  <2> QED
    BY <2>1, RedoKeepsLinked
<1>5. CASE SetName \/ \E on \in BOOLEAN : SetReadOnly(on)
  BY <1>5, StaysLinked DEF SetName, SetReadOnly, history, Reached
<1>6. CASE CloseFifo \/ \E s \in Contents : ReadFifo(s)
  BY <1>6, StaysLinked DEF CloseFifo, ReadFifo, history, Reached
<1>7. CASE OpenFifo
  BY <1>7, OpenFifoIsLinked
<1>8. CASE ReplaceInsert \/ RevertModification \/ ApplyModification
  BY <1>8, StaysLinked, AtRest
     DEF ReplaceInsert, RevertModification, ApplyModification, Idle, history, Reached, Walks
<1>9. CASE \/ ReloadKeep \/ ReloadAdd \/ ReloadRemoveLine
           \/ \E len \in 1 .. Len(text) : ReloadRemove(len)
  <2>1. /\ m_walk.op = "reload" /\ m_history' = m_history /\ m_history_id' = m_history_id
        /\ m_walk'.op = "reload"
    BY <1>9, AtRest
       DEF ReloadKeep, ReloadAdd, ReloadRemoveLine, ReloadRemove, Reloading, history, Walks
  <2> QED
    BY <2>1, StaysLinked DEF Reached
<1>10. CASE UndoNext
  BY <1>10, UndoKeepsLinked
<1>11. CASE RedoNext
  <2>1. m_walk.op = "redo" /\ m_walk.at = m_history_id /\ m_history' = m_history
    BY <1>11 DEF RedoNext, HistoryInv, WalkIsOnTrack
  <2>2. CASE m_walk' = Idle /\ m_history_id' = m_history_id
    BY <2>1, <2>2, StaysLinked DEF Idle, Reached
  <2>3. CASE /\ m_walk'.op = "redo" /\ m_history_id' = RedoChild(m_history_id)
             /\ RedoChild(m_history_id) # Invalid
    BY <2>1, <2>3, RedoKeepsLinked
  <2> QED
    BY <1>11, <2>1, <2>2, <2>3 DEF RedoNext, Walk
<1>12. CASE MoveNext
  BY <1>12, MoveKeepsLinked
<1> QED
  BY <1>1, <1>2, <1>3, <1>4, <1>5, <1>6, <1>7, <1>8, <1>9, <1>10, <1>11, <1>12
     DEF Next, Step

(* Redo follows the branch last visited, however the current node was       *)
(* reached: the redo_child links that commit_undo_group and move_to leave.  *)
THEOREM RedoAlwaysFollows ==
  ASSUME FifoMidEdit = FALSE
  PROVE  Spec => []RedoFollowsCurrentBranch
<1>1. Init => RedoFollowsCurrentBranch
  BY InitIsLinked
<1>2. HistoryInv /\ RedoFollowsCurrentBranch /\ [Next]_vars => RedoFollowsCurrentBranch'
  BY NextKeepsLinked
<1> QED
  BY <1>1, <1>2, HistoryIsSound, PTL DEF Spec

-----------------------------------------------------------------------------
(* The version tree that a buffer shows. *)

(* The text of the version tree. *)
ShownText == IF m_walk.op \in {"idle", "reload", "replace"} THEN text
             ELSE Snapshot(Shown)
Edited == m_current_undo_group # <<>>

(* The child of n that redo leads to, once the call in progress is over. *)
Visit(n) == IF Moving /\ \E c \in Branch(Shown) : Parent(c) = n
            THEN Toward(n, Shown) ELSE RedoChild(n)
Shows(n) == [text |-> Snapshot(n), parent |-> Parent(n), visited |-> Visit(n)]

LEMMA ShownProperties ==
  ASSUME HistoryInv
  PROVE  /\ ShownVersions = [n \in Ids |-> Shows(n)]
         /\ Len(ShownVersions) = Len(m_history)
         /\ Versions!VersionIds = Ids
         /\ Shown \in Ids
<1>1. ShownVersions = [n \in Ids |-> Shows(n)]
  BY DEF ShownVersions, Shows, Visit
<1>2. Len(ShownVersions) = Len(m_history)
  BY <1>1, AtRest DEF Ids
<1>3. Shown \in Ids
  BY AtRest DEF Shown, Moving, HistoryInv, WalkIsOnTrack
<1> QED
  BY <1>1, <1>2, <1>3 DEF Versions!VersionIds, Ids

(* A call that changes nothing that is shown. *)
LEMMA NothingShown ==
  ASSUME m_history' = m_history, snapshots' = snapshots, Shown' = Shown,
         Moving' = Moving, ShownText' = ShownText, Edited' = Edited, NoUndo' = NoUndo
  PROVE  UNCHANGED Versions!vars
<1>1. ShownVersions' = ShownVersions
  BY DEF ShownVersions, Ids, Snapshot, Parent, RedoChild, Toward, Branch
<1> QED
  BY <1>1 DEF Versions!vars, ShownText, Edited

(* The versions as the history has them; the ones shown, unless a move_to   *)
(* has yet to link some.                                                    *)
LinkedVersions ==
    [n \in Ids |-> [text |-> Snapshot(n), parent |-> Parent(n), visited |-> RedoChild(n)]]

LEMMA LinkedIsShown ==
  ASSUME ~Moving
  PROVE  ShownVersions = LinkedVersions /\ Shown = m_history_id
BY DEF ShownVersions, LinkedVersions, Shown

(* A call that goes from one node to the next in the history. *)
LEMMA SameVersions ==
  ASSUME m_history' = m_history, snapshots' = snapshots, ~Moving, ~Moving'
  PROVE  ShownVersions' = ShownVersions
BY DEF ShownVersions, Ids, Snapshot, Parent, RedoChild

(* What a recorded edit shows. *)
LEMMA EditShows ==
  ASSUME HistoryInv, HistoryInv', NEW m, Edit(m),
         UNCHANGED <<m_flags, history>>,
         m_walk.op \in {"idle", "reload", "replace"},
         m_walk'.op \in {"idle", "reload", "replace"}
  PROVE  Versions!Edit \/ Versions!Amend
<1>1. /\ ~Moving /\ ~Moving' /\ Shown = m_history_id /\ Shown' = m_history_id
      /\ ShownText' = text' /\ text' \in Text /\ m_history' = m_history
      /\ NoUndo' = NoUndo
  BY DEF Moving, Shown, ShownText, history, NoUndo, HistoryInv, TypeOK
<1>2. CASE NoUndo
  <2>1. m_history = <<Root>> /\ m_current_undo_group = <<>> /\ m_current_undo_group' = <<>>
    BY <1>1, <1>2 DEF HistoryInv, NoUndoNoHistory
  <2>2. m_history_id = First
    BY <2>1, RootAlone, AtRest
  <2>3. snapshots' = [snapshots EXCEPT ![First] = <<text'>>]
    BY <1>2, <2>2 DEF Edit
  <2>4. snapshots'[First] = <<text'>>
    <3>1. First \in 1 .. Len(snapshots) /\ snapshots \in Seq(Seq(Text))
      BY AtRest DEF HistoryIsTraced, TypeOK, Ids
    <3>2. snapshots \in [1 .. Len(snapshots) -> Seq(Text)]
      BY <3>1, LenProperties
    <3> QED
      BY <2>3, <3>1, <3>2
  <2>5. ShownVersions' = <<Versions!NewVersion(Versions!None, text')>>
    <3>1. m_history' = <<Root>> /\ Len(snapshots'[First]) = 1 /\ snapshots'[First][1] = text'
      BY <1>1, <2>1, <2>4
    <3>2. Ids' = {1} /\ m_history'[1] = Root
      BY <3>1 DEF Ids
    <3>3. ShownVersions' = [n \in {1} |-> [text |-> text', parent |-> 0, visited |-> 0]]
      BY <1>1, <3>1, <3>2 DEF ShownVersions, Snapshot, First, Parent, RedoChild, Root, Invalid
    <3> QED
      BY <3>3 DEF Versions!NewVersion, Versions!None
  <2> QED
    BY <1>1, <1>2, <2>1, <2>5 DEF Versions!Amend, ShownText
<1>3. CASE ~NoUndo
  <2>1. /\ m_current_undo_group' = Append(m_current_undo_group, m)
        /\ snapshots' = snapshots
    BY <1>3 DEF Edit
  <2>2. m_current_undo_group' # <<>>
    <3>1. m_current_undo_group \in Seq(Modification \cup {m})
      BY AtRest DEF TypeOK
    <3> QED
      BY <2>1, <3>1, AppendProperties
  <2>3. ShownVersions' = ShownVersions
    BY <1>1, <2>1, SameVersions
  <2> QED
    BY <1>1, <1>3, <2>2, <2>3 DEF Versions!Edit, ShownText
<1> QED
  BY <1>2, <1>3

(* What commit_undo_group shows. *)
LEMMA KeepShows ==
  ASSUME HistoryInv, CommitUndoGroup, m_walk.op \in {"idle", "reload"}
  PROVE  /\ LinkedVersions' = Versions!Kept
         /\ m_history_id' = Versions!Latest
         /\ Edited' = FALSE
<1>1. /\ Shown = m_history_id /\ m_current_undo_group' = <<>> /\ ~Moving
      /\ ShownText = text /\ ShownVersions = LinkedVersions
  BY CommitProperties, LinkedIsShown DEF Shown, Moving, ShownText
<1>2. CASE NoUndo \/ m_current_undo_group = <<>>
  <2>1. m_current_undo_group = <<>>
    BY <1>2 DEF HistoryInv, NoUndoNoHistory
  <2>2. /\ m_history' = m_history /\ m_history_id' = m_history_id
        /\ snapshots' = snapshots
    BY <1>2 DEF CommitUndoGroup
  <2>3. LinkedVersions' = LinkedVersions
    BY <2>2 DEF LinkedVersions, Ids, Snapshot, Parent, RedoChild
  <2> QED
    BY <1>1, <2>1, <2>2, <2>3 DEF Versions!Kept, Versions!Latest, Edited
<1>3. CASE ~NoUndo /\ m_current_undo_group # <<>>
  <2>1. PICK L : L = Len(m_history)
    OBVIOUS
  <2>2. /\ L \in Nat /\ m_history_id' = L + 1
        /\ Ids' = Ids \cup {L + 1} /\ L + 1 \notin Ids
        /\ Len(m_history') = L + 1 /\ Len(snapshots') = L + 1
        /\ \A k \in Ids :
             /\ m_history'[k].parent = Parent(k)
             /\ m_history'[k].redo_child = IF k = m_history_id THEN L + 1
                                           ELSE RedoChild(k)
             /\ snapshots'[k] = snapshots[k]
        /\ m_history'[L + 1].parent = m_history_id
        /\ m_history'[L + 1].redo_child = Invalid
        /\ snapshots'[L + 1] = pending
    BY <1>3, <2>1, CommitTree
  <2>3. Ids = 1 .. L /\ Ids' = 1 .. L + 1 /\ m_history_id \in Ids
    BY <2>1, <2>2, AtRest DEF Ids
  <2>4. pending[Len(pending)] = text
    BY DEF HistoryInv, CurrentGroupIsTraced
  <2> DEFINE node(k) == [text |-> Snapshot(k), parent |-> Parent(k), visited |-> RedoChild(k)]
             linkedNode(k) == [text |-> Snapshot(k), parent |-> Parent(k),
                               visited |-> IF k = m_history_id THEN L + 1 ELSE RedoChild(k)]
             linked == [ShownVersions EXCEPT ![m_history_id].visited = L + 1]
             new == [text |-> text, parent |-> m_history_id, visited |-> 0]
  <2>5. ShownVersions = [k \in 1 .. L |-> node(k)]
    BY <1>1, <2>3 DEF LinkedVersions
  <2>6. linked = [k \in 1 .. L |-> linkedNode(k)]
    <3>1. [node(m_history_id) EXCEPT !.visited = L + 1] = linkedNode(m_history_id)
      OBVIOUS
    <3>2. \A k \in 1 .. L : k # m_history_id => node(k) = linkedNode(k)
      OBVIOUS
    <3>3. linked = [ShownVersions EXCEPT ![m_history_id]
                       = [ShownVersions[m_history_id] EXCEPT !.visited = L + 1]]
      OBVIOUS
    <3> HIDE DEF node, linkedNode, linked
    <3> QED
      BY <2>3, <2>5, <3>1, <3>2, <3>3
  <2>7. LinkedVersions' = [k \in 1 .. L + 1 |-> IF k = L + 1 THEN new ELSE linkedNode(k)]
    <3>1. LinkedVersions' = [k \in Ids' |-> [text |-> Snapshot(k)', parent |-> Parent(k)',
                                           visited |-> RedoChild(k)']]
      BY DEF LinkedVersions
    <3>2. \A k \in 1 .. L : /\ Snapshot(k)' = Snapshot(k) /\ Parent(k)' = Parent(k)
                            /\ RedoChild(k)' = IF k = m_history_id THEN L + 1
                                               ELSE RedoChild(k)
      BY <2>2, <2>3 DEF Snapshot, Parent, RedoChild
    <3>3. /\ Snapshot(L + 1)' = text /\ Parent(L + 1)' = m_history_id
          /\ RedoChild(L + 1)' = 0
      BY <2>2, <2>4 DEF Snapshot, Parent, RedoChild, Invalid
    <3> QED
      BY <2>2, <2>3, <3>1, <3>2, <3>3
  <2>8. LinkedVersions' = Append(linked, new)
    <3> HIDE DEF linkedNode, linked, new
    <3>1. Len(linked) = L
      BY <2>2, <2>6
    <3>2. Append(linked, new) = [k \in 1 .. L + 1 |-> IF k = L + 1 THEN new ELSE linked[k]]
      BY <2>2, <2>6, <3>1
    <3> QED
      BY <2>2, <2>6, <2>7, <3>2
  <2>9. Len(ShownVersions) = L
    BY <2>1, ShownProperties
  <2> QED
    BY <1>1, <1>3, <2>2, <2>8, <2>9
       DEF Versions!Kept, Versions!Latest, Versions!NewVersion, Versions!None, Edited, ShownText
<1> QED
  BY <1>2, <1>3

LEMMA KeepStep ==
  ASSUME HistoryInv, CommitUndoGroup, m_walk.op \in {"idle", "reload"},
         ~Moving', ShownText' = text, NoUndo' = NoUndo
  PROVE  Versions!Keep
<1>1. ShownVersions' = LinkedVersions' /\ Shown' = m_history_id'
  BY DEF ShownVersions, LinkedVersions, Shown
<1>2. ShownText = text
  BY DEF ShownText
<1> QED
  BY <1>1, <1>2, KeepShows DEF Versions!Keep, ShownText, Edited

(* Of two nodes of a branch, one is on the branch of the other. *)
LEMMA BranchIsAChain ==
  ASSUME HistoryInv, NEW n \in Ids, NEW c \in Branch(n), NEW d \in Branch(n)
  PROVE  c \in Branch(d) \/ d \in Branch(c)
<1> DEFINE S == {k \in Branch(n) : c \in Branch(k) \/ k \in Branch(c)}
<1>1. Branch(n) \subseteq Ids /\ c \in Ids
  BY AtRest, BranchProperties
<1>2. S \in SUBSET Ids /\ n \in S
  BY <1>1, AtRest, BranchProperties
<1>3. ASSUME NEW k \in S, Parent(k) # Invalid
      PROVE  Parent(k) \in S
  <2>1. k \in Ids /\ Parent(k) \in Branch(n)
    BY <1>1, <1>3, AtRest, BranchProperties
  <2>2. CASE k \in Branch(c)
    BY <1>1, <1>3, <2>1, <2>2, AtRest, BranchProperties
  <2>3. CASE k \notin Branch(c)
    <3>1. k # c
      BY <1>1, <2>3, AtRest, BranchProperties
    <3>2. k # First
      BY <1>3, AtRest DEF HistoryIsATree, Parent
    <3>3. c \in Branch(Parent(k))
      BY <1>3, <2>1, <2>3, <3>1, <3>2, AtRest, BranchOfParent
    <3> QED
      BY <2>1, <3>3
  <2> QED
    BY <2>2, <2>3
<1>4. d \in S
  BY <1>2, <1>3 DEF Branch
<1> QED
  BY <1>4

(* There is one way down along a branch. *)
LEMMA OneWayDown ==
  HistoryInv => \A n \in Ids : \A c, d \in Branch(n) :
                    Parent(c) = Parent(d) /\ Parent(c) # Invalid => c = d
<1> SUFFICES ASSUME HistoryInv, NEW n \in Ids, NEW c \in Branch(n), NEW d \in Branch(n),
                    Parent(c) = Parent(d), Parent(c) # Invalid, c # d
             PROVE  FALSE
  OBVIOUS
<1>1. ASSUME NEW a \in Ids, NEW b \in Branch(a), a # b, Parent(a) = Parent(b),
             Parent(a) # Invalid
      PROVE  FALSE
  <2>1. b \in Ids /\ a # First
    BY <1>1, AtRest, BranchProperties DEF HistoryIsATree, Parent
  <2>2. Parent(a) \in Ids /\ b \in Branch(Parent(a))
    BY <1>1, <2>1, AtRest, BranchOfParent
  <2>3. b <= Parent(b)
    BY <1>1, <2>2, BranchIsBelow
  <2>4. b # First
    BY <1>1, AtRest DEF HistoryIsATree, Parent
  <2>5. Parent(b) \in 1 .. b - 1
    BY <2>1, <2>4, AtRest DEF HistoryIsATree
  <2> QED
    BY <2>1, <2>3, <2>5 DEF Ids
<1>2. c \in Ids /\ d \in Ids
  BY AtRest, BranchProperties
<1>3. c \in Branch(d) \/ d \in Branch(c)
  BY BranchIsAChain
<1> QED
  BY <1>1, <1>2, <1>3

LEMMA VisitVersion ==
  ASSUME NEW d, NEW p, NEW old, NEW new,
         NEW v, v = [text |-> d, parent |-> p, visited |-> old]
  PROVE  [v EXCEPT !.visited = new] = [text |-> d, parent |-> p, visited |-> new]
OBVIOUS

(* move_to shows its target as soon as it is called. *)
LEMMA MoveToStep ==
  ASSUME HistoryInv, HistoryInv', NEW id \in Ids, MoveTo(id)
  PROVE  Versions!MoveTo(id)
<1>1. /\ m_walk = Idle /\ CommitUndoGroup /\ m_walk'.op = "move" /\ m_walk'.target = id
      /\ m_flags' = m_flags
  BY DEF MoveTo, Walk
<1>2. /\ Shown' = id /\ Moving' /\ NoUndo' = NoUndo /\ ShownText' = Snapshot(id)'
  BY <1>1 DEF Shown, Moving, NoUndo, ShownText
<1>3. PICK vs : vs = LinkedVersions'
  OBVIOUS
<1>4. vs = Versions!Kept /\ Edited' = FALSE
  BY <1>1, <1>3, KeepShows DEF Idle
<1>5. /\ Ids' = 1 .. Len(vs) /\ id \in Ids'
      /\ \A k \in Ids' : vs[k] = [text |-> Snapshot(k)', parent |-> Parent(k)',
                                 visited |-> RedoChild(k)']
  <2>1. /\ vs = [n \in Ids' |-> [text |-> Snapshot(n)', parent |-> Parent(n)',
                                visited |-> RedoChild(n)']]
        /\ Ids' = 1 .. Len(m_history') /\ m_history' \in Seq(Node)
    BY <1>3 DEF LinkedVersions, Ids, HistoryInv, TypeOK
  <2>2. Len(m_history') \in Nat
    BY <2>1
  <2>3. id \in Ids'
    BY <1>1, CommitProperties DEF Idle
  <2> QED
    BY <2>1, <2>2, <2>3
<1>11. \A k \in Ids' : vs[k].parent = Parent(k)' /\ vs[k].visited = RedoChild(k)'
  <2> SUFFICES ASSUME NEW k \in Ids'
               PROVE  vs[k].parent = Parent(k)' /\ vs[k].visited = RedoChild(k)'
    OBVIOUS
  <2>1. vs[k] = [text |-> Snapshot(k)', parent |-> Parent(k)', visited |-> RedoChild(k)']
    BY <1>5
  <2> QED
    BY <2>1
<1>6. Versions!Lineage(vs, id) = Branch(id)'
  <2>1. \A S \in SUBSET Ids' : (\A k \in S : vs[k].parent # 0 => vs[k].parent \in S)
                             <=> (\A k \in S : Parent(k)' # 0 => Parent(k)' \in S)
    BY <1>11
  <2>2. Versions!Lineage(vs, id)
          = {m \in Ids' : \A S \in SUBSET Ids' :
               (id \in S /\ \A k \in S : vs[k].parent # 0 => vs[k].parent \in S) => m \in S}
    BY <1>5 DEF Versions!Lineage, Versions!None
  <2>3. Branch(id)'
          = {m \in Ids' : \A S \in SUBSET Ids' :
               (id \in S /\ \A k \in S : Parent(k)' # 0 => Parent(k)' \in S) => m \in S}
    BY DEF Branch, Invalid
  <2> QED
    BY <2>1, <2>2, <2>3
<1>7. \A c, d \in Branch(id)' : Parent(c)' = Parent(d)' /\ Parent(c)' # Invalid => c = d
  <2>1. HistoryInv' => (\A n \in Ids : \A c, d \in Branch(n) :
                          Parent(c) = Parent(d) /\ Parent(c) # Invalid => c = d)'
    BY OneWayDown, PTL
  <2> QED
    BY <1>5, <2>1
<1>8. ASSUME NEW k \in Ids'
      PROVE  ShownVersions'[k] = Versions!Visited(vs, id)[k]
  <2> DEFINE next == IF \E c \in Branch(id)' : Parent(c)' = k
                     THEN CHOOSE c \in Branch(id)' : Parent(c)' = k ELSE RedoChild(k)'
  <2>1. ShownVersions'[k] = [text |-> Snapshot(k)', parent |-> Parent(k)', visited |-> next]
    BY <1>2 DEF ShownVersions, Toward
  <2>2. k # Invalid /\ Branch(id)' \subseteq Ids'
    BY <1>5 DEF Invalid, Branch
  <2>3. Versions!Visited(vs, id)[k]
          = [vs[k] EXCEPT !.visited =
                IF \E c \in Branch(id)' : vs[c].parent = k
                THEN CHOOSE c \in Branch(id)' : vs[c].parent = k ELSE vs[k].visited]
    BY <1>5, <1>6 DEF Versions!Visited
  <2>4. (IF \E c \in Branch(id)' : vs[c].parent = k
         THEN CHOOSE c \in Branch(id)' : vs[c].parent = k ELSE vs[k].visited) = next
    <3>1. \A c \in Branch(id)' : vs[c].parent = Parent(c)'
      BY <1>11, <2>2
    <3>2. CASE \E c \in Branch(id)' : Parent(c)' = k
      <4>1. PICK c \in Branch(id)' : Parent(c)' = k
        BY <3>2
      <4>2. next = c
        BY <1>7, <2>2, <4>1
      <4>3. (CHOOSE d \in Branch(id)' : vs[d].parent = k) = c
        BY <1>7, <2>2, <3>1, <4>1
      <4> QED
        BY <3>1, <4>1, <4>2, <4>3
    <3>3. CASE ~ \E c \in Branch(id)' : Parent(c)' = k
      BY <1>11, <3>1, <3>3
    <3> QED
      BY <3>2, <3>3
  <2> HIDE DEF next
  <2>5. [vs[k] EXCEPT !.visited = next]
          = [text |-> Snapshot(k)', parent |-> Parent(k)', visited |-> next]
    <3>1. vs[k] = [text |-> Snapshot(k)', parent |-> Parent(k)', visited |-> RedoChild(k)']
      BY <1>5
    <3> QED
      BY <3>1, VisitVersion
  <2> QED
    BY <2>1, <2>3, <2>4, <2>5
<1>9. ShownVersions' = Versions!Visited(vs, id)
  <2>1. ShownVersions' = [k \in Ids' |-> ShownVersions'[k]]
    BY DEF ShownVersions
  <2>2. Versions!Visited(vs, id) = [k \in Ids' |-> Versions!Visited(vs, id)[k]]
    BY <1>5 DEF Versions!Visited
  <2> QED
    BY <1>8, <2>1, <2>2
<1>10. ShownVersions'[id].text = Snapshot(id)'
  BY <1>5 DEF ShownVersions
<1> QED
  BY <1>2, <1>4, <1>9, <1>10 DEF Versions!MoveTo, ShownText, Edited

LEMMA CommitStep ==
  ASSUME HistoryInv,
         \/ Commit \/ NotifySaved \/ ReloadDone
         \/ \E count \in 1 .. MaxHistory : Undo(count)
         \/ \E t \in FileTexts : Reload(t)
  PROVE  Versions!Keep
<1>1. CASE Commit \/ NotifySaved \/ ReloadDone \/ \E t \in FileTexts : Reload(t)
  <2>1. /\ CommitUndoGroup /\ m_walk.op \in {"idle", "reload"}
        /\ m_walk'.op \in {"idle", "reload"} /\ text' = text /\ NoUndo' = NoUndo
    BY <1>1 DEF Commit, NotifySaved, ReloadDone, Reload, Reloading, Idle, Walk, NoUndo
  <2> QED
    BY <2>1, KeepStep DEF Moving, ShownText
<1>2. ASSUME NEW count \in 1 .. MaxHistory, Undo(count)
      PROVE  Versions!Keep
  <2>1. /\ CommitUndoGroup /\ m_walk.op = "idle" /\ m_walk'.op \in {"idle", "undo"}
        /\ text' = text /\ NoUndo' = NoUndo
    BY <1>2 DEF Undo, Idle, Walk, NoUndo
  <2>2. Snapshot(m_history_id)' = text
    BY <2>1, CommitProperties
  <2>3. ShownText' = text
    BY <2>1, <2>2 DEF ShownText, Shown, Moving
  <2> QED
    BY <2>1, <2>3, KeepStep DEF Moving
<1> QED
  BY <1>1, <1>2

(* Undo and redo go from one version to the next one by one. *)
LEMMA UndoStep ==
  ASSUME HistoryInv, UndoNext
  PROVE  Versions!Undo
<1>1. /\ m_walk.op = "undo" /\ m_walk.i = 0 /\ m_history_id' = Parent(m_walk.at)
      /\ m_walk'.op \in {"idle", "undo"}
      /\ UNCHANGED <<text, m_flags, m_history, m_current_undo_group, snapshots>>
  BY DEF UndoNext, Idle, Walk
<1>2. /\ m_walk.at = m_history_id /\ m_walk.at \in Ids \ {First}
      /\ text = snapshots[m_walk.at][1] /\ m_current_undo_group = <<>>
  BY <1>1, OnTheWay DEF HistoryInv, WalkIsOnTrack
<1>3. PICK p : p = Parent(m_history_id)
  OBVIOUS
<1>4. p \in Ids /\ text = Snapshot(p) /\ p # 0
  BY <1>2, <1>3, ParentProperties DEF Ids
<1>5. /\ ShownVersions = [n \in Ids |-> [text |-> Snapshot(n), parent |-> Parent(n),
                                       visited |-> RedoChild(n)]]
      /\ Shown = m_history_id /\ Shown' = p /\ ShownVersions' = ShownVersions
  BY <1>1, <1>2, <1>3, LinkedIsShown, SameVersions DEF LinkedVersions, Shown, Moving
<1>6. ShownVersions[Shown].parent = p /\ ShownVersions[p].text = Snapshot(p)
  BY <1>2, <1>3, <1>4, <1>5
<1>7. ShownText' = Snapshot(p)
  BY <1>1, <1>4, <1>5 DEF ShownText, Snapshot
<1> QED
  BY <1>1, <1>2, <1>4, <1>5, <1>6, <1>7
     DEF Versions!Undo, Versions!None, ShownText, NoUndo

LEMMA RedoStep ==
  ASSUME HistoryInv, NEW c, c = RedoChild(m_history_id), c # Invalid,
         m_walk.op \in {"idle", "redo"}, m_walk'.op = "redo",
         m_current_undo_group = <<>>, m_history_id' = c,
         UNCHANGED <<m_flags, m_history, m_current_undo_group, snapshots>>
  PROVE  Versions!Redo
<1>1. c \in Ids /\ m_history_id \in Ids
  BY AtRest DEF HistoryIsATree
<1>2. /\ ShownVersions = [n \in Ids |-> [text |-> Snapshot(n), parent |-> Parent(n),
                                       visited |-> RedoChild(n)]]
      /\ Shown = m_history_id /\ Shown' = c /\ ShownVersions' = ShownVersions
  BY LinkedIsShown, SameVersions DEF LinkedVersions, Shown, Moving
<1>3. ShownVersions[Shown].visited = c /\ ShownVersions[c].text = Snapshot(c)
  BY <1>1, <1>2
<1>4. ShownText' = Snapshot(c)
  BY <1>2 DEF ShownText, Snapshot
<1> QED
  BY <1>2, <1>3, <1>4
     DEF Versions!Redo, Versions!None, Invalid, ShownText, NoUndo

LEMMA RedoNextStep ==
  ASSUME HistoryInv, RedoNext
  PROVE  Versions!Redo \/ UNCHANGED Versions!vars
<1>0. PICK c : c = RedoChild(m_walk.at)
  OBVIOUS
<1>1. /\ m_walk.op = "redo" /\ m_walk.i = Len(Group(m_walk.at))
      /\ UNCHANGED <<text, m_flags, m_history, m_current_undo_group, snapshots>>
      /\ IF m_walk.count = 1 \/ c = Invalid
         THEN m_walk' = Idle /\ UNCHANGED m_history_id
         ELSE m_walk' = Walk("redo", c, 0, m_walk.count - 1, 0) /\ m_history_id' = c
  BY <1>0 DEF RedoNext
<1>2. m_walk.at = m_history_id /\ m_current_undo_group = <<>>
  BY <1>1, OnTheWay DEF HistoryInv, WalkIsOnTrack
<1>3. CASE /\ m_walk' = Idle /\ m_history_id' = m_history_id
  <2>1. text = Snapshot(m_history_id)
    BY <1>1, <1>2, AtRest, OnTheWay, SnapshotProperties
  <2>2. /\ Shown = m_history_id /\ Shown' = m_history_id /\ Moving' = Moving
        /\ ShownText' = text /\ ShownText = Snapshot(m_history_id)
    BY <1>1, <1>3 DEF Shown, Moving, Idle, ShownText
  <2> QED
    BY <1>1, <2>1, <2>2, NothingShown DEF Edited, NoUndo
<1>4. CASE m_walk'.op = "redo" /\ m_history_id' = c /\ c # Invalid
  BY <1>0, <1>1, <1>2, <1>4, RedoStep
<1>5. \/ m_walk' = Idle /\ m_history_id' = m_history_id
      \/ m_walk'.op = "redo" /\ m_history_id' = c /\ c # Invalid
  BY <1>1 DEF Walk
<1> QED
  BY <1>3, <1>4, <1>5

(* A move_to in progress is over already for who looks at the versions: it  *)
(* links no other nodes than those on the way to its target.                *)
LEMMA AscendStep ==
  ASSUME HistoryInv, m_walk.op \in {"move", "up", "down"}, NEW n, Ascend(n),
         UNCHANGED <<m_flags, m_current_undo_group, snapshots>>
  PROVE  UNCHANGED Versions!vars
<1>1. /\ m_walk'.op = "up" /\ m_walk'.target = m_walk.target
      /\ m_history' = m_history /\ m_history_id' = m_history_id
  BY DEF Ascend, Walk, history
<1>2. Moving /\ Moving' /\ Shown' = Shown
  BY <1>1 DEF Moving, Shown
<1>3. ShownText' = ShownText
  BY <1>1, <1>2 DEF ShownText, Snapshot
<1> QED
  BY <1>1, <1>2, <1>3, NothingShown DEF Edited, NoUndo

LEMMA DescendStep ==
  ASSUME HistoryInv, m_walk.op \in {"move", "up", "down"},
         NEW n \in Ids, Linked(n), text = Snapshot(n), Descend(n),
         m_walk.target \in Ids, n \in Branch(m_walk.target),
         UNCHANGED <<text, m_flags, m_current_undo_group, snapshots>>
  PROVE  UNCHANGED Versions!vars
<1>1. Moving /\ Shown = m_walk.target /\ ShownText = Snapshot(m_walk.target)
  BY DEF Moving, Shown, ShownText
<1>2. /\ ShownVersions = [k \in Ids |-> Shows(k)]
      /\ \A k \in Ids : Visit(k) = IF \E c \in Branch(m_walk.target) : Parent(c) = k
                                  THEN Toward(k, m_walk.target) ELSE RedoChild(k)
  BY <1>1, ShownProperties DEF Visit
<1>3. CASE n = m_walk.target
  <2>1. m_history_id' = n /\ m_walk' = Idle /\ m_history' = m_history
    BY <1>3 DEF Descend
  <2>2. ~Moving' /\ Shown' = n /\ ShownText' = text
    BY <2>1 DEF Moving, Shown, Idle, ShownText
  <2>3. ASSUME NEW k \in Ids
        PROVE  Visit(k) = RedoChild(k)
    <3>1. CASE \E c \in Branch(n) : Parent(c) = k
      <4>1. Toward(k, n) \in Branch(n) /\ Parent(Toward(k, n)) = k
        BY <3>1 DEF Toward
      <4>2. Toward(k, n) # First
        BY <4>1, AtRest DEF HistoryIsATree, Parent, Ids, Invalid
      <4>3. RedoChild(k) = Toward(k, n)
        BY <4>1, <4>2 DEF Linked
      <4> QED
        BY <1>2, <1>3, <3>1, <4>3
    <3> QED
      BY <1>2, <1>3, <3>1
  <2>4. ShownVersions' = ShownVersions
    <3>1. ShownVersions' = [k \in Ids |-> [text |-> Snapshot(k), parent |-> Parent(k),
                                          visited |-> RedoChild(k)]]
      BY <2>1, <2>2 DEF ShownVersions, Ids, Snapshot, Parent, RedoChild
    <3>2. \A k \in Ids : Shows(k) = [text |-> Snapshot(k), parent |-> Parent(k),
                                     visited |-> RedoChild(k)]
      BY <2>3 DEF Shows
    <3> QED
      BY <1>2, <3>1, <3>2
  <2> QED
    BY <1>1, <1>3, <2>2, <2>4 DEF Versions!vars, Edited, NoUndo, ShownText
<1>4. CASE n # m_walk.target
  <2>1. PICK c : c = Toward(n, m_walk.target)
    OBVIOUS
  <2>2. /\ m_history' = LinkRedoChild(n, c) /\ m_history_id' = m_history_id
        /\ m_walk'.op = "down" /\ m_walk'.target = m_walk.target
    BY <1>4, <2>1 DEF Descend, Walk
  <2>3. /\ c \in Branch(m_walk.target) /\ Parent(c) = n /\ c \in Nat
    BY <1>4, <2>1, AtRest, TowardProperties, BranchProperties DEF Ids
  <2>4. /\ Ids' = Ids
        /\ \A k \in Ids : /\ Parent(k)' = Parent(k) /\ Snapshot(k)' = Snapshot(k)
                          /\ RedoChild(k)' = IF k = n THEN c ELSE RedoChild(k)
    BY <2>2, <2>3, AtRest, LinkProperties DEF Ids, Parent, RedoChild, Snapshot
  <2>5. PICK t \in Ids : t = m_walk.target
    OBVIOUS
  <2>6. Branch(t)' = Branch(t) /\ Branch(t) \subseteq Ids
    BY <2>4 DEF Branch
  <2>7. Moving' /\ Shown' = t /\ ShownText' = Snapshot(t)'
    BY <2>2, <2>5 DEF Moving, Shown, ShownText
  <2>8. ASSUME NEW k \in Ids
        PROVE  Visit(k)' = Visit(k)
    <3>1. Visit(k)' = IF \E d \in Branch(t) : Parent(d)' = k
                      THEN Toward(k, t)' ELSE RedoChild(k)'
      BY <2>6, <2>7 DEF Visit
    <3>2. \A d \in Branch(t) : Parent(d)' = Parent(d)
      BY <2>4, <2>6
    <3>3. CASE \E d \in Branch(t) : Parent(d) = k
      <4>1. PICK d \in Branch(t) : Parent(d) = k
        BY <3>3
      <4>2. k # Invalid
        BY DEF Ids, Invalid
      <4>3. \A e \in Branch(t) : Parent(e) = k => e = d
        BY <4>1, <4>2, OneWayDown
      <4>4. Toward(k, t) = d /\ Toward(k, t)' = d
        <5>1. Toward(k, t)' = CHOOSE e \in Branch(t) : Parent(e)' = k
          BY <2>6 DEF Toward
        <5> QED
          BY <3>2, <4>1, <4>3, <5>1 DEF Toward
      <4> QED
        BY <1>2, <2>5, <3>1, <3>2, <3>3, <4>4
    <3>4. CASE ~ \E d \in Branch(t) : Parent(d) = k
      <4>1. k # n
        BY <2>3, <2>5, <3>4
      <4> QED
        BY <1>2, <2>4, <2>5, <3>1, <3>2, <3>4, <4>1
    <3> QED
      BY <3>3, <3>4
  <2>9. ShownVersions' = ShownVersions
    <3>1. ShownVersions' = [k \in Ids |-> [text |-> Snapshot(k)', parent |-> Parent(k)',
                                          visited |-> Visit(k)']]
      BY <2>4 DEF ShownVersions, Visit
    <3>2. \A k \in Ids : Shows(k) = [text |-> Snapshot(k)', parent |-> Parent(k)',
                                     visited |-> Visit(k)']
      BY <2>4, <2>8 DEF Shows
    <3> QED
      BY <1>2, <3>1, <3>2
  <2>10. ShownText' = ShownText /\ Shown' = Shown
    BY <1>1, <2>4, <2>5, <2>7
  <2> QED
    BY <2>9, <2>10 DEF Versions!vars, Edited, NoUndo, ShownText
<1> QED
  BY <1>3, <1>4

LEMMA MoveNextStep ==
  ASSUME HistoryInv, RedoFollowsCurrentBranch, MoveNext
  PROVE  UNCHANGED Versions!vars
<1> DEFINE top == LowestCommonParent(m_history_id, m_walk.target)
<1>1. /\ m_walk.op \in {"move", "up", "down"}
      /\ UNCHANGED <<text, m_flags, m_current_undo_group, snapshots>>
  BY DEF MoveNext
<1>2. m_walk.target \in Ids
  BY <1>1 DEF HistoryInv, WalkIsOnTrack
<1>3. top \in Branch(m_history_id) /\ top \in Branch(m_walk.target) /\ top \in Ids
  BY <1>2, AtRest, LowestCommonParentProperties, BranchProperties
<1>4. ASSUME m_walk.op \in {"move", "up"}, Descend(top), text = Snapshot(top)
      PROVE  UNCHANGED Versions!vars
  <2>1. Linked(top)
    BY <1>3, <1>4, AtRest, LinkedToReached, LinkedAncestor DEF Reached
  <2> QED
    BY <1>1, <1>2, <1>3, <1>4, <2>1, DescendStep
<1>5. CASE m_walk.op = "move" /\ m_history_id = top /\ Descend(top)
  BY <1>4, <1>5 DEF HistoryInv, WalkIsOnTrack
<1>6. CASE /\ m_walk.op = "up" /\ m_walk.i = 0
           /\ Parent(m_walk.at) = top /\ Descend(top)
  BY <1>4, <1>6, OnTheWay, ParentProperties
<1>7. CASE /\ m_walk.op = "down" /\ m_walk.i = Len(Group(m_walk.at))
           /\ Descend(m_walk.at)
  <2>1. /\ m_walk.at \in Ids
        /\ text = snapshots[m_walk.at][Len(Group(m_walk.at)) + 1]
    BY <1>7, OnTheWay
  <2>2. text = Snapshot(m_walk.at)
    BY <2>1, AtRest, SnapshotProperties
  <2>3. m_walk.at \in Branch(m_walk.target)
    BY <1>7 DEF HistoryInv, WalkIsOnTrack
  <2>4. Linked(m_walk.at)
    BY <1>7, LinkedToReached DEF Reached
  <2> QED
    BY <1>1, <1>2, <1>7, <2>1, <2>2, <2>3, <2>4, DescendStep
<1>8. ASSUME NEW n, Ascend(n)
      PROVE  UNCHANGED Versions!vars
  BY <1>1, <1>8, AscendStep
<1> QED
  BY <1>5, <1>6, <1>7, <1>8 DEF MoveNext

(* Fifos make the buffer forgetful. *)
LEMMA OpenFifoStep ==
  ASSUME FifoMidEdit = FALSE, HistoryInv, HistoryInv', OpenFifo
  PROVE  Versions!Reset
<1>1. /\ m_walk.op = "idle" /\ m_walk'.op = "idle" /\ m_current_undo_group = <<>>
      /\ m_current_undo_group' = <<>> /\ NoUndo'
      /\ text' = <<EOL>> /\ m_history' = <<Root>> /\ m_history_id' = First
      /\ snapshots' = << <<text'>> >>
  BY DEF OpenFifo, Idle, NoUndo
<1>2. text' \in Text
  BY DEF HistoryInv, TypeOK
<1>3. ShownVersions' = <<Versions!NewVersion(Versions!None, text')>>
  <2>1. Ids' = {1} /\ m_history'[1] = Root /\ snapshots'[1] = <<text'>> /\ ~Moving'
    BY <1>1 DEF Ids, Moving
  <2>2. ShownVersions' = [n \in {1} |-> [text |-> text', parent |-> 0, visited |-> 0]]
    BY <2>1 DEF ShownVersions, Snapshot, Parent, RedoChild, Root, Invalid
  <2> QED
    BY <2>2 DEF Versions!NewVersion, Versions!None
<1> QED
  BY <1>1, <1>2, <1>3 DEF Versions!Reset, Shown, Moving, First

LEMMA ReadFifoStep ==
  ASSUME HistoryInv, HistoryInv', NEW s \in Contents, ReadFifo(s)
  PROVE  Versions!Amend
<1>1. /\ m_walk.op = "idle" /\ m_walk'.op = "idle" /\ "Fifo" \in m_flags
      /\ snapshots' = [snapshots EXCEPT ![m_history_id] = <<text'>>]
      /\ UNCHANGED <<m_flags, m_history, m_history_id, m_current_undo_group>>
  BY DEF ReadFifo, Idle, history
<1>2. NoUndo /\ NoUndo' /\ m_history = <<Root>> /\ m_history_id = 1
  BY <1>1, RootAlone, AtRest DEF HistoryInv, NoUndoNoHistory, NoUndo, First
<1>3. snapshots'[1] = <<text'>>
  <2>1. 1 \in 1 .. Len(snapshots) /\ snapshots \in Seq(Seq(Text))
    BY <1>2, AtRest DEF HistoryIsTraced, TypeOK, Ids
  <2>2. snapshots \in [1 .. Len(snapshots) -> Seq(Text)]
    BY <2>1, LenProperties
  <2> QED
    BY <1>1, <1>2, <2>1, <2>2
<1>4. ShownVersions' = <<Versions!NewVersion(Versions!None, text')>>
  <2>1. Ids' = {1} /\ m_history'[1] = Root /\ ~Moving'
    BY <1>1, <1>2 DEF Ids, Moving
  <2>2. ShownVersions' = [n \in {1} |-> [text |-> text', parent |-> 0, visited |-> 0]]
    BY <1>3, <2>1 DEF ShownVersions, Snapshot, Parent, RedoChild, Root, Invalid
  <2> QED
    BY <2>2 DEF Versions!NewVersion, Versions!None
<1>5. text' \in Text
  BY DEF HistoryInv, TypeOK
<1> QED
  BY <1>1, <1>2, <1>4, <1>5 DEF Versions!Amend, Shown, Moving

LEMMA CloseFifoStep ==
  ASSUME HistoryInv, CloseFifo
  PROVE  Versions!Remember
<1>1. /\ NoUndo /\ ~NoUndo' /\ m_walk' = m_walk /\ m_walk.op = "idle"
      /\ UNCHANGED <<text, m_history, m_history_id, m_current_undo_group, snapshots>>
  BY DEF CloseFifo, history, ghosts, Idle, HistoryInv, NoUndoNoHistory, NoUndo
<1>2. ShownVersions' = ShownVersions
  BY <1>1, SameVersions DEF Moving
<1> QED
  BY <1>1, <1>2 DEF Versions!Remember, Shown, Moving

-----------------------------------------------------------------------------
(* The edits, and the steps of calls that show nothing. *)

LEMMA EditStep ==
  ASSUME HistoryInv, HistoryInv',
         Editing \/ ReplaceInsert \/ ReloadAdd \/ ReloadRemoveLine
  PROVE  Versions!Next \/ UNCHANGED Versions!vars
<1>1. ASSUME NEW m, Edit(m),
             UNCHANGED <<m_flags, history>>,
             m_walk.op \in {"idle", "reload", "replace"},
             m_walk'.op \in {"idle", "reload", "replace"}
      PROVE  Versions!Next
  BY <1>1, EditShows DEF Versions!Next
<1>2. ASSUME UNCHANGED <<text, snapshots, m_current_undo_group, m_flags, history>>,
             m_walk.op \in {"idle", "reload", "replace"},
             m_walk'.op \in {"idle", "reload", "replace"}
      PROVE  UNCHANGED Versions!vars
  BY <1>2, NothingShown DEF Shown, Moving, ShownText, Edited, NoUndo, history
<1>3. ASSUME NEW pos \in 0 .. Len(text), NEW s \in Contents, Insert(pos, s)
      PROVE  Versions!Next
  BY <1>1, <1>3 DEF Insert, CanEdit, Idle
<1>4. ASSUME NEW b \in 0 .. Len(text), NEW e \in 0 .. Len(text), Erase(b, e)
      PROVE  Versions!Next
  BY <1>1, <1>4 DEF Erase, CanEdit, Idle
<1>5. ASSUME NEW b \in 0 .. Len(text), NEW e \in 0 .. Len(text), NEW s \in Contents,
             Replace(b, e, s)
      PROVE  Versions!Next \/ UNCHANGED Versions!vars
  <2>1. /\ m_walk.op = "idle" /\ m_walk'.op = "replace" /\ UNCHANGED <<m_flags, history>>
        /\ \/ \E m : Edit(m)
           \/ UNCHANGED <<text, pending, snapshots, m_current_undo_group>>
    BY <1>5 DEF Replace, CanEdit, Idle, Walk
  <2> QED
    BY <1>1, <1>2, <2>1
<1>6. CASE ReplaceInsert
  <2>1. /\ m_walk.op = "replace" /\ m_walk'.op = "idle" /\ UNCHANGED <<m_flags, history>>
        /\ \/ \E m : Edit(m)
           \/ UNCHANGED <<text, pending, snapshots, m_current_undo_group>>
    BY <1>6 DEF ReplaceInsert, Idle
  <2> QED
    BY <1>1, <1>2, <2>1
<1>7. CASE ReloadAdd \/ ReloadRemoveLine
  <2>1. /\ m_walk.op = "reload" /\ m_walk'.op = "reload" /\ UNCHANGED <<m_flags, history>>
        /\ \E m : Edit(m)
    BY <1>7, AtRest DEF ReloadAdd, ReloadRemoveLine, Reloading, Walks
  <2> QED
    BY <1>1, <2>1
<1> QED
  BY <1>3, <1>4, <1>5, <1>6, <1>7 DEF Editing

LEMMA SilentStep ==
  ASSUME HistoryInv,
         \/ UNCHANGED vars
         \/ SetName \/ \E on \in BOOLEAN : SetReadOnly(on)
         \/ RevertModification \/ ApplyModification
         \/ ReloadKeep \/ \E len \in 1 .. Len(text) : ReloadRemove(len)
  PROVE  UNCHANGED Versions!vars
<1>1. /\ UNCHANGED <<m_history, m_history_id, m_current_undo_group, snapshots>>
      /\ m_walk'.op = m_walk.op /\ m_walk'.target = m_walk.target
      /\ \/ text' = text
         \/ m_walk.op \in {"undo", "redo", "up", "down"}
      /\ NoUndo' = NoUndo
  BY AtRest DEF vars, SetName, SetReadOnly, RevertModification, ApplyModification,
     ReloadKeep, ReloadRemove, history, ghosts, NoUndo, Walks
<1>2. Moving' = Moving /\ Shown' = Shown
  BY <1>1 DEF Moving, Shown
<1>3. ShownText' = ShownText
  BY <1>1, <1>2 DEF ShownText, Snapshot
<1> QED
  BY <1>1, <1>2, <1>3, NothingShown DEF Edited

LEMMA InitIsVersion == Init => Versions!Init
<1> SUFFICES ASSUME Init PROVE Versions!Init
  OBVIOUS
<1>1. /\ m_history = <<Root>> /\ m_history_id = 1 /\ snapshots = << <<text>> >>
      /\ m_walk.op = "idle" /\ m_current_undo_group = <<>>
  BY DEF Init, First, Idle
<1>2. text \in Text
  BY InitHistoryInv DEF HistoryInv, TypeOK
<1>3. ShownVersions = <<Versions!NewVersion(Versions!None, text)>>
  <2>1. Ids = {1} /\ m_history[1] = Root /\ snapshots[1] = <<text>> /\ ~Moving
    BY <1>1 DEF Ids, Moving
  <2>2. ShownVersions = [n \in {1} |-> [text |-> text, parent |-> 0, visited |-> 0]]
    BY <2>1 DEF ShownVersions, Snapshot, Parent, RedoChild, Root, Invalid
  <2> QED
    BY <2>2 DEF Versions!NewVersion, Versions!None
<1> QED
  BY <1>1, <1>2, <1>3 DEF Versions!Init, Shown, Moving, NoUndo

LEMMA NextIsVersion ==
  ASSUME FifoMidEdit = FALSE, HistoryInv, HistoryInv', RedoFollowsCurrentBranch, [Next]_vars
  PROVE  [Versions!Next]_(Versions!vars)
<1>1. CASE Editing \/ ReplaceInsert \/ ReloadAdd \/ ReloadRemoveLine
  BY <1>1, EditStep
<1>2. CASE \/ Commit \/ NotifySaved \/ ReloadDone
           \/ \E count \in 1 .. MaxHistory : Undo(count)
           \/ \E t \in FileTexts : Reload(t)
  BY <1>2, CommitStep DEF Versions!Next
<1>3. CASE \E count \in 1 .. MaxHistory : Redo(count)
  <2>1. PICK c : c = RedoChild(m_history_id)
    OBVIOUS
  <2>2. /\ m_walk.op = "idle" /\ c # Invalid /\ m_current_undo_group = <<>>
        /\ m_walk'.op = "redo" /\ m_history_id' = c
        /\ UNCHANGED <<m_flags, m_history, m_current_undo_group, snapshots>>
    BY <1>3, <2>1 DEF Redo, NothingToRedo, Idle, Walk, ghosts
  <2> QED
    BY <2>1, <2>2, RedoStep DEF Versions!Next
<1>4. CASE \E id \in Ids : MoveTo(id)
  <2>1. PICK id \in Ids : MoveTo(id)
    BY <1>4
  <2>2. Versions!MoveTo(id) /\ id \in Versions!VersionIds
    BY <2>1, MoveToStep, ShownProperties
  <2> QED
    BY <2>2 DEF Versions!Next
<1>5. CASE OpenFifo \/ CloseFifo \/ \E s \in Contents : ReadFifo(s)
  BY <1>5, OpenFifoStep, CloseFifoStep, ReadFifoStep DEF Versions!Next
<1>6. CASE UndoNext \/ RedoNext \/ MoveNext
  BY <1>6, UndoStep, RedoNextStep, MoveNextStep DEF Versions!Next
<1>7. CASE \/ UNCHANGED vars
           \/ SetName \/ \E on \in BOOLEAN : SetReadOnly(on)
           \/ RevertModification \/ ApplyModification
           \/ ReloadKeep \/ \E len \in 1 .. Len(text) : ReloadRemove(len)
  BY <1>7, SilentStep
<1> QED
  BY <1>1, <1>2, <1>3, <1>4, <1>5, <1>6, <1>7 DEF Next, Step

(* The calls on a buffer, for all the modifications they apply one by one,  *)
(* are the operations of a tree of whole texts.                             *)
THEOREM BufferImplementsVersions ==
  ASSUME FifoMidEdit = FALSE
  PROVE  Spec => ImplementsVersionTree
<1>1. Init => Versions!Init
  BY InitIsVersion
<1>2. /\ HistoryInv /\ HistoryInv' /\ RedoFollowsCurrentBranch /\ [Next]_vars
      => [Versions!Next]_(Versions!vars)
  BY NextIsVersion
<1> QED
  BY <1>1, <1>2, HistoryIsSound, RedoAlwaysFollows, PTL
     DEF Spec, ImplementsVersionTree, Versions!Spec
=============================================================================
