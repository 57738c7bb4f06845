-------------------------- MODULE FifoBufferProofs --------------------------
(***************************************************************************)
(* Fifo buffers, for every alphabet, every size of the chunks and every    *)
(* amount of data: the buffer shows what was read, whatever way the data   *)
(* was cut, and the hook is told where the last of it is.                  *)
(***************************************************************************)
EXTENDS FifoBuffer, SequenceTheorems, WellFoundedInduction, TLAPS

(* A function on 1 .. n is a sequence. *)
LEMMA FunctionIsText ==
  ASSUME NEW S, NEW n \in Nat, NEW f \in [1 .. n -> S]
  PROVE  f \in Seq(S) /\ Len(f) = n
<1>1. f \in Seq(S)
  BY SeqDef
<1> QED
  BY <1>1, LenProperties

(* Slices and splices are texts, of the lengths one expects. *)
LEMMA SliceIsText ==
  ASSUME NEW t \in Text, NEW pos \in Nat, NEW n \in Nat, pos + n <= Len(t)
  PROVE  Slice(t, pos, n) \in Text /\ Len(Slice(t, pos, n)) = n
<1>1. t \in [1 .. Len(t) -> Char]
  BY LenProperties DEF Text
<1>2. Slice(t, pos, n) \in [1 .. n -> Char]
  BY <1>1 DEF Slice, Text
<1> QED
  BY <1>2, FunctionIsText DEF Text

LEMMA SpliceIsText ==
  ASSUME NEW t \in Text, NEW pos \in Nat, NEW del \in Nat, NEW ins \in Text,
         pos + del <= Len(t)
  PROVE  /\ Splice(t, pos, del, ins) \in Text
         /\ Len(Splice(t, pos, del, ins)) = Len(t) - del + Len(ins)
<1>1. /\ t \in [1 .. Len(t) -> Char] /\ ins \in [1 .. Len(ins) -> Char]
      /\ Len(t) \in Nat /\ Len(ins) \in Nat
  BY LenProperties DEF Text
<1> DEFINE n == Len(t) - del + Len(ins)
<1>2. n \in Nat
  BY <1>1
<1>3. Splice(t, pos, del, ins) \in [1 .. n -> Char]
  BY <1>1, <1>2 DEF Splice
<1> QED
  BY <1>2, <1>3, FunctionIsText DEF Text

(* Splices at the places where a fifo's chunks go. *)
LEMMA TextFacts ==
  ASSUME NEW t \in Text
  PROVE  /\ Len(t) \in Nat
         /\ t \in [1 .. Len(t) -> Char]
         /\ (t = <<>>) <=> (Len(t) = 0)
         /\ Append(t, EOL) \in Text
         /\ Len(Append(t, EOL)) = Len(t) + 1
         /\ Append(t, EOL)[Len(t) + 1] = EOL
         /\ \A i \in 1 .. Len(t) : Append(t, EOL)[i] = t[i]
         /\ EndsWithEol(Append(t, EOL))
<1>1. EOL \in Char /\ t \in Seq(Char)
  BY CharAssumption DEF Text
<1>2. /\ Len(t) \in Nat /\ t \in [1 .. Len(t) -> Char]
      /\ (t = <<>>) <=> (Len(t) = 0)
  BY <1>1, LenProperties, EmptySeq
<1>3. /\ Append(t, EOL) \in Seq(Char) /\ Append(t, EOL) # <<>>
      /\ Len(Append(t, EOL)) = Len(t) + 1
      /\ \A i \in 1 .. Len(t) : Append(t, EOL)[i] = t[i]
      /\ Append(t, EOL)[Len(t) + 1] = EOL
  BY <1>1, AppendProperties
<1> QED
  BY <1>2, <1>3 DEF EndsWithEol, Text

LEMMA ConcatFacts ==
  ASSUME NEW t \in Text, NEW s \in Text
  PROVE  /\ t \o s \in Text
         /\ Len(t \o s) = Len(t) + Len(s)
         /\ \A i \in 1 .. Len(t) + Len(s) :
              (t \o s)[i] = IF i <= Len(t) THEN t[i] ELSE s[i - Len(t)]
         /\ s # <<>> => (t \o s # <<>>) /\ (EndsWithEol(t \o s) <=> EndsWithEol(s))
         /\ t # <<>> => t \o s # <<>>
<1>1. /\ t \o s \in Text /\ Len(t \o s) = Len(t) + Len(s)
      /\ \A i \in 1 .. Len(t) + Len(s) :
           (t \o s)[i] = IF i <= Len(t) THEN t[i] ELSE s[i - Len(t)]
  BY ConcatProperties DEF Text
<1>2. /\ Len(t) \in Nat /\ Len(s) \in Nat
      /\ (s = <<>>) <=> (Len(s) = 0)
      /\ (t = <<>>) <=> (Len(t) = 0)
      /\ (t \o s = <<>>) <=> (Len(t \o s) = 0)
  BY <1>1, TextFacts
<1>3. ASSUME s # <<>> PROVE (t \o s # <<>>) /\ (EndsWithEol(t \o s) <=> EndsWithEol(s))
  <2>1. /\ Len(s) >= 1 /\ Len(t) + Len(s) \in 1 .. Len(t) + Len(s)
        /\ ~(Len(t) + Len(s) <= Len(t)) /\ (Len(t) + Len(s)) - Len(t) = Len(s)
    BY <1>2, <1>3
  <2>2. (t \o s)[Len(t) + Len(s)] = s[Len(s)]
    BY <1>1, <2>1
  <2> QED
    BY <1>1, <1>2, <1>3, <2>1, <2>2 DEF EndsWithEol
<1> QED
  BY <1>1, <1>2, <1>3

(* Texts of one length and with the same characters are one. *)
LEMMA SameText ==
  ASSUME NEW t \in Text, NEW s \in Text, Len(t) = Len(s),
         \A i \in 1 .. Len(t) : t[i] = s[i]
  PROVE  t = s
BY TextFacts

LEMMA InsertAtEnd ==
  ASSUME NEW t \in Text, NEW s \in Text
  PROVE  Splice(t, Len(t), 0, s) = t \o s
<1>1. Len(t) \in Nat /\ Len(s) \in Nat
  BY TextFacts
<1>2. /\ Splice(t, Len(t), 0, s) \in Text
      /\ Len(Splice(t, Len(t), 0, s)) = Len(t) + Len(s)
  BY <1>1, SpliceIsText
<1>3. t \o s \in Text /\ Len(t \o s) = Len(t) + Len(s)
  BY ConcatFacts
<1>4. \A i \in 1 .. Len(t) + Len(s) : Splice(t, Len(t), 0, s)[i] = (t \o s)[i]
  BY <1>1, ConcatFacts DEF Splice
<1> QED
  BY <1>2, <1>3, <1>4, SameText

LEMMA InsertBeforeLast ==
  ASSUME NEW t \in Text, NEW s \in Text
  PROVE  Splice(Append(t, EOL), Len(t), 0, s) = Append(t \o s, EOL)
<1>1. /\ Len(t) \in Nat /\ Len(s) \in Nat
      /\ Append(t, EOL) \in Text /\ Len(Append(t, EOL)) = Len(t) + 1
  BY TextFacts
<1>2. /\ Splice(Append(t, EOL), Len(t), 0, s) \in Text
      /\ Len(Splice(Append(t, EOL), Len(t), 0, s)) = Len(t) + Len(s) + 1
  <2> DEFINE u == Append(t, EOL)
  <2>1. u \in Text /\ Len(u) = Len(t) + 1 /\ Len(t) + 0 <= Len(u)
    BY <1>1
  <2> HIDE DEF u
  <2>2. /\ Splice(u, Len(t), 0, s) \in Text
        /\ Len(Splice(u, Len(t), 0, s)) = Len(u) - 0 + Len(s)
    BY <1>1, <2>1, SpliceIsText
  <2>3. Len(u) - 0 + Len(s) = Len(t) + Len(s) + 1
    BY <1>1, <2>1
  <2> QED
    BY <2>2, <2>3 DEF u
<1>3. /\ t \o s \in Text /\ Len(t \o s) = Len(t) + Len(s)
      /\ Append(t \o s, EOL) \in Text
      /\ Len(Append(t \o s, EOL)) = Len(t) + Len(s) + 1
  BY ConcatFacts, TextFacts
<1>4. \A i \in 1 .. Len(t) + Len(s) + 1 :
        Append(t \o s, EOL)[i] = IF i = Len(t) + Len(s) + 1 THEN EOL
                                 ELSE IF i <= Len(t) THEN t[i] ELSE s[i - Len(t)]
  <2> TAKE i \in 1 .. Len(t) + Len(s) + 1
  <2>1. CASE i = Len(t) + Len(s) + 1
    BY <1>3, <2>1, TextFacts
  <2>2. CASE i # Len(t) + Len(s) + 1
    <3>1. i \in 1 .. Len(t) + Len(s)
      BY <1>1, <2>2
    <3>2. Append(t \o s, EOL)[i] = (t \o s)[i]
      BY <1>3, <3>1, TextFacts
    <3> QED
      BY <2>2, <3>1, <3>2, ConcatFacts
  <2> QED
    BY <2>1, <2>2
<1>5. \A i \in 1 .. Len(t) + Len(s) + 1 :
        Splice(Append(t, EOL), Len(t), 0, s)[i]
        = IF i <= Len(t) THEN Append(t, EOL)[i]
          ELSE IF i <= Len(t) + Len(s) THEN s[i - Len(t)]
          ELSE Append(t, EOL)[i - Len(s)]
  BY <1>1 DEF Splice
<1>6. /\ Append(t, EOL)[Len(t) + 1] = EOL
      /\ \A i \in 1 .. Len(t) : Append(t, EOL)[i] = t[i]
  BY TextFacts
<1>7. \A i \in 1 .. Len(t) + Len(s) + 1 :
        Splice(Append(t, EOL), Len(t), 0, s)[i] = Append(t \o s, EOL)[i]
  <2> TAKE i \in 1 .. Len(t) + Len(s) + 1
  <2>1. CASE i <= Len(t)
    BY <1>1, <1>4, <1>5, <1>6, <2>1
  <2>2. CASE i > Len(t) /\ i <= Len(t) + Len(s)
    BY <1>1, <1>4, <1>5, <2>2
  <2>3. CASE i = Len(t) + Len(s) + 1
    <3>1. i - Len(s) = Len(t) + 1 /\ ~(i <= Len(t)) /\ ~(i <= Len(t) + Len(s))
      BY <1>1, <2>3
    <3> QED
      BY <1>4, <1>5, <1>6, <2>3, <3>1
  <2> QED
    BY <1>1, <2>1, <2>2, <2>3
<1> QED
  BY <1>1, <1>2, <1>3, <1>7, SameText

(* The initial line goes. *)
LEMMA EraseFirst ==
  ASSUME NEW s \in Text
  PROVE  Splice(<<EOL>> \o s, 0, 1, <<>>) = s
<1>1. /\ <<EOL>> \in Text /\ Len(<<EOL>>) = 1 /\ Len(s) \in Nat
      /\ <<>> \in Text /\ Len(<<>>) = 0
  BY TextFacts, CharAssumption DEF Text
<1>2. /\ <<EOL>> \o s \in Text /\ Len(<<EOL>> \o s) = 1 + Len(s)
      /\ \A i \in 1 .. 1 + Len(s) : i > 1 => (<<EOL>> \o s)[i] = s[i - 1]
  BY <1>1, ConcatFacts
<1>3. /\ Splice(<<EOL>> \o s, 0, 1, <<>>) \in Text
      /\ Len(Splice(<<EOL>> \o s, 0, 1, <<>>)) = Len(s)
  <2> DEFINE u == <<EOL>> \o s
  <2>1. u \in Text /\ 0 + 1 <= Len(u) /\ Len(u) - 1 + Len(<<>>) = Len(s)
    BY <1>1, <1>2
  <2> HIDE DEF u
  <2>2. /\ Splice(u, 0, 1, <<>>) \in Text
        /\ Len(Splice(u, 0, 1, <<>>)) = Len(u) - 1 + Len(<<>>)
    BY <1>1, <2>1, SpliceIsText
  <2> QED
    BY <2>1, <2>2 DEF u
<1>4. \A i \in 1 .. Len(s) : Splice(<<EOL>> \o s, 0, 1, <<>>)[i] = s[i]
  <2> TAKE i \in 1 .. Len(s)
  <2>1. Splice(<<EOL>> \o s, 0, 1, <<>>)[i] = (<<EOL>> \o s)[i - 0 + 1]
    BY <1>1, <1>2 DEF Splice
  <2>2. i - 0 + 1 \in 1 .. 1 + Len(s) /\ i - 0 + 1 > 1 /\ (i - 0 + 1) - 1 = i
    BY <1>1
  <2> QED
    BY <1>2, <2>1, <2>2
<1> QED
  BY <1>3, <1>4, SameText

(* Of two EOLs at the end, one goes. *)
LEMMA EraseDouble ==
  ASSUME NEW t \in Text, EndsWithEol(t)
  PROVE  Splice(Append(t, EOL), Len(t) - 1, 1, <<>>) = t
<1> DEFINE u == Append(t, EOL)
           v == Splice(u, Len(t) - 1, 1, <<>>)
<1>1. /\ Len(t) \in Nat /\ Len(t) >= 1 /\ t[Len(t)] = EOL
      /\ u \in Text /\ Len(u) = Len(t) + 1 /\ u[Len(t) + 1] = EOL
      /\ \A i \in 1 .. Len(t) : u[i] = t[i]
      /\ <<>> \in Text /\ Len(<<>>) = 0
  BY TextFacts DEF EndsWithEol, Text
<1> HIDE DEF u
<1>2. v \in Text /\ Len(v) = Len(t)
  <2>1. Len(t) - 1 \in Nat /\ (Len(t) - 1) + 1 <= Len(u) /\ Len(u) - 1 + 0 = Len(t)
    BY <1>1
  <2> QED
    BY <1>1, <2>1, SpliceIsText
<1>3. \A i \in 1 .. Len(t) : v[i] = IF i <= Len(t) - 1 THEN u[i] ELSE u[i + 1]
  <2>1. \A i \in 1 .. Len(t) : i - 0 + 1 = i + 1 /\ (i <= Len(t) - 1 + 0 <=> i <= Len(t) - 1)
    BY <1>1
  <2> QED
    BY <1>1, <2>1 DEF Splice
<1>4. \A i \in 1 .. Len(t) : v[i] = t[i]
  <2> TAKE i \in 1 .. Len(t)
  <2>1. CASE i <= Len(t) - 1
    BY <1>1, <1>3, <2>1
  <2>2. CASE i = Len(t)
    BY <1>1, <1>3, <2>2
  <2> QED
    BY <1>1, <2>1, <2>2
<1> HIDE DEF v
<1>5. v = t
  BY <1>2, <1>4, SameText
<1> QED
  BY <1>5 DEF u, v

LEMMA ConcatThenAppend ==
  ASSUME NEW t \in Text, NEW s \in Text
  PROVE  t \o Append(s, EOL) = Append(t \o s, EOL)
<1>1. /\ Len(t) \in Nat /\ Len(s) \in Nat
      /\ Append(s, EOL) \in Text /\ Len(Append(s, EOL)) = Len(s) + 1
      /\ t \o s \in Text /\ Len(t \o s) = Len(t) + Len(s)
  BY TextFacts, ConcatFacts
<1>2. /\ t \o Append(s, EOL) \in Text
      /\ Len(t \o Append(s, EOL)) = Len(t) + Len(s) + 1
      /\ Append(t \o s, EOL) \in Text
      /\ Len(Append(t \o s, EOL)) = Len(t) + Len(s) + 1
  BY <1>1, ConcatFacts, TextFacts
<1>3. \A i \in 1 .. Len(t) + Len(s) + 1 :
        (t \o Append(s, EOL))[i] = IF i <= Len(t) THEN t[i]
                                   ELSE Append(s, EOL)[i - Len(t)]
  <2> DEFINE u == Append(s, EOL)
  <2>1. u \in Text /\ Len(t) + Len(u) = Len(t) + Len(s) + 1
    BY <1>1
  <2> HIDE DEF u
  <2>2. \A i \in 1 .. Len(t) + Len(u) :
          (t \o u)[i] = IF i <= Len(t) THEN t[i] ELSE u[i - Len(t)]
    BY <2>1, ConcatFacts
  <2> QED
    BY <2>1, <2>2 DEF u
<1>4. \A i \in 1 .. Len(t) + Len(s) + 1 :
        (t \o Append(s, EOL))[i] = Append(t \o s, EOL)[i]
  <2> TAKE i \in 1 .. Len(t) + Len(s) + 1
  <2>1. CASE i = Len(t) + Len(s) + 1
    <3>1. i - Len(t) = Len(s) + 1 /\ ~(i <= Len(t))
      BY <1>1, <2>1
    <3>2. Append(s, EOL)[Len(s) + 1] = EOL
      BY TextFacts
    <3>3. Append(t \o s, EOL)[Len(t \o s) + 1] = EOL
      BY <1>1, TextFacts
    <3> QED
      BY <1>1, <1>3, <2>1, <3>1, <3>2, <3>3
  <2>2. CASE i # Len(t) + Len(s) + 1
    <3>1. i \in 1 .. Len(t) + Len(s)
      BY <1>1, <2>2
    <3>2. Append(t \o s, EOL)[i] = (t \o s)[i]
      BY <1>1, <3>1, TextFacts
    <3>3. (t \o s)[i] = IF i <= Len(t) THEN t[i] ELSE s[i - Len(t)]
      BY <3>1, ConcatFacts
    <3>4. ~(i <= Len(t)) => i - Len(t) \in 1 .. Len(s)
      BY <1>1, <3>1
    <3>5. ~(i <= Len(t)) => Append(s, EOL)[i - Len(t)] = s[i - Len(t)]
      BY <3>4, TextFacts
    <3> QED
      BY <1>3, <3>2, <3>3, <3>5
  <2> QED
    BY <2>1, <2>2
<1> QED
  BY <1>2, <1>4, SameText

-----------------------------------------------------------------------------
(* A first chunk takes the place of the empty line. *)
LEMMA ReceivedFirst ==
  ASSUME NEW s \in Text, s # <<>>, m_scroll \in AutoScroll
  PROVE  Received(<<EOL>>, s, m_scroll, FALSE) = TextOf(s)
<1> DEFINE t == <<EOL>>
           c == IF s[Len(s)] # EOL THEN Append(s, EOL) ELSE s
<1>1. /\ t \in Text /\ Len(t) = 1 /\ IsFirst(t) /\ <<>> \in Text
      /\ t = Append(<<>>, EOL) /\ Len(<<>>) = 0 /\ <<>> \o s = s
  BY TextFacts, CharAssumption DEF Text, IsFirst
<1>2. /\ c \in Text
      /\ EndsWithEol(s) => c = s
      /\ ~EndsWithEol(s) => c = Append(s, EOL)
  BY TextFacts DEF EndsWithEol
<1>9. InsertionAt(t, 1, s) = Insertion(1, c)
  BY <1>1 DEF InsertionAt
<1> HIDE DEF c
<1>3. Splice(t, 1, 0, c) = t \o c
  BY <1>1, <1>2, InsertAtEnd
<1>4. Splice(t \o c, 0, 1, <<>>) = c
  BY <1>2, EraseFirst
<1>5. Splice(t, 0, 0, s) = Append(s, EOL)
  BY <1>1, InsertBeforeLast
<1>6. ReadPosition(t, m_scroll, FALSE) = IF m_scroll = "Yes" THEN 0 ELSE 1
  BY <1>1 DEF ReadPosition, AutoScroll
<1> HIDE DEF t
<1>7. CASE m_scroll = "Yes"
  <2>1. InsertionAt(t, 0, s) = Insertion(0, s)
    BY <1>1 DEF InsertionAt
  <2>2. Apply(InsertionAt(t, 0, s), t) = Append(s, EOL)
    BY <1>5, <2>1 DEF Apply, Insertion
  <2>3. Received(t, s, m_scroll, FALSE) = Append(s, EOL)
    BY <1>6, <1>7, <2>2 DEF Received
  <2>4. TextOf(s) = Append(s, EOL)
    BY <1>7 DEF TextOf
  <2> QED
    BY <2>3, <2>4 DEF t
<1>8. CASE m_scroll # "Yes"
  <2>2. Apply(InsertionAt(t, 1, s), t) = t \o c
    BY <1>3, <1>9 DEF Apply, Insertion
  <2>3. Received(t, s, m_scroll, FALSE)
        = IF m_scroll = "NotInitially" /\ EndsWithEol(s)
          THEN Splice(c, Len(c), 0, <<EOL>>) ELSE c
    <3>1. PICK pos : pos = ReadPosition(t, m_scroll, FALSE)
      OBVIOUS
    <3>2. pos = 1
      BY <1>6, <1>8, <3>1
    <3>3. PICK u : u = Apply(InsertionAt(t, pos, s), t)
      OBVIOUS
    <3>4. u = t \o c
      BY <2>2, <3>2, <3>3
    <3>5. PICK v : v = Splice(u, 0, 1, <<>>)
      OBVIOUS
    <3>6. v = c
      BY <1>4, <3>4, <3>5
    <3>7. Received(t, s, m_scroll, FALSE)
          = IF m_scroll = "NotInitially" /\ EndsWithEol(s)
            THEN Splice(v, Len(v), 0, <<EOL>>) ELSE v
      BY <1>1, <1>8, <3>1, <3>3, <3>5 DEF Received
    <3> QED
      BY <3>6, <3>7
  <2>4. CASE m_scroll = "NotInitially" /\ EndsWithEol(s)
    <3>1. c = s
      BY <1>2, <2>4
    <3>2. Splice(s, Len(s), 0, <<EOL>>) = s \o <<EOL>>
      BY <1>1, InsertAtEnd DEF t
    <3>3. s \o <<EOL>> = Append(s, EOL)
      BY AppendIsConcat, CharAssumption DEF Text
    <3>4. TextOf(s) = Append(s, EOL)
      BY <2>4 DEF TextOf
    <3> QED
      BY <2>3, <2>4, <3>1, <3>2, <3>3, <3>4 DEF t
  <2>5. CASE ~(m_scroll = "NotInitially" /\ EndsWithEol(s))
    <3>1. c = TextOf(s)
      BY <1>2, <1>8, <2>5 DEF TextOf, AutoScroll
    <3>2. Received(t, s, m_scroll, FALSE) = c
      BY <2>3, <2>5
    <3> QED
      BY <3>1, <3>2 DEF t
  <2> QED
    BY <2>4, <2>5
<1> QED
  BY <1>7, <1>8

(* The chunks to come are appended to what the buffer shows. *)
LEMMA ReceivedMore ==
  ASSUME NEW d \in Text, NEW s \in Text, s # <<>>, d # <<>>,
         NEW t, t = TextOf(d), NEW had \in BOOLEAN, had = EndsWithEol(d),
         m_scroll \in AutoScroll, ~(m_scroll = "No" /\ d = <<EOL>>)
  PROVE  /\ ~IsFirst(t)
         /\ ReadPosition(t, m_scroll, had) = Len(d)
         /\ Received(t, s, m_scroll, had) = TextOf(d \o s)
<1> DEFINE c == IF s[Len(s)] # EOL THEN Append(s, EOL) ELSE s
<1>1. /\ Len(d) \in Nat /\ Len(d) >= 1 /\ Len(s) \in Nat /\ Len(s) >= 1
      /\ c \in Text
      /\ EndsWithEol(s) => c = s
      /\ ~EndsWithEol(s) => c = Append(s, EOL)
  BY TextFacts DEF EndsWithEol
<1>5. InsertionAt(d, Len(d), s) = Insertion(Len(d), c)
  BY DEF InsertionAt
<1> HIDE DEF c
<1>2. /\ d \o s \in Text /\ Len(d \o s) = Len(d) + Len(s)
      /\ EndsWithEol(d \o s) <=> EndsWithEol(s)
  BY ConcatFacts
<1>3. CASE m_scroll = "No" /\ had
  <2>1. t = d
    BY <1>3 DEF TextOf
  <2>2. Len(d) # 1
    <3> SUFFICES ASSUME Len(d) = 1 PROVE FALSE
      OBVIOUS
    <3>1. d[1] = EOL
      BY <1>3 DEF EndsWithEol
    <3>2. <<EOL>> \in Text /\ Len(<<EOL>>) = 1 /\ <<EOL>>[1] = EOL
      BY CharAssumption DEF Text
    <3>3. d = <<EOL>>
      BY <3>1, <3>2, SameText
    <3> QED
      BY <1>3, <3>3
  <2>3. ~IsFirst(t) /\ ReadPosition(t, m_scroll, had) = Len(d)
    BY <1>3, <2>1, <2>2 DEF IsFirst, ReadPosition
  <2>4. Apply(InsertionAt(t, Len(d), s), t) = d \o c
    <3>1. InsertionAt(t, Len(d), s) = Insertion(Len(d), c)
      BY <1>5, <2>1
    <3>2. Splice(d, Len(d), 0, c) = d \o c
      BY <1>1, InsertAtEnd
    <3> QED
      BY <2>1, <3>1, <3>2 DEF Apply, Insertion
  <2>5. Received(t, s, m_scroll, had) = d \o c
    BY <1>3, <2>3, <2>4 DEF Received
  <2>6. d \o c = TextOf(d \o s)
    <3>1. CASE EndsWithEol(s)
      BY <1>1, <1>2, <1>3, <3>1 DEF TextOf
    <3>2. CASE ~EndsWithEol(s)
      <4>1. c = Append(s, EOL) /\ TextOf(d \o s) = Append(d \o s, EOL)
        BY <1>1, <1>2, <3>2 DEF TextOf
      <4>2. d \o Append(s, EOL) = Append(d \o s, EOL)
        BY ConcatThenAppend
      <4> QED
        BY <4>1, <4>2
    <3> QED
      BY <3>1, <3>2
  <2> QED
    BY <2>3, <2>5, <2>6
<1>4. CASE ~(m_scroll = "No" /\ had)
  <2>1. t = Append(d, EOL) /\ Len(t) = Len(d) + 1
    BY <1>4, TextFacts DEF TextOf
  <2>2. ~IsFirst(t) /\ ReadPosition(t, m_scroll, had) = Len(d)
    BY <1>1, <1>4, <2>1 DEF IsFirst, ReadPosition
  <2>3. Apply(InsertionAt(t, Len(d), s), t) = Append(d \o s, EOL)
    <3>1. InsertionAt(t, Len(d), s) = Insertion(Len(d), s)
      BY <1>1, <2>1 DEF InsertionAt
    <3>2. Splice(Append(d, EOL), Len(d), 0, s) = Append(d \o s, EOL)
      BY InsertBeforeLast
    <3> QED
      BY <2>1, <3>1, <3>2 DEF Apply, Insertion
  <2>4. CASE m_scroll = "No" /\ EndsWithEol(s)
    <3>1. Splice(Append(d \o s, EOL), Len(d \o s) - 1, 1, <<>>) = d \o s
      BY <1>2, <2>4, EraseDouble
    <3>2. Received(t, s, m_scroll, had) = d \o s
      BY <1>2, <1>4, <2>2, <2>3, <2>4, <3>1 DEF Received
    <3>3. TextOf(d \o s) = d \o s
      BY <1>2, <2>4 DEF TextOf
    <3> QED
      BY <2>2, <3>2, <3>3
  <2>5. CASE ~(m_scroll = "No" /\ EndsWithEol(s))
    <3>1. Received(t, s, m_scroll, had) = Append(d \o s, EOL)
      BY <2>2, <2>3, <2>5 DEF Received
    <3>2. TextOf(d \o s) = Append(d \o s, EOL)
      BY <1>2, <2>5 DEF TextOf
    <3> QED
      BY <2>2, <3>1, <3>2
  <2> QED
    BY <2>4, <2>5
<1> QED
  BY <1>3, <1>4

(* What is read is the last of what was read. *)
LEMMA FreshGrows ==
  ASSUME NEW r \in Text, NEW f \in Text, NEW s \in Text,
         Len(f) <= Len(r), Slice(r, Len(r) - Len(f), Len(f)) = f
  PROVE  /\ Len(f \o s) <= Len(r \o s)
         /\ Len(r \o s) - Len(f \o s) = Len(r) - Len(f)
         /\ Slice(r \o s, Len(r \o s) - Len(f \o s), Len(f \o s)) = f \o s
<1>1. /\ Len(r) \in Nat /\ Len(f) \in Nat /\ Len(s) \in Nat
      /\ r \o s \in Text /\ f \o s \in Text
      /\ Len(r \o s) = Len(r) + Len(s) /\ Len(f \o s) = Len(f) + Len(s)
  BY TextFacts, ConcatFacts
<1> DEFINE pos == Len(r) - Len(f)
<1>2. pos \in Nat /\ pos + Len(f) = Len(r)
  BY <1>1
<1>3. \A i \in 1 .. Len(f) : r[pos + i] = f[i]
  BY <1>1 DEF Slice
<1> HIDE DEF pos
<1>4. /\ Slice(r \o s, pos, Len(f) + Len(s)) \in Text
      /\ Len(Slice(r \o s, pos, Len(f) + Len(s))) = Len(f) + Len(s)
  <2>1. Len(f) + Len(s) \in Nat /\ pos + (Len(f) + Len(s)) <= Len(r \o s)
    BY <1>1, <1>2
  <2> QED
    BY <1>1, <1>2, <2>1, SliceIsText
<1>5. \A i \in 1 .. Len(f) + Len(s) : (r \o s)[pos + i] = (f \o s)[i]
  <2> TAKE i \in 1 .. Len(f) + Len(s)
  <2>1. pos + i \in 1 .. Len(r) + Len(s)
    BY <1>1, <1>2
  <2>2. (r \o s)[pos + i] = IF pos + i <= Len(r) THEN r[pos + i]
                            ELSE s[(pos + i) - Len(r)]
    BY <2>1, ConcatFacts
  <2>3. (f \o s)[i] = IF i <= Len(f) THEN f[i] ELSE s[i - Len(f)]
    BY ConcatFacts
  <2>4. CASE i <= Len(f)
    <3>1. pos + i <= Len(r) /\ i \in 1 .. Len(f)
      BY <1>1, <1>2, <2>4
    <3> QED
      BY <1>3, <2>2, <2>3, <2>4, <3>1
  <2>5. CASE ~(i <= Len(f))
    <3>1. ~(pos + i <= Len(r)) /\ (pos + i) - Len(r) = i - Len(f)
      BY <1>1, <1>2, <2>5
    <3> QED
      BY <2>2, <2>3, <2>5, <3>1
  <2> QED
    BY <2>4, <2>5
<1>6. \A i \in 1 .. Len(f) + Len(s) :
        Slice(r \o s, pos, Len(f) + Len(s))[i] = (f \o s)[i]
  BY <1>1, <1>5 DEF Slice
<1>7. Slice(r \o s, pos, Len(f) + Len(s)) = f \o s
  BY <1>1, <1>4, <1>6, SameText
<1> QED
  BY <1>1, <1>2, <1>7 DEF pos

LEMMA NothingFresh ==
  ASSUME NEW r \in Text
  PROVE  Len(<<>>) <= Len(r) /\ Slice(r, Len(r) - Len(<<>>), Len(<<>>)) = <<>>
<1>1. Len(r) \in Nat /\ Len(<<>>) = 0 /\ <<>> \in Text
  BY TextFacts DEF Text
<1>2. Slice(r, Len(r), 0) \in Text /\ Len(Slice(r, Len(r), 0)) = 0
  BY <1>1, SliceIsText
<1>3. Slice(r, Len(r), 0) = <<>>
  BY <1>2, TextFacts
<1> QED
  BY <1>1, <1>3

-----------------------------------------------------------------------------
(* The steps. *)

LEMMA InitFifoInv == Init => FifoInv
<1> SUFFICES ASSUME Init PROVE FifoInv
  OBVIOUS
<1>1. <<>> \in Text
  BY DEF Text
<1>2. FifoTypeOK
  BY <1>1 DEF Init, FifoTypeOK
<1>3. BeginIsFresh
  BY <1>1, NothingFresh DEF Init, BeginIsFresh
<1> QED
  BY <1>2, <1>3 DEF Init, FifoInv, NothingReceived, RemembersTrailing,
     BufferShowsLines, BufferShowsData, AnnouncedIsRead

(* The writer, and whatever else leaves the text alone. *)
LEMMA SameReader ==
  ASSUME FifoInv, pipe' \in Text,
         UNCHANGED <<text, m_scroll, m_had_trailing_newline, insert_begin,
                     received, fresh, announced>>
  PROVE  FifoInv'
BY DEF FifoInv, FifoTypeOK, NothingReceived, RemembersTrailing, BeginIsFresh,
       StartsWithEmptyLine, BufferShowsLines, BufferShowsData, TextOf,
       AnnouncedIsRead

LEMMA ReadChunkPreserves ==
  ASSUME FifoInv, ReadChunk
  PROVE  FifoInv'
<1> DEFINE n == Least(BufferSize, Len(pipe))
           s == SubSeq(pipe, 1, n)
           begin == IF insert_begin = {}
                    THEN ReadPosition(text, m_scroll, m_had_trailing_newline)
                    ELSE CHOOSE b \in insert_begin : TRUE
<1>1. /\ m_scroll \in AutoScroll /\ m_had_trailing_newline \in BOOLEAN
      /\ pipe \in Text /\ received \in Text /\ fresh \in Text
      /\ pipe # <<>> /\ Len(pipe) \in Nat /\ BufferSize \in Nat \ {0}
  BY FifoAssumption, TextFacts DEF FifoInv, FifoTypeOK, ReadChunk
<1>2. n \in 1 .. Len(pipe)
  BY <1>1, TextFacts DEF Least
<1>3. /\ text' = Received(text, s, m_scroll, m_had_trailing_newline)
      /\ insert_begin' = {BeginOnceErased(begin, IsFirst(text))}
      /\ m_had_trailing_newline' = EndsWithEol(s)
      /\ pipe' = SubSeq(pipe, n + 1, Len(pipe))
      /\ received' = received \o s
      /\ fresh' = fresh \o s
      /\ UNCHANGED <<m_scroll, announced>>
  BY DEF ReadChunk, HaveTrailingNewline
<1> HIDE DEF n
<1>4. s \in Text /\ s # <<>> /\ pipe' \in Text
  <2>1. s \in Seq(Char) /\ Len(s) = n
    BY <1>1, <1>2, SubSeqProperties DEF Text
  <2>2. SubSeq(pipe, n + 1, Len(pipe)) \in Seq(Char)
    BY <1>1, <1>2, SubSeqProperties DEF Text
  <2>3. s \in Text /\ pipe' \in Text
    BY <1>3, <2>1, <2>2 DEF Text
  <2>4. Len(s) # 0
    BY <1>2, <2>1
  <2> HIDE DEF s
  <2> QED
    BY <2>3, <2>4, TextFacts
<1> HIDE DEF s, begin
<1>5. /\ received' \in Text /\ fresh' \in Text
      /\ received' # <<>> /\ fresh' # <<>>
      /\ EndsWithEol(received') <=> EndsWithEol(s)
  BY <1>1, <1>3, <1>4, ConcatFacts
<1>6. FifoTypeOK'
  <2>1. EndsWithEol(s) \in BOOLEAN
    BY DEF EndsWithEol
  <2>2. m_had_trailing_newline' \in BOOLEAN
    BY <1>3, <2>1
  <2> QED
    BY <1>3, <1>4, <1>5, <2>2 DEF FifoInv, FifoTypeOK
<1>7. NothingReceived' /\ RemembersTrailing'
  <2>1. EndsWithEol(received') = EndsWithEol(s)
    BY <1>5 DEF EndsWithEol
  <2>2. m_had_trailing_newline' = EndsWithEol(received')
    BY <1>3, <2>1
  <2> QED
    BY <1>5, <2>2 DEF NothingReceived, RemembersTrailing
<1>8. /\ Len(fresh') <= Len(received')
      /\ Len(received') - Len(fresh') = Len(received) - Len(fresh)
      /\ Slice(received', Len(received') - Len(fresh'), Len(fresh')) = fresh'
  BY <1>1, <1>3, <1>4, FreshGrows DEF FifoInv, BeginIsFresh
<1>9. received # <<>> => received'[1] = received[1]
  <2> SUFFICES ASSUME received # <<>> PROVE received'[1] = received[1]
    OBVIOUS
  <2>1. Len(received) \in Nat /\ Len(received) >= 1 /\ Len(s) \in Nat
    BY <1>1, <1>4, TextFacts
  <2>2. 1 \in 1 .. Len(received) + Len(s) /\ 1 <= Len(received)
    BY <2>1
  <2> QED
    BY <1>1, <1>3, <1>4, <2>2, ConcatFacts
<1>10. ~StartsWithEmptyLine' => ~StartsWithEmptyLine
  BY <1>3, <1>5, <1>9 DEF StartsWithEmptyLine
<1>11. AnnouncedIsRead'
  BY <1>3, <1>10 DEF FifoInv, AnnouncedIsRead
<1>12. ASSUME ~StartsWithEmptyLine'
       PROVE  /\ text' = TextOf(received')
              /\ insert_begin' = {Len(received') - Len(fresh')}
  <2>1. CASE received = <<>>
    <3>1. text = <<EOL>> /\ m_had_trailing_newline = FALSE
      BY <1>1, <2>1 DEF FifoInv, NothingReceived
    <3>2. fresh = <<>> /\ insert_begin = {}
      <4>1. Len(fresh) = 0
        BY <1>1, <2>1, TextFacts DEF FifoInv, BeginIsFresh
      <4> QED
        BY <1>1, <4>1, TextFacts DEF FifoInv, BeginIsFresh
    <3>3. received' = s /\ fresh' = s
      BY <1>3, <1>4, <2>1, <3>2, ConcatEmptySeq DEF Text
    <3>4. text' = TextOf(s)
      BY <1>1, <1>3, <1>4, <3>1, ReceivedFirst
    <3>5. IsFirst(text) /\ Len(text) = 1
      BY <3>1 DEF IsFirst
    <3>6. begin = IF m_scroll = "Yes" THEN 0 ELSE 1
      <4>1. begin = ReadPosition(text, m_scroll, m_had_trailing_newline)
        BY <3>2 DEF begin
      <4> QED
        BY <1>1, <3>1, <3>5, <4>1 DEF ReadPosition, AutoScroll
    <3>7. BeginOnceErased(begin, IsFirst(text)) = 0
      BY <3>5, <3>6 DEF BeginOnceErased
    <3>8. Len(received') - Len(fresh') = 0
      BY <1>4, <3>3, TextFacts
    <3> QED
      BY <1>3, <3>3, <3>4, <3>7, <3>8
  <2>2. CASE received # <<>>
    <3>1. ~StartsWithEmptyLine
      BY <1>10, <1>12
    <3>2. /\ text = TextOf(received)
          /\ m_had_trailing_newline = EndsWithEol(received)
      BY <2>2, <3>1 DEF FifoInv, RemembersTrailing, BufferShowsLines,
         BufferShowsData
    <3>3. ~(m_scroll = "No" /\ received = <<EOL>>)
      BY <2>2, <3>1 DEF StartsWithEmptyLine
    <3>4. /\ ~IsFirst(text)
          /\ ReadPosition(text, m_scroll, m_had_trailing_newline) = Len(received)
          /\ text' = TextOf(received')
      BY <1>1, <1>3, <1>4, <2>2, <3>2, <3>3, ReceivedMore
    <3>5. begin = Len(received) - Len(fresh)
      <4>1. CASE insert_begin = {}
        <5>1. begin = Len(received)
          BY <3>4, <4>1 DEF begin
        <5>2. Len(fresh) = 0 /\ Len(received) \in Nat
          BY <1>1, <4>1, TextFacts DEF FifoInv, BeginIsFresh
        <5> QED
          BY <5>1, <5>2
      <4>2. CASE insert_begin # {}
        <5>1. insert_begin = {Len(received) - Len(fresh)}
          BY <3>1, <4>2 DEF FifoInv, BeginIsFresh
        <5> QED
          BY <4>2, <5>1 DEF begin
      <4> QED
        BY <4>1, <4>2
    <3>6. BeginOnceErased(begin, IsFirst(text)) = begin
      BY <3>4 DEF BeginOnceErased
    <3> QED
      BY <1>3, <1>8, <3>4, <3>5, <3>6
  <2> QED
    BY <2>1, <2>2
<1>13. BufferShowsLines'
  BY <1>3, <1>12 DEF BufferShowsLines, BufferShowsData, TextOf
<1>14. BeginIsFresh'
  BY <1>3, <1>5, <1>8, <1>12 DEF BeginIsFresh
<1> QED
  BY <1>6, <1>7, <1>11, <1>13, <1>14 DEF FifoInv

(* What is announced is where the buffer ends then. *)
LEMMA ShownIsFresh ==
  ASSUME FifoInv, ~StartsWithEmptyLine, insert_begin # {}
  PROVE  Shown(CHOOSE b \in insert_begin : TRUE) = fresh
<1> DEFINE b == Len(received) - Len(fresh)
<1>1. /\ received \in Text /\ fresh \in Text /\ fresh # <<>>
      /\ Len(fresh) <= Len(received)
      /\ Slice(received, b, Len(fresh)) = fresh
      /\ insert_begin = {b}
  BY DEF FifoInv, FifoTypeOK, BeginIsFresh
<1>2. /\ Len(received) \in Nat /\ Len(fresh) \in Nat /\ Len(fresh) >= 1
      /\ received # <<>> /\ b \in Nat /\ b + Len(fresh) = Len(received)
  BY <1>1, TextFacts
<1>3. /\ text = TextOf(received)
      /\ m_had_trailing_newline = EndsWithEol(received)
  BY <1>2 DEF FifoInv, RemembersTrailing, BufferShowsLines, BufferShowsData
<1>4. /\ InsertBack - b + 1 = Len(fresh)
      /\ \A i \in 1 .. Len(received) : text[i] = received[i]
  <2>1. CASE m_scroll = "No" /\ m_had_trailing_newline
    <3>1. text = received
      BY <1>3, <2>1 DEF TextOf
    <3>2. InsertBack = Len(received) - 1
      BY <2>1, <3>1 DEF InsertBack
    <3> QED
      BY <1>2, <3>1, <3>2
  <2>2. CASE ~(m_scroll = "No" /\ m_had_trailing_newline)
    <3>1. text = Append(received, EOL)
      BY <1>3, <2>2 DEF TextOf
    <3>2. Len(text) = Len(received) + 1
      BY <1>1, <3>1, TextFacts
    <3>3. InsertBack = Len(text) - 2
      BY <2>2 DEF InsertBack
    <3>4. InsertBack = Len(received) - 1
      BY <1>2, <3>2, <3>3
    <3> QED
      BY <1>1, <1>2, <3>1, <3>4, TextFacts
  <2> QED
    BY <2>1, <2>2
<1>5. Slice(text, b, Len(fresh)) = Slice(received, b, Len(fresh))
  <2>1. \A i \in 1 .. Len(fresh) : b + i \in 1 .. Len(received)
    BY <1>2
  <2>2. \A i \in 1 .. Len(fresh) : text[b + i] = received[b + i]
    BY <1>4, <2>1
  <2> HIDE DEF b
  <2> QED
    BY <2>2 DEF Slice
<1>6. (CHOOSE c \in insert_begin : TRUE) = b
  BY <1>1
<1> HIDE DEF b
<1> QED
  BY <1>1, <1>2, <1>4, <1>5, <1>6 DEF Shown

LEMMA EndOfCallbackPreserves ==
  ASSUME FifoInv, EndOfCallback
  PROVE  FifoInv'
<1>1. /\ announced' = IF insert_begin = {} THEN announced
                      ELSE [shown |-> Shown(CHOOSE b \in insert_begin : TRUE),
                            read |-> fresh]
      /\ insert_begin' = {} /\ fresh' = <<>>
      /\ UNCHANGED <<text, m_scroll, m_had_trailing_newline, pipe, received>>
  BY DEF EndOfCallback
<1>2. FifoTypeOK'
  BY <1>1 DEF FifoInv, FifoTypeOK, Text
<1>3. BeginIsFresh'
  BY <1>1, <1>2, NothingFresh DEF FifoTypeOK, BeginIsFresh
<1>4. StartsWithEmptyLine' = StartsWithEmptyLine
  BY <1>1 DEF StartsWithEmptyLine
<1>5. NothingReceived' /\ RemembersTrailing' /\ BufferShowsLines'
  BY <1>1, <1>4 DEF FifoInv, NothingReceived, RemembersTrailing,
     BufferShowsLines, BufferShowsData, TextOf
<1>6. AnnouncedIsRead'
  <2> SUFFICES ASSUME ~StartsWithEmptyLine
               PROVE  announced'.shown = announced'.read
    BY <1>4 DEF AnnouncedIsRead
  <2>1. CASE insert_begin = {}
    BY <1>1, <2>1 DEF FifoInv, AnnouncedIsRead
  <2>2. CASE insert_begin # {}
    BY <1>1, <2>2, ShownIsFresh
  <2> QED
    BY <2>1, <2>2
<1> QED
  BY <1>2, <1>3, <1>5, <1>6 DEF FifoInv

LEMMA NextFifoInv == FifoInv /\ [Next]_vars => FifoInv'
<1> SUFFICES ASSUME FifoInv, [Next]_vars PROVE FifoInv'
  OBVIOUS
<1>1. pipe \in Text
  BY DEF FifoInv, FifoTypeOK
<1>2. ASSUME NEW c \in Char, Write(c) PROVE FifoInv'
  <2>1. Append(pipe, c) \in Text
    BY <1>1, AppendProperties DEF Text
  <2> QED
    BY <1>2, <2>1, SameReader DEF Write, reader
<1>3. CASE Close
  BY <1>1, <1>3, SameReader DEF Close, reader
<1>4. CASE ReadChunk
  BY <1>4, ReadChunkPreserves
<1>5. CASE ReadEnd
  BY <1>1, <1>5, SameReader DEF ReadEnd
<1>6. CASE EndOfCallback
  BY <1>6, EndOfCallbackPreserves
<1>7. CASE UNCHANGED vars
  BY <1>1, <1>7, SameReader DEF vars
<1> QED
  BY <1>2, <1>3, <1>4, <1>5, <1>6, <1>7 DEF Next, Callback

(* The inductive invariant. *)
THEOREM FifoIsSound == Spec => []FifoInv
<1>1. Init => FifoInv
  BY InitFifoInv
<1>2. FifoInv /\ [Next]_vars => FifoInv'
  BY NextFifoInv
<1> QED
  BY <1>1, <1>2, PTL DEF Spec

(* "continually appends data from the fifo": whatever the sizes of the      *)
(* chunks and wherever lines end in them, the buffer shows all that was     *)
(* read and nothing else (FifoWatcher::read_fifo).                          *)
THEOREM BufferAlwaysShowsLines == Spec => []BufferShowsLines
<1>1. FifoInv => BufferShowsLines
  BY DEF FifoInv
<1> QED
  BY <1>1, FifoIsSound, PTL

(* "The hook param contains the range of text that was just inserted": the  *)
(* range that BufReadFifo is told selects what the reads of the callback    *)
(* returned, and no EOL that the buffer added (FifoWatcher::read_fifo).     *)
THEOREM AnnouncedIsAlwaysRead == Spec => []AnnouncedIsRead
<1>1. FifoInv => AnnouncedIsRead
  BY DEF FifoInv
<1> QED
  BY <1>1, FifoIsSound, PTL
=============================================================================
