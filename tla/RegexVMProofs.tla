--------------------------- MODULE RegexVMProofs ---------------------------
(***************************************************************************)
(* The machine of RegexVM runs any program (IsProgram) over any subject:   *)
(* its threads stay in the program, the positions they saved are counted   *)
(* and are free when nobody holds them, and the ring of threads grows to   *)
(* twice the number of instructions at most.                               *)
(*                                                                         *)
(* In the order of the argument: the ring is two stacks (Current and       *)
(* NextThreads); what is held and what is counted change together          *)
(* (SoundSaves); every action keeps VMInv; the free list of RegexVM is the *)
(* sequence of SoundSaves; and the threads are counted by the             *)
(* instructions that ran in the step (RingInv).                            *)
(***************************************************************************)
EXTENDS RegexVM, FiniteSetTheorems, SequenceTheorems, WellFoundedInduction, TLAPS
-----------------------------------------------------------------------------
(* The ring buffer is two sequences of threads, wherever they wrap around.  *)

Wrapped(c, x) == IF x < c THEN x ELSE x - c
Ahead(c, from, to) == IF from <= to THEN to - from ELSE to - from + c

IsRing(ring, T) ==
    /\ ring = [data |-> ring.data, capacity |-> ring.capacity, current |-> ring.current,
               next_begin |-> ring.next_begin, next_end |-> ring.next_end]
    /\ ring.capacity \in Nat /\ ring.capacity > 1
    /\ ring.data \in [0 .. ring.capacity - 1 -> T]
    /\ ring.current \in 0 .. ring.capacity - 1
    /\ ring.next_begin \in 0 .. ring.capacity - 1
    /\ ring.next_end \in 0 .. ring.capacity - 1
    /\ Ahead(ring.capacity, ring.current, ring.next_begin)
        + Ahead(ring.capacity, ring.next_begin, ring.next_end) < ring.capacity

LEMMA FunctionIsSeq ==
  ASSUME NEW T, NEW n \in Nat, NEW f \in [1 .. n -> T]
  PROVE  f \in Seq(T) /\ Len(f) = n
<1>1. f \in Seq(T)
  BY SeqDef
<1>2. DOMAIN f = 1 .. n /\ DOMAIN f = 1 .. Len(f) /\ Len(f) \in Nat
  BY <1>1, LenProperties
<1> QED
  BY <1>1, <1>2

LEMMA Wraps ==
  ASSUME NEW c \in Nat \ {0}, NEW x \in 0 .. c - 1
  PROVE  x % c = x /\ (x + c) % c = x /\ (x - c) % c = x
BY SMT

LEMMA WrapsAround ==
  ASSUME NEW c \in Nat \ {0}
  PROVE  /\ \A x \in 0 .. 2 * c - 1 : x % c = Wrapped(c, x) /\ Wrapped(c, x) \in 0 .. c - 1
         /\ \A x, y \in 0 .. c - 1 :
               (y - x) % c = Ahead(c, x, y) /\ Ahead(c, x, y) \in 0 .. c - 1
<1>1. ASSUME NEW x \in 0 .. 2 * c - 1
      PROVE  x % c = Wrapped(c, x) /\ Wrapped(c, x) \in 0 .. c - 1
  <2>1. CASE x < c
    BY <2>1, Wraps DEF Wrapped
  <2>2. CASE ~(x < c)
    <3> DEFINE y == x - c
    <3>1. y \in 0 .. c - 1 /\ x = y + c
      BY <2>2
    <3>2. Wrapped(c, x) = y
      BY <2>2 DEF Wrapped
    <3> HIDE DEF y
    <3>3. (y + c) % c = y
      BY <3>1, Wraps
    <3> QED
      BY <3>1, <3>2, <3>3
  <2> QED
    BY <2>1, <2>2
<1>2. ASSUME NEW x \in 0 .. c - 1, NEW y \in 0 .. c - 1
      PROVE  (y - x) % c = Ahead(c, x, y) /\ Ahead(c, x, y) \in 0 .. c - 1
  <2>1. CASE x <= y
    <3> DEFINE z == y - x
    <3>1. z \in 0 .. c - 1 /\ Ahead(c, x, y) = z
      BY <2>1 DEF Ahead
    <3> HIDE DEF z
    <3>2. z % c = z
      BY <3>1, Wraps
    <3> QED
      BY <3>1, <3>2 DEF z
  <2>2. CASE ~(x <= y)
    <3> DEFINE z == y - x + c
    <3>1. z \in 0 .. c - 1 /\ Ahead(c, x, y) = z /\ z - c = y - x
      BY <2>2 DEF Ahead
    <3> HIDE DEF z
    <3>2. (z - c) % c = z
      BY <3>1, Wraps
    <3> QED
      BY <3>1, <3>2
  <2> QED
    BY <2>1, <2>2
<1> QED
  BY <1>1, <1>2

(* What the ring holds, without remainders. *)
LEMMA RingHolds ==
  ASSUME NEW T, NEW ring, IsRing(ring, T),
         NEW a, a = Ahead(ring.capacity, ring.current, ring.next_begin),
         NEW b, b = Ahead(ring.capacity, ring.next_begin, ring.next_end)
  PROVE  /\ a \in Nat /\ b \in Nat /\ a + b < ring.capacity
         /\ Current(ring) =
              [k \in 1 .. a |-> ring.data[Wrapped(ring.capacity, ring.current + k - 1)]]
         /\ NextThreads(ring) =
              [k \in 1 .. b |-> ring.data[Wrapped(ring.capacity, ring.next_begin + k - 1)]]
         /\ Current(ring) \in Seq(T) /\ Len(Current(ring)) = a
         /\ NextThreads(ring) \in Seq(T) /\ Len(NextThreads(ring)) = b
<1> DEFINE c == ring.capacity
           from == ring.current
           begin == ring.next_begin
           end == ring.next_end
           d == ring.data
<1>1. /\ c \in Nat \ {0} /\ d \in [0 .. c - 1 -> T]
      /\ from \in 0 .. c - 1 /\ begin \in 0 .. c - 1 /\ end \in 0 .. c - 1
      /\ a = Ahead(c, from, begin) /\ b = Ahead(c, begin, end) /\ a + b < c
  BY DEF IsRing
<1>2. /\ Current(ring) = [k \in 1 .. (begin - from) % c |-> d[(from + k - 1) % c]]
      /\ NextThreads(ring) = [k \in 1 .. (end - begin) % c |-> d[(begin + k - 1) % c]]
  BY DEF Current, NextThreads, Count
<1> HIDE DEF c, from, begin, end, d
<1>3. /\ (begin - from) % c = a /\ (end - begin) % c = b
      /\ a \in 0 .. c - 1 /\ b \in 0 .. c - 1
  BY <1>1, WrapsAround
<1>4. ASSUME NEW k \in 1 .. a
      PROVE  /\ (from + k - 1) % c = Wrapped(c, from + k - 1)
             /\ Wrapped(c, from + k - 1) \in 0 .. c - 1
  <2>1. from + k - 1 \in 0 .. 2 * c - 1
    BY <1>1, <1>3
  <2> QED
    BY <1>1, <2>1, WrapsAround
<1>5. ASSUME NEW k \in 1 .. b
      PROVE  /\ (begin + k - 1) % c = Wrapped(c, begin + k - 1)
             /\ Wrapped(c, begin + k - 1) \in 0 .. c - 1
  <2>1. begin + k - 1 \in 0 .. 2 * c - 1
    BY <1>1, <1>3
  <2> QED
    BY <1>1, <2>1, WrapsAround
<1>6. Current(ring) = [k \in 1 .. a |-> d[Wrapped(c, from + k - 1)]]
  BY <1>2, <1>3, <1>4
<1>7. NextThreads(ring) = [k \in 1 .. b |-> d[Wrapped(c, begin + k - 1)]]
  BY <1>2, <1>3, <1>5
<1>8. Current(ring) \in Seq(T) /\ Len(Current(ring)) = a
  <2>1. Current(ring) \in [1 .. a -> T]
    BY <1>1, <1>4, <1>6
  <2> QED
    BY <1>3, <2>1, FunctionIsSeq
<1>9. NextThreads(ring) \in Seq(T) /\ Len(NextThreads(ring)) = b
  <2>1. NextThreads(ring) \in [1 .. b -> T]
    BY <1>1, <1>5, <1>7
  <2> QED
    BY <1>3, <2>1, FunctionIsSeq
<1> QED
  BY <1>1, <1>3, <1>6, <1>7, <1>8, <1>9 DEF c, from, begin, end, d

-----------------------------------------------------------------------------
(* A ring with a current threads and b next ones, that may be full.         *)
Filled(ring, T, a, b) ==
    /\ ring = [data |-> ring.data, capacity |-> ring.capacity, current |-> ring.current,
               next_begin |-> ring.next_begin, next_end |-> ring.next_end]
    /\ ring.capacity \in Nat /\ ring.capacity > 1
    /\ ring.data \in [0 .. ring.capacity - 1 -> T]
    /\ ring.current \in 0 .. ring.capacity - 1
    /\ a \in Nat /\ b \in Nat /\ a + b <= ring.capacity
    /\ ring.next_begin = Wrapped(ring.capacity, ring.current + a)
    /\ ring.next_end = Wrapped(ring.capacity, ring.next_begin + b)

From(ring, start, n) ==
    [k \in 1 .. n |-> ring.data[Wrapped(ring.capacity, start + k - 1)]]

(* What a ring of IsRing holds, and that a Filled one with room is one.     *)
Holding(ring, T, a, b) ==
    /\ IsRing(ring, T)
    /\ a = Ahead(ring.capacity, ring.current, ring.next_begin)
    /\ b = Ahead(ring.capacity, ring.next_begin, ring.next_end)

LEMMA RingIsFilled ==
  ASSUME NEW T, NEW ring, NEW a, NEW b, Holding(ring, T, a, b)
  PROVE  /\ Filled(ring, T, a, b) /\ a + b < ring.capacity
         /\ Current(ring) = From(ring, ring.current, a)
         /\ NextThreads(ring) = From(ring, ring.next_begin, b)
         /\ Current(ring) \in Seq(T) /\ Len(Current(ring)) = a
         /\ NextThreads(ring) \in Seq(T) /\ Len(NextThreads(ring)) = b
<1>1. /\ a \in Nat /\ b \in Nat /\ a + b < ring.capacity
      /\ Current(ring) = From(ring, ring.current, a)
      /\ NextThreads(ring) = From(ring, ring.next_begin, b)
      /\ Current(ring) \in Seq(T) /\ Len(Current(ring)) = a
      /\ NextThreads(ring) \in Seq(T) /\ Len(NextThreads(ring)) = b
  BY RingHolds DEF Holding, From
<1>2. /\ ring.next_begin = Wrapped(ring.capacity, ring.current + a)
      /\ ring.next_end = Wrapped(ring.capacity, ring.next_begin + b)
  BY <1>1 DEF Holding, IsRing, Wrapped, Ahead
<1> QED
  BY <1>1, <1>2 DEF Filled, Holding, IsRing

LEMMA FilledIsRing ==
  ASSUME NEW T, NEW ring, NEW a, NEW b, Filled(ring, T, a, b), a + b < ring.capacity
  PROVE  /\ Holding(ring, T, a, b) /\ IsRing(ring, T)
         /\ Current(ring) = From(ring, ring.current, a)
         /\ NextThreads(ring) = From(ring, ring.next_begin, b)
<1>1. /\ a = Ahead(ring.capacity, ring.current, ring.next_begin)
      /\ b = Ahead(ring.capacity, ring.next_begin, ring.next_end)
      /\ ring.next_begin \in 0 .. ring.capacity - 1
      /\ ring.next_end \in 0 .. ring.capacity - 1
  BY DEF Filled, Wrapped, Ahead
<1>2. Holding(ring, T, a, b) /\ IsRing(ring, T)
  BY <1>1 DEF Filled, Holding, IsRing
<1> QED
  BY <1>2, RingIsFilled

(* Growing a full ring: the same threads, and as much room again.           *)
LEMMA GrowKeeps ==
  ASSUME NEW T, NEW ring, NEW a, NEW b, Filled(ring, T, a, b), a + b = ring.capacity,
         NEW pushed \in BOOLEAN, IF pushed THEN a > 0 ELSE b > 0
  PROVE  /\ IsRing(Grow(ring, pushed), T)
         /\ Grow(ring, pushed).capacity = 2 * ring.capacity
         /\ Current(Grow(ring, pushed)) = From(ring, ring.current, a)
         /\ NextThreads(Grow(ring, pushed)) = From(ring, ring.next_begin, b)
<1> DEFINE c == ring.capacity
           d == ring.data
           from == ring.current
           begin == ring.next_begin
           grown == Grow(ring, pushed)
<1>0. /\ c \in Nat /\ c > 1 /\ d \in [0 .. c - 1 -> T] /\ from \in 0 .. c - 1
      /\ a \in Nat /\ b \in Nat /\ a + b = c
      /\ begin = Wrapped(c, from + a)
  BY DEF Filled
<1>2. grown = [data |-> [i \in 0 .. 2 * c - 1 |-> d[(from + i) % c]],
               capacity |-> 2 * c,
               current |-> 0,
               next_begin |-> IF pushed /\ (begin - from) % c = 0 THEN c ELSE (begin - from) % c,
               next_end |-> c]
  BY DEF Grow
<1> HIDE DEF c, d, from, begin, grown
<1>1. /\ c \in Nat \ {0} /\ c > 1 /\ d \in [0 .. c - 1 -> T] /\ from \in 0 .. c - 1
      /\ a \in Nat /\ b \in Nat /\ a + b = c
      /\ begin = Wrapped(c, from + a) /\ begin \in 0 .. c - 1
  BY <1>0 DEF Wrapped
<1>3. (begin - from) % c = Ahead(c, from, begin)
  BY <1>1, WrapsAround
<1>4. IF pushed /\ Ahead(c, from, begin) = 0 THEN a = c ELSE a = Ahead(c, from, begin)
  BY <1>1 DEF Wrapped, Ahead
<1>5. grown.next_begin = a
  BY <1>2, <1>3, <1>4
<1>6. ASSUME NEW i \in 0 .. c - 1
      PROVE  /\ (from + i) % c = Wrapped(c, from + i)
             /\ Wrapped(c, from + i) \in 0 .. c - 1
  <2>1. from + i \in 0 .. 2 * c - 1
    BY <1>1
  <2> QED
    BY <1>1, <2>1, WrapsAround
<1>7. ASSUME NEW i \in 0 .. 2 * c - 1
      PROVE  d[(from + i) % c] \in T
  <2>1. (from + i) % c \in 0 .. c - 1
    <3>1. from + i \in Int /\ c > 0 /\ c \in Int
      BY <1>1
    <3> QED
      BY <3>1
  <2> QED
    BY <1>1, <2>1
<1>8. /\ grown = [data |-> grown.data, capacity |-> grown.capacity,
                  current |-> grown.current, next_begin |-> grown.next_begin,
                  next_end |-> grown.next_end]
      /\ grown.capacity = 2 * c /\ grown.current = 0 /\ grown.next_end = c
      /\ grown.data = [i \in 0 .. 2 * c - 1 |-> d[(from + i) % c]]
  BY <1>2
<1>9. grown.data \in [0 .. 2 * c - 1 -> T]
  BY <1>7, <1>8
<1>10. Filled(grown, T, a, b) /\ a + b < grown.capacity
  <2>1. a = Wrapped(2 * c, 0 + a) /\ c = Wrapped(2 * c, a + b)
    BY <1>1 DEF Wrapped
  <2> QED
    BY <1>1, <1>5, <1>8, <1>9, <2>1 DEF Filled
<1>11. /\ IsRing(grown, T)
       /\ Current(grown) = From(grown, 0, a) /\ NextThreads(grown) = From(grown, a, b)
  BY <1>5, <1>8, <1>10, FilledIsRing
<1> DEFINE zero == 0
<1>0z. zero = 0
  OBVIOUS
<1> HIDE DEF zero
<1>12. ASSUME NEW k \in 1 .. a
       PROVE  grown.data[Wrapped(2 * c, zero + k - 1)] = d[Wrapped(c, from + k - 1)]
  <2> DEFINE i == k - 1
  <2>1. /\ i \in 0 .. c - 1 /\ Wrapped(2 * c, zero + k - 1) = i
        /\ Wrapped(c, from + k - 1) = Wrapped(c, from + i)
    BY <1>1, <1>0z DEF Wrapped
  <2> HIDE DEF i
  <2>2. i \in 0 .. 2 * c - 1
    BY <1>1, <2>1
  <2>3. grown.data[i] = d[(from + i) % c]
    BY <1>8, <2>2
  <2>4. (from + i) % c = Wrapped(c, from + i)
    BY <1>6, <2>1
  <2> QED
    BY <2>1, <2>3, <2>4
<1>13. ASSUME NEW k \in 1 .. b
       PROVE  grown.data[Wrapped(2 * c, a + k - 1)] = d[Wrapped(c, begin + k - 1)]
  <2> DEFINE i == a + k - 1
  <2>1. i \in 0 .. c - 1 /\ Wrapped(2 * c, a + k - 1) = i
    BY <1>1 DEF Wrapped
  <2>2. Wrapped(c, begin + k - 1) = Wrapped(c, from + i)
    BY <1>1 DEF Wrapped
  <2> HIDE DEF i
  <2>3. grown.data[i] = d[(from + i) % c] /\ (from + i) % c = Wrapped(c, from + i)
    BY <1>1, <1>6, <1>8, <2>1
  <2> QED
    BY <2>1, <2>2, <2>3
<1>14. From(grown, zero, a) = [k \in 1 .. a |-> d[Wrapped(c, from + k - 1)]]
  BY <1>8, <1>12 DEF From
<1>15. From(grown, a, b) = [k \in 1 .. b |-> d[Wrapped(c, begin + k - 1)]]
  BY <1>8, <1>13 DEF From
<1> QED
  BY <1>8, <1>11, <1>0z, <1>14, <1>15 DEF From, c, d, from, begin, grown

LEMMA GrowIfnKeeps ==
  ASSUME NEW T, NEW ring, NEW a, NEW b, Filled(ring, T, a, b),
         NEW pushed \in BOOLEAN, IF pushed THEN a > 0 ELSE b > 0
  PROVE  /\ IsRing(GrowIfn(ring, pushed), T)
         /\ GrowIfn(ring, pushed).capacity =
              IF a + b = ring.capacity THEN 2 * ring.capacity ELSE ring.capacity
         /\ Current(GrowIfn(ring, pushed)) = From(ring, ring.current, a)
         /\ NextThreads(GrowIfn(ring, pushed)) = From(ring, ring.next_begin, b)
<1>1. /\ a + b \in Nat /\ a + b <= ring.capacity
      /\ (ring.current = ring.next_end) <=> (a + b = ring.capacity)
  BY DEF Filled, Wrapped
<1>2. CASE a + b = ring.capacity
  BY <1>1, <1>2, GrowKeeps DEF GrowIfn
<1>3. CASE a + b # ring.capacity
  <2>1. a + b < ring.capacity /\ GrowIfn(ring, pushed) = ring
    BY <1>1, <1>3 DEF GrowIfn, Filled
  <2> QED
    BY <1>3, <2>1, FilledIsRing
<1> QED
  BY <1>2, <1>3


(* The operations of the ring, on its two sequences. *)
LEMMA EmptyRingHolds ==
  ASSUME NEW T, NEW any \in T
  PROVE  /\ IsRing(EmptyRing(any), T)
         /\ Current(EmptyRing(any)) = <<>> /\ NextThreads(EmptyRing(any)) = <<>>
         /\ EmptyRing(any).capacity = InitialCapacity
<1> DEFINE ring == EmptyRing(any)
<1>1. Filled(ring, T, 0, 0) /\ 0 + 0 < ring.capacity /\ ring.capacity = InitialCapacity
  BY CapacityAssumption DEF EmptyRing, Filled, Wrapped
<1> HIDE DEF ring
<1>2. /\ IsRing(ring, T)
      /\ Current(ring) = From(ring, ring.current, 0)
      /\ NextThreads(ring) = From(ring, ring.next_begin, 0)
  BY <1>1, FilledIsRing
<1> QED
  BY <1>1, <1>2 DEF From, ring

LEMMA RingIsEmpty ==
  ASSUME NEW T, NEW ring, IsRing(ring, T)
  PROVE  /\ CurrentIsEmpty(ring) <=> Current(ring) = <<>>
         /\ NextIsEmpty(ring) <=> NextThreads(ring) = <<>>
         /\ Current(ring) \in Seq(T) /\ NextThreads(ring) \in Seq(T)
         /\ Len(Current(ring)) \in Nat /\ Len(NextThreads(ring)) \in Nat
         /\ Len(Current(ring)) + Len(NextThreads(ring)) < ring.capacity
         /\ ring.capacity \in Nat /\ ring.capacity > 1
<1> DEFINE a == Ahead(ring.capacity, ring.current, ring.next_begin)
           b == Ahead(ring.capacity, ring.next_begin, ring.next_end)
<1>1. /\ a \in Nat /\ b \in Nat /\ a + b < ring.capacity
      /\ Current(ring) \in Seq(T) /\ Len(Current(ring)) = a
      /\ NextThreads(ring) \in Seq(T) /\ Len(NextThreads(ring)) = b
  BY RingHolds
<1>2. /\ (a = 0) <=> (ring.current = ring.next_begin)
      /\ (b = 0) <=> (ring.next_begin = ring.next_end)
      /\ ring.capacity \in Nat /\ ring.capacity > 1
  BY DEF IsRing, Ahead
<1> HIDE DEF a, b
<1>3. /\ (a = 0) <=> (Current(ring) = <<>>)
      /\ (b = 0) <=> (NextThreads(ring) = <<>>)
  BY <1>1, EmptySeq
<1> QED
  BY <1>1, <1>2, <1>3 DEF CurrentIsEmpty, NextIsEmpty

Pushed(t, s) == <<t>> \o s

PlacedFirst(ring, i, t) == [ring EXCEPT !.data[i] = t, !.current = i]
PlacedLast(ring, i, t, e) == [ring EXCEPT !.data[i] = t, !.next_end = e]

LEMMA PlacedFirstFields ==
  ASSUME NEW ring, NEW d, NEW c, NEW from, NEW begin, NEW end, NEW i, NEW t,
         ring = [data |-> d, capacity |-> c, current |-> from, next_begin |-> begin,
                 next_end |-> end]
  PROVE  PlacedFirst(ring, i, t) = [data |-> [d EXCEPT ![i] = t], capacity |-> c,
                current |-> i, next_begin |-> begin, next_end |-> end]
<1> DEFINE e1 == [d EXCEPT ![i] = t]
<1>1. ring.data = d
  OBVIOUS
<1>2. PlacedFirst(ring, i, t) = [ring EXCEPT !.data = e1, !.current = i]
  BY <1>1 DEF PlacedFirst
<1> HIDE DEF e1
<1> DEFINE x == [ring EXCEPT !.data = e1]
<1>3. x = [data |-> e1, capacity |-> c, current |-> from, next_begin |-> begin,
           next_end |-> end]
  OBVIOUS
<1>4. [ring EXCEPT !.data = e1, !.current = i] = [x EXCEPT !.current = i]
  BY Zenon
<1> HIDE DEF x
<1>5. [x EXCEPT !.current = i]
        = [data |-> e1, capacity |-> c, current |-> i, next_begin |-> begin, next_end |-> end]
  BY <1>3
<1> QED
  BY <1>2, <1>4, <1>5 DEF e1

LEMMA PlacedLastFields ==
  ASSUME NEW ring, NEW d, NEW c, NEW from, NEW begin, NEW end, NEW i, NEW t, NEW e,
         ring = [data |-> d, capacity |-> c, current |-> from, next_begin |-> begin,
                 next_end |-> end]
  PROVE  PlacedLast(ring, i, t, e) = [data |-> [d EXCEPT ![i] = t], capacity |-> c,
                current |-> from, next_begin |-> begin, next_end |-> e]
<1> DEFINE e1 == [d EXCEPT ![i] = t]
<1>1. ring.data = d
  OBVIOUS
<1>2. PlacedLast(ring, i, t, e) = [ring EXCEPT !.data = e1, !.next_end = e]
  BY <1>1 DEF PlacedLast
<1> HIDE DEF e1
<1> DEFINE x == [ring EXCEPT !.data = e1]
<1>3. x = [data |-> e1, capacity |-> c, current |-> from, next_begin |-> begin,
           next_end |-> end]
  OBVIOUS
<1>4. [ring EXCEPT !.data = e1, !.next_end = e] = [x EXCEPT !.next_end = e]
  BY Zenon
<1> HIDE DEF x
<1>5. [x EXCEPT !.next_end = e]
        = [data |-> e1, capacity |-> c, current |-> from, next_begin |-> begin, next_end |-> e]
  BY <1>3
<1> QED
  BY <1>2, <1>4, <1>5 DEF e1

LEMMA PushCurrentHolds ==
  ASSUME NEW T, NEW ring, IsRing(ring, T), NEW t \in T
  PROVE  /\ IsRing(PushCurrent(ring, t), T)
         /\ Current(PushCurrent(ring, t)) = Pushed(t, Current(ring))
         /\ NextThreads(PushCurrent(ring, t)) = NextThreads(ring)
         /\ PushCurrent(ring, t).capacity =
              IF Len(Current(ring)) + 1 + Len(NextThreads(ring)) = ring.capacity
              THEN 2 * ring.capacity ELSE ring.capacity
<1> DEFINE c == ring.capacity
           d == ring.data
           from == ring.current
           begin == ring.next_begin
           end == ring.next_end
           a == Ahead(c, from, begin)
           b == Ahead(c, begin, end)
           i == IF from = 0 THEN c - 1 ELSE from - 1
           pushed == PlacedFirst(ring, i, t)
           s == Current(ring)
           u == From(pushed, i, a + 1)
<1>1. /\ Filled(ring, T, a, b) /\ a + b < c
      /\ s = From(ring, from, a)
      /\ NextThreads(ring) = From(ring, begin, b)
      /\ s \in Seq(T) /\ Len(s) = a
      /\ NextThreads(ring) \in Seq(T) /\ Len(NextThreads(ring)) = b
  BY RingIsFilled DEF Holding
<1> HIDE DEF a, b
<1>2. /\ ring = [data |-> d, capacity |-> c, current |-> from, next_begin |-> begin,
                 next_end |-> end]
      /\ a \in Nat /\ b \in Nat /\ a + b < c /\ c \in Nat /\ c > 1
      /\ from \in 0 .. c - 1 /\ d \in [0 .. c - 1 -> T]
      /\ begin = Wrapped(c, from + a) /\ end = Wrapped(c, begin + b)
  BY <1>1 DEF Filled
<1>3. PushCurrent(ring, t)
        = GrowIfn([ring EXCEPT !.data[(from - 1) % c] = t, !.current = (from - 1) % c], TRUE)
  BY DEF PushCurrent, Before
<1>5. /\ s = [k \in 1 .. a |-> d[Wrapped(c, from + k - 1)]]
      /\ From(ring, begin, b) = [k \in 1 .. b |-> d[Wrapped(c, begin + k - 1)]]
  BY <1>1 DEF From
<1> HIDE DEF c, d, from, begin, end, s, i
<1>4. pushed = [data |-> [d EXCEPT ![i] = t], capacity |-> c, current |-> i,
                next_begin |-> begin, next_end |-> end]
  BY <1>2, PlacedFirstFields
<1>6. (from - 1) % c = i
  <2>1. c \in Nat \ {0} /\ 1 \in 0 .. c - 1
    BY <1>2
  <2>2. (from - 1) % c = Ahead(c, 1, from)
    BY <1>2, <2>1, WrapsAround
  <2> QED
    BY <1>2, <2>2 DEF Ahead, i
<1>7. PushCurrent(ring, t) = GrowIfn(pushed, TRUE)
  BY <1>3, <1>6 DEF PlacedFirst
<1>8. i \in 0 .. c - 1 /\ from = IF i = c - 1 THEN 0 ELSE i + 1
  BY <1>2 DEF i
<1> HIDE DEF pushed, u
<1>9. pushed.data = [d EXCEPT ![i] = t] /\ pushed.capacity = c
  BY <1>4
<1>10. [d EXCEPT ![i] = t] \in [0 .. c - 1 -> T]
  BY <1>2, <1>8
<1>11. begin = Wrapped(c, i + (a + 1))
  BY <1>2, <1>8 DEF Wrapped
<1>12. Filled(pushed, T, a + 1, b)
  BY <1>2, <1>4, <1>8, <1>10, <1>11 DEF Filled
<1>13. u = [k \in 1 .. a + 1 |-> [d EXCEPT ![i] = t][Wrapped(c, i + k - 1)]]
  BY <1>9 DEF From, u
<1>14. From(pushed, begin, b) = [k \in 1 .. b |-> [d EXCEPT ![i] = t][Wrapped(c, begin + k - 1)]]
  BY <1>9 DEF From
<1>15. /\ IsRing(PushCurrent(ring, t), T)
       /\ PushCurrent(ring, t).capacity = IF a + 1 + b = c THEN 2 * c ELSE c
       /\ Current(PushCurrent(ring, t)) = u
       /\ NextThreads(PushCurrent(ring, t)) = From(pushed, begin, b)
  <2>1. pushed.current = i /\ pushed.next_begin = begin /\ a + 1 > 0
    BY <1>2, <1>4
  <2> HIDE DEF pushed
  <2> DEFINE yes == TRUE
  <2>2. /\ yes \in BOOLEAN
        /\ (IF yes THEN a + 1 > 0 ELSE b > 0)
        /\ PushCurrent(ring, t) = GrowIfn(pushed, yes)
    BY <1>7, <2>1
  <2> HIDE DEF yes
  <2>3. /\ IsRing(GrowIfn(pushed, yes), T)
        /\ GrowIfn(pushed, yes).capacity =
             IF a + 1 + b = pushed.capacity THEN 2 * pushed.capacity ELSE pushed.capacity
        /\ Current(GrowIfn(pushed, yes)) = From(pushed, pushed.current, a + 1)
        /\ NextThreads(GrowIfn(pushed, yes)) = From(pushed, pushed.next_begin, b)
    BY <1>12, <2>2, GrowIfnKeeps
  <2> QED
    BY <1>9, <2>1, <2>2, <2>3 DEF u
<1>16. From(pushed, begin, b) = From(ring, begin, b)
  <2>1. ASSUME NEW k \in 1 .. b
        PROVE  /\ Wrapped(c, begin + k - 1) \in 0 .. c - 1
               /\ Wrapped(c, begin + k - 1) # i
    BY <1>2, <1>8 DEF Wrapped
  <2>2. ASSUME NEW k \in 1 .. b
        PROVE  [d EXCEPT ![i] = t][Wrapped(c, begin + k - 1)] = d[Wrapped(c, begin + k - 1)]
    BY <1>2, <2>1
  <2> QED
    BY <1>5, <1>14, <2>2
<1>17. u = Pushed(t, s)
  <2>1. ASSUME NEW k \in 2 .. a + 1
        PROVE  /\ Wrapped(c, i + k - 1) \in 0 .. c - 1
               /\ Wrapped(c, i + k - 1) # i
               /\ Wrapped(c, i + k - 1) = Wrapped(c, from + (k - 1) - 1)
    BY <1>2, <1>8 DEF Wrapped
  <2>2. Wrapped(c, i + 1 - 1) = i
    BY <1>2, <1>8 DEF Wrapped
  <2>3. ASSUME NEW k \in 2 .. a + 1
        PROVE  u[k] = s[k - 1]
    <3>1. u[k] = d[Wrapped(c, i + k - 1)]
      BY <1>2, <1>13, <2>1
    <3>2. k - 1 \in 1 .. a
      BY <1>2
    <3>3. s[k - 1] = d[Wrapped(c, from + (k - 1) - 1)]
      BY <1>5, <3>2
    <3> QED
      BY <2>1, <3>1, <3>3
  <2>4. 1 \in 1 .. a + 1 /\ u[1] = t
    BY <1>2, <1>8, <1>13, <2>2
  <2>5. ASSUME NEW k \in 1 .. a + 1
        PROVE  u[k] = IF k = 1 THEN t ELSE s[k - 1]
    BY <1>2, <2>3, <2>4
  <2>6. ASSUME NEW k \in 1 .. a + 1
        PROVE  u[k] \in T
    <3>1. s \in [1 .. a -> T]
      BY <1>1, LenProperties
    <3> QED
      BY <1>2, <2>5, <3>1
  <2>7. u \in [1 .. a + 1 -> T]
    BY <1>13, <2>6
  <2>8. u \in Seq(T) /\ Len(u) = a + 1
    BY <1>2, <2>7, FunctionIsSeq
  <2>9. /\ <<t>> \in Seq(T) /\ Len(<<t>>) = 1 /\ <<t>>[1] = t
    OBVIOUS
  <2>10. /\ <<t>> \o s \in Seq(T) /\ Len(<<t>> \o s) = 1 + a
         /\ \A k \in 1 .. 1 + a : (<<t>> \o s)[k] = IF k <= 1 THEN <<t>>[k] ELSE s[k - 1]
    BY <1>1, <2>9, ConcatProperties
  <2>11. ASSUME NEW k \in 1 .. Len(u)
         PROVE  u[k] = (<<t>> \o s)[k]
    BY <1>2, <2>5, <2>8, <2>9, <2>10
  <2> QED
    BY <1>2, <2>8, <2>10, <2>11, SeqEqual DEF Pushed
<1>18. PushCurrent(ring, t).capacity = IF Len(s) + 1 + Len(NextThreads(ring)) = c
                                       THEN 2 * c ELSE c
  BY <1>1, <1>15
<1> QED
  BY <1>1, <1>15, <1>16, <1>17, <1>18 DEF c, s


LEMMA PopCurrentHolds ==
  ASSUME NEW T, NEW ring, IsRing(ring, T), ~CurrentIsEmpty(ring)
  PROVE  /\ IsRing(PopCurrent(ring), T)
         /\ Current(ring) # <<>>
         /\ CurrentTop(ring) = Head(Current(ring)) /\ CurrentTop(ring) \in T
         /\ Current(PopCurrent(ring)) = Tail(Current(ring))
         /\ NextThreads(PopCurrent(ring)) = NextThreads(ring)
         /\ PopCurrent(ring).capacity = ring.capacity
<1> DEFINE c == ring.capacity
           d == ring.data
           from == ring.current
           begin == ring.next_begin
           end == ring.next_end
           a == Ahead(c, from, begin)
           b == Ahead(c, begin, end)
           i == IF from = c - 1 THEN 0 ELSE from + 1
           popped == [ring EXCEPT !.current = i]
           s == Current(ring)
           u == From(popped, i, a - 1)
<1>1. /\ Filled(ring, T, a, b) /\ a + b < c
      /\ s = From(ring, from, a)
      /\ NextThreads(ring) = From(ring, begin, b)
      /\ s \in Seq(T) /\ Len(s) = a
      /\ NextThreads(ring) \in Seq(T) /\ Len(NextThreads(ring)) = b
  BY RingIsFilled DEF Holding
<1>2. from # begin
  BY DEF CurrentIsEmpty
<1> HIDE DEF a, b
<1>3. /\ ring = [data |-> d, capacity |-> c, current |-> from, next_begin |-> begin,
                 next_end |-> end]
      /\ a \in Nat /\ b \in Nat /\ a + b < c /\ c \in Nat /\ c > 1
      /\ from \in 0 .. c - 1 /\ d \in [0 .. c - 1 -> T]
      /\ begin = Wrapped(c, from + a) /\ end = Wrapped(c, begin + b)
  BY <1>1 DEF Filled
<1>4. PopCurrent(ring) = [ring EXCEPT !.current = (from + 1) % c] /\ CurrentTop(ring) = d[from]
  BY DEF PopCurrent, After, CurrentTop
<1>5. popped = [data |-> d, capacity |-> c, current |-> i, next_begin |-> begin,
                next_end |-> end]
  BY <1>3
<1>6. /\ s = [k \in 1 .. a |-> d[Wrapped(c, from + k - 1)]]
      /\ From(ring, begin, b) = [k \in 1 .. b |-> d[Wrapped(c, begin + k - 1)]]
  BY <1>1 DEF From
<1> HIDE DEF c, d, from, begin, end, s
<1>7. a > 0
  BY <1>2, <1>3 DEF Wrapped
<1>8. (from + 1) % c = i
  <2>1. c \in Nat \ {0} /\ from + 1 \in 0 .. 2 * c - 1
    BY <1>3
  <2>2. (from + 1) % c = Wrapped(c, from + 1)
    BY <2>1, WrapsAround
  <2> QED
    BY <1>3, <2>2 DEF Wrapped
<1>9. PopCurrent(ring) = popped
  BY <1>4, <1>8
<1>10. i \in 0 .. c - 1 /\ begin = Wrapped(c, i + (a - 1)) /\ a - 1 \in Nat
  BY <1>3, <1>7 DEF Wrapped
<1>11. Filled(popped, T, a - 1, b) /\ a - 1 + b < popped.capacity
  BY <1>3, <1>5, <1>10 DEF Filled
<1>12. /\ u = [k \in 1 .. a - 1 |-> d[Wrapped(c, i + k - 1)]]
       /\ From(popped, begin, b) = [k \in 1 .. b |-> d[Wrapped(c, begin + k - 1)]]
       /\ popped.current = i /\ popped.next_begin = begin /\ popped.capacity = c
  BY <1>5 DEF From
<1> HIDE DEF popped, u
<1>13. /\ IsRing(popped, T)
       /\ Current(popped) = u
       /\ NextThreads(popped) = From(popped, begin, b)
  BY <1>11, <1>12, FilledIsRing DEF u
<1>14. ASSUME NEW k \in 1 .. a - 1
       PROVE  Wrapped(c, i + k - 1) = Wrapped(c, from + (k + 1) - 1)
  BY <1>3 DEF Wrapped, i
<1> HIDE DEF i
<1>15. s # <<>> /\ s[1] = d[from] /\ Head(s) = s[1] /\ s[1] \in T
  <2>1. 1 \in 1 .. a /\ Wrapped(c, from + 1 - 1) = from
    BY <1>3, <1>7 DEF Wrapped
  <2>2. s # <<>> /\ s[1] \in T
    BY <1>1, <1>7, <2>1, EmptySeq, LenProperties
  <2> QED
    BY <1>1, <1>6, <2>1, <2>2, HeadTailProperties
<1>16. u = Tail(s)
  <2>1. /\ Tail(s) \in Seq(T) /\ Len(Tail(s)) = a - 1
        /\ \A k \in 1 .. a - 1 : Tail(s)[k] = s[k + 1]
    BY <1>1, <1>15, HeadTailProperties
  <2>2. ASSUME NEW k \in 1 .. a - 1
        PROVE  u[k] = s[k + 1] /\ s[k + 1] \in T
    <3>1. k + 1 \in 1 .. a
      BY <1>3
    <3>2. s[k + 1] \in T
      BY <1>1, <3>1, LenProperties
    <3> QED
      BY <1>6, <1>12, <1>14, <3>1, <3>2
  <2>3. u \in Seq(T) /\ Len(u) = a - 1
    <3>1. u \in [1 .. a - 1 -> T]
      BY <1>12, <2>2
    <3> QED
      BY <1>10, <3>1, FunctionIsSeq
  <2> QED
    BY <2>1, <2>2, <2>3, SeqEqual
<1>17. CurrentTop(ring) = Head(s) /\ CurrentTop(ring) \in T
  BY <1>4, <1>15
<1> QED
  BY <1>1, <1>6, <1>9, <1>12, <1>13, <1>15, <1>16, <1>17 DEF c, s

LEMMA PushNextHolds ==
  ASSUME NEW T, NEW ring, IsRing(ring, T), NEW t \in T
  PROVE  /\ IsRing(PushNext(ring, t), T)
         /\ Current(PushNext(ring, t)) = Current(ring)
         /\ NextThreads(PushNext(ring, t)) = Append(NextThreads(ring), t)
         /\ PushNext(ring, t).capacity =
              IF Len(Current(ring)) + 1 + Len(NextThreads(ring)) = ring.capacity
              THEN 2 * ring.capacity ELSE ring.capacity
<1> DEFINE c == ring.capacity
           d == ring.data
           from == ring.current
           begin == ring.next_begin
           end == ring.next_end
           a == Ahead(c, from, begin)
           b == Ahead(c, begin, end)
           i == IF end = c - 1 THEN 0 ELSE end + 1
           pushed == PlacedLast(ring, end, t, i)
           s == NextThreads(ring)
           u == From(pushed, begin, b + 1)
<1>1. /\ Filled(ring, T, a, b) /\ a + b < c
      /\ Current(ring) = From(ring, from, a)
      /\ s = From(ring, begin, b)
      /\ Current(ring) \in Seq(T) /\ Len(Current(ring)) = a
      /\ s \in Seq(T) /\ Len(s) = b
  BY RingIsFilled DEF Holding
<1> HIDE DEF a, b
<1>2. /\ ring = [data |-> d, capacity |-> c, current |-> from, next_begin |-> begin,
                 next_end |-> end]
      /\ a \in Nat /\ b \in Nat /\ a + b < c /\ c \in Nat /\ c > 1
      /\ from \in 0 .. c - 1 /\ d \in [0 .. c - 1 -> T]
      /\ begin = Wrapped(c, from + a) /\ end = Wrapped(c, begin + b)
  BY <1>1 DEF Filled
<1>3. PushNext(ring, t)
        = GrowIfn([ring EXCEPT !.data[end] = t, !.next_end = (end + 1) % c], FALSE)
  BY DEF PushNext, After
<1>5. /\ Current(ring) = [k \in 1 .. a |-> d[Wrapped(c, from + k - 1)]]
      /\ s = [k \in 1 .. b |-> d[Wrapped(c, begin + k - 1)]]
  BY <1>1 DEF From
<1> HIDE DEF c, d, from, begin, end, s, i
<1>4. pushed = [data |-> [d EXCEPT ![end] = t], capacity |-> c, current |-> from,
                next_begin |-> begin, next_end |-> i]
  BY <1>2, PlacedLastFields
<1>6. begin \in 0 .. c - 1 /\ end \in 0 .. c - 1
  BY <1>2 DEF Wrapped
<1>7. (end + 1) % c = i
  <2>1. c \in Nat \ {0} /\ end + 1 \in 0 .. 2 * c - 1
    BY <1>2, <1>6
  <2>2. (end + 1) % c = Wrapped(c, end + 1)
    BY <2>1, WrapsAround
  <2> QED
    BY <1>2, <1>6, <2>2 DEF Wrapped, i
<1>8. PushNext(ring, t) = GrowIfn(pushed, FALSE)
  BY <1>3, <1>7 DEF PlacedLast
<1> HIDE DEF pushed
<1>9. /\ pushed.data = [d EXCEPT ![end] = t] /\ pushed.capacity = c
      /\ pushed.current = from /\ pushed.next_begin = begin
      /\ [d EXCEPT ![end] = t] \in [0 .. c - 1 -> T]
  BY <1>2, <1>4, <1>6
<1>10. i = Wrapped(c, begin + (b + 1))
  BY <1>2, <1>6 DEF Wrapped, i
<1>11. Filled(pushed, T, a, b + 1)
  BY <1>2, <1>4, <1>9, <1>10 DEF Filled
<1>12. /\ u = [k \in 1 .. b + 1 |-> [d EXCEPT ![end] = t][Wrapped(c, begin + k - 1)]]
       /\ From(pushed, from, a)
            = [k \in 1 .. a |-> [d EXCEPT ![end] = t][Wrapped(c, from + k - 1)]]
  BY <1>9 DEF From
<1>13. /\ IsRing(PushNext(ring, t), T)
       /\ PushNext(ring, t).capacity = IF a + (b + 1) = c THEN 2 * c ELSE c
       /\ Current(PushNext(ring, t)) = From(pushed, from, a)
       /\ NextThreads(PushNext(ring, t)) = u
  <2> DEFINE no == FALSE
  <2>1. /\ no \in BOOLEAN
        /\ (IF no THEN a > 0 ELSE b + 1 > 0)
        /\ PushNext(ring, t) = GrowIfn(pushed, no)
    BY <1>2, <1>8
  <2> HIDE DEF no
  <2>2. /\ IsRing(GrowIfn(pushed, no), T)
        /\ GrowIfn(pushed, no).capacity =
             IF a + (b + 1) = pushed.capacity THEN 2 * pushed.capacity ELSE pushed.capacity
        /\ Current(GrowIfn(pushed, no)) = From(pushed, pushed.current, a)
        /\ NextThreads(GrowIfn(pushed, no)) = From(pushed, pushed.next_begin, b + 1)
    BY <1>11, <2>1, GrowIfnKeeps
  <2> QED
    BY <1>9, <2>1, <2>2
<1> HIDE DEF u
<1>14. From(pushed, from, a) = Current(ring)
  <2>1. ASSUME NEW k \in 1 .. a
        PROVE  /\ Wrapped(c, from + k - 1) \in 0 .. c - 1
               /\ Wrapped(c, from + k - 1) # end
    BY <1>2 DEF Wrapped
  <2>2. ASSUME NEW k \in 1 .. a
        PROVE  [d EXCEPT ![end] = t][Wrapped(c, from + k - 1)] = d[Wrapped(c, from + k - 1)]
    BY <1>2, <2>1
  <2> QED
    BY <1>5, <1>12, <2>2
<1>15. u = Append(s, t)
  <2>1. ASSUME NEW k \in 1 .. b
        PROVE  /\ Wrapped(c, begin + k - 1) \in 0 .. c - 1
               /\ Wrapped(c, begin + k - 1) # end
    BY <1>2, <1>6 DEF Wrapped
  <2>2. Wrapped(c, begin + (b + 1) - 1) = end /\ b + 1 \in 1 .. b + 1
    BY <1>2, <1>6 DEF Wrapped
  <2>3. ASSUME NEW k \in 1 .. b + 1
        PROVE  u[k] = IF k = b + 1 THEN t ELSE s[k]
    <3>1. CASE k = b + 1
      BY <1>2, <1>6, <1>12, <2>2, <3>1
    <3>2. CASE k # b + 1
      <4>1. k \in 1 .. b
        BY <1>2, <3>2
      <4> QED
        BY <1>2, <1>5, <1>6, <1>12, <2>1, <3>2, <4>1
    <3> QED
      BY <3>1, <3>2
  <2>4. /\ Append(s, t) \in Seq(T) /\ Len(Append(s, t)) = b + 1
        /\ \A k \in 1 .. b : Append(s, t)[k] = s[k]
        /\ Append(s, t)[b + 1] = t
    BY <1>1, AppendProperties
  <2>5. ASSUME NEW k \in 1 .. b + 1
        PROVE  u[k] = Append(s, t)[k] /\ u[k] \in T
    <3>1. \A j \in 1 .. b : s[j] \in T
      BY <1>1, LenProperties
    <3>2. k = b + 1 \/ k \in 1 .. b
      BY <1>2
    <3> QED
      BY <1>2, <2>3, <2>4, <3>1, <3>2
  <2>6. u \in Seq(T) /\ Len(u) = b + 1
    <3>1. u \in [1 .. b + 1 -> T]
      BY <1>12, <2>5
    <3> QED
      BY <1>2, <3>1, FunctionIsSeq
  <2> QED
    BY <2>4, <2>5, <2>6, SeqEqual
<1>16. PushNext(ring, t).capacity = IF Len(Current(ring)) + 1 + Len(s) = c THEN 2 * c ELSE c
  <2>1. a + (b + 1) = a + 1 + b
    BY <1>2
  <2> QED
    BY <1>1, <1>13, <2>1
<1> QED
  BY <1>13, <1>14, <1>15, <1>16 DEF c, s


LEMMA PopNextHolds ==
  ASSUME NEW T, NEW ring, IsRing(ring, T), ~NextIsEmpty(ring)
  PROVE  /\ IsRing(PopNext(ring), T)
         /\ Len(NextThreads(ring)) > 0
         /\ NextTop(ring) = NextThreads(ring)[Len(NextThreads(ring))] /\ NextTop(ring) \in T
         /\ Current(PopNext(ring)) = Current(ring)
         /\ NextThreads(PopNext(ring))
              = SubSeq(NextThreads(ring), 1, Len(NextThreads(ring)) - 1)
         /\ PopNext(ring).capacity = ring.capacity
<1> DEFINE c == ring.capacity
           d == ring.data
           from == ring.current
           begin == ring.next_begin
           end == ring.next_end
           a == Ahead(c, from, begin)
           b == Ahead(c, begin, end)
           i == IF end = 0 THEN c - 1 ELSE end - 1
           popped == [ring EXCEPT !.next_end = i]
           s == NextThreads(ring)
           u == From(popped, begin, b - 1)
<1>1. /\ Filled(ring, T, a, b) /\ a + b < c
      /\ Current(ring) = From(ring, from, a)
      /\ s = From(ring, begin, b)
      /\ Current(ring) \in Seq(T) /\ Len(Current(ring)) = a
      /\ s \in Seq(T) /\ Len(s) = b
  BY RingIsFilled DEF Holding
<1>2. end # begin
  BY DEF NextIsEmpty
<1> HIDE DEF a, b
<1>3. /\ ring = [data |-> d, capacity |-> c, current |-> from, next_begin |-> begin,
                 next_end |-> end]
      /\ a \in Nat /\ b \in Nat /\ a + b < c /\ c \in Nat /\ c > 1
      /\ from \in 0 .. c - 1 /\ d \in [0 .. c - 1 -> T]
      /\ begin = Wrapped(c, from + a) /\ end = Wrapped(c, begin + b)
  BY <1>1 DEF Filled
<1>4. PopNext(ring) = [ring EXCEPT !.next_end = (end - 1) % c] /\ NextTop(ring) = d[(end - 1) % c]
  BY DEF PopNext, Before, NextTop
<1> HIDE DEF i
<1>5. popped = [data |-> d, capacity |-> c, current |-> from, next_begin |-> begin,
                next_end |-> i]
  BY <1>3
<1>6. /\ Current(ring) = [k \in 1 .. a |-> d[Wrapped(c, from + k - 1)]]
      /\ s = [k \in 1 .. b |-> d[Wrapped(c, begin + k - 1)]]
  BY <1>1 DEF From
<1> HIDE DEF c, d, from, begin, end, s
<1>7. b > 0 /\ begin \in 0 .. c - 1 /\ end \in 0 .. c - 1
  BY <1>2, <1>3 DEF Wrapped
<1>8. (end - 1) % c = i
  <2>1. c \in Nat \ {0} /\ 1 \in 0 .. c - 1
    BY <1>3
  <2>2. (end - 1) % c = Ahead(c, 1, end)
    BY <1>7, <2>1, WrapsAround
  <2> QED
    BY <1>3, <1>7, <2>2 DEF Ahead, i
<1>9. PopNext(ring) = popped
  BY <1>4, <1>8
<1>10. i \in 0 .. c - 1 /\ i = Wrapped(c, begin + (b - 1)) /\ b - 1 \in Nat
  BY <1>3, <1>7 DEF Wrapped, i
<1>11. Filled(popped, T, a, b - 1) /\ a + (b - 1) < popped.capacity
  BY <1>3, <1>5, <1>10 DEF Filled
<1>12. /\ u = [k \in 1 .. b - 1 |-> d[Wrapped(c, begin + k - 1)]]
       /\ From(popped, from, a) = [k \in 1 .. a |-> d[Wrapped(c, from + k - 1)]]
       /\ popped.current = from /\ popped.next_begin = begin /\ popped.capacity = c
  BY <1>5 DEF From
<1> HIDE DEF popped, u
<1>13. /\ IsRing(popped, T)
       /\ Current(popped) = From(popped, from, a)
       /\ NextThreads(popped) = u
  BY <1>11, <1>12, FilledIsRing DEF u
<1>14. s[b] = d[i] /\ s[b] \in T
  <2>1. b \in 1 .. b /\ Wrapped(c, begin + b - 1) = i
    BY <1>3, <1>7, <1>10
  <2>2. s[b] \in T
    BY <1>1, <2>1, LenProperties
  <2> QED
    BY <1>6, <2>1, <2>2
<1>15. u = SubSeq(s, 1, b - 1)
  <2>1. /\ SubSeq(s, 1, b - 1) \in Seq(T)
        /\ Len(SubSeq(s, 1, b - 1)) = b - 1
        /\ \A k \in 1 .. b - 1 : SubSeq(s, 1, b - 1)[k] = s[k]
    BY <1>1, <1>3, <1>7
  <2>2. ASSUME NEW k \in 1 .. b - 1
        PROVE  u[k] = s[k] /\ s[k] \in T
    <3>1. k \in 1 .. b
      BY <1>3
    <3>2. s[k] \in T
      BY <1>1, <3>1, LenProperties
    <3> QED
      BY <1>6, <1>12, <3>1, <3>2
  <2>3. u \in Seq(T) /\ Len(u) = b - 1
    <3>1. u \in [1 .. b - 1 -> T]
      BY <1>12, <2>2
    <3> QED
      BY <1>10, <3>1, FunctionIsSeq
  <2> QED
    BY <2>1, <2>2, <2>3, SeqEqual
<1>16. NextTop(ring) = s[b] /\ NextTop(ring) \in T
  BY <1>4, <1>8, <1>14
<1> QED
  BY <1>1, <1>6, <1>7, <1>9, <1>12, <1>13, <1>15, <1>16 DEF c, s

LEMMA SwapNextHolds ==
  ASSUME NEW T, NEW ring, IsRing(ring, T), CurrentIsEmpty(ring)
  PROVE  /\ IsRing(SwapNext(ring), T)
         /\ Current(SwapNext(ring)) = NextThreads(ring)
         /\ NextThreads(SwapNext(ring)) = <<>>
         /\ SwapNext(ring).capacity = ring.capacity
<1> DEFINE c == ring.capacity
           d == ring.data
           from == ring.current
           begin == ring.next_begin
           end == ring.next_end
           b == Ahead(c, begin, end)
           half == [ring EXCEPT !.current = begin]
           swapped == [half EXCEPT !.next_begin = end]
<1>1. Filled(ring, T, 0, b) /\ 0 + b < c /\ NextThreads(ring) = From(ring, begin, b)
  <2>1. Ahead(c, from, begin) = 0
    BY DEF CurrentIsEmpty, IsRing, Ahead
  <2>2. Holding(ring, T, 0, b)
    BY <2>1 DEF Holding
  <2> QED
    BY <2>2, RingIsFilled
<1> HIDE DEF b
<1>2. /\ ring = [data |-> d, capacity |-> c, current |-> from, next_begin |-> begin,
                 next_end |-> end]
      /\ b \in Nat /\ b < c /\ c \in Nat /\ c > 1
      /\ begin \in 0 .. c - 1 /\ d \in [0 .. c - 1 -> T]
      /\ end \in 0 .. c - 1 /\ end = Wrapped(c, begin + b)
  BY <1>1 DEF Filled, IsRing
<1>3. SwapNext(ring) = swapped
  BY Zenon DEF SwapNext
<1> HIDE DEF c, d, from, begin, end
<1>4. half = [data |-> d, capacity |-> c, current |-> begin, next_begin |-> begin,
              next_end |-> end]
  BY <1>2
<1> HIDE DEF half
<1>5. swapped = [data |-> d, capacity |-> c, current |-> begin, next_begin |-> end,
                 next_end |-> end]
  BY <1>4
<1> HIDE DEF swapped
<1>6. Filled(swapped, T, b, 0) /\ b + 0 < swapped.capacity
  <2>1. end = Wrapped(c, end + 0)
    BY <1>2 DEF Wrapped
  <2> QED
    BY <1>2, <1>5, <2>1 DEF Filled
<1>7. /\ IsRing(swapped, T)
      /\ Current(swapped) = From(swapped, begin, b)
      /\ NextThreads(swapped) = From(swapped, end, 0)
  BY <1>5, <1>6, FilledIsRing
<1>8. From(swapped, begin, b) = From(ring, begin, b) /\ From(swapped, end, 0) = <<>>
  BY <1>5 DEF From, c, d
<1> QED
  BY <1>1, <1>3, <1>5, <1>7, <1>8 DEF c

-----------------------------------------------------------------------------
(* The saves: what their counts and their free list are in order with.      *)

SavesRecord(V) == [refcount : Nat \ {0}, next_free : Nat, valid_mask : V, pos : V]
IsSaves(saves, V) == saves \in [all : Seq(SavesRecord(V)), first_free : Nat]
Size(saves) == Len(saves.all)

(* The free saves, the ones that are taken first last. *)
IsFreeList(saves, free) ==
    /\ free \in Seq(Nat)
    /\ \A k \in 1 .. Len(free) :
          /\ free[k] \in 1 .. Size(saves)
          /\ saves.all[free[k]].next_free = IF k = 1 THEN None ELSE free[k - 1]
    /\ \A j, k \in 1 .. Len(free) : free[j] = free[k] => j = k
    /\ saves.first_free = IF Len(free) = 0 THEN None ELSE free[Len(free)]

IsFree(free, i) == \E k \in 1 .. Len(free) : free[k] = i

(* Saves i are held as often as h says. *)
Counted(saves, V, free, h) ==
    /\ IsSaves(saves, V)
    /\ IsFreeList(saves, free)
    /\ h \in [Nat -> Nat]
    /\ \A i \in 1 .. Size(saves) :
          IF IsFree(free, i) THEN h[i] = 0 /\ saves.all[i].refcount = 1
          ELSE h[i] = saves.all[i].refcount
    /\ \A i \in Nat : i > Size(saves) => h[i] = 0
SoundSaves(saves, h) == \E V, free : Counted(saves, V, free, h)

(* One more holder of i in `more' than in `less', and no other.             *)
OneMore(more, less, i) ==
    \A j \in Nat \ {0} : more[j] = less[j] + (IF j = i THEN 1 ELSE 0)

With(saves, i, record, first) ==
    [all |-> [saves.all EXCEPT ![i] = record], first_free |-> first]

LEMMA WithProperties ==
  ASSUME NEW V, NEW saves, IsSaves(saves, V), NEW i \in 1 .. Size(saves),
         NEW record \in SavesRecord(V), NEW first \in Nat
  PROVE  /\ IsSaves(With(saves, i, record, first), V)
         /\ Size(With(saves, i, record, first)) = Size(saves)
         /\ With(saves, i, record, first).first_free = first
         /\ \A j \in 1 .. Size(saves) :
               With(saves, i, record, first).all[j] = IF j = i THEN record ELSE saves.all[j]
<1> DEFINE all == saves.all
           new == [all EXCEPT ![i] = record]
<1>1. all \in Seq(SavesRecord(V)) /\ i \in 1 .. Len(all)
  BY DEF IsSaves, Size
<1>2. /\ new \in Seq(SavesRecord(V)) /\ Len(new) = Len(all)
      /\ \A j \in 1 .. Len(all) : new[j] = IF j = i THEN record ELSE all[j]
  BY <1>1, ExceptSeq
<1> HIDE DEF new
<1>3. With(saves, i, record, first) = [all |-> new, first_free |-> first]
  BY DEF With, new
<1> QED
  BY <1>2, <1>3 DEF IsSaves, Size

LEMMA SizeOfSaves ==
  ASSUME NEW V, NEW saves, IsSaves(saves, V)
  PROVE  /\ Size(saves) \in Nat /\ saves.first_free \in Nat
         /\ \A i \in 1 .. Size(saves) : saves.all[i] \in SavesRecord(V)
<1>1. saves.all \in Seq(SavesRecord(V)) /\ saves.first_free \in Nat
  BY DEF IsSaves
<1> QED
  BY <1>1, LenProperties DEF Size

(* What the operations put in the record of saves. *)
LEMMA SavesOperations ==
  ASSUME NEW V, NEW saves, IsSaves(saves, V), NEW i \in 1 .. Size(saves)
  PROVE  /\ [saves EXCEPT !.all[i].refcount = @ + 1]
              = With(saves, i, [saves.all[i] EXCEPT !.refcount = @ + 1], saves.first_free)
         /\ [saves EXCEPT !.all[i].refcount = @ - 1]
              = With(saves, i, [saves.all[i] EXCEPT !.refcount = @ - 1], saves.first_free)
<1> DEFINE all == saves.all
           first == saves.first_free
<1>1. saves = [all |-> all, first_free |-> first]
  BY DEF IsSaves
<1>2. [saves EXCEPT !.all[i].refcount = @ + 1]
        = [saves EXCEPT !.all = [all EXCEPT ![i] = [all[i] EXCEPT !.refcount = @ + 1]]]
  BY <1>1
<1>3. [saves EXCEPT !.all[i].refcount = @ - 1]
        = [saves EXCEPT !.all = [all EXCEPT ![i] = [all[i] EXCEPT !.refcount = @ - 1]]]
  BY <1>1
<1>4. ASSUME NEW x
      PROVE  [saves EXCEPT !.all = x] = [all |-> x, first_free |-> first]
  BY <1>1
<1> QED
  BY <1>2, <1>3, <1>4 DEF With

LEMMA Released ==
  ASSUME NEW V, NEW saves, IsSaves(saves, V), NEW i \in 1 .. Size(saves)
  PROVE  [saves EXCEPT !.all[i].next_free = saves.first_free, !.first_free = i]
            = With(saves, i, [saves.all[i] EXCEPT !.next_free = saves.first_free], i)
<1> DEFINE all == saves.all
           first == saves.first_free
<1>1. saves = [all |-> all, first_free |-> first]
  BY DEF IsSaves
<1>4. [saves EXCEPT !.all[i].next_free = saves.first_free, !.first_free = i]
        = [[saves EXCEPT !.all = [all EXCEPT ![i] = [all[i] EXCEPT !.next_free = first]]]
             EXCEPT !.first_free = i]
  BY <1>1
<1>5. ASSUME NEW x
      PROVE  /\ [saves EXCEPT !.all = x] = [all |-> x, first_free |-> first]
             /\ [[saves EXCEPT !.all = x] EXCEPT !.first_free = i]
                  = [all |-> x, first_free |-> i]
  <2> DEFINE y == [saves EXCEPT !.all = x]
  <2>1. y = [all |-> x, first_free |-> first]
    BY <1>1
  <2> HIDE DEF y
  <2>2. [y EXCEPT !.first_free = i] = [all |-> x, first_free |-> i]
    BY <2>1
  <2> QED
    BY <2>1, <2>2 DEF y
<1> QED
  BY <1>4, <1>5 DEF With

(* The records of saves are those they were, but for that of saves i. *)
Changed(u, saves, V, i, record, first) ==
    /\ IsSaves(u, V) /\ Size(u) = Size(saves) /\ u.first_free = first
    /\ \A j \in 1 .. Size(saves) : u.all[j] = IF j = i THEN record ELSE saves.all[j]

LEMMA RecordChanged ==
  ASSUME NEW V, NEW saves, IsSaves(saves, V), NEW i, i \in 1 .. Size(saves),
         NEW record, record \in SavesRecord(V), NEW first, first \in Nat,
         NEW u, u = With(saves, i, record, first)
  PROVE  Changed(u, saves, V, i, record, first)
BY WithProperties DEF Changed

LEMMA HeldIsCounted ==
  ASSUME NEW saves, NEW V, NEW free, NEW h, Counted(saves, V, free, h),
         NEW i \in Nat \ {0}, h[i] > 0
  PROVE  i \in 1 .. Size(saves) /\ ~IsFree(free, i) /\ saves.all[i].refcount = h[i]
<1>1. i \in 1 .. Size(saves)
  BY SizeOfSaves DEF Counted
<1> QED
  BY <1>1 DEF Counted

(* Only the counts of the saves that are used change, not the free list.    *)
LEMMA SameFreeList ==
  ASSUME NEW saves, NEW u, NEW free, IsFreeList(saves, free), Size(u) = Size(saves),
         u.first_free = saves.first_free,
         \A k \in 1 .. Len(free) : u.all[free[k]] = saves.all[free[k]]
  PROVE  IsFreeList(u, free)
BY DEF IsFreeList

LEMMA OneMoreOfNone ==
  ASSUME NEW saves, NEW V, NEW free, NEW h, Counted(saves, V, free, h),
         NEW g \in [Nat -> Nat], OneMore(h, g, 0) \/ OneMore(g, h, 0)
  PROVE  Counted(saves, V, free, g)
<1>1. ASSUME NEW j \in Nat \ {0}
      PROVE  g[j] = h[j]
  BY DEF OneMore, Counted
<1>2. Size(saves) \in Nat
  BY SizeOfSaves DEF Counted
<1> QED
  BY <1>1, <1>2 DEF Counted

LEMMA ShareKeepsCount ==
  ASSUME NEW saves, NEW h, SoundSaves(saves, h), NEW g \in [Nat -> Nat],
         NEW i \in Nat, OneMore(g, h, i), i # None => h[i] > 0
  PROVE  SoundSaves(Share(saves, i), g)
<1>1. PICK V, free : Counted(saves, V, free, h)
  BY DEF SoundSaves
<1>2. CASE i = None
  BY <1>1, <1>2, OneMoreOfNone DEF SoundSaves, Share, None
<1>3. CASE i # None
  <2> DEFINE r == [saves.all[i] EXCEPT !.refcount = @ + 1]
             first == saves.first_free
             u == With(saves, i, r, first)
  <2>1. i \in 1 .. Size(saves) /\ ~IsFree(free, i) /\ saves.all[i].refcount = h[i]
    BY <1>1, <1>3, HeldIsCounted DEF None
  <2>2. IsSaves(saves, V) /\ IsFreeList(saves, free) /\ h \in [Nat -> Nat]
    BY <1>1 DEF Counted
  <2>3. Share(saves, i) = u
    BY <1>3, <2>1, <2>2, SavesOperations DEF Share
  <2>4. /\ Size(saves) \in Nat /\ first \in Nat
        /\ saves.all[i] \in SavesRecord(V)
    BY <2>1, <2>2, SizeOfSaves
  <2>5. r \in SavesRecord(V) /\ r.refcount = h[i] + 1
    BY <2>1, <2>4 DEF SavesRecord
  <2>50. first = saves.first_free
    OBVIOUS
  <2> HIDE DEF r, first
  <2>51. u = With(saves, i, r, first)
    OBVIOUS
  <2> HIDE DEF u
  <2>6. /\ IsSaves(u, V) /\ Size(u) = Size(saves) /\ u.first_free = saves.first_free
        /\ \A j \in 1 .. Size(saves) : u.all[j] = IF j = i THEN r ELSE saves.all[j]
    <3>1. Changed(u, saves, V, i, r, first)
      BY <2>1, <2>2, <2>4, <2>5, <2>51, RecordChanged
    <3> QED
      BY <3>1, <2>50 DEF Changed
  <2>7. IsFreeList(u, free)
    <3>1. \A k \in 1 .. Len(free) : free[k] \in 1 .. Size(saves) /\ free[k] # i
      BY <2>1, <2>2 DEF IsFreeList, IsFree
    <3> QED
      BY <2>2, <2>6, <3>1, SameFreeList
  <2>8. ASSUME NEW j \in 1 .. Size(u)
        PROVE  IF IsFree(free, j) THEN g[j] = 0 /\ u.all[j].refcount = 1
               ELSE g[j] = u.all[j].refcount
    <3>1. j \in Nat \ {0} /\ j \in 1 .. Size(saves)
      BY <2>4, <2>6
    <3>2. g[j] = h[j] + (IF j = i THEN 1 ELSE 0)
      BY <3>1 DEF OneMore
    <3>3. IF IsFree(free, j) THEN h[j] = 0 /\ saves.all[j].refcount = 1
          ELSE h[j] = saves.all[j].refcount
      BY <1>1, <3>1 DEF Counted
    <3> QED
      BY <2>1, <2>2, <2>5, <2>6, <3>1, <3>2, <3>3
  <2>9. ASSUME NEW j \in Nat, j > Size(u)
        PROVE  g[j] = 0
    <3>1. j # i /\ j # 0 /\ h[j] = 0
      BY <1>1, <2>1, <2>4, <2>6, <2>9 DEF Counted
    <3> QED
      BY <3>1 DEF OneMore
  <2>10. Counted(u, V, free, g)
    BY <2>6, <2>7, <2>8, <2>9 DEF Counted
  <2> QED
    BY <2>3, <2>10 DEF SoundSaves
<1> QED
  BY <1>2, <1>3

(* A holder fewer of saves that others hold. *)
LEMMA UnshareKeepsCount ==
  ASSUME NEW saves, NEW V, NEW free, NEW h, Counted(saves, V, free, h),
         NEW g \in [Nat -> Nat], NEW i \in Nat, OneMore(h, g, i), Shared(saves, i),
         NEW u, u = [saves EXCEPT !.all[i].refcount = @ - 1]
  PROVE  /\ Counted(u, V, free, g)
         /\ Size(u) = Size(saves) /\ u.first_free = saves.first_free
<1> DEFINE r == [saves.all[i] EXCEPT !.refcount = @ - 1]
           first == saves.first_free
<1>1. i # 0 /\ h[i] > 0 /\ h \in [Nat -> Nat]
  BY DEF OneMore, Shared, None, Counted
<1>2. i \in 1 .. Size(saves) /\ ~IsFree(free, i) /\ saves.all[i].refcount = h[i]
  BY <1>1, HeldIsCounted
<1>3. IsSaves(saves, V) /\ IsFreeList(saves, free)
  BY DEF Counted
<1>4. u = With(saves, i, r, first)
  BY <1>2, <1>3, SavesOperations
<1>5. /\ Size(saves) \in Nat /\ first \in Nat /\ first = saves.first_free
      /\ saves.all[i] \in SavesRecord(V)
  BY <1>2, <1>3, SizeOfSaves
<1>6. r \in SavesRecord(V) /\ r.refcount = h[i] - 1
  BY <1>1, <1>2, <1>5 DEF SavesRecord, Shared
<1> HIDE DEF r, first
<1>7. /\ IsSaves(u, V) /\ Size(u) = Size(saves) /\ u.first_free = saves.first_free
      /\ \A j \in 1 .. Size(saves) : u.all[j] = IF j = i THEN r ELSE saves.all[j]
  <2>1. Changed(u, saves, V, i, r, first)
    BY <1>2, <1>3, <1>4, <1>5, <1>6, RecordChanged
  <2> QED
    BY <2>1, <1>5 DEF Changed
<1>8. IsFreeList(u, free)
  <2>1. \A k \in 1 .. Len(free) : free[k] \in 1 .. Size(saves) /\ free[k] # i
    BY <1>2, <1>3 DEF IsFreeList, IsFree
  <2> QED
    BY <1>3, <1>7, <2>1, SameFreeList
<1>9. ASSUME NEW j \in 1 .. Size(u)
      PROVE  IF IsFree(free, j) THEN g[j] = 0 /\ u.all[j].refcount = 1
             ELSE g[j] = u.all[j].refcount
  <2>1. j \in Nat \ {0} /\ j \in 1 .. Size(saves)
    BY <1>5, <1>7
  <2>2. h[j] = g[j] + (IF j = i THEN 1 ELSE 0)
    BY <2>1 DEF OneMore
  <2>3. IF IsFree(free, j) THEN h[j] = 0 /\ saves.all[j].refcount = 1
        ELSE h[j] = saves.all[j].refcount
    BY <2>1 DEF Counted
  <2> QED
    BY <1>1, <1>2, <1>6, <1>7, <2>1, <2>2, <2>3
<1>10. ASSUME NEW j \in Nat, j > Size(u)
       PROVE  g[j] = 0
  <2>1. j # i /\ j # 0 /\ h[j] = 0
    BY <1>2, <1>5, <1>7, <1>10 DEF Counted
  <2> QED
    BY <1>1, <2>1 DEF OneMore
<1> QED
  BY <1>7, <1>8, <1>9, <1>10 DEF Counted

LEMMA ReleaseKeepsCount ==
  ASSUME NEW saves, NEW h, SoundSaves(saves, h), NEW g \in [Nat -> Nat],
         NEW i \in Nat, OneMore(h, g, i)
  PROVE  SoundSaves(ReleaseSaves(saves, i), g)
<1>1. PICK V, free : Counted(saves, V, free, h)
  BY DEF SoundSaves
<1>2. CASE i = None
  BY <1>1, <1>2, OneMoreOfNone DEF SoundSaves, ReleaseSaves, None
<1>3. CASE i # None /\ Shared(saves, i)
  <2> DEFINE u == [saves EXCEPT !.all[i].refcount = @ - 1]
  <2>1. ReleaseSaves(saves, i) = u
    BY <1>3 DEF ReleaseSaves
  <2> HIDE DEF u
  <2>2. Counted(u, V, free, g)
    BY <1>1, <1>3, UnshareKeepsCount DEF u
  <2> QED
    BY <2>1, <2>2 DEF SoundSaves
<1>4. CASE i # None /\ ~Shared(saves, i)
  <2> DEFINE r == [saves.all[i] EXCEPT !.next_free = saves.first_free]
             u == With(saves, i, r, i)
             more == Append(free, i)
             n == Len(free)
  <2>1. i # 0 /\ h[i] > 0 /\ h \in [Nat -> Nat]
    BY <1>1, <1>4 DEF OneMore, None, Counted
  <2>2. i \in 1 .. Size(saves) /\ ~IsFree(free, i) /\ saves.all[i].refcount = h[i]
    BY <1>1, <2>1, HeldIsCounted
  <2>3. IsSaves(saves, V) /\ IsFreeList(saves, free)
    BY <1>1 DEF Counted
  <2>4. /\ Size(saves) \in Nat /\ saves.first_free \in Nat
        /\ saves.all[i] \in SavesRecord(V)
    BY <2>2, <2>3, SizeOfSaves
  <2>5. h[i] = 1 /\ g[i] = 0
    BY <1>4, <2>1, <2>2, <2>4 DEF Shared, SavesRecord, OneMore
  <2>6. r \in SavesRecord(V) /\ r.refcount = 1 /\ r.next_free = saves.first_free
    BY <2>2, <2>4, <2>5 DEF SavesRecord
  <2>70. [saves EXCEPT !.all[i].next_free = saves.first_free, !.first_free = i] = u
    BY <2>2, <2>3, Released
  <2>7. ReleaseSaves(saves, i) = u
    BY <1>4, <2>70, Zenon DEF ReleaseSaves
  <2> HIDE DEF r
  <2>71. u = With(saves, i, r, i) /\ i \in Nat
    OBVIOUS
  <2> HIDE DEF u
  <2>8. /\ IsSaves(u, V) /\ Size(u) = Size(saves) /\ u.first_free = i
        /\ \A j \in 1 .. Size(saves) : u.all[j] = IF j = i THEN r ELSE saves.all[j]
    <3>1. Changed(u, saves, V, i, r, i)
      BY <2>2, <2>3, <2>4, <2>6, <2>71, RecordChanged
    <3> QED
      BY <3>1 DEF Changed
  <2>9. /\ free \in Seq(Nat) /\ n \in Nat
        /\ \A k \in 1 .. n : free[k] \in 1 .. Size(saves) /\ free[k] # i
    BY <2>2, <2>3, LenProperties DEF IsFreeList, IsFree
  <2>10. /\ more \in Seq(Nat) /\ Len(more) = n + 1 /\ more[n + 1] = i
         /\ \A k \in 1 .. n : more[k] = free[k]
    BY <2>9, AppendProperties
  <2> HIDE DEF more, n
  <2>11. IsFreeList(u, more)
    <3>1. ASSUME NEW k \in 1 .. n
          PROVE  /\ more[k] = free[k] /\ more[k] \in 1 .. Size(u) /\ more[k] # i
                 /\ u.all[more[k]] = saves.all[more[k]]
                 /\ u.all[more[k]].next_free = IF k = 1 THEN None ELSE more[k - 1]
      <4>1. k # 1 => k - 1 \in 1 .. n
        BY <2>9
      <4>2. k # 1 => more[k - 1] = free[k - 1]
        BY <2>10, <4>1
      <4>3. more[k] = free[k] /\ free[k] \in 1 .. Size(saves) /\ free[k] # i
        BY <2>9, <2>10
      <4>4. u.all[free[k]] = saves.all[free[k]]
        BY <2>8, <4>3
      <4>5. saves.all[free[k]].next_free = IF k = 1 THEN None ELSE free[k - 1]
        BY <2>3 DEF IsFreeList, n
      <4> QED
        BY <2>8, <4>2, <4>3, <4>4, <4>5
    <3>2. u.all[i].next_free = IF n + 1 = 1 THEN None ELSE more[n]
      <4>1. saves.first_free = IF n = 0 THEN None ELSE free[n]
        BY <2>3 DEF IsFreeList, n
      <4>2. n # 0 => n \in 1 .. n
        BY <2>9
      <4>3. u.all[i].next_free = saves.first_free
        BY <2>2, <2>6, <2>8
      <4>4. n # 0 => more[n] = free[n]
        BY <2>10, <4>2
      <4>5. n + 1 = 1 <=> n = 0
        BY <2>9
      <4> QED
        BY <4>1, <4>3, <4>4, <4>5
    <3>3. ASSUME NEW k \in 1 .. n + 1
          PROVE  k \in 1 .. n \/ k = n + 1
      BY <2>9
    <3>4. ASSUME NEW k \in 1 .. n + 1
          PROVE  /\ more[k] \in 1 .. Size(u)
                 /\ u.all[more[k]].next_free = IF k = 1 THEN None ELSE more[k - 1]
      <4>1. CASE k \in 1 .. n
        BY <3>1, <4>1
      <4>2. CASE k = n + 1
        <5>1. k - 1 = n
          BY <2>9, <4>2
        <5> QED
          BY <2>2, <2>8, <2>10, <3>2, <4>2, <5>1
      <4> QED
        BY <3>3, <4>1, <4>2
    <3>5. ASSUME NEW j \in 1 .. n + 1, NEW k \in 1 .. n + 1, more[j] = more[k]
          PROVE  j = k
      <4>1. \A x, y \in 1 .. n : free[x] = free[y] => x = y
        BY <2>3 DEF IsFreeList, n
      <4>2. CASE j \in 1 .. n /\ k \in 1 .. n
        BY <2>10, <3>5, <4>1, <4>2
      <4>3. CASE j = n + 1 /\ k \in 1 .. n
        BY <2>10, <3>1, <3>5, <4>3
      <4>4. CASE j \in 1 .. n /\ k = n + 1
        BY <2>10, <3>1, <3>5, <4>4
      <4> QED
        BY <3>3, <4>2, <4>3, <4>4
    <3>6. n + 1 # 0
      BY <2>9
    <3> QED
      BY <2>8, <2>10, <3>4, <3>5, <3>6 DEF IsFreeList
  <2>12. ASSUME NEW j \in 1 .. Size(u)
         PROVE  IsFree(more, j) <=> (IsFree(free, j) \/ j = i)
    <3>1. ASSUME IsFree(free, j)
          PROVE  IsFree(more, j)
      <4>1. PICK k \in 1 .. n : free[k] = j
        BY <3>1 DEF IsFree, n
      <4>2. k \in 1 .. n + 1
        BY <2>9
      <4> QED
        BY <2>10, <4>1, <4>2 DEF IsFree
    <3>2. ASSUME j = i
          PROVE  IsFree(more, j)
      <4>1. n + 1 \in 1 .. n + 1
        BY <2>9
      <4> QED
        BY <2>10, <3>2, <4>1 DEF IsFree
    <3>3. ASSUME IsFree(more, j)
          PROVE  IsFree(free, j) \/ j = i
      <4>1. PICK k \in 1 .. n + 1 : more[k] = j
        BY <2>10, <3>3 DEF IsFree
      <4>2. k \in 1 .. n \/ k = n + 1
        BY <2>9
      <4> QED
        BY <2>10, <4>1, <4>2 DEF IsFree, n
    <3> QED
      BY <3>1, <3>2, <3>3
  <2>13. ASSUME NEW j \in 1 .. Size(u)
         PROVE  IF IsFree(more, j) THEN g[j] = 0 /\ u.all[j].refcount = 1
                ELSE g[j] = u.all[j].refcount
    <3>1. j \in Nat \ {0} /\ j \in 1 .. Size(saves)
      BY <2>4, <2>8
    <3>2. h[j] = g[j] + (IF j = i THEN 1 ELSE 0)
      BY <3>1 DEF OneMore
    <3>3. IF IsFree(free, j) THEN h[j] = 0 /\ saves.all[j].refcount = 1
          ELSE h[j] = saves.all[j].refcount
      BY <1>1, <3>1 DEF Counted
    <3> QED
      BY <2>1, <2>2, <2>5, <2>6, <2>8, <2>12, <3>1, <3>2, <3>3
  <2>14. ASSUME NEW j \in Nat, j > Size(u)
         PROVE  g[j] = 0
    <3>1. j # i /\ j # 0 /\ h[j] = 0
      BY <1>1, <2>2, <2>4, <2>8, <2>14 DEF Counted
    <3> QED
      BY <2>1, <3>1 DEF OneMore
  <2>15. Counted(u, V, more, g)
    BY <2>8, <2>11, <2>13, <2>14 DEF Counted
  <2> QED
    BY <2>7, <2>15 DEF SoundSaves
<1> QED
  BY <1>2, <1>3, <1>4

LEMMA MoreValues ==
  ASSUME NEW V, NEW W, V \subseteq W, NEW saves, NEW free, NEW h, Counted(saves, V, free, h)
  PROVE  Counted(saves, W, free, h)
<1>1. saves \in [all : Seq(SavesRecord(V)), first_free : Nat]
  BY DEF Counted, IsSaves
<1>2. SavesRecord(V) \subseteq SavesRecord(W)
  BY DEF SavesRecord
<1> DEFINE R == SavesRecord(V)
           S == SavesRecord(W)
<1>3. R \subseteq S /\ saves \in [all : Seq(R), first_free : Nat]
  BY <1>1, <1>2
<1> HIDE DEF R, S
<1>4. saves \in [all : Seq(S), first_free : Nat]
  BY <1>3
<1>5. IsSaves(saves, W)
  BY <1>4 DEF IsSaves, S
<1> QED
  BY <1>5 DEF Counted

(* Nothing but what is saved changes. *)
LEMMA SavedKeepsCount ==
  ASSUME NEW saves, NEW V, NEW free, NEW h, Counted(saves, V, free, h),
         NEW i, i \in 1 .. Size(saves), NEW r, r \in SavesRecord(V),
         r.refcount = saves.all[i].refcount, r.next_free = saves.all[i].next_free,
         NEW u, u = With(saves, i, r, saves.first_free)
  PROVE  Counted(u, V, free, h) /\ Size(u) = Size(saves)
<1> DEFINE first == saves.first_free
<1>1. IsSaves(saves, V) /\ IsFreeList(saves, free) /\ first = saves.first_free
  BY DEF Counted
<1>2. Size(saves) \in Nat /\ first \in Nat
  BY <1>1, SizeOfSaves
<1>3. u = With(saves, i, r, first)
  BY <1>1
<1> HIDE DEF first
<1>4. Changed(u, saves, V, i, r, first)
  BY <1>1, <1>2, <1>3, RecordChanged
<1>5. /\ IsSaves(u, V) /\ Size(u) = Size(saves) /\ u.first_free = saves.first_free
      /\ \A j \in 1 .. Size(saves) : /\ u.all[j].refcount = saves.all[j].refcount
                                     /\ u.all[j].next_free = saves.all[j].next_free
  BY <1>1, <1>4 DEF Changed
<1>6. IsFreeList(u, free)
  BY <1>1, <1>5 DEF IsFreeList
<1> QED
  BY <1>5, <1>6 DEF Counted

Extended(saves, record) ==
    [all |-> Append(saves.all, record), first_free |-> saves.first_free]

(* Saves that were not there. *)
LEMMA AppendedSaves ==
  ASSUME NEW saves, NEW V, NEW free, NEW h, Counted(saves, V, free, h),
         saves.first_free = None, NEW r, r \in SavesRecord(V), r.refcount = 1,
         NEW g \in [Nat -> Nat], NEW i, i = Size(saves) + 1, OneMore(g, h, i),
         NEW u, u = Extended(saves, r)
  PROVE  Counted(u, V, free, g) /\ i \in 1 .. Size(u)
<1> DEFINE all == saves.all
           n == Len(all)
           new == Append(all, r)
<1>1. /\ saves = [all |-> all, first_free |-> None] /\ all \in Seq(SavesRecord(V))
      /\ IsFreeList(saves, free) /\ h \in [Nat -> Nat]
  BY DEF Counted, IsSaves
<1>2. n \in Nat /\ n = Size(saves) /\ i = n + 1 /\ all = saves.all
  BY <1>1, LenProperties DEF Size
<1>3. /\ new \in Seq(SavesRecord(V)) /\ Len(new) = n + 1 /\ new[n + 1] = r
      /\ \A j \in 1 .. n : new[j] = all[j]
  BY <1>1, AppendProperties
<1>4. u = [all |-> new, first_free |-> None]
  BY DEF Extended
<1> HIDE DEF new, all, n
<1>5. IsSaves(u, V) /\ Size(u) = n + 1 /\ u.all = new /\ u.first_free = None
  BY <1>3, <1>4 DEF IsSaves, Size, None
<1>6. Len(free) = 0
  <2>1. free \in Seq(Nat) /\ Len(free) \in Nat
    BY <1>1, LenProperties DEF IsFreeList
  <2>2. ASSUME Len(free) # 0
        PROVE  FALSE
    <3>1. Len(free) \in 1 .. Len(free)
      BY <2>1, <2>2
    <3>2. free[Len(free)] \in 1 .. n
      BY <1>1, <1>2, <3>1 DEF IsFreeList
    <3>3. None = free[Len(free)]
      BY <1>1, <2>2 DEF IsFreeList
    <3> QED
      BY <1>2, <3>2, <3>3 DEF None
  <2> QED
    BY <2>2
<1>7. IsFreeList(u, free) /\ (\A j : ~IsFree(free, j))
  BY <1>1, <1>5, <1>6 DEF IsFreeList, IsFree
<1>8. ASSUME NEW j \in 1 .. Size(u)
      PROVE  g[j] = u.all[j].refcount
  <2>1. j \in Nat \ {0} /\ (j \in 1 .. n \/ j = n + 1)
    BY <1>2, <1>5
  <2>2. g[j] = h[j] + (IF j = i THEN 1 ELSE 0)
    BY <2>1 DEF OneMore
  <2>3. CASE j \in 1 .. n
    <3>1. h[j] = all[j].refcount
      BY <1>2, <1>7, <2>3 DEF Counted
    <3>2. h[j] \in Nat
      BY <1>1, <2>1
    <3>3. g[j] = h[j]
      BY <1>2, <2>2, <2>3, <3>2
    <3>4. u.all[j] = all[j]
      BY <1>3, <1>5, <2>3
    <3> QED
      BY <3>1, <3>3, <3>4
  <2>4. CASE j = n + 1
    <3>1. h[j] = 0
      BY <1>2, <2>4 DEF Counted
    <3> QED
      BY <1>2, <1>3, <1>5, <2>2, <2>4, <3>1
  <2> QED
    BY <2>1, <2>3, <2>4
<1>9. ASSUME NEW j \in Nat, j > Size(u)
      PROVE  g[j] = 0
  <2>1. j # i /\ j # 0 /\ h[j] = 0
    BY <1>2, <1>5, <1>9 DEF Counted
  <2> QED
    BY <2>1 DEF OneMore
<1>10. i \in 1 .. Size(u)
  BY <1>2, <1>5
<1> QED
  BY <1>5, <1>7, <1>8, <1>9, <1>10 DEF Counted

IsFront(f, s, m) == f \in Seq(Nat) /\ Len(f) = m /\ \A k \in 1 .. m : f[k] = s[k]
LEMMA FrontOf ==
  ASSUME NEW s, s \in Seq(Nat), NEW m \in Nat, Len(s) = m + 1
  PROVE  \E f : IsFront(f, s, m)
<1> DEFINE f == [k \in 1 .. m |-> s[k]]
<1>1. \A k \in 1 .. m : k \in 1 .. Len(s) /\ s[k] \in Nat
  BY ElementOfSeq
<1>2. f \in [1 .. m -> Nat] /\ \A k \in 1 .. m : f[k] = s[k]
  BY <1>1
<1> HIDE DEF f
<1>3. f \in Seq(Nat) /\ Len(f) = m
  BY <1>2, FunctionIsSeq
<1> QED
  BY <1>2, <1>3 DEF IsFront

LEMMA PastTheLast ==
  ASSUME NEW n, n \in Nat, NEW i, i \in 1 .. n, NEW j, j \in Nat, j > n
  PROVE  j # i /\ j # 0
OBVIOUS

(* The first of the free list is taken from it. *)
LEMMA TakenFromFree ==
  ASSUME NEW saves, NEW V, NEW free, NEW h, Counted(saves, V, free, h),
         saves.first_free # None, NEW i, i = saves.first_free,
         NEW r, r \in SavesRecord(V), r.refcount = saves.all[i].refcount,
         NEW g \in [Nat -> Nat], OneMore(g, h, i),
         NEW u, u = With(saves, i, r, saves.all[i].next_free)
  PROVE  i \in 1 .. Size(u) /\ (\E less : Counted(u, V, less, g))
<1> DEFINE n == Len(free)
           next == saves.all[i].next_free
<1>1. IsSaves(saves, V) /\ IsFreeList(saves, free) /\ h \in [Nat -> Nat]
  BY DEF Counted
<1>0. /\ free \in Seq(Nat) /\ n \in Nat /\ n = Len(free)
      /\ next = saves.all[i].next_free
  BY <1>1, LenProperties DEF IsFreeList
<1>7. u = With(saves, i, r, next)
  OBVIOUS
<1> HIDE DEF next, n
<1>2. /\ n \in Nat \ {0} /\ i = free[n]
      /\ \A k \in 1 .. n : free[k] \in 1 .. Size(saves) /\ free[k] \in Nat
  <2>1. n # 0 /\ i = free[n]
    BY <1>0, <1>1 DEF IsFreeList
  <2>2. \A k \in 1 .. n : free[k] \in 1 .. Size(saves)
    BY <1>0, <1>1 DEF IsFreeList
  <2>3. Size(saves) \in Nat
    BY <1>1, SizeOfSaves
  <2> QED
    BY <1>0, <2>1, <2>2, <2>3
<1>6. PICK less \in Seq(Nat) : /\ Len(less) = n - 1
                              /\ \A k \in 1 .. n - 1 : less[k] = free[k]
  <2> DEFINE m == n - 1
  <2>1. m \in Nat /\ n = m + 1
    BY <1>2
  <2> HIDE DEF m
  <2>2. PICK f : IsFront(f, free, m)
    BY <1>0, <2>1, FrontOf
  <2>3. f \in Seq(Nat) /\ Len(f) = m /\ \A k \in 1 .. m : f[k] = free[k]
    BY <2>2 DEF IsFront
  <2> QED
    BY <2>3 DEF m
<1>3. /\ n \in 1 .. n /\ i \in 1 .. Size(saves) /\ next \in Nat /\ Size(saves) \in Nat
      /\ saves.all[i] \in SavesRecord(V)
  <2>1. n \in 1 .. n /\ i \in 1 .. Size(saves)
    BY <1>2
  <2>2. saves.all[i] \in SavesRecord(V) /\ Size(saves) \in Nat
    BY <1>1, <2>1, SizeOfSaves
  <2> QED
    BY <1>0, <2>1, <2>2 DEF SavesRecord
<1>4. next = IF n = 1 THEN None ELSE free[n - 1]
  BY <1>0, <1>1, <1>2, <1>3 DEF IsFreeList
<1>5. IsFree(free, i) /\ h[i] = 0 /\ r.refcount = 1
  <2>1. IsFree(free, i)
    BY <1>0, <1>2, <1>3 DEF IsFree
  <2> QED
    BY <1>3, <2>1 DEF Counted
<1>8. Changed(u, saves, V, i, r, next)
  BY <1>1, <1>3, <1>7, RecordChanged
<1>9. \A x, y \in 1 .. n : free[x] = free[y] => x = y
  BY <1>0, <1>1 DEF IsFreeList
<1>10. ASSUME NEW k \in 1 .. n - 1
       PROVE  /\ k \in 1 .. n /\ free[k] # i /\ free[k] \in 1 .. Size(saves)
              /\ u.all[free[k]] = saves.all[free[k]]
  <2>0. n \in Nat
    BY <1>0
  <2>1. k \in 1 .. n /\ k # n
    BY <2>0
  <2>2. free[k] # i
    BY <1>2, <1>3, <1>9, <2>1
  <2> QED
    BY <1>2, <1>8, <2>1, <2>2 DEF Changed
<1>11. IsFreeList(u, less)
  <2>1. ASSUME NEW k \in 1 .. n - 1
        PROVE  /\ less[k] \in 1 .. Size(u)
               /\ u.all[less[k]].next_free = IF k = 1 THEN None ELSE less[k - 1]
    <3>1. saves.all[free[k]].next_free = IF k = 1 THEN None ELSE free[k - 1]
      BY <1>0, <1>1, <1>10 DEF IsFreeList
    <3>2. k # 1 => k - 1 \in 1 .. n - 1
      BY <1>2
    <3>3. k # 1 => less[k - 1] = free[k - 1]
      BY <1>2, <1>6, <3>2
    <3> QED
      BY <1>2, <1>6, <1>8, <1>10, <3>1, <3>3 DEF Changed
  <2>2. ASSUME NEW j \in 1 .. n - 1, NEW k \in 1 .. n - 1, less[j] = less[k]
        PROVE  j = k
    BY <1>2, <1>6, <1>9, <1>10, <2>2
  <2>3. next = IF n - 1 = 0 THEN None ELSE less[n - 1]
    <3>1. n # 1 => n - 1 \in 1 .. n - 1
      BY <1>2
    <3>2. n - 1 = 0 <=> n = 1
      BY <1>2
    <3> QED
      BY <1>4, <1>6, <3>1, <3>2
  <2> QED
    BY <1>2, <1>6, <1>8, <2>1, <2>2, <2>3 DEF IsFreeList, Changed
<1>12. ASSUME NEW j
       PROVE  IsFree(free, j) <=> (IsFree(less, j) \/ j = i)
  <2>1. ASSUME IsFree(free, j)
        PROVE  IsFree(less, j) \/ j = i
    <3>1. PICK k \in 1 .. n : free[k] = j
      BY <1>0, <2>1 DEF IsFree
    <3>2. k \in 1 .. n - 1 \/ k = n
      BY <1>2
    <3> QED
      BY <1>2, <1>6, <3>1, <3>2 DEF IsFree
  <2>2. ASSUME IsFree(less, j)
        PROVE  IsFree(free, j) /\ j # i
    <3>1. PICK k \in 1 .. n - 1 : less[k] = j
      BY <1>2, <1>6, <2>2 DEF IsFree
    <3> QED
      BY <1>0, <1>6, <1>2, <1>10, <3>1 DEF IsFree
  <2> QED
    BY <1>5, <2>1, <2>2
<1>13. ~IsFree(less, i)
  <2>1. ASSUME NEW k \in 1 .. n - 1
        PROVE  less[k] # i
    BY <1>2, <1>6, <1>10
  <2> QED
    BY <1>2, <1>6, <2>1 DEF IsFree
<1>14. ASSUME NEW j \in 1 .. Size(u)
       PROVE  IF IsFree(less, j) THEN g[j] = 0 /\ u.all[j].refcount = 1
              ELSE g[j] = u.all[j].refcount
  <2>1. j \in Nat \ {0} /\ j \in 1 .. Size(saves)
    BY <1>3, <1>8 DEF Changed
  <2>2. g[j] = h[j] + (IF j = i THEN 1 ELSE 0)
    BY <2>1 DEF OneMore
  <2>3. IF IsFree(free, j) THEN h[j] = 0 /\ saves.all[j].refcount = 1
        ELSE h[j] = saves.all[j].refcount
    BY <2>1 DEF Counted
  <2>4. u.all[j] = IF j = i THEN r ELSE saves.all[j]
    BY <1>8, <2>1 DEF Changed
  <2>5. h[j] \in Nat
    BY <1>1, <2>1
  <2>6. CASE j = i
    <3>1. ~IsFree(less, j) /\ h[j] = 0
      BY <1>5, <1>13, <2>6
    <3>2. g[j] = 1 /\ u.all[j].refcount = 1
      BY <1>5, <2>2, <2>4, <2>6, <3>1
    <3> QED
      BY <3>1, <3>2
  <2>7. CASE j # i
    BY <1>12, <2>2, <2>3, <2>4, <2>5, <2>7
  <2> QED
    BY <2>6, <2>7
<1>15. ASSUME NEW j \in Nat, j > Size(u)
       PROVE  g[j] = 0
  <2>1. Size(u) = Size(saves)
    BY <1>8 DEF Changed
  <2>2. j # i /\ j # 0 /\ j > Size(saves)
    <3> DEFINE size == Size(saves)
    <3>1. j > size
      BY <1>15, <2>1
    <3>2. size \in Nat /\ i \in 1 .. size
      BY <1>3
    <3> HIDE DEF size
    <3>3. j # i /\ j # 0
      BY <3>1, <3>2, PastTheLast
    <3> QED
      BY <3>1, <3>3 DEF size
  <2>3. h[j] = 0
    BY <2>2 DEF Counted
  <2>4. g[j] = h[j] + (IF j = i THEN 1 ELSE 0)
    BY <2>2 DEF OneMore
  <2> QED
    BY <2>2, <2>3, <2>4
<1>16. Counted(u, V, less, g)
  BY <1>8, <1>11, <1>14, <1>15 DEF Counted, Changed
<1> QED
  BY <1>3, <1>8, <1>16 DEF Changed

LEMMA AllChanged ==
  ASSUME NEW V, NEW saves, IsSaves(saves, V), NEW x
  PROVE  [saves EXCEPT !.all = x] = [all |-> x, first_free |-> saves.first_free]
<1>1. saves = [all |-> saves.all, first_free |-> saves.first_free]
  BY DEF IsSaves
<1> QED
  BY <1>1

LEMMA NewSavesAreCounted ==
  ASSUME NEW saves, NEW V, NEW free, NEW h, Counted(saves, V, free, h),
         NEW from, NEW mask, NEW g \in [Nat -> Nat],
         NEW own, own = FirstFree(saves), OneMore(g, h, own)
  PROVE  /\ own \in 1 .. Size(NewSaves(saves, from, mask))
         /\ SoundSaves(NewSaves(saves, from, mask), g)
<1> DEFINE u == NewSaves(saves, from, mask)
           i == saves.first_free
<1>1. IsSaves(saves, V) /\ IsFreeList(saves, free)
  BY DEF Counted
<1>2. CASE i = None
  <2> DEFINE r == [refcount |-> 1, next_free |-> None, valid_mask |-> mask, pos |-> from]
             W == V \cup {mask, from}
  <2>1. Counted(saves, W, free, h)
    BY MoreValues
  <2>2. u = Extended(saves, r)
    <3> DEFINE x == Append(saves.all, r)
    <3> HIDE DEF x
    <3>1. [saves EXCEPT !.all = x] = [all |-> x, first_free |-> saves.first_free]
      BY <1>1, AllChanged
    <3>2. [saves EXCEPT !.all = Append(@, r)] = Extended(saves, r)
      BY <3>1, Zenon DEF Extended, x
    <3> QED
      BY <1>2, <3>2 DEF NewSaves
  <2>3. r \in SavesRecord(W) /\ r.refcount = 1
    BY DEF SavesRecord, None
  <2>4. own = Size(saves) + 1
    BY <1>2 DEF FirstFree, Size
  <2> HIDE DEF r, W, u
  <2>5. Counted(u, W, free, g) /\ own \in 1 .. Size(u)
    BY <1>2, <2>1, <2>2, <2>3, <2>4, AppendedSaves
  <2> QED
    BY <2>5 DEF SoundSaves, u
<1>3. CASE i # None
  <2> DEFINE old == saves.all[i]
             copy == CopiedInto(old.pos, from, mask)
             W == V \cup {mask, copy}
             r == [refcount |-> old.refcount, next_free |-> old.next_free,
                   valid_mask |-> mask, pos |-> copy]
  <2>1. Counted(saves, W, free, h)
    BY MoreValues
  <2>2. own = i
    BY <1>3 DEF FirstFree
  <2>3. i \in 1 .. Size(saves)
    <3>1. Len(free) # 0 /\ i = free[Len(free)]
      BY <1>1, <1>3 DEF IsFreeList
    <3>2. Len(free) \in 1 .. Len(free)
      BY <1>1, <3>1, LenProperties DEF IsFreeList
    <3> QED
      BY <1>1, <3>1, <3>2 DEF IsFreeList
  <2>4. old \in SavesRecord(V)
    BY <1>1, <2>3, SizeOfSaves
  <2>5. r \in SavesRecord(W) /\ r.refcount = old.refcount
    BY <2>4 DEF SavesRecord
  <2>6. u = With(saves, i, r, old.next_free)
    <3>1. [[old EXCEPT !.pos = copy] EXCEPT !.valid_mask = mask] = r
      <4> DEFINE x == [old EXCEPT !.pos = copy]
                 c == copy
      <4>1. old = [refcount |-> old.refcount, next_free |-> old.next_free,
                   valid_mask |-> old.valid_mask, pos |-> old.pos]
        BY <2>4 DEF SavesRecord
      <4> HIDE DEF copy
      <4>2. x = [refcount |-> old.refcount, next_free |-> old.next_free,
                 valid_mask |-> old.valid_mask, pos |-> copy]
        BY <4>1
      <4> HIDE DEF x
      <4>3. [x EXCEPT !.valid_mask = mask] = r
        BY <4>2
      <4> QED
        BY <4>3 DEF x
    <3>2. [saves.all EXCEPT ![i].pos = CopiedInto(@, from, mask), ![i].valid_mask = mask]
            = [saves.all EXCEPT ![i] = [[old EXCEPT !.pos = copy] EXCEPT !.valid_mask = mask]]
      <4>1. i \in DOMAIN saves.all
        BY <1>1, <2>3 DEF IsSaves, Size
      <4> QED
        BY <4>1
    <3> QED
      BY <1>3, <3>1, <3>2 DEF NewSaves, With
  <2> DEFINE next == old.next_free
  <2> HIDE DEF r, W, u, copy
  <2>7. own \in 1 .. Size(u) /\ (\E less : Counted(u, W, less, g))
    BY <1>3, <2>1, <2>2, <2>5, <2>6, TakenFromFree
  <2> QED
    BY <2>7 DEF SoundSaves, u
<1> QED
  BY <1>2, <1>3

LEMMA SameCount ==
  ASSUME NEW saves, NEW V, NEW free, NEW h, Counted(saves, V, free, h),
         NEW g \in [Nat -> Nat], \A j \in Nat \ {0} : g[j] = h[j]
  PROVE  Counted(saves, V, free, g)
<1>1. Size(saves) \in Nat
  BY SizeOfSaves DEF Counted
<1> QED
  BY <1>1 DEF Counted

(* A thread goes from the saves it shares to saves of its own. *)
LEMMA OwnSavesKeepsCount ==
  ASSUME NEW saves, NEW h, SoundSaves(saves, h), NEW i \in Nat,
         NEW mid \in [Nat -> Nat], NEW g \in [Nat -> Nat],
         NEW own, own = OwnIndex(saves, i), OneMore(h, mid, i), OneMore(g, mid, own)
  PROVE  /\ own \in 1 .. Size(OwnSaves(saves, i))
         /\ SoundSaves(OwnSaves(saves, i), g)
<1>1. PICK V, free : Counted(saves, V, free, h)
  BY DEF SoundSaves
<1>2. CASE i = None
  <2>1. Counted(saves, V, free, mid)
    BY <1>1, <1>2, OneMoreOfNone DEF None
  <2>2. own = FirstFree(saves) /\ OwnSaves(saves, i) = NewSaves(saves, Blank, {})
    BY <1>2 DEF OwnIndex, OwnSaves
  <2> DEFINE from == Blank
             mask == {}
  <2>3. OwnSaves(saves, i) = NewSaves(saves, from, mask)
    BY <2>2
  <2> HIDE DEF from, mask
  <2>4. /\ own \in 1 .. Size(NewSaves(saves, from, mask))
        /\ SoundSaves(NewSaves(saves, from, mask), g)
    BY <2>1, <2>2, NewSavesAreCounted
  <2> QED
    BY <2>3, <2>4
<1>3. CASE i # None /\ Shared(saves, i)
  <2> DEFINE less == [saves EXCEPT !.all[i].refcount = @ - 1]
             from == saves.all[i].pos
             mask == saves.all[i].valid_mask
  <2>1. OwnSaves(saves, i) = NewSaves(less, from, mask)
    BY <1>3 DEF OwnSaves
  <2> HIDE DEF less, from, mask
  <2>2. /\ Counted(less, V, free, mid)
        /\ Size(less) = Size(saves) /\ less.first_free = saves.first_free
    BY <1>1, <1>3, UnshareKeepsCount DEF less
  <2>3. own = FirstFree(less)
    BY <1>3, <2>2 DEF OwnIndex, FirstFree, Size
  <2>4. /\ own \in 1 .. Size(NewSaves(less, from, mask))
        /\ SoundSaves(NewSaves(less, from, mask), g)
    BY <2>2, <2>3, NewSavesAreCounted
  <2> QED
    BY <2>1, <2>4
<1>4. CASE i # None /\ ~Shared(saves, i)
  <2>1. own = i /\ OwnSaves(saves, i) = saves
    BY <1>4 DEF OwnIndex, OwnSaves
  <2>2. h[i] > 0 /\ i \in Nat \ {0}
    BY <1>1, <1>4 DEF OneMore, None, Counted
  <2>3. i \in 1 .. Size(saves)
    BY <1>1, <2>2, HeldIsCounted
  <2>4. ASSUME NEW j \in Nat \ {0}
        PROVE  g[j] = h[j]
    BY <2>1 DEF OneMore
  <2>5. Counted(saves, V, free, g)
    BY <1>1, <2>4, SameCount
  <2> QED
    BY <2>1, <2>3, <2>5 DEF SoundSaves
<1> QED
  BY <1>2, <1>3, <1>4

(* Writing a position. *)
Written(saves, own, index, at, bit) ==
    [saves EXCEPT !.all[own].pos[index] = at, !.all[own].valid_mask = @ \cup {bit}]

LEMMA WrittenKeepsCount ==
  ASSUME NEW saves, NEW h, SoundSaves(saves, h), NEW own \in 1 .. Size(saves),
         NEW index, NEW at, NEW bit
  PROVE  SoundSaves(Written(saves, own, index, at, bit), h)
<1>1. PICK V, free : Counted(saves, V, free, h)
  BY DEF SoundSaves
<1> DEFINE old == saves.all[own]
           p == [old.pos EXCEPT ![index] = at]
           m == old.valid_mask \cup {bit}
           W == V \cup {p, m}
           r == [refcount |-> old.refcount, next_free |-> old.next_free,
                 valid_mask |-> m, pos |-> p]
<1>2. Counted(saves, W, free, h) /\ IsSaves(saves, V)
  BY <1>1, MoreValues DEF Counted
<1>3. old \in SavesRecord(V) /\ own \in DOMAIN saves.all
  BY <1>2, SizeOfSaves DEF IsSaves, Size
<1>4. r \in SavesRecord(W) /\ r.refcount = old.refcount /\ r.next_free = old.next_free
  BY <1>3 DEF SavesRecord
<1>5. [[old EXCEPT !.pos = p] EXCEPT !.valid_mask = m] = r
  <2> DEFINE x == [old EXCEPT !.pos = p]
  <2>1. old = [refcount |-> old.refcount, next_free |-> old.next_free,
               valid_mask |-> old.valid_mask, pos |-> old.pos]
    BY <1>3 DEF SavesRecord
  <2> HIDE DEF p, m
  <2>2. x = [refcount |-> old.refcount, next_free |-> old.next_free,
             valid_mask |-> old.valid_mask, pos |-> p]
    BY <2>1
  <2> HIDE DEF x
  <2>3. [x EXCEPT !.valid_mask = m] = r
    BY <2>2
  <2> QED
    BY <2>3 DEF x
<1>6. Written(saves, own, index, at, bit) = With(saves, own, r, saves.first_free)
  <2>1. saves = [all |-> saves.all, first_free |-> saves.first_free]
    BY <1>2 DEF IsSaves
  <2>2. Written(saves, own, index, at, bit)
          = [saves EXCEPT !.all = [saves.all EXCEPT ![own] =
               [[old EXCEPT !.pos = p] EXCEPT !.valid_mask = m]]]
    BY <1>3, <2>1 DEF Written
  <2> DEFINE y == [saves.all EXCEPT ![own] = r]
  <2> HIDE DEF y
  <2>3. [saves EXCEPT !.all = y] = [all |-> y, first_free |-> saves.first_free]
    BY <1>2, AllChanged
  <2> QED
    BY <1>5, <2>2, <2>3 DEF With, y
<1> DEFINE u == Written(saves, own, index, at, bit)
<1> HIDE DEF r, W, u
<1>7. Counted(u, W, free, h)
  BY <1>2, <1>4, <1>6, SavedKeepsCount DEF u
<1> QED
  BY <1>7 DEF SoundSaves, u

-----------------------------------------------------------------------------
(* How often saves are held: counting in sequences.                         *)

Places(holders, i) == {k \in DOMAIN holders : holders[k] = i}
One(a, i) == IF a = i THEN 1 ELSE 0

LEMMA PlacesAreFinite ==
  ASSUME NEW s \in Seq(Nat), NEW i
  PROVE  /\ IsFiniteSet(Places(s, i)) /\ HeldBy(s, i) = Cardinality(Places(s, i))
         /\ HeldBy(s, i) \in Nat
<1>1. Len(s) \in Nat /\ DOMAIN s = 1 .. Len(s)
  BY LenProperties
<1>2. IsFiniteSet(1 .. Len(s))
  BY <1>1, FS_Interval
<1>3. Places(s, i) \in SUBSET (1 .. Len(s))
  BY <1>1 DEF Places
<1>4. IsFiniteSet(Places(s, i))
  BY <1>2, <1>3, FS_Subset
<1>5. HeldBy(s, i) = Cardinality(Places(s, i))
  BY DEF HeldBy, Places
<1> QED
  BY <1>4, <1>5, FS_CardinalityType

(* The same set, further on. *)
LEMMA ShiftedCount ==
  ASSUME NEW S \in SUBSET Nat, IsFiniteSet(S), NEW n \in Nat,
         NEW T, T = {k + n : k \in S}
  PROVE  IsFiniteSet(T) /\ Cardinality(T) = Cardinality(S)
<1> DEFINE f == [k \in S |-> k + n]
<1>1. f \in [S -> T] /\ (\A k \in S : f[k] = k + n)
  OBVIOUS
<1> HIDE DEF f
<1>2. \A j, k \in S : f[j] = f[k] => j = k
  BY <1>1
<1>3. \A t \in T : \E k \in S : f[k] = t
  BY <1>1
<1>4. f \in Bijection(S, T)
  BY <1>1, <1>2, <1>3 DEF Bijection, Injection, Surjection, IsInjective
<1>5. ExistsBijection(S, T)
  BY <1>4 DEF ExistsBijection
<1> QED
  BY <1>5, FS_Bijection

LEMMA HeldByConcat ==
  ASSUME NEW s \in Seq(Nat), NEW t \in Seq(Nat), NEW i
  PROVE  HeldBy(s \o t, i) = HeldBy(s, i) + HeldBy(t, i)
<1> DEFINE n == Len(s)
           m == Len(t)
           u == s \o t
           S == Places(s, i)
           T == Places(t, i)
           U == {k + n : k \in T}
<1>1. /\ n \in Nat /\ m \in Nat /\ DOMAIN s = 1 .. n /\ DOMAIN t = 1 .. m
      /\ u \in Seq(Nat) /\ Len(u) = n + m /\ DOMAIN u = 1 .. n + m
      /\ \A k \in 1 .. n + m : u[k] = IF k <= n THEN s[k] ELSE t[k - n]
  <2>1. n \in Nat /\ m \in Nat /\ DOMAIN s = 1 .. n /\ DOMAIN t = 1 .. m
    BY LenProperties
  <2>2. /\ u \in Seq(Nat) /\ Len(u) = n + m
        /\ \A k \in 1 .. n + m : u[k] = IF k <= n THEN s[k] ELSE t[k - n]
    BY ConcatProperties
  <2> HIDE DEF u
  <2>3. DOMAIN u = 1 .. Len(u)
    BY <2>2, LenProperties
  <2> QED
    BY <2>1, <2>2, <2>3
<1>2. /\ IsFiniteSet(S) /\ IsFiniteSet(T)
      /\ HeldBy(s, i) = Cardinality(S) /\ HeldBy(t, i) = Cardinality(T)
      /\ HeldBy(s, i) \in Nat /\ HeldBy(t, i) \in Nat
  BY PlacesAreFinite
<1>3. HeldBy(u, i) = Cardinality(Places(u, i))
  BY <1>1, PlacesAreFinite
<1> HIDE DEF n, m, u
<1>4. /\ \A k : k \in S <=> k \in 1 .. n /\ s[k] = i
      /\ \A k : k \in T <=> k \in 1 .. m /\ t[k] = i
      /\ \A k : k \in Places(u, i) <=> k \in 1 .. n + m /\ u[k] = i
  BY <1>1 DEF Places
<1> HIDE DEF S, T
<1>5. IsFiniteSet(U) /\ Cardinality(U) = Cardinality(T)
  <2>1. T \in SUBSET Nat
    BY <1>1, <1>4
  <2>2. U = {k + n : k \in T} /\ n \in Nat
    BY <1>1
  <2> HIDE DEF U
  <2> QED
    BY <1>2, <2>1, <2>2, ShiftedCount
<1>6. \A k : k \in U <=> k \in n + 1 .. n + m /\ t[k - n] = i
  <2>1. ASSUME NEW k \in U
        PROVE  k \in n + 1 .. n + m /\ t[k - n] = i
    <3>1. PICK j \in T : k = j + n
      OBVIOUS
    <3>2. j \in 1 .. m /\ t[j] = i
      BY <1>4
    <3>3. k - n = j /\ k \in n + 1 .. n + m
      BY <1>1, <3>1, <3>2
    <3> QED
      BY <3>2, <3>3
  <2>2. ASSUME NEW k \in n + 1 .. n + m, t[k - n] = i
        PROVE  k \in U
    <3>1. k - n \in 1 .. m /\ k = (k - n) + n
      BY <1>1
    <3>2. k - n \in T
      BY <1>4, <2>2, <3>1
    <3> QED
      BY <3>1, <3>2
  <2> QED
    BY <2>1, <2>2
<1> HIDE DEF U
<1>7. Places(u, i) = S \cup U
  <2>0. n \in Nat /\ m \in Nat
    BY <1>1
  <2>1. ASSUME NEW k \in 1 .. n + m
        PROVE  (k \in 1 .. n /\ k <= n) \/ (k \in n + 1 .. n + m /\ ~(k <= n))
    BY <2>0
  <2>2. ASSUME NEW k \in 1 .. n
        PROVE  k \in 1 .. n + m /\ k <= n
    BY <1>1
  <2>3. ASSUME NEW k \in n + 1 .. n + m
        PROVE  k \in 1 .. n + m /\ ~(k <= n)
    BY <1>1
  <2>4. \A k \in 1 .. n + m : u[k] = IF k <= n THEN s[k] ELSE t[k - n]
    BY <1>1
  <2>5. ASSUME NEW k
        PROVE  k \in Places(u, i) <=> k \in S \/ k \in U
    BY <1>4, <1>6, <2>1, <2>2, <2>3, <2>4
  <2> QED
    BY <2>5
<1>8. S \cap U = {}
  <2>1. ASSUME NEW k \in 1 .. n
        PROVE  k \notin n + 1 .. n + m
    BY <1>1
  <2> QED
    BY <1>4, <1>6, <2>1
<1>9. /\ Cardinality(S \cup U) = Cardinality(S) + Cardinality(U) - Cardinality(S \cap U)
      /\ Cardinality(S \cap U) = 0
  <2>1. Cardinality(S \cup U) = Cardinality(S) + Cardinality(U) - Cardinality(S \cap U)
    BY <1>2, <1>5, FS_Union
  <2> QED
    BY <1>8, <2>1, FS_EmptySet
<1>10. Cardinality(S) \in Nat /\ Cardinality(U) \in Nat
  BY <1>2, <1>5
<1>11. HeldBy(u, i) = HeldBy(s, i) + HeldBy(t, i)
  BY <1>2, <1>3, <1>5, <1>7, <1>9, <1>10
<1> QED
  BY <1>11 DEF u

LEMMA HeldByFew ==
  ASSUME NEW a \in Nat, NEW i
  PROVE  /\ HeldBy(<<>>, i) = 0 /\ HeldBy(<<a>>, i) = One(a, i)
         /\ <<>> \in Seq(Nat) /\ <<a>> \in Seq(Nat)
<1>1. DOMAIN <<>> = {} /\ <<>> \in Seq(Nat)
  OBVIOUS
<1>2. HeldBy(<<>>, i) = 0
  <2>1. {k \in DOMAIN <<>> : <<>>[k] = i} = {}
    BY <1>1
  <2> QED
    BY <2>1, FS_EmptySet DEF HeldBy
<1> DEFINE s == <<a>>
<1>3. DOMAIN s = {1} /\ s[1] = a /\ s \in Seq(Nat)
  OBVIOUS
<1> HIDE DEF s
<1>4. HeldBy(s, i) = One(a, i)
  <2> DEFINE S == {k \in DOMAIN s : s[k] = i}
  <2>1. S = IF a = i THEN {1} ELSE {}
    BY <1>3
  <2>2. Cardinality(S) = One(a, i)
    BY <2>1, FS_EmptySet, FS_Singleton DEF One
  <2> QED
    BY <2>2 DEF HeldBy
<1> QED
  BY <1>1, <1>2, <1>3, <1>4 DEF s

(* The threads of a stack hold saves. *)
Threads == [inst : Nat, saves : Nat]
SavesOf(s) == [k \in DOMAIN s |-> s[k].saves]
HeldIn(s, i) == HeldBy(SavesOf(s), i)

LEMMA SavesOfSeq ==
  ASSUME NEW s \in Seq(Threads)
  PROVE  /\ SavesOf(s) \in Seq(Nat) /\ Len(SavesOf(s)) = Len(s)
         /\ \A k \in 1 .. Len(s) : SavesOf(s)[k] = s[k].saves
<1> DEFINE n == Len(s)
<1>1. n \in Nat /\ DOMAIN s = 1 .. n
  BY LenProperties
<1>2. \A k \in 1 .. n : s[k] \in Threads
  BY ElementOfSeq
<1>3. \A k \in 1 .. n : s[k].saves \in Nat
  BY <1>2 DEF Threads
<1>4. SavesOf(s) = [k \in 1 .. n |-> s[k].saves]
  BY <1>1 DEF SavesOf
<1> DEFINE f == SavesOf(s)
<1> HIDE DEF f, n
<1>5. f \in [1 .. n -> Nat] /\ \A k \in 1 .. n : f[k] = s[k].saves
  BY <1>3, <1>4 DEF f
<1>6. f \in Seq(Nat) /\ Len(f) = n
  BY <1>1, <1>5, FunctionIsSeq
<1> QED
  BY <1>5, <1>6 DEF f, n

LEMMA SavesOfConcat ==
  ASSUME NEW s \in Seq(Threads), NEW t \in Seq(Threads)
  PROVE  SavesOf(s \o t) = SavesOf(s) \o SavesOf(t)
<1> DEFINE n == Len(s)
           m == Len(t)
           u == s \o t
           f == SavesOf(s)
           g == SavesOf(t)
           h == SavesOf(u)
           v == f \o g
<1>1. /\ n \in Nat /\ m \in Nat /\ u \in Seq(Threads) /\ Len(u) = n + m
      /\ \A k \in 1 .. n + m : u[k] = IF k <= n THEN s[k] ELSE t[k - n]
  BY ConcatProperties, LenProperties
<1>2. /\ f \in Seq(Nat) /\ Len(f) = n /\ \A k \in 1 .. n : f[k] = s[k].saves
  BY SavesOfSeq
<1>3. /\ g \in Seq(Nat) /\ Len(g) = m /\ \A k \in 1 .. m : g[k] = t[k].saves
  BY SavesOfSeq
<1> HIDE DEF u
<1>4. /\ h \in Seq(Nat) /\ Len(h) = n + m /\ \A k \in 1 .. n + m : h[k] = u[k].saves
  BY <1>1, SavesOfSeq
<1> HIDE DEF f, g, h, n, m
<1>5. /\ v \in Seq(Nat) /\ Len(v) = n + m
      /\ \A k \in 1 .. n + m : v[k] = IF k <= n THEN f[k] ELSE g[k - n]
  BY <1>2, <1>3, ConcatProperties
<1> HIDE DEF v
<1>6. ASSUME NEW k \in 1 .. n + m
      PROVE  h[k] = v[k]
  <2>0. n \in Nat /\ m \in Nat
    BY <1>1
  <2>1. CASE k <= n
    <3>1. k \in 1 .. n
      BY <2>0, <2>1
    <3> QED
      BY <1>1, <1>2, <1>4, <1>5, <2>1, <3>1
  <2>2. CASE ~(k <= n)
    <3>1. k - n \in 1 .. m
      BY <2>0, <2>2
    <3> QED
      BY <1>1, <1>3, <1>4, <1>5, <2>2, <3>1
  <2> QED
    BY <2>1, <2>2
<1>7. h = v
  BY <1>4, <1>5, <1>6, SeqEqual
<1> QED
  BY <1>7 DEF h, v, u, f, g

LEMMA HeldInConcat ==
  ASSUME NEW s \in Seq(Threads), NEW t \in Seq(Threads), NEW i
  PROVE  /\ HeldIn(s \o t, i) = HeldIn(s, i) + HeldIn(t, i)
         /\ HeldIn(s, i) \in Nat
<1> DEFINE f == SavesOf(s)
           g == SavesOf(t)
<1>1. f \in Seq(Nat) /\ g \in Seq(Nat)
  BY SavesOfSeq
<1>2. SavesOf(s \o t) = f \o g
  BY SavesOfConcat
<1> HIDE DEF f, g
<1>3. HeldBy(f \o g, i) = HeldBy(f, i) + HeldBy(g, i) /\ HeldBy(f, i) \in Nat
  BY <1>1, HeldByConcat, PlacesAreFinite
<1> QED
  BY <1>2, <1>3 DEF f, g, HeldIn

LEMMA HeldInOne ==
  ASSUME NEW t \in Threads, NEW i
  PROVE  <<t>> \in Seq(Threads) /\ HeldIn(<<t>>, i) = One(t.saves, i)
<1> DEFINE s == <<t>>
<1>1. s \in Seq(Threads) /\ Len(s) = 1 /\ DOMAIN s = {1} /\ s[1] = t
  OBVIOUS
<1> HIDE DEF s
<1>2. t.saves \in Nat
  BY DEF Threads
<1> DEFINE a == t.saves
<1>3. SavesOf(s) = <<a>>
  BY <1>1 DEF SavesOf
<1> HIDE DEF a
<1>4. HeldBy(<<a>>, i) = One(a, i)
  BY <1>2, HeldByFew DEF a
<1>5. HeldIn(s, i) = One(a, i)
  BY <1>3, <1>4 DEF HeldIn
<1> QED
  BY <1>1, <1>5 DEF s, a

LEMMA HeldInNone ==
  ASSUME NEW i
  PROVE  HeldIn(<<>>, i) = 0
<1>1. SavesOf(<<>>) = <<>>
  BY DEF SavesOf
<1>2. 0 \in Nat
  OBVIOUS
<1> QED
  BY <1>1, <1>2, HeldByFew DEF HeldIn

LEMMA HeldInPushed ==
  ASSUME NEW s \in Seq(Threads), NEW t \in Threads, NEW i
  PROVE  HeldIn(Pushed(t, s), i) = One(t.saves, i) + HeldIn(s, i)
<1> DEFINE u == <<t>>
<1>1. u \in Seq(Threads) /\ HeldIn(u, i) = One(t.saves, i)
  BY HeldInOne
<1>2. Pushed(t, s) = u \o s
  BY DEF Pushed
<1> HIDE DEF u
<1> QED
  BY <1>1, <1>2, HeldInConcat

LEMMA HeldInAppend ==
  ASSUME NEW s \in Seq(Threads), NEW t \in Threads, NEW i
  PROVE  HeldIn(Append(s, t), i) = HeldIn(s, i) + One(t.saves, i)
<1> DEFINE u == <<t>>
<1>1. u \in Seq(Threads) /\ HeldIn(u, i) = One(t.saves, i)
  BY HeldInOne
<1>2. Append(s, t) = s \o u
  BY AppendIsConcat
<1> HIDE DEF u
<1> QED
  BY <1>1, <1>2, HeldInConcat

LEMMA HeldInTail ==
  ASSUME NEW s \in Seq(Threads), s # <<>>, NEW i
  PROVE  /\ HeldIn(s, i) = One(Head(s).saves, i) + HeldIn(Tail(s), i)
         /\ Head(s) \in Threads /\ Tail(s) \in Seq(Threads)
<1> DEFINE t == Head(s)
           r == Tail(s)
           p == Pushed(t, r)
           u == <<t>>
<1>1. /\ t \in Threads /\ r \in Seq(Threads) /\ Len(s) \in Nat \ {0}
      /\ Len(r) = Len(s) - 1 /\ \A k \in 1 .. Len(r) : r[k] = s[k + 1]
  BY HeadTailProperties, EmptySeq
<1>2. t = s[1]
  BY <1>1
<1> HIDE DEF t, r
<1>3. u \in Seq(Threads) /\ Len(u) = 1 /\ u[1] = t
  BY <1>1
<1> HIDE DEF u
<1>4. p = u \o r
  BY DEF Pushed, u
<1> HIDE DEF p
<1>5. /\ p \in Seq(Threads) /\ Len(p) = Len(u) + Len(r)
      /\ \A k \in 1 .. Len(u) + Len(r) : p[k] = IF k <= Len(u) THEN u[k] ELSE r[k - Len(u)]
  <2>1. /\ u \o r \in Seq(Threads) /\ Len(u \o r) = Len(u) + Len(r)
        /\ \A k \in 1 .. Len(u) + Len(r) :
              (u \o r)[k] = IF k <= Len(u) THEN u[k] ELSE r[k - Len(u)]
    BY <1>1, <1>3, ConcatProperties
  <2> QED
    BY <1>4, <2>1
<1>6. ASSUME NEW k \in 1 .. Len(s)
      PROVE  p[k] = s[k]
  <2>1. k \in 1 .. Len(u) + Len(r)
    BY <1>1, <1>3
  <2>2. p[k] = IF k <= 1 THEN u[k] ELSE r[k - 1]
    BY <1>3, <1>5, <2>1
  <2>3. CASE k = 1
    BY <1>2, <1>3, <2>2, <2>3
  <2>4. CASE k # 1
    <3>1. k - 1 \in 1 .. Len(r) /\ (k - 1) + 1 = k /\ ~(k <= 1)
      BY <1>1, <2>4
    <3>2. r[k - 1] = s[(k - 1) + 1]
      BY <1>1, <3>1
    <3> QED
      BY <2>2, <3>1, <3>2
  <2> QED
    BY <2>3, <2>4
<1>7. Len(p) = Len(s)
  BY <1>1, <1>3, <1>5
<1>8. p = s
  BY <1>5, <1>6, <1>7, SeqEqual
<1>9. HeldIn(p, i) = One(t.saves, i) + HeldIn(r, i)
  BY <1>1, HeldInPushed DEF p
<1> QED
  BY <1>1, <1>8, <1>9 DEF t, r

LEMMA HeldInFront ==
  ASSUME NEW s \in Seq(Threads), NEW n \in Nat \ {0}, Len(s) = n, NEW i
  PROVE  /\ HeldIn(s, i) = HeldIn(SubSeq(s, 1, n - 1), i) + One(s[n].saves, i)
         /\ SubSeq(s, 1, n - 1) \in Seq(Threads) /\ s[n] \in Threads
<1> DEFINE f == SubSeq(s, 1, n - 1)
           t == s[n]
           u == <<t>>
<1>1. 1 \in 1 .. Len(s) /\ n \in 1 .. Len(s)
  OBVIOUS
<1>2. t \in Threads
  BY <1>1, ElementOfSeq
<1>3. f \in Seq(Threads)
  <2> DEFINE m == n - 1
  <2>1. m \in Int /\ \A k \in 1 .. m : k \in 1 .. Len(s)
    OBVIOUS
  <2>2. \A k \in 1 .. m : s[k] \in Threads
    BY <2>1, ElementOfSeq
  <2> HIDE DEF m
  <2>3. SubSeq(s, 1, m) \in Seq(Threads)
    BY <2>1, <2>2, SubSeqProperties
  <2> QED
    BY <2>3 DEF m
<1>4. s = f \o u
  <2>1. s = SubSeq(s, 1, n)
    BY SubSeqFull
  <2>2. SubSeq(s, 1, n) = f \o u
    BY <1>1, SubSeqRecursiveSecond
  <2> QED
    BY <2>1, <2>2
<1>5. u \in Seq(Threads) /\ HeldIn(u, i) = One(t.saves, i)
  BY <1>2, HeldInOne
<1> HIDE DEF f, u
<1>6. HeldIn(f \o u, i) = HeldIn(f, i) + HeldIn(u, i)
  BY <1>3, <1>5, HeldInConcat
<1>7. HeldIn(s, i) = HeldIn(f, i) + HeldIn(u, i)
  BY <1>4, <1>6
<1> QED
  BY <1>2, <1>3, <1>5, <1>7 DEF f

-----------------------------------------------------------------------------
(* Who holds what: the threads of a step, those of the next one, the thread *)
(* being stepped and the captures.                                          *)

HeldOf(c, n, s, x) ==
    [i \in Nat |-> HeldIn(c, i) + HeldIn(n, i) + One(s, i) + One(x, i)]

LEMMA HeldAt ==
  ASSUME NEW c \in Seq(Threads), NEW n \in Seq(Threads), NEW s, NEW x
  PROVE  /\ HeldOf(c, n, s, x) \in [Nat -> Nat]
         /\ \A i \in Nat : HeldOf(c, n, s, x)[i]
                             = HeldIn(c, i) + HeldIn(n, i) + One(s, i) + One(x, i)
<1>1. ASSUME NEW i \in Nat
      PROVE  /\ HeldIn(c, i) \in Nat /\ HeldIn(n, i) \in Nat
             /\ One(s, i) \in Nat /\ One(x, i) \in Nat
  BY HeldInConcat DEF One
<1>2. ASSUME NEW i \in Nat
      PROVE  HeldIn(c, i) + HeldIn(n, i) + One(s, i) + One(x, i) \in Nat
  <2> DEFINE p == HeldIn(c, i)
             q == HeldIn(n, i)
             u == One(s, i)
             v == One(x, i)
  <2>1. p \in Nat /\ q \in Nat /\ u \in Nat /\ v \in Nat
    BY <1>1
  <2> HIDE DEF p, q, u, v
  <2>2. p + q + u + v \in Nat
    BY <2>1
  <2> QED
    BY <2>2 DEF p, q, u, v
<1> QED
  BY <1>2 DEF HeldOf

LEMMA HeldInIsNat ==
  ASSUME NEW c \in Seq(Threads), NEW i
  PROVE  HeldIn(c, i) \in Nat
BY HeldInConcat

LEMMA OneAt ==
  ASSUME NEW i, NEW j
  PROVE  One(i, j) = (IF j = i THEN 1 ELSE 0) /\ One(i, j) \in Nat
BY DEF One

LEMMA OneOfNone ==
  ASSUME NEW j \in Nat \ {0}
  PROVE  One(None, j) = 0
BY DEF One, None

(* The thread being stepped ends.                                           *)
LEMMA HeldByThread ==
  ASSUME NEW c \in Seq(Threads), NEW n \in Seq(Threads), NEW s, NEW x
  PROVE  OneMore(HeldOf(c, n, s, x), HeldOf(c, n, None, x), s)
<1> SUFFICES ASSUME NEW j \in Nat \ {0}
             PROVE  HeldOf(c, n, s, x)[j]
                      = HeldOf(c, n, None, x)[j] + (IF j = s THEN 1 ELSE 0)
  BY DEF OneMore
<1>1. /\ HeldOf(c, n, s, x)[j] = HeldIn(c, j) + HeldIn(n, j) + One(s, j) + One(x, j)
      /\ HeldOf(c, n, None, x)[j]
           = HeldIn(c, j) + HeldIn(n, j) + One(None, j) + One(x, j)
  BY HeldAt
<1>2. /\ HeldIn(c, j) \in Nat /\ HeldIn(n, j) \in Nat /\ One(x, j) \in Nat
      /\ One(s, j) = (IF j = s THEN 1 ELSE 0) /\ One(None, j) = 0
  BY HeldInIsNat, OneAt, OneOfNone
<1> QED
  BY <1>1, <1>2

(* The captures are let go, and a new thread may start.                     *)
LEMMA HeldByCaptures ==
  ASSUME NEW c \in Seq(Threads), NEW n \in Seq(Threads), NEW s, NEW x,
         NEW d \in Seq(Threads), NEW t \in Threads, t.saves = None,
         d = c \/ d = Pushed(t, c)
  PROVE  OneMore(HeldOf(c, n, s, x), HeldOf(d, n, s, None), x)
<1> SUFFICES ASSUME NEW j \in Nat \ {0}
             PROVE  HeldOf(c, n, s, x)[j]
                      = HeldOf(d, n, s, None)[j] + (IF j = x THEN 1 ELSE 0)
  BY DEF OneMore
<1>1. /\ HeldOf(c, n, s, x)[j] = HeldIn(c, j) + HeldIn(n, j) + One(s, j) + One(x, j)
      /\ HeldOf(d, n, s, None)[j]
           = HeldIn(d, j) + HeldIn(n, j) + One(s, j) + One(None, j)
  BY HeldAt
<1>2. /\ HeldIn(c, j) \in Nat /\ HeldIn(n, j) \in Nat /\ One(s, j) \in Nat
      /\ One(x, j) = (IF j = x THEN 1 ELSE 0) /\ One(None, j) = 0
  BY HeldInIsNat, OneAt, OneOfNone
<1>3. HeldIn(d, j) = HeldIn(c, j)
  <2>1. HeldIn(Pushed(t, c), j) = One(t.saves, j) + HeldIn(c, j)
    BY HeldInPushed
  <2> QED
    BY <1>2, <2>1
<1> QED
  BY <1>1, <1>2, <1>3

(* The thread matched: what it holds are the captures now.                  *)
LEMMA HeldByMatch ==
  ASSUME NEW c \in Seq(Threads), NEW n \in Seq(Threads), NEW s, NEW x
  PROVE  OneMore(HeldOf(c, n, s, x), HeldOf(c, n, None, s), x)
<1> SUFFICES ASSUME NEW j \in Nat \ {0}
             PROVE  HeldOf(c, n, s, x)[j]
                      = HeldOf(c, n, None, s)[j] + (IF j = x THEN 1 ELSE 0)
  BY DEF OneMore
<1>1. /\ HeldOf(c, n, s, x)[j] = HeldIn(c, j) + HeldIn(n, j) + One(s, j) + One(x, j)
      /\ HeldOf(c, n, None, s)[j]
           = HeldIn(c, j) + HeldIn(n, j) + One(None, j) + One(s, j)
  BY HeldAt
<1>2. /\ HeldIn(c, j) \in Nat /\ HeldIn(n, j) \in Nat /\ One(s, j) \in Nat
      /\ One(x, j) = (IF j = x THEN 1 ELSE 0) /\ One(None, j) = 0
  BY HeldInIsNat, OneAt, OneOfNone
<1> QED
  BY <1>1, <1>2

(* The first of the current threads goes.                                   *)
LEMMA HeldByTop ==
  ASSUME NEW c \in Seq(Threads), NEW n \in Seq(Threads), NEW s, NEW x, c # <<>>
  PROVE  /\ OneMore(HeldOf(c, n, s, x), HeldOf(Tail(c), n, s, x), Head(c).saves)
         /\ \A j \in Nat \ {0} :
               HeldOf(Tail(c), n, Head(c).saves, x)[j] = HeldOf(c, n, None, x)[j]
         /\ Tail(c) \in Seq(Threads) /\ Head(c) \in Threads
<1> DEFINE d == Tail(c)
           a == Head(c).saves
<1>1. /\ d \in Seq(Threads) /\ Head(c) \in Threads
      /\ \A j : HeldIn(c, j) = One(a, j) + HeldIn(d, j)
  BY HeldInTail
<1> HIDE DEF d, a
<1>2. ASSUME NEW j \in Nat \ {0}
      PROVE  /\ HeldOf(c, n, s, x)[j] = HeldOf(d, n, s, x)[j] + (IF j = a THEN 1 ELSE 0)
             /\ HeldOf(d, n, a, x)[j] = HeldOf(c, n, None, x)[j]
  <2>1. /\ HeldOf(c, n, s, x)[j] = HeldIn(c, j) + HeldIn(n, j) + One(s, j) + One(x, j)
        /\ HeldOf(c, n, None, x)[j]
             = HeldIn(c, j) + HeldIn(n, j) + One(None, j) + One(x, j)
        /\ HeldOf(d, n, s, x)[j] = HeldIn(d, j) + HeldIn(n, j) + One(s, j) + One(x, j)
        /\ HeldOf(d, n, a, x)[j] = HeldIn(d, j) + HeldIn(n, j) + One(a, j) + One(x, j)
    <3>1. /\ HeldOf(c, n, s, x)[j] = HeldIn(c, j) + HeldIn(n, j) + One(s, j) + One(x, j)
          /\ HeldOf(c, n, None, x)[j]
               = HeldIn(c, j) + HeldIn(n, j) + One(None, j) + One(x, j)
      BY HeldAt
    <3>2. d \in Seq(Threads) /\ j \in Nat
      BY <1>1
    <3>3. /\ HeldOf(d, n, s, x)[j] = HeldIn(d, j) + HeldIn(n, j) + One(s, j) + One(x, j)
          /\ HeldOf(d, n, a, x)[j] = HeldIn(d, j) + HeldIn(n, j) + One(a, j) + One(x, j)
      BY <3>2, HeldAt
    <3> QED
      BY <3>1, <3>3
  <2>2. /\ HeldIn(c, j) = One(a, j) + HeldIn(d, j)
        /\ HeldIn(d, j) \in Nat /\ HeldIn(n, j) \in Nat /\ One(s, j) \in Nat
        /\ One(x, j) \in Nat /\ One(a, j) \in Nat
        /\ One(a, j) = (IF j = a THEN 1 ELSE 0) /\ One(None, j) = 0
    BY <1>1, HeldInIsNat, OneAt, OneOfNone
  <2> QED
    BY <2>1, <2>2
<1>3. OneMore(HeldOf(c, n, s, x), HeldOf(d, n, s, x), a)
  BY <1>2 DEF OneMore
<1> QED
  BY <1>1, <1>2, <1>3 DEF d, a

(* A thread waits for the next step, or the last that waits is dropped.     *)
LEMMA HeldByNext ==
  ASSUME NEW c \in Seq(Threads), NEW n \in Seq(Threads), NEW x, NEW t \in Threads
  PROVE  /\ Append(n, t) \in Seq(Threads)
         /\ \A j \in Nat \ {0} :
               HeldOf(c, Append(n, t), None, x)[j] = HeldOf(c, n, t.saves, x)[j]
<1> DEFINE m == Append(n, t)
           a == t.saves
<1>1. m \in Seq(Threads) /\ \A j : HeldIn(m, j) = HeldIn(n, j) + One(a, j)
  BY AppendProperties, HeldInAppend
<1> HIDE DEF m, a
<1>2. ASSUME NEW j \in Nat \ {0}
      PROVE  HeldOf(c, m, None, x)[j] = HeldOf(c, n, a, x)[j]
  <2>1. /\ HeldOf(c, m, None, x)[j]
             = HeldIn(c, j) + HeldIn(m, j) + One(None, j) + One(x, j)
        /\ HeldOf(c, n, a, x)[j] = HeldIn(c, j) + HeldIn(n, j) + One(a, j) + One(x, j)
    BY <1>1, HeldAt
  <2>2. /\ HeldIn(c, j) \in Nat /\ HeldIn(n, j) \in Nat /\ One(x, j) \in Nat
        /\ One(a, j) \in Nat /\ One(None, j) = 0 /\ HeldIn(m, j) = HeldIn(n, j) + One(a, j)
    BY <1>1, HeldInIsNat, OneAt, OneOfNone
  <2> QED
    BY <2>1, <2>2
<1> QED
  BY <1>1, <1>2 DEF m, a

LEMMA HeldByLast ==
  ASSUME NEW c \in Seq(Threads), NEW n \in Seq(Threads), NEW s, NEW x,
         NEW k \in Nat \ {0}, Len(n) = k
  PROVE  /\ OneMore(HeldOf(c, n, s, x), HeldOf(c, SubSeq(n, 1, k - 1), s, x), n[k].saves)
         /\ SubSeq(n, 1, k - 1) \in Seq(Threads) /\ n[k] \in Threads
<1> DEFINE m == SubSeq(n, 1, k - 1)
           a == n[k].saves
<1>1. /\ m \in Seq(Threads) /\ n[k] \in Threads
      /\ \A j : HeldIn(n, j) = HeldIn(m, j) + One(a, j)
  BY HeldInFront
<1> HIDE DEF m, a
<1>2. ASSUME NEW j \in Nat \ {0}
      PROVE  HeldOf(c, n, s, x)[j] = HeldOf(c, m, s, x)[j] + (IF j = a THEN 1 ELSE 0)
  <2>1. /\ HeldOf(c, n, s, x)[j] = HeldIn(c, j) + HeldIn(n, j) + One(s, j) + One(x, j)
        /\ HeldOf(c, m, s, x)[j] = HeldIn(c, j) + HeldIn(m, j) + One(s, j) + One(x, j)
    BY <1>1, HeldAt
  <2>2. /\ HeldIn(c, j) \in Nat /\ HeldIn(m, j) \in Nat /\ One(x, j) \in Nat
        /\ One(s, j) \in Nat
        /\ One(a, j) = (IF j = a THEN 1 ELSE 0) /\ HeldIn(n, j) = HeldIn(m, j) + One(a, j)
    BY <1>1, HeldInIsNat, OneAt
  <2> QED
    BY <2>1, <2>2
<1> QED
  BY <1>1, <1>2 DEF m, a, OneMore

(* A thread forks.                                                          *)
LEMMA HeldByFork ==
  ASSUME NEW c \in Seq(Threads), NEW n \in Seq(Threads), NEW s, NEW x,
         NEW t \in Threads, t.saves = s
  PROVE  /\ OneMore(HeldOf(Pushed(t, c), n, s, x), HeldOf(c, n, s, x), s)
         /\ Pushed(t, c) \in Seq(Threads)
         /\ s \in Nat /\ HeldOf(c, n, s, x)[s] > 0
<1> DEFINE d == Pushed(t, c)
<1>1. d \in Seq(Threads)
  <2> DEFINE u == <<t>>
  <2>1. u \in Seq(Threads)
    BY HeldInOne
  <2>2. d = u \o c
    BY DEF Pushed
  <2> HIDE DEF u, d
  <2> QED
    BY <2>1, <2>2, ConcatProperties
<1>2. \A j : HeldIn(d, j) = One(s, j) + HeldIn(c, j)
  BY HeldInPushed
<1>3. s \in Nat
  BY DEF Threads
<1> HIDE DEF d
<1>4. ASSUME NEW j \in Nat \ {0}
      PROVE  HeldOf(d, n, s, x)[j] = HeldOf(c, n, s, x)[j] + (IF j = s THEN 1 ELSE 0)
  <2>1. /\ HeldOf(d, n, s, x)[j] = HeldIn(d, j) + HeldIn(n, j) + One(s, j) + One(x, j)
        /\ HeldOf(c, n, s, x)[j] = HeldIn(c, j) + HeldIn(n, j) + One(s, j) + One(x, j)
    BY <1>1, HeldAt
  <2>2. /\ HeldIn(c, j) \in Nat /\ HeldIn(n, j) \in Nat /\ One(x, j) \in Nat
        /\ One(s, j) \in Nat
        /\ One(s, j) = (IF j = s THEN 1 ELSE 0) /\ HeldIn(d, j) = One(s, j) + HeldIn(c, j)
    BY <1>2, HeldInIsNat, OneAt
  <2> QED
    BY <2>1, <2>2
<1>5. HeldOf(c, n, s, x)[s] > 0
  <2>1. HeldOf(c, n, s, x)[s] = HeldIn(c, s) + HeldIn(n, s) + One(s, s) + One(x, s)
    BY <1>3, HeldAt
  <2>2. /\ HeldIn(c, s) \in Nat /\ HeldIn(n, s) \in Nat /\ One(x, s) \in Nat
        /\ One(s, s) = 1
    BY HeldInIsNat, OneAt
  <2> QED
    BY <2>1, <2>2
<1>6. OneMore(HeldOf(d, n, s, x), HeldOf(c, n, s, x), s)
  BY <1>4 DEF OneMore
<1> QED
  BY <1>1, <1>3, <1>5, <1>6 DEF d

(* The step ends: the next threads are the current ones.                    *)
LEMMA HeldBySwap ==
  ASSUME NEW n \in Seq(Threads), NEW s, NEW x
  PROVE  /\ HeldOf(n, <<>>, s, x) = HeldOf(<<>>, n, s, x)
         /\ <<>> \in Seq(Threads)
<1> DEFINE e == <<>>
<1>1. e \in Seq(Threads)
  OBVIOUS
<1>2. ASSUME NEW j \in Nat
      PROVE  HeldIn(n, j) + HeldIn(e, j) + One(s, j) + One(x, j)
               = HeldIn(e, j) + HeldIn(n, j) + One(s, j) + One(x, j)
  <2>1. HeldIn(n, j) \in Nat /\ HeldIn(e, j) \in Nat
    BY <1>1, HeldInIsNat
  <2> QED
    BY <2>1
<1> HIDE DEF e
<1>3. HeldOf(n, e, s, x) = HeldOf(e, n, s, x)
  BY <1>2 DEF HeldOf
<1> QED
  BY <1>1, <1>3 DEF e

-----------------------------------------------------------------------------
(* The threads of a program stay in it, and its saves are held as counted.  *)

Running == [inst : DOMAIN Insts, saves : Nat]

VMTypeOK ==
    /\ IsProgram(program)
    /\ IsRing(m_threads, Threads)
    /\ Current(m_threads) \in Seq(Running)
    /\ NextThreads(m_threads) \in Seq(Running)
    /\ thread \in Running \cup {Idle, Matched}
    /\ m_captures \in Nat

Held == HeldOf(Current(m_threads), NextThreads(m_threads), thread.saves, m_captures)

VMInv == VMTypeOK /\ SoundSaves(m_saves, Held)

LEMMA ProgramFacts ==
  ASSUME IsProgram(program)
  PROVE  /\ Len(Insts) \in Nat \ {0} /\ DOMAIN Insts = 1 .. Len(Insts)
         /\ 1 \in DOMAIN Insts
         /\ Insts[Len(Insts)].op = "Match"
         /\ \A i \in DOMAIN Insts : Followers(Insts, i) \subseteq DOMAIN Insts
<1> DEFINE code == program.instructions
           S == {code[i] : i \in DOMAIN code}
<1>1. /\ code \in Seq(S) /\ code # <<>> /\ code[Len(code)].op = "Match"
      /\ \A i \in DOMAIN code : Followers(code, i) \subseteq DOMAIN code
  BY DEF IsProgram
<1> HIDE DEF S
<1>2. Len(code) \in Nat /\ DOMAIN code = 1 .. Len(code) /\ Len(code) # 0
  BY <1>1, LenProperties, EmptySeq
<1> QED
  BY <1>1, <1>2 DEF Insts

LEMMA RunningIsThread ==
  ASSUME IsProgram(program)
  PROVE  /\ Running \subseteq Threads /\ NewThread \in Running
         /\ \A s \in Seq(Running) : s \in Seq(Threads)
<1>1. DOMAIN Insts \subseteq Nat /\ 1 \in DOMAIN Insts
  BY ProgramFacts
<1>2. Running \subseteq Threads /\ NewThread \in Running
  BY <1>1 DEF Running, Threads, NewThread, None
<1> DEFINE R == Running
           T == Threads
<1> HIDE DEF R, T
<1>3. R \subseteq T
  BY <1>2 DEF R, T
<1>4. \A s \in Seq(R) : s \in Seq(T)
  BY <1>3, SeqMonotonic
<1> QED
  BY <1>2, <1>4 DEF R, T

LEMMA StacksOf ==
  ASSUME NEW R, NEW c \in Seq(R), NEW t \in R
  PROVE  /\ Pushed(t, c) \in Seq(R) /\ Append(c, t) \in Seq(R)
         /\ c # <<>> => Tail(c) \in Seq(R) /\ Head(c) \in R
<1> DEFINE u == <<t>>
<1>1. u \in Seq(R)
  OBVIOUS
<1>2. Pushed(t, c) = u \o c
  BY DEF Pushed
<1> HIDE DEF u
<1> QED
  BY <1>1, <1>2, ConcatProperties, AppendProperties, HeadTailProperties

LEMMA FrontIsStack ==
  ASSUME NEW R, NEW n \in Seq(R), NEW k \in Nat \ {0}, Len(n) = k
  PROVE  SubSeq(n, 1, k - 1) \in Seq(R)
<1> DEFINE m == k - 1
<1>1. m \in Int /\ \A i \in 1 .. m : i \in 1 .. Len(n)
  OBVIOUS
<1>2. \A i \in 1 .. m : n[i] \in R
  BY <1>1, ElementOfSeq
<1> HIDE DEF m
<1>3. SubSeq(n, 1, m) \in Seq(R)
  BY <1>1, <1>2, SubSeqProperties
<1> QED
  BY <1>3 DEF m

LEMMA TypeFacts ==
  ASSUME VMTypeOK
  PROVE  /\ IsProgram(program) /\ IsRing(m_threads, Threads)
         /\ Current(m_threads) \in Seq(Threads) /\ NextThreads(m_threads) \in Seq(Threads)
         /\ Current(m_threads) \in Seq(Running) /\ NextThreads(m_threads) \in Seq(Running)
         /\ thread \in Running \cup {Idle, Matched}
         /\ thread.saves \in Nat /\ m_captures \in Nat
         /\ thread \notin {Idle, Matched} => thread \in Running
         /\ thread \in {Idle, Matched} => thread.saves = None
<1>1. /\ IsProgram(program) /\ IsRing(m_threads, Threads)
      /\ Current(m_threads) \in Seq(Running) /\ NextThreads(m_threads) \in Seq(Running)
      /\ thread \in Running \cup {Idle, Matched} /\ m_captures \in Nat
  BY DEF VMTypeOK
<1>2. Current(m_threads) \in Seq(Threads) /\ NextThreads(m_threads) \in Seq(Threads)
  BY <1>1, RunningIsThread
<1>3. thread.saves \in Nat
  BY <1>1 DEF Running, Idle, Matched, None
<1>4. thread \in {Idle, Matched} => thread.saves = None
  BY DEF Idle, Matched
<1> QED
  BY <1>1, <1>2, <1>3, <1>4

LEMMA NextVMInv ==
  ASSUME VMTypeOK, program' = program, NEW ring, ring = m_threads',
         IsRing(ring, Threads), Current(ring) \in Seq(Running),
         NextThreads(ring) \in Seq(Running),
         thread' \in Running \cup {Idle, Matched}, m_captures' \in Nat,
         SoundSaves(m_saves', HeldOf(Current(ring), NextThreads(ring), thread'.saves,
                                     m_captures'))
  PROVE  VMInv'
<1>1. Running' = Running
  BY DEF Running, Insts
<1>2. IsProgram(program)'
  BY DEF VMTypeOK, IsProgram, Followers
<1>3. VMTypeOK'
  BY <1>1, <1>2 DEF VMTypeOK
<1>4. Held' = HeldOf(Current(ring), NextThreads(ring), thread'.saves, m_captures')
  BY DEF Held
<1> QED
  BY <1>3, <1>4 DEF VMInv

LEMMA SameSound ==
  ASSUME NEW saves, NEW h, SoundSaves(saves, h), NEW g, g \in [Nat -> Nat],
         \A j \in Nat \ {0} : g[j] = h[j]
  PROVE  SoundSaves(saves, g)
<1>1. PICK V, free : Counted(saves, V, free, h)
  BY DEF SoundSaves
<1>2. Counted(saves, V, free, g)
  BY <1>1, SameCount
<1> QED
  BY <1>2 DEF SoundSaves

LEMMA VMStarts ==
  ASSUME IsProgram(program), InitVM
  PROVE  VMInv
<1> DEFINE e == <<>>
           none == [j \in Nat |-> 0]
<1>1. /\ m_threads = EmptyRing(Idle) /\ m_saves = NoSaves /\ m_captures = None
      /\ thread = Idle
  BY DEF InitVM
<1>2. Idle \in Threads
  BY DEF Idle, Threads, None
<1>3. IsRing(m_threads, Threads) /\ Current(m_threads) = e /\ NextThreads(m_threads) = e
  BY <1>1, <1>2, EmptyRingHolds
<1>4. e \in Seq(Running) /\ e \in Seq(Threads)
  OBVIOUS
<1>5. VMTypeOK
  BY <1>1, <1>3, <1>4 DEF VMTypeOK, None
<1>6. Counted(NoSaves, {}, e, none)
  <2>1. NoSaves.all = <<>> /\ NoSaves.first_free = 0 /\ Size(NoSaves) = 0
    BY DEF NoSaves, None, Size
  <2>2. IsSaves(NoSaves, {})
    <3>1. <<>> \in Seq(SavesRecord({}))
      OBVIOUS
    <3> QED
      BY <3>1 DEF IsSaves, NoSaves, None
  <2>3. IsFreeList(NoSaves, e)
    <3>1. e \in Seq(Nat) /\ Len(e) = 0
      OBVIOUS
    <3> QED
      BY <2>1, <3>1 DEF IsFreeList, None
  <2> QED
    BY <2>1, <2>2, <2>3 DEF Counted
<1>7. SoundSaves(m_saves, none)
  BY <1>1, <1>6 DEF SoundSaves
<1>8. Held \in [Nat -> Nat] /\ \A j \in Nat \ {0} : Held[j] = none[j]
  <2>1. Held = HeldOf(e, e, None, None)
    BY <1>1, <1>3 DEF Held, Idle
  <2> DEFINE h == HeldOf(e, e, None, None)
  <2>2. h \in [Nat -> Nat] /\ \A j \in Nat : h[j] = HeldIn(e, j) + HeldIn(e, j)
                                                    + One(None, j) + One(None, j)
    <3> DEFINE z == None
    <3>1. e \in Seq(Threads)
      BY <1>4
    <3> HIDE DEF z, e
    <3>2. /\ HeldOf(e, e, z, z) \in [Nat -> Nat]
          /\ \A j \in Nat : HeldOf(e, e, z, z)[j]
                               = HeldIn(e, j) + HeldIn(e, j) + One(z, j) + One(z, j)
      BY <3>1, HeldAt
    <3> QED
      BY <3>2 DEF z
  <2>3. \A j \in Nat \ {0} : HeldIn(e, j) = 0 /\ One(None, j) = 0 /\ none[j] = 0
    BY HeldInNone, OneOfNone
  <2> HIDE DEF h, none, e
  <2>4. \A j \in Nat \ {0} : h[j] = 0
    BY <2>2, <2>3
  <2> QED
    BY <2>1, <2>2, <2>3, <2>4 DEF h
<1> HIDE DEF none
<1>9. SoundSaves(m_saves, Held)
  BY <1>7, <1>8, SameSound
<1> QED
  BY <1>5, <1>9 DEF VMInv

(* One lemma for each way a step may go.                                    *)

LEMMA StaysVMInv ==
  ASSUME VMInv, UNCHANGED <<program, m_threads, m_saves, m_captures, thread>>
  PROVE  VMInv'
<1> DEFINE ring == m_threads
<1>1. /\ VMTypeOK /\ program' = program /\ ring = m_threads'
      /\ IsRing(ring, Threads) /\ Current(ring) \in Seq(Running)
      /\ NextThreads(ring) \in Seq(Running)
      /\ thread' \in Running \cup {Idle, Matched} /\ m_captures' \in Nat
  BY DEF VMInv, VMTypeOK
<1>2. SoundSaves(m_saves', HeldOf(Current(ring), NextThreads(ring), thread'.saves,
                                  m_captures'))
  BY DEF VMInv, Held
<1> HIDE DEF ring
<1> QED
  BY <1>1, <1>2, NextVMInv

LEMMA FailsKeepsVMInv ==
  ASSUME VMInv, Fails, UNCHANGED <<program, m_threads, m_captures>>
  PROVE  VMInv'
<1> DEFINE ring == m_threads
           c == Current(ring)
           n == NextThreads(ring)
           s == thread.saves
           x == m_captures
<1>1. VMTypeOK /\ SoundSaves(m_saves, HeldOf(c, n, s, x))
  BY DEF VMInv, Held
<1>2. /\ IsRing(ring, Threads) /\ c \in Seq(Threads) /\ n \in Seq(Threads)
      /\ c \in Seq(Running) /\ n \in Seq(Running) /\ s \in Nat /\ x \in Nat
  BY <1>1, TypeFacts
<1>3. /\ program' = program /\ ring = m_threads' /\ m_captures' = x
      /\ thread' = Idle /\ thread'.saves = None /\ m_saves' = ReleaseSaves(m_saves, s)
  BY DEF Fails, Idle
<1> HIDE DEF ring, c, n, s, x
<1>4. OneMore(HeldOf(c, n, s, x), HeldOf(c, n, None, x), s)
  BY <1>2, HeldByThread
<1>5. HeldOf(c, n, None, x) \in [Nat -> Nat]
  BY <1>2, HeldAt
<1> DEFINE h == HeldOf(c, n, s, x)
           g == HeldOf(c, n, None, x)
<1> HIDE DEF h, g
<1>6. SoundSaves(ReleaseSaves(m_saves, s), g)
  <2>1. SoundSaves(m_saves, h) /\ OneMore(h, g, s) /\ g \in [Nat -> Nat]
    BY <1>1, <1>4, <1>5 DEF h, g
  <2> QED
    BY <1>2, <2>1, ReleaseKeepsCount
<1>7. SoundSaves(m_saves', HeldOf(Current(ring), NextThreads(ring), thread'.saves,
                                  m_captures'))
  BY <1>3, <1>6 DEF g, c, n
<1> QED
  BY <1>1, <1>2, <1>3, <1>7, NextVMInv DEF c, n

LEMMA MovesKeepsVMInv ==
  ASSUME VMInv, thread \notin {Idle, Matched}, NEW i \in DOMAIN Insts, GoesTo(i),
         UNCHANGED <<program, m_threads, m_saves, m_captures>>
  PROVE  VMInv'
<1> DEFINE ring == m_threads
<1>1. /\ VMTypeOK /\ program' = program /\ ring = m_threads'
      /\ IsRing(ring, Threads) /\ Current(ring) \in Seq(Running)
      /\ NextThreads(ring) \in Seq(Running) /\ m_captures' \in Nat /\ thread \in Running
  BY TypeFacts DEF VMInv, VMTypeOK
<1>2. thread' \in Running /\ thread'.saves = thread.saves
  BY <1>1 DEF GoesTo, Running
<1>3. SoundSaves(m_saves', HeldOf(Current(ring), NextThreads(ring), thread'.saves,
                                  m_captures'))
  BY <1>2 DEF VMInv, Held
<1> HIDE DEF ring
<1> QED
  BY <1>1, <1>2, <1>3, NextVMInv

LEMMA ExecProgramKeepsVMInv ==
  ASSUME VMInv, ExecProgram
  PROVE  VMInv'
<1> DEFINE ring == m_threads
           c == Current(ring)
           n == NextThreads(ring)
           s == thread.saves
           x == m_captures
           next == m_threads'
           d == Current(next)
           t == NewThread
<1>1. VMTypeOK /\ SoundSaves(m_saves, HeldOf(c, n, s, x))
  BY DEF VMInv, Held
<1>2. /\ IsRing(ring, Threads) /\ c \in Seq(Threads) /\ n \in Seq(Threads)
      /\ c \in Seq(Running) /\ n \in Seq(Running) /\ s \in Nat /\ x \in Nat
      /\ thread \in Running \cup {Idle, Matched}
  BY <1>1, TypeFacts
<1>3. t \in Threads /\ t \in Running /\ t.saves = None
  BY <1>1, RunningIsThread DEF VMTypeOK, NewThread
<1>4. /\ program' = program /\ m_captures' = None /\ thread' = thread
      /\ m_saves' = ReleaseSaves(m_saves, x)
      /\ next = ring \/ next = PushCurrent(ring, t)
  BY DEF ExecProgram, call
<1> HIDE DEF t
<1>5. /\ IsRing(PushCurrent(ring, t), Threads)
      /\ Current(PushCurrent(ring, t)) = Pushed(t, c)
      /\ NextThreads(PushCurrent(ring, t)) = n
  BY <1>2, <1>3, PushCurrentHolds
<1>6. /\ IsRing(next, Threads) /\ NextThreads(next) = n /\ (d = c \/ d = Pushed(t, c))
      /\ d \in Seq(Running) /\ d \in Seq(Threads)
  <2>1. IsRing(next, Threads) /\ NextThreads(next) = n /\ (d = c \/ d = Pushed(t, c))
    BY <1>2, <1>4, <1>5
  <2>2. Pushed(t, c) \in Seq(Running) /\ Pushed(t, c) \in Seq(Threads)
    BY <1>2, <1>3, StacksOf
  <2> QED
    BY <1>2, <2>1, <2>2
<1> DEFINE h == HeldOf(c, n, s, x)
           g == HeldOf(d, n, s, None)
           y == s
<1>10. next = m_threads' /\ d = Current(next) /\ thread'.saves = s
  BY <1>4
<1> HIDE DEF ring, c, n, s, x, next, d
<1>7. OneMore(h, g, x) /\ g \in [Nat -> Nat]
  <2>1. OneMore(HeldOf(c, n, s, x), HeldOf(d, n, s, None), x)
    BY <1>2, <1>3, <1>6, HeldByCaptures
  <2>2. HeldOf(d, n, s, None) \in [Nat -> Nat]
    BY <1>2, <1>6, HeldAt
  <2> QED
    BY <2>1, <2>2
<1>8. SoundSaves(m_saves, h)
  BY <1>1
<1> HIDE DEF h, g
<1>9. SoundSaves(m_saves', g)
  BY <1>2, <1>4, <1>7, <1>8, ReleaseKeepsCount
<1>11. SoundSaves(m_saves', HeldOf(Current(next), NextThreads(next), thread'.saves,
                                   m_captures'))
  BY <1>4, <1>6, <1>9, <1>10 DEF g
<1>12. /\ thread' \in Running \cup {Idle, Matched} /\ m_captures' \in Nat
       /\ Current(next) \in Seq(Running) /\ NextThreads(next) \in Seq(Running)
  BY <1>2, <1>4, <1>6, <1>10 DEF None
<1> QED
  BY <1>1, <1>4, <1>6, <1>10, <1>11, <1>12, NextVMInv

LEMMA PopThreadKeepsVMInv ==
  ASSUME VMInv, PopThread
  PROVE  VMInv'
<1> DEFINE ring == m_threads
           c == Current(ring)
           n == NextThreads(ring)
           x == m_captures
           next == m_threads'
           s == None
<1>1. VMTypeOK /\ SoundSaves(m_saves, HeldOf(c, n, s, x)) /\ thread = Idle
  BY DEF VMInv, Held, PopThread, Idle
<1>2. /\ IsRing(ring, Threads) /\ c \in Seq(Threads) /\ n \in Seq(Threads)
      /\ c \in Seq(Running) /\ n \in Seq(Running) /\ x \in Nat
  BY <1>1, TypeFacts
<1>3. /\ program' = program /\ m_captures' = x /\ m_saves' = m_saves
      /\ next = PopCurrent(ring) /\ thread' = CurrentTop(ring) /\ ~CurrentIsEmpty(ring)
  BY DEF PopThread, call, found
<1>4. /\ IsRing(next, Threads) /\ c # <<>> /\ thread' = Head(c)
      /\ Current(next) = Tail(c) /\ NextThreads(next) = n
  BY <1>2, <1>3, PopCurrentHolds
<1>5. Tail(c) \in Seq(Running) /\ Head(c) \in Running
  BY <1>2, <1>4, HeadTailProperties
<1> DEFINE h == HeldOf(c, n, s, x)
           d == Tail(c)
           y == Head(c).saves
           g == HeldOf(d, n, y, x)
<1>6. next = m_threads' /\ thread'.saves = y
  BY <1>4
<1> HIDE DEF ring, c, n, x, next
<1>7. (\A j \in Nat \ {0} : g[j] = h[j]) /\ g \in [Nat -> Nat]
  <2>1. /\ \A j \in Nat \ {0} :
              HeldOf(Tail(c), n, Head(c).saves, x)[j] = HeldOf(c, n, None, x)[j]
        /\ Tail(c) \in Seq(Threads)
    BY <1>2, <1>4, HeldByTop
  <2>2. g \in [Nat -> Nat]
    BY <1>2, <2>1, HeldAt
  <2> QED
    BY <2>1, <2>2
<1>8. SoundSaves(m_saves, h)
  BY <1>1
<1> HIDE DEF h, g, y
<1>9. SoundSaves(m_saves', g)
  BY <1>3, <1>7, <1>8, SameSound
<1>10. SoundSaves(m_saves', HeldOf(Current(next), NextThreads(next), thread'.saves,
                                   m_captures'))
  BY <1>3, <1>4, <1>6, <1>9 DEF g
<1>11. /\ thread' \in Running \cup {Idle, Matched} /\ m_captures' \in Nat
       /\ Current(next) \in Seq(Running) /\ NextThreads(next) \in Seq(Running)
  BY <1>2, <1>3, <1>4, <1>5
<1> QED
  BY <1>1, <1>3, <1>4, <1>6, <1>10, <1>11, NextVMInv

LEMMA MatchKeepsVMInv ==
  ASSUME VMInv, Match, program' = program
  PROVE  VMInv'
<1> DEFINE ring == m_threads
           c == Current(ring)
           n == NextThreads(ring)
           s == thread.saves
           x == m_captures
<1>1. VMTypeOK /\ SoundSaves(m_saves, HeldOf(c, n, s, x))
  BY DEF VMInv, Held
<1>2. /\ IsRing(ring, Threads) /\ c \in Seq(Threads) /\ n \in Seq(Threads)
      /\ c \in Seq(Running) /\ n \in Seq(Running) /\ s \in Nat /\ x \in Nat
  BY <1>1, TypeFacts
<1>3. /\ program' = program /\ ring = m_threads' /\ m_captures' = s
      /\ thread' = Matched /\ thread'.saves = None /\ m_saves' = ReleaseSaves(m_saves, x)
  BY DEF Match, Matched
<1> HIDE DEF ring, c, n, s, x
<1> DEFINE h == HeldOf(c, n, s, x)
           g == HeldOf(c, n, None, s)
<1>4. OneMore(h, g, x) /\ g \in [Nat -> Nat]
  BY <1>2, HeldByMatch, HeldAt
<1>5. SoundSaves(m_saves, h)
  BY <1>1
<1> HIDE DEF h, g
<1>6. SoundSaves(ReleaseSaves(m_saves, x), g)
  BY <1>2, <1>4, <1>5, ReleaseKeepsCount
<1>7. SoundSaves(m_saves', HeldOf(Current(ring), NextThreads(ring), thread'.saves,
                                  m_captures'))
  BY <1>3, <1>6 DEF g, c, n
<1>8. thread' \in Running \cup {Idle, Matched} /\ m_captures' \in Nat
  BY <1>2, <1>3
<1> QED
  BY <1>1, <1>2, <1>3, <1>7, <1>8, NextVMInv DEF c, n

LEMMA DropLowerKeepsVMInv ==
  ASSUME VMInv, DropLower
  PROVE  VMInv'
<1>0. program' = program /\ m_captures' = m_captures
  BY DEF DropLower, call, found
<1>1. CASE CurrentIsEmpty(m_threads)
  <2> DEFINE ring == m_threads
  <2>1. /\ VMTypeOK /\ program' = program /\ ring = m_threads'
        /\ IsRing(ring, Threads) /\ Current(ring) \in Seq(Running)
        /\ NextThreads(ring) \in Seq(Running) /\ m_captures' \in Nat
    BY <1>0, <1>1 DEF VMInv, VMTypeOK, DropLower
  <2>2. thread' = Idle /\ thread'.saves = thread.saves /\ m_saves' = m_saves
    BY <1>1 DEF DropLower, Idle, Matched
  <2>3. SoundSaves(m_saves', HeldOf(Current(ring), NextThreads(ring), thread'.saves,
                                    m_captures'))
    BY <1>0, <2>2 DEF VMInv, Held
  <2>4. thread' \in Running \cup {Idle, Matched}
    BY <2>2
  <2> HIDE DEF ring
  <2> QED
    BY <2>1, <2>3, <2>4, NextVMInv
<1>2. CASE ~CurrentIsEmpty(m_threads)
  <2> DEFINE ring == m_threads
             c == Current(ring)
             n == NextThreads(ring)
             s == thread.saves
             x == m_captures
             next == m_threads'
  <2>1. VMTypeOK /\ SoundSaves(m_saves, HeldOf(c, n, s, x))
    BY DEF VMInv, Held
  <2>2. /\ IsRing(ring, Threads) /\ c \in Seq(Threads) /\ n \in Seq(Threads)
        /\ c \in Seq(Running) /\ n \in Seq(Running) /\ x \in Nat
    BY <2>1, TypeFacts
  <2>3. /\ next = PopCurrent(ring) /\ thread' = thread /\ ~CurrentIsEmpty(ring)
        /\ thread' = Matched
        /\ m_saves' = ReleaseSaves(m_saves, CurrentTop(ring).saves)
    BY <1>2 DEF DropLower
  <2>4. /\ IsRing(next, Threads) /\ c # <<>> /\ CurrentTop(ring) = Head(c)
        /\ Current(next) = Tail(c) /\ NextThreads(next) = n
    BY <2>2, <2>3, PopCurrentHolds
  <2>5. Tail(c) \in Seq(Running) /\ Head(c) \in Running
    BY <2>2, <2>4, HeadTailProperties
  <2> DEFINE h == HeldOf(c, n, s, x)
             d == Tail(c)
             y == Head(c).saves
             g == HeldOf(d, n, s, x)
  <2>6. /\ next = m_threads' /\ thread'.saves = s /\ m_captures' = x
        /\ m_saves' = ReleaseSaves(m_saves, y)
    BY <1>0, <2>3, <2>4
  <2> HIDE DEF ring, c, n, s, x, next
  <2>7. OneMore(h, g, y) /\ g \in [Nat -> Nat] /\ y \in Nat
    <3>1. /\ OneMore(HeldOf(c, n, s, x), HeldOf(Tail(c), n, s, x), Head(c).saves)
          /\ Tail(c) \in Seq(Threads) /\ Head(c) \in Threads
      BY <2>2, <2>4, HeldByTop
    <3>2. g \in [Nat -> Nat]
      BY <2>2, <3>1, HeldAt
    <3>3. y \in Nat
      BY <3>1 DEF Threads
    <3> QED
      BY <3>1, <3>2, <3>3
  <2>8. SoundSaves(m_saves, h)
    BY <2>1
  <2> HIDE DEF h, g, y
  <2>9. SoundSaves(m_saves', g)
    BY <2>6, <2>7, <2>8, ReleaseKeepsCount
  <2>10. SoundSaves(m_saves', HeldOf(Current(next), NextThreads(next), thread'.saves,
                                     m_captures'))
    BY <2>4, <2>6, <2>9 DEF g
  <2>11. /\ thread' \in Running \cup {Idle, Matched} /\ m_captures' \in Nat
         /\ Current(next) \in Seq(Running) /\ NextThreads(next) \in Seq(Running)
    BY <2>2, <2>3, <2>4, <2>5, <2>6
  <2> QED
    BY <1>0, <2>1, <2>4, <2>6, <2>10, <2>11, NextVMInv
<1> QED
  BY <1>1, <1>2

(* The instruction after one that neither jumps nor ends the thread.        *)
LEMMA GoesOnInProgram ==
  ASSUME VMTypeOK, thread \notin {Idle, Matched},
         Inst.op # "Match", Inst.op # "Jump"
  PROVE  thread.inst + 1 \in DOMAIN Insts
<1>1. /\ thread.inst \in DOMAIN Insts
      /\ Followers(Insts, thread.inst) \subseteq DOMAIN Insts
  BY TypeFacts, ProgramFacts DEF Running
<1>2. thread.inst + 1 \in Followers(Insts, thread.inst)
  BY DEF Followers, Inst
<1> QED
  BY <1>1, <1>2

LEMMA JumpsInProgram ==
  ASSUME VMTypeOK, thread \notin {Idle, Matched}
  PROVE  /\ Inst.op = "Jump" => thread.inst + Inst.param \in DOMAIN Insts
         /\ Inst.op = "Split" => thread.inst + Inst.param.offset \in DOMAIN Insts
<1>1. /\ thread.inst \in DOMAIN Insts
      /\ Followers(Insts, thread.inst) \subseteq DOMAIN Insts
  BY TypeFacts, ProgramFacts DEF Running
<1>2. ASSUME Inst.op = "Jump"
      PROVE  thread.inst + Inst.param \in Followers(Insts, thread.inst)
  BY <1>2 DEF Followers, Inst
<1>3. ASSUME Inst.op = "Split"
      PROVE  thread.inst + Inst.param.offset \in Followers(Insts, thread.inst)
  BY <1>3 DEF Followers, Inst
<1> QED
  BY <1>1, <1>2, <1>3

LEMMA ConsumeKeepsVMInv ==
  ASSUME VMInv, thread \notin {Idle, Matched}, Consume, program' = program
  PROVE  VMInv'
<1>0. m_captures' = m_captures /\ VMTypeOK
  BY DEF Consume, found, VMInv
<1>1. CASE ~Accepts
  <2>1. Fails /\ m_threads' = m_threads
    BY <1>1 DEF Consume
  <2> QED
    BY <1>0, <2>1, FailsKeepsVMInv
<1>2. CASE Accepts
  <2> DEFINE ring == m_threads
             c == Current(ring)
             n == NextThreads(ring)
             s == thread.saves
             x == m_captures
             next == m_threads'
             t == [thread EXCEPT !.inst = @ + 1]
  <2>1. VMTypeOK /\ SoundSaves(m_saves, HeldOf(c, n, s, x))
    BY DEF VMInv, Held
  <2>2. /\ IsRing(ring, Threads) /\ c \in Seq(Threads) /\ n \in Seq(Threads)
        /\ c \in Seq(Running) /\ n \in Seq(Running) /\ x \in Nat /\ thread \in Running
    BY <2>1, TypeFacts
  <2>3. /\ next = PushNext(ring, t) /\ thread' = Idle /\ thread'.saves = None
        /\ m_saves' = m_saves
    BY <1>2 DEF Consume, Idle
  <2>4. t \in Running /\ t \in Threads /\ t.saves = s
    <3>1. Inst.op # "Match" /\ Inst.op # "Jump"
      BY DEF Consume, Consumers
    <3>2. thread.inst + 1 \in DOMAIN Insts
      BY <2>1, <3>1, GoesOnInProgram
    <3>3. t \in Running /\ t.saves = s
      BY <2>2, <3>2 DEF Running
    <3> HIDE DEF t
    <3>4. t \in Threads
      BY <2>1, <3>3, RunningIsThread DEF VMTypeOK
    <3> QED
      BY <3>3, <3>4
  <2>5. next = m_threads' /\ m_captures' = x
    BY <1>0
  <2> HIDE DEF ring, c, n, s, x, next, t
  <2>6. /\ IsRing(PushNext(ring, t), Threads) /\ Current(PushNext(ring, t)) = c
        /\ NextThreads(PushNext(ring, t)) = Append(n, t)
    BY <2>2, <2>4, PushNextHolds DEF c, n
  <2>7. Append(n, t) \in Seq(Running)
    BY <2>2, <2>4, StacksOf
  <2> DEFINE h == HeldOf(c, n, s, x)
             m == Append(n, t)
             g == HeldOf(c, m, None, x)
  <2>8. (\A j \in Nat \ {0} : g[j] = h[j]) /\ g \in [Nat -> Nat]
    <3>1. /\ Append(n, t) \in Seq(Threads)
          /\ \A j \in Nat \ {0} :
               HeldOf(c, Append(n, t), None, x)[j] = HeldOf(c, n, t.saves, x)[j]
      BY <2>2, <2>4, HeldByNext
    <3>2. g \in [Nat -> Nat]
      BY <2>2, <3>1, HeldAt
    <3> QED
      BY <2>4, <3>1, <3>2
  <2>9. SoundSaves(m_saves, h)
    BY <2>1
  <2> HIDE DEF h, g
  <2>10. SoundSaves(m_saves', g)
    BY <2>3, <2>8, <2>9, SameSound
  <2>11. SoundSaves(m_saves', HeldOf(Current(next), NextThreads(next), thread'.saves,
                                     m_captures'))
    BY <2>3, <2>5, <2>6, <2>10 DEF g
  <2>12. /\ thread' \in Running \cup {Idle, Matched} /\ m_captures' \in Nat
         /\ IsRing(next, Threads)
         /\ Current(next) \in Seq(Running) /\ NextThreads(next) \in Seq(Running)
    BY <2>2, <2>3, <2>5, <2>6, <2>7
  <2> QED
    BY <2>1, <2>5, <2>11, <2>12, NextVMInv
<1> QED
  BY <1>1, <1>2

LEMMA SplitKeepsVMInv ==
  ASSUME VMInv, thread \notin {Idle, Matched}, TakeSplit, program' = program
  PROVE  VMInv'
<1> DEFINE parent == thread.inst + 1
           target == thread.inst + Inst.param.offset
           first == IF Inst.param.prioritize_parent THEN parent ELSE target
           second == IF Inst.param.prioritize_parent THEN target ELSE parent
<1>0. m_captures' = m_captures /\ VMTypeOK /\ Inst.op = "Split"
  BY DEF TakeSplit, found, VMInv
<1>1. parent \in DOMAIN Insts /\ target \in DOMAIN Insts
  BY <1>0, GoesOnInProgram, JumpsInProgram
<1>2. \/ GoesTo(parent) /\ UNCHANGED <<m_threads, m_saves>>
      \/ /\ GoesTo(first)
         /\ m_threads' = PushCurrent(m_threads, [thread EXCEPT !.inst = second])
         /\ m_saves' = Share(m_saves, thread.saves)
  BY DEF TakeSplit, GoesOn
<1>3. first \in DOMAIN Insts /\ second \in DOMAIN Insts
  BY <1>1
<1> HIDE DEF parent, target, first, second
<1>4. CASE GoesTo(parent) /\ UNCHANGED <<m_threads, m_saves>>
  BY <1>0, <1>1, <1>4, MovesKeepsVMInv
<1>5. CASE /\ GoesTo(first)
           /\ m_threads' = PushCurrent(m_threads, [thread EXCEPT !.inst = second])
           /\ m_saves' = Share(m_saves, thread.saves)
  <2> DEFINE ring == m_threads
             c == Current(ring)
             n == NextThreads(ring)
             s == thread.saves
             x == m_captures
             next == m_threads'
             t == [thread EXCEPT !.inst = second]
  <2>1. VMTypeOK /\ SoundSaves(m_saves, HeldOf(c, n, s, x))
    BY DEF VMInv, Held
  <2>2. /\ IsRing(ring, Threads) /\ c \in Seq(Threads) /\ n \in Seq(Threads)
        /\ c \in Seq(Running) /\ n \in Seq(Running) /\ x \in Nat /\ thread \in Running
    BY <2>1, TypeFacts
  <2>3. /\ next = PushCurrent(ring, t) /\ m_saves' = Share(m_saves, s)
        /\ thread' \in Running /\ thread'.saves = s
        /\ t \in Running /\ t.saves = s
    BY <1>3, <1>5, <2>2 DEF GoesTo, Running
  <2>5. next = m_threads' /\ m_captures' = x
    BY <1>0
  <2> HIDE DEF ring, c, n, s, x, next, t
  <2>4. t \in Threads
    BY <2>1, <2>3, RunningIsThread DEF VMTypeOK
  <2>6. /\ IsRing(PushCurrent(ring, t), Threads)
        /\ Current(PushCurrent(ring, t)) = Pushed(t, c)
        /\ NextThreads(PushCurrent(ring, t)) = n
    BY <2>2, <2>4, PushCurrentHolds DEF c, n
  <2>7. Pushed(t, c) \in Seq(Running)
    BY <2>2, <2>3, StacksOf
  <2> DEFINE h == HeldOf(c, n, s, x)
             d == Pushed(t, c)
             g == HeldOf(d, n, s, x)
  <2>8. OneMore(g, h, s) /\ s \in Nat /\ h[s] > 0 /\ g \in [Nat -> Nat]
    <3>1. /\ OneMore(HeldOf(Pushed(t, c), n, s, x), HeldOf(c, n, s, x), s)
          /\ Pushed(t, c) \in Seq(Threads)
          /\ s \in Nat /\ HeldOf(c, n, s, x)[s] > 0
      BY <2>2, <2>3, <2>4, HeldByFork
    <3>2. g \in [Nat -> Nat]
      BY <2>2, <3>1, HeldAt
    <3> QED
      BY <3>1, <3>2
  <2>9. SoundSaves(m_saves, h)
    BY <2>1
  <2> HIDE DEF h, g
  <2>10. SoundSaves(m_saves', g)
    BY <2>3, <2>8, <2>9, ShareKeepsCount
  <2>11. SoundSaves(m_saves', HeldOf(Current(next), NextThreads(next), thread'.saves,
                                     m_captures'))
    BY <2>3, <2>5, <2>6, <2>10 DEF g
  <2>12. /\ thread' \in Running \cup {Idle, Matched} /\ m_captures' \in Nat
         /\ IsRing(next, Threads)
         /\ Current(next) \in Seq(Running) /\ NextThreads(next) \in Seq(Running)
    BY <2>2, <2>3, <2>5, <2>6, <2>7
  <2> QED
    BY <2>1, <2>5, <2>11, <2>12, NextVMInv
<1> QED
  BY <1>2, <1>4, <1>5

LEMMA SaveKeepsVMInv ==
  ASSUME VMInv, thread \notin {Idle, Matched}, SavePosition, program' = program
  PROVE  VMInv'
<1>0. m_captures' = m_captures /\ m_threads' = m_threads /\ VMTypeOK /\ Inst.op = "Save"
  BY DEF SavePosition, found, VMInv
<1>1. thread.inst + 1 \in DOMAIN Insts
  BY <1>0, GoesOnInProgram
<1>2. CASE ~mode.saves
  <2> DEFINE i == thread.inst + 1
  <2>1. GoesTo(i) /\ m_saves' = m_saves
    BY <1>2 DEF SavePosition, GoesOn
  <2> HIDE DEF i
  <2> QED
    BY <1>0, <1>1, <2>1, MovesKeepsVMInv DEF i
<1>3. CASE mode.saves
  <2> DEFINE ring == m_threads
             c == Current(ring)
             n == NextThreads(ring)
             s == thread.saves
             x == m_captures
             own == OwnIndex(m_saves, s)
             mine == OwnSaves(m_saves, s)
             index == Inst.param
             bit == Bit(index)
             at == pos
  <2>1. VMTypeOK /\ SoundSaves(m_saves, HeldOf(c, n, s, x))
    BY DEF VMInv, Held
  <2>2. /\ IsRing(ring, Threads) /\ c \in Seq(Threads) /\ n \in Seq(Threads)
        /\ c \in Seq(Running) /\ n \in Seq(Running) /\ x \in Nat /\ s \in Nat
        /\ thread \in Running
    BY <2>1, TypeFacts
  <2>3. /\ thread' = [inst |-> thread.inst + 1, saves |-> own]
        /\ m_saves' = [mine EXCEPT !.all[own].pos[index] = at,
                                   !.all[own].valid_mask = @ \cup {bit}]
    BY <1>3, Zenon DEF SavePosition
  <2>4. m_saves' = Written(mine, own, index, at, bit)
    BY <2>3, Zenon DEF Written
  <2>40. /\ thread'.saves = own /\ m_captures' = x /\ ring = m_threads'
         /\ thread'.inst = thread.inst + 1
         /\ own = OwnIndex(m_saves, s) /\ mine = OwnSaves(m_saves, s)
    BY <1>0, <2>3
  <2> HIDE DEF ring, c, n, s, x, own, mine, index, bit, at
  <2> DEFINE h == HeldOf(c, n, s, x)
             mid == HeldOf(c, n, None, x)
             g == HeldOf(c, n, own, x)
  <2>5. /\ OneMore(h, mid, s) /\ OneMore(g, mid, own)
        /\ mid \in [Nat -> Nat] /\ g \in [Nat -> Nat]
    BY <2>2, HeldByThread, HeldAt
  <2>6. SoundSaves(m_saves, h)
    BY <2>1
  <2> HIDE DEF h, mid, g
  <2>7. own \in 1 .. Size(mine) /\ SoundSaves(mine, g)
    BY <2>2, <2>5, <2>6, <2>40, OwnSavesKeepsCount
  <2>8. SoundSaves(Written(mine, own, index, at, bit), g)
    BY <2>7, WrittenKeepsCount
  <2>9. SoundSaves(m_saves', HeldOf(Current(ring), NextThreads(ring), thread'.saves,
                                    m_captures'))
    BY <2>4, <2>8, <2>40 DEF g, c, n
  <2>10. own \in Nat
    BY <2>7
  <2>11. thread' \in Running \cup {Idle, Matched} /\ m_captures' \in Nat
    BY <1>1, <2>2, <2>3, <2>10, <2>40 DEF Running
  <2> QED
    BY <2>1, <2>2, <2>9, <2>11, <2>40, NextVMInv DEF c, n
<1> QED
  BY <1>2, <1>3

(* The step ends, and another may begin. *)
LEMMA SwapsKeepsVMInv ==
  ASSUME VMInv, CurrentIsEmpty(m_threads), thread = Idle,
         NEW mid, mid = m_threads \/ mid = PushNext(m_threads, NewThread),
         m_threads' = SwapNext(mid),
         UNCHANGED <<program, m_captures, m_saves, thread>>
  PROVE  VMInv'
<1> DEFINE ring == m_threads
           n == NextThreads(ring)
           x == m_captures
           s == None
           t == NewThread
           e == <<>>
           next == m_threads'
           m == NextThreads(mid)
<1>1. /\ VMTypeOK /\ SoundSaves(m_saves, HeldOf(Current(ring), n, s, x))
  BY DEF VMInv, Held, Idle
<1>2. /\ IsRing(ring, Threads) /\ n \in Seq(Threads) /\ n \in Seq(Running) /\ x \in Nat
      /\ thread \in Running \cup {Idle, Matched}
  BY <1>1, TypeFacts
<1>3. t \in Threads /\ t \in Running /\ t.saves = None
  BY <1>1, RunningIsThread DEF VMTypeOK, NewThread
<1>4. Current(ring) = e
  BY <1>2, RingIsEmpty
<1>5. /\ next = SwapNext(mid) /\ (mid = ring \/ mid = PushNext(ring, t))
      /\ next = m_threads' /\ m_captures' = x /\ thread' = thread /\ thread'.saves = s
      /\ m_saves' = m_saves
  BY DEF Idle
<1> HIDE DEF t, next, s, x
<1>6. /\ IsRing(mid, Threads) /\ Current(mid) = e /\ (m = n \/ m = Append(n, t))
  <2>1. /\ IsRing(PushNext(ring, t), Threads)
        /\ Current(PushNext(ring, t)) = Current(ring)
        /\ NextThreads(PushNext(ring, t)) = Append(n, t)
    BY <1>2, <1>3, PushNextHolds
  <2> QED
    BY <1>2, <1>4, <1>5, <2>1
<1>7. m \in Seq(Running) /\ m \in Seq(Threads)
  <2>1. Append(n, t) \in Seq(Running) /\ Append(n, t) \in Seq(Threads)
    BY <1>2, <1>3, StacksOf
  <2> QED
    BY <1>2, <1>6, <2>1
<1>8. CurrentIsEmpty(mid)
  BY <1>6, RingIsEmpty
<1>9. IsRing(next, Threads) /\ Current(next) = m /\ NextThreads(next) = e
  BY <1>5, <1>6, <1>8, SwapNextHolds
<1> DEFINE h == HeldOf(e, n, s, x)
           g == HeldOf(m, e, s, x)
<1>10. SoundSaves(m_saves, h)
  BY <1>1, <1>4
<1>100. e \in Seq(Threads) /\ e \in Seq(Running) /\ s = None
  BY DEF s
<1> HIDE DEF ring, n, m
<1>11. (\A j \in Nat \ {0} : g[j] = h[j]) /\ g \in [Nat -> Nat]
  <2>1. HeldOf(m, <<>>, s, x) = HeldOf(<<>>, m, s, x)
    BY <1>7, HeldBySwap
  <2>2. /\ HeldOf(e, m, s, x) \in [Nat -> Nat]
        /\ \A j \in Nat : HeldOf(e, m, s, x)[j]
                            = HeldIn(e, j) + HeldIn(m, j) + One(s, j) + One(x, j)
    <3> HIDE DEF e
    <3> QED
      BY <1>7, <1>100, HeldAt
  <2>3. \A j \in Nat : HeldOf(e, n, s, x)[j]
                         = HeldIn(e, j) + HeldIn(n, j) + One(s, j) + One(x, j)
    <3> HIDE DEF e
    <3> QED
      BY <1>2, <1>100, HeldAt
  <2>4. ASSUME NEW j \in Nat \ {0}
        PROVE  HeldIn(m, j) = HeldIn(n, j)
    <3>1. HeldIn(Append(n, t), j) = HeldIn(n, j) + One(t.saves, j)
      BY <1>2, <1>3, HeldInAppend
    <3>2. One(t.saves, j) = 0 /\ HeldIn(n, j) \in Nat
      BY <1>2, <1>3, OneOfNone, HeldInIsNat
    <3>3. HeldIn(Append(n, t), j) = HeldIn(n, j)
      BY <3>1, <3>2
    <3> QED
      BY <1>6, <3>3
  <2> QED
    BY <2>1, <2>2, <2>3, <2>4
<1> HIDE DEF h, g
<1>12. SoundSaves(m_saves', g)
  BY <1>5, <1>10, <1>11, SameSound
<1>13. SoundSaves(m_saves', HeldOf(Current(next), NextThreads(next), thread'.saves,
                                   m_captures'))
  BY <1>5, <1>9, <1>12 DEF g
<1>14. /\ thread' \in Running \cup {Idle, Matched} /\ m_captures' \in Nat
       /\ Current(next) \in Seq(Running) /\ NextThreads(next) \in Seq(Running)
  BY <1>2, <1>5, <1>7, <1>9, <1>100
<1>15. program' = program
  OBVIOUS
<1> QED
  BY <1>1, <1>5, <1>9, <1>13, <1>14, <1>15, NextVMInv

LEMMA DropThreadKeepsVMInv ==
  ASSUME VMInv, DropThread
  PROVE  VMInv'
<1> DEFINE ring == m_threads
           c == Current(ring)
           n == NextThreads(ring)
           s == thread.saves
           x == m_captures
           next == m_threads'
           k == Len(n)
           last == n[k]
           y == last.saves
<1>1. VMTypeOK /\ SoundSaves(m_saves, HeldOf(c, n, s, x))
  BY DEF VMInv, Held
<1>2. /\ IsRing(ring, Threads) /\ c \in Seq(Threads) /\ n \in Seq(Threads)
      /\ c \in Seq(Running) /\ n \in Seq(Running) /\ s \in Nat /\ x \in Nat
      /\ thread \in Running \cup {Idle, Matched}
  BY <1>1, TypeFacts
<1>3. /\ program' = program /\ m_captures' = x /\ thread' = thread /\ thread'.saves = s
      /\ next = PopNext(ring) /\ ~NextIsEmpty(ring) /\ next = m_threads'
      /\ m_saves' = ReleaseSaves(m_saves, NextTop(ring).saves)
  BY DEF DropThread, call, found
<1>4. /\ IsRing(next, Threads) /\ k > 0 /\ NextTop(ring) = last
      /\ Current(next) = c /\ NextThreads(next) = SubSeq(n, 1, k - 1)
  BY <1>2, <1>3, PopNextHolds
<1>5. k \in Nat \ {0} /\ k = Len(n)
  BY <1>2, <1>4, LenProperties
<1>6. m_saves' = ReleaseSaves(m_saves, y)
  BY <1>3, <1>4
<1> HIDE DEF ring, c, n, s, x, next, k
<1> DEFINE m == SubSeq(n, 1, k - 1)
           h == HeldOf(c, n, s, x)
           g == HeldOf(c, m, s, x)
<1>7. OneMore(h, g, y) /\ g \in [Nat -> Nat] /\ y \in Nat
  <2>1. /\ OneMore(HeldOf(c, n, s, x), HeldOf(c, SubSeq(n, 1, k - 1), s, x), n[k].saves)
        /\ SubSeq(n, 1, k - 1) \in Seq(Threads) /\ n[k] \in Threads
    BY <1>2, <1>5, HeldByLast
  <2>2. m \in Seq(Threads)
    BY <2>1
  <2> HIDE DEF m
  <2>3. g \in [Nat -> Nat]
    BY <1>2, <2>2, HeldAt
  <2>4. y \in Nat
    BY <2>1 DEF Threads
  <2> QED
    BY <2>1, <2>3, <2>4 DEF m
<1>8. m \in Seq(Running)
  BY <1>2, <1>5, FrontIsStack
<1>9. SoundSaves(m_saves, h)
  BY <1>1
<1> HIDE DEF h, g, y
<1>10. SoundSaves(m_saves', g)
  BY <1>6, <1>7, <1>9, ReleaseKeepsCount
<1>11. NextThreads(next) = m
  BY <1>4
<1> HIDE DEF m
<1>12. SoundSaves(m_saves', HeldOf(Current(next), NextThreads(next), thread'.saves,
                                   m_captures'))
  BY <1>3, <1>4, <1>10, <1>11 DEF g
<1>13. /\ thread' \in Running \cup {Idle, Matched} /\ m_captures' \in Nat
       /\ Current(next) \in Seq(Running) /\ NextThreads(next) \in Seq(Running)
  BY <1>2, <1>3, <1>4, <1>8, <1>11
<1> QED
  BY <1>1, <1>3, <1>4, <1>12, <1>13, NextVMInv

LEMMA StepThreadKeepsVMInv ==
  ASSUME VMInv, StepThread
  PROVE  VMInv'
<1>1. thread \notin {Idle, Matched} /\ program' = program /\ VMTypeOK
  BY DEF StepThread, call, VMInv
<1>2. CASE Match
  BY <1>1, <1>2, MatchKeepsVMInv
<1>3. CASE NoMatch
  <2>1. Fails /\ UNCHANGED <<program, m_threads, m_captures>>
    BY <1>1, <1>3 DEF NoMatch, found
  <2> QED
    BY <2>1, FailsKeepsVMInv
<1>4. CASE Consume
  BY <1>1, <1>4, ConsumeKeepsVMInv
<1>5. CASE TakeJump
  <2> DEFINE i == thread.inst + Inst.param
  <2>1. GoesTo(i) /\ UNCHANGED <<program, m_threads, m_saves, m_captures>>
    BY <1>1, <1>5 DEF TakeJump, found
  <2>2. i \in DOMAIN Insts
    BY <1>1, <1>5, JumpsInProgram DEF TakeJump
  <2> HIDE DEF i
  <2> QED
    BY <1>1, <2>1, <2>2, MovesKeepsVMInv
<1>6. CASE TakeSplit
  BY <1>1, <1>6, SplitKeepsVMInv
<1>7. CASE SavePosition
  BY <1>1, <1>7, SaveKeepsVMInv
<1>8. CASE CheckAssertion
  <2>1. UNCHANGED <<program, m_threads, m_captures>>
    BY <1>1, <1>8 DEF CheckAssertion, found
  <2>2. CASE Fails
    BY <2>1, <2>2, FailsKeepsVMInv
  <2>3. CASE GoesOn /\ m_saves' = m_saves
    <3> DEFINE i == thread.inst + 1
    <3>1. Inst.op # "Match" /\ Inst.op # "Jump"
      BY <1>8 DEF CheckAssertion, IsAssertion, Assertions
    <3>2. i \in DOMAIN Insts
      BY <1>1, <3>1, GoesOnInProgram
    <3>3. GoesTo(i) /\ UNCHANGED <<program, m_threads, m_saves, m_captures>>
      BY <2>1, <2>3 DEF GoesOn
    <3> HIDE DEF i
    <3> QED
      BY <1>1, <3>2, <3>3, MovesKeepsVMInv
  <2> QED
    BY <1>8, <2>2, <2>3 DEF CheckAssertion
<1> QED
  BY <1>2, <1>3, <1>4, <1>5, <1>6, <1>7, <1>8 DEF StepThread

LEMMA NextKeepsVMInv ==
  ASSUME VMInv, [Next]_vars
  PROVE  VMInv'
<1>1. CASE Exec
  BY <1>1, StaysVMInv DEF Exec, found
<1>2. CASE ExecProgram
  BY <1>2, ExecProgramKeepsVMInv
<1>3. CASE StepBegins
  BY <1>3, StaysVMInv DEF StepBegins, call, found
<1>4. CASE PopThread
  BY <1>4, PopThreadKeepsVMInv
<1>5. CASE Redundant
  <2>1. Fails /\ UNCHANGED <<program, m_threads, m_captures>>
    BY <1>5 DEF Redundant, call, found
  <2> QED
    BY <2>1, FailsKeepsVMInv
<1>6. CASE StepThread
  BY <1>6, StepThreadKeepsVMInv
<1>7. CASE DropLower
  BY <1>7, DropLowerKeepsVMInv
<1>8. CASE SearchOn
  <2>1. PICK mid : /\ mid = m_threads \/ mid = PushNext(m_threads, NewThread)
                   /\ m_threads' = SwapNext(mid)
    BY <1>8 DEF SearchOn, Advance
  <2>2. /\ CurrentIsEmpty(m_threads) /\ thread = Idle
        /\ UNCHANGED <<program, m_captures, m_saves, thread>>
    BY <1>8 DEF SearchOn, Stepped, call, found
  <2> QED
    BY <2>1, <2>2, SwapsKeepsVMInv
<1>9. CASE StepEnds
  <2>1. /\ CurrentIsEmpty(m_threads) /\ thread = Idle
        /\ UNCHANGED <<program, m_captures, m_saves, thread>>
    BY <1>9 DEF StepEnds, Stepped, call, found
  <2>2. m_threads' = m_threads \/ m_threads' = SwapNext(m_threads)
    BY <1>9 DEF StepEnds, Advance
  <2>3. CASE m_threads' = m_threads
    BY <2>1, <2>3, StaysVMInv
  <2>4. CASE m_threads' = SwapNext(m_threads)
    <3> DEFINE mid == m_threads
    <3>1. /\ mid = m_threads \/ mid = PushNext(m_threads, NewThread)
          /\ m_threads' = SwapNext(mid)
      BY <2>4
    <3> HIDE DEF mid
    <3> QED
      BY <2>1, <3>1, SwapsKeepsVMInv
  <2> QED
    BY <2>2, <2>3, <2>4
<1>10. CASE LastStepEnds
  BY <1>10, StaysVMInv DEF LastStepEnds, call, found
<1>11. CASE DropThread
  BY <1>11, DropThreadKeepsVMInv
<1>12. CASE Return
  BY <1>12, StaysVMInv DEF Return, call, found
<1>13. CASE Iterate
  BY <1>13, StaysVMInv DEF Iterate, found
<1>14. CASE UNCHANGED vars
  BY <1>14, StaysVMInv DEF vars, call, found
<1> QED
  BY <1>1, <1>2, <1>3, <1>4, <1>5, <1>6, <1>7, <1>8, <1>9, <1>10, <1>11, <1>12, <1>13,
     <1>14 DEF Next

(* No thread leaves the program, and every position it saves is held as it  *)
(* is counted.                                                              *)
THEOREM VMInvIsInvariant == RunsAnyProgram => []VMInv
<1>1. IsProgram(program) /\ InitVM => VMInv
  BY VMStarts
<1>2. VMInv /\ [Next]_vars => VMInv'
  BY NextKeepsVMInv
<1> QED
  BY <1>1, <1>2, PTL DEF RunsAnyProgram

-----------------------------------------------------------------------------
(* What the invariant says of the free list and of the counts.              *)

LEMMA LeastNatural ==
  ASSUME NEW S \in SUBSET Nat, S # {}
  PROVE  \E x \in S : \A y \in S : x <= y
<1> DEFINE Less == {ss \in Nat \X Nat : ss[1] < ss[2]}
<1>1. IsWellFoundedOn(Less, Nat)
  BY NatLessThanWellFounded DEF OpToRel
<1>2. PICK x \in S : \A y \in S : ~(<<y, x>> \in Less)
  BY <1>1, WFMin
<1>3. \A y \in S : ~(y < x)
  BY <1>2
<1> QED
  BY <1>3

LEMMA FreeListIsShort ==
  ASSUME NEW n \in Nat, NEW free \in Seq(Nat), \A k \in 1 .. Len(free) : free[k] \in 1 .. n,
         \A j, k \in 1 .. Len(free) : free[j] = free[k] => j = k
  PROVE  Len(free) \in Nat /\ Len(free) <= n
<1> DEFINE l == Len(free)
           S == 1 .. l
           T == 1 .. n
<1>1. l \in Nat /\ DOMAIN free = 1 .. l /\ free \in [1 .. l -> Nat]
  BY LenProperties
<1>2. free \in Injection(S, T)
  <2>1. free \in [S -> T]
    BY <1>1
  <2>2. \A j, k \in S : free[j] = free[k] => j = k
    OBVIOUS
  <2>3. DOMAIN free = S
    BY <1>1
  <2> HIDE DEF S, T
  <2> QED
    BY <2>1, <2>2, <2>3 DEF Injection, IsInjective
<1>3. /\ IsFiniteSet(S) /\ Cardinality(S) = l /\ IsFiniteSet(T) /\ Cardinality(T) = n
  <2>1. l \in Nat /\ S = 1 .. l
    BY <1>1
  <2> HIDE DEF l, S
  <2>2. ASSUME NEW m \in Nat
        PROVE  IsFiniteSet(1 .. m) /\ Cardinality(1 .. m) = m
    <3>1. /\ IsFiniteSet(1 .. m)
          /\ Cardinality(1 .. m) = IF 1 > m THEN 0 ELSE m - 1 + 1
      BY FS_Interval
    <3> QED
      BY <3>1
  <2> QED
    BY <2>1, <2>2
<1> HIDE DEF S, T, l
<1>4. Cardinality(S) <= Cardinality(T)
  BY <1>2, <1>3, FS_Injection
<1> QED
  BY <1>1, <1>3, <1>4 DEF l

(* The free list, read from where it starts.                                *)
FirstFrom(free, n) ==
    [k \in 0 .. n |-> IF k < Len(free) THEN free[Len(free) - k] ELSE None]
FreeListBody(saves, f) ==
    [k \in 0 .. Len(saves.all) |->
        IF k = 0 THEN saves.first_free
        ELSE IF f[k - 1] = None THEN None ELSE saves.all[f[k - 1]].next_free]

LEMMA FirstFromIsFreeList ==
  ASSUME NEW saves, NEW free, IsFreeList(saves, free), Size(saves) \in Nat
  PROVE  LET f == FirstFrom(free, Size(saves)) IN f = FreeListBody(saves, f)
<1> DEFINE n == Size(saves)
           l == Len(free)
           f == FirstFrom(free, n)
           b == FreeListBody(saves, f)
<1>1. /\ free \in Seq(Nat) /\ l \in Nat
      /\ \A k \in 1 .. l :
            /\ free[k] \in 1 .. n
            /\ saves.all[free[k]].next_free = IF k = 1 THEN None ELSE free[k - 1]
      /\ saves.first_free = IF l = 0 THEN None ELSE free[l]
  BY LenProperties DEF IsFreeList
<1>2. /\ f = [k \in 0 .. n |-> IF k < l THEN free[l - k] ELSE None]
      /\ b = [k \in 0 .. n |-> IF k = 0 THEN saves.first_free
                               ELSE IF f[k - 1] = None THEN None
                               ELSE saves.all[f[k - 1]].next_free]
      /\ n \in Nat
  BY DEF FirstFrom, FreeListBody, Size
<1> HIDE DEF n, l, f, b
<1>3. ASSUME NEW k \in 0 .. n
      PROVE  f[k] = IF k = 0 THEN saves.first_free
                    ELSE IF f[k - 1] = None THEN None
                    ELSE saves.all[f[k - 1]].next_free
  <2>0. f[k] = IF k < l THEN free[l - k] ELSE None
    BY <1>2
  <2>1. CASE k = 0
    BY <1>1, <2>0, <2>1
  <2>2. CASE k # 0
    <3>1. k - 1 \in 0 .. n
      BY <1>2, <2>2
    <3>2. f[k - 1] = IF k - 1 < l THEN free[l - (k - 1)] ELSE None
      BY <1>2, <3>1
    <3>3. CASE k <= l
      <4> DEFINE j == l - (k - 1)
      <4>1. j \in 1 .. l /\ k - 1 < l /\ (j = 1 <=> ~(k < l)) /\ j - 1 = l - k
        BY <1>1, <2>2, <3>3
      <4>2. f[k - 1] = free[j] /\ free[j] \in 1 .. n
        BY <1>1, <3>2, <4>1
      <4> HIDE DEF j
      <4>3. f[k - 1] # None
        BY <1>2, <4>2 DEF None
      <4>4. saves.all[free[j]].next_free = IF j = 1 THEN None ELSE free[j - 1]
        BY <1>1, <4>1
      <4> QED
        BY <2>0, <2>2, <4>1, <4>2, <4>3, <4>4
    <3>4. CASE ~(k <= l)
      <4>1. ~(k < l) /\ ~(k - 1 < l)
        BY <1>1, <3>4
      <4> QED
        BY <2>0, <2>2, <3>2, <4>1
    <3> QED
      BY <3>3, <3>4
  <2> QED
    BY <2>1, <2>2
<1>4. f = b
  BY <1>2, <1>3
<1> QED
  BY <1>4 DEF b, f, n

LEMMA OneFreeList ==
  ASSUME NEW saves, NEW n \in Nat, n = Len(saves.all),
         NEW f, f = FreeListBody(saves, f), NEW g, g = FreeListBody(saves, g)
  PROVE  f = g
<1> DEFINE S == {k \in 0 .. n : f[k] # g[k]}
<1>1. /\ \A k \in 0 .. n : f[k] = IF k = 0 THEN saves.first_free
                                  ELSE IF f[k - 1] = None THEN None
                                  ELSE saves.all[f[k - 1]].next_free
      /\ \A k \in 0 .. n : g[k] = IF k = 0 THEN saves.first_free
                                  ELSE IF g[k - 1] = None THEN None
                                  ELSE saves.all[g[k - 1]].next_free
  BY DEF FreeListBody
<1>2. ASSUME S # {}
      PROVE  FALSE
  <2>1. S \in SUBSET Nat
    OBVIOUS
  <2> HIDE DEF S
  <2>2. PICK k \in S : \A j \in S : k <= j
    BY <1>2, <2>1, LeastNatural
  <2> USE DEF S
  <2>3. k \in 0 .. n /\ f[k] # g[k]
    BY <2>2
  <2>4. k # 0
    BY <1>1, <2>3
  <2>5. k - 1 \in 0 .. n /\ ~(k <= k - 1)
    BY <2>3, <2>4
  <2>6. f[k - 1] = g[k - 1]
    BY <2>2, <2>5
  <2> QED
    BY <1>1, <2>3, <2>4, <2>6
<1>3. \A k \in 0 .. n : f[k] = g[k]
  BY <1>2
<1>4. /\ f = [k \in 0 .. n |-> f[k]] /\ g = [k \in 0 .. n |-> g[k]]
  BY DEF FreeListBody
<1> QED
  BY <1>3, <1>4

LEMMA FreeListIs ==
  ASSUME NEW free, IsFreeList(m_saves, free), Size(m_saves) \in Nat
  PROVE  FreeList = FirstFrom(free, Size(m_saves))
<1> DEFINE n == Size(m_saves)
           f == FirstFrom(free, n)
           g == FreeList
<1>1. f = FreeListBody(m_saves, f)
  BY FirstFromIsFreeList
<1>2. FreeList = CHOOSE h : h = FreeListBody(m_saves, h)
  BY DEF FreeList, FreeListBody
<1>3. n \in Nat /\ n = Len(m_saves.all)
  BY DEF Size
<1> HIDE DEF f
<1>4. g = FreeListBody(m_saves, g)
  BY <1>1, <1>2
<1> HIDE DEF g, n
<1>5. f = g
  BY <1>1, <1>3, <1>4, OneFreeList
<1> QED
  BY <1>5 DEF f, g, n

LEMMA HoldersAreHeld ==
  ASSUME VMTypeOK, NEW i \in Nat
  PROVE  HeldBy(Holders, i) = Held[i]
<1> DEFINE c == Current(m_threads)
           n == NextThreads(m_threads)
           s == thread.saves
           x == m_captures
           ring == c \o n
           a == SavesOf(c)
           b == SavesOf(n)
           u == <<s>>
           v == <<x>>
           w == <<s, x>>
<1>1. c \in Seq(Threads) /\ n \in Seq(Threads) /\ s \in Nat /\ x \in Nat
  BY TypeFacts
<1>2. Holders = SavesOf(ring) \o w
  BY DEF Holders, SavesOf
<1>3. w = u \o v
  BY <1>1
<1> HIDE DEF c, n, s, x, w
<1>4. SavesOf(ring) = a \o b /\ a \in Seq(Nat) /\ b \in Seq(Nat)
  BY <1>1, SavesOfConcat, SavesOfSeq
<1>5. /\ u \in Seq(Nat) /\ v \in Seq(Nat)
      /\ HeldBy(u, i) = One(s, i) /\ HeldBy(v, i) = One(x, i)
  BY <1>1, HeldByFew
<1> HIDE DEF ring, a, b, u, v
<1>6. a \o b \in Seq(Nat) /\ u \o v \in Seq(Nat)
  BY <1>4, <1>5, ConcatProperties
<1>7. HeldBy(a \o b, i) = HeldBy(a, i) + HeldBy(b, i)
  BY <1>4, HeldByConcat
<1>8. HeldBy(u \o v, i) = HeldBy(u, i) + HeldBy(v, i)
  BY <1>5, HeldByConcat
<1> DEFINE p == a \o b
           q == u \o v
<1>9. p \in Seq(Nat) /\ q \in Seq(Nat) /\ Holders = p \o q
  BY <1>2, <1>3, <1>4, <1>6
<1> HIDE DEF p, q
<1>10. HeldBy(p \o q, i) = HeldBy(p, i) + HeldBy(q, i)
  BY <1>9, HeldByConcat
<1>11. Held[i] = HeldIn(c, i) + HeldIn(n, i) + One(s, i) + One(x, i)
  <2>1. HeldOf(c, n, s, x)[i] = HeldIn(c, i) + HeldIn(n, i) + One(s, i) + One(x, i)
    BY <1>1, HeldAt
  <2> QED
    BY <2>1 DEF Held, c, n, s, x
<1>12. HeldIn(c, i) = HeldBy(a, i) /\ HeldIn(n, i) = HeldBy(b, i)
  BY DEF HeldIn, a, b
<1>13. /\ HeldBy(a, i) \in Nat /\ HeldBy(b, i) \in Nat
       /\ One(s, i) \in Nat /\ One(x, i) \in Nat
  BY <1>4, PlacesAreFinite, OneAt
<1>14. HeldBy(p, i) = HeldBy(a, i) + HeldBy(b, i) /\ HeldBy(q, i) = One(s, i) + One(x, i)
  BY <1>5, <1>7, <1>8 DEF p, q
<1> QED
  BY <1>9, <1>10, <1>11, <1>12, <1>13, <1>14

LEMMA CountedFreeList ==
  ASSUME NEW V, NEW free, NEW h, Counted(m_saves, V, free, h)
  PROVE  LET n == Len(m_saves.all)
             Free == {FreeList[k] : k \in 0 .. n} \ {None}
         IN  /\ FreeList[n] = None
             /\ \A i \in 1 .. n : i \in Free <=> IsFree(free, i)
<1> DEFINE n == Len(m_saves.all)
           l == Len(free)
           Free == {FreeList[k] : k \in 0 .. n} \ {None}
<1>1. IsFreeList(m_saves, free) /\ n \in Nat /\ n = Size(m_saves)
  BY SizeOfSaves DEF Counted, Size
<1>2. FreeList = FirstFrom(free, n)
  BY <1>1, FreeListIs
<1>3. /\ free \in Seq(Nat) /\ \A k \in 1 .. l : free[k] \in 1 .. n
      /\ \A j, k \in 1 .. l : free[j] = free[k] => j = k
  BY <1>1 DEF IsFreeList
<1>4. l \in Nat /\ l <= n
  BY <1>1, <1>3, FreeListIsShort
<1>5. \A k \in 0 .. n : FreeList[k] = IF k < l THEN free[l - k] ELSE None
  BY <1>2 DEF FirstFrom
<1>6. n \in Nat
  BY <1>1
<1>7. \A i : IsFree(free, i) <=> \E k \in 1 .. l : free[k] = i
  BY DEF IsFree
<1> HIDE DEF n, l
<1>8. FreeList[n] = None
  <2>1. n \in 0 .. n /\ ~(n < l)
    BY <1>4, <1>6
  <2> QED
    BY <1>5, <2>1
<1>9. ASSUME NEW i \in 1 .. n, i \in Free
      PROVE  IsFree(free, i)
  <2>1. PICK k \in 0 .. n : FreeList[k] = i
    BY <1>9
  <2>2. i # None
    BY <1>9
  <2>3. k < l /\ free[l - k] = i
    BY <1>5, <2>1, <2>2
  <2>4. l - k \in 1 .. l
    BY <1>4, <2>3
  <2> QED
    BY <1>7, <2>3, <2>4
<1>10. ASSUME NEW i \in 1 .. n, IsFree(free, i)
       PROVE  i \in Free
  <2>1. PICK k \in 1 .. l : free[k] = i
    BY <1>7, <1>10
  <2> DEFINE j == l - k
  <2>2. j \in 0 .. n /\ j < l /\ l - j = k
    BY <1>4, <1>6
  <2> HIDE DEF j
  <2>3. FreeList[j] = i
    BY <1>5, <2>1, <2>2
  <2>4. i # None
    BY <1>6 DEF None
  <2> QED
    BY <2>2, <2>3, <2>4
<1>11. FreeList[n] = None /\ \A i \in 1 .. n : i \in Free <=> IsFree(free, i)
  BY <1>8, <1>9, <1>10
<1> QED
  BY <1>11 DEF n

LEMMA VMInvCounts ==
  ASSUME VMInv
  PROVE  SavesAreCounted
<1>1. PICK V, free : Counted(m_saves, V, free, Held)
  BY DEF VMInv, SoundSaves
<1> DEFINE n == Len(m_saves.all)
           Free == {FreeList[k] : k \in 0 .. n} \ {None}
<1>2. FreeList[n] = None /\ \A i \in 1 .. n : i \in Free <=> IsFree(free, i)
  BY <1>1, CountedFreeList
<1>3. n \in Nat /\ n = Size(m_saves)
  BY <1>1, SizeOfSaves DEF Counted, Size
<1> HIDE DEF Free
<1>4. ASSUME NEW i \in 1 .. n
      PROVE  IF i \in Free THEN HeldBy(Holders, i) = 0 /\ m_saves.all[i].refcount = 1
             ELSE HeldBy(Holders, i) = m_saves.all[i].refcount
  <2>1. HeldBy(Holders, i) = Held[i]
    BY <1>3, HoldersAreHeld DEF VMInv
  <2>2. IF IsFree(free, i) THEN Held[i] = 0 /\ m_saves.all[i].refcount = 1
        ELSE Held[i] = m_saves.all[i].refcount
    BY <1>1, <1>3 DEF Counted
  <2> QED
    BY <1>2, <2>1, <2>2
<1> QED
  BY <1>2, <1>4 DEF SavesAreCounted, Free

(* Whatever the program and the subject, saves are counted as often as they *)
(* are held, and the free list holds, once each, those that nobody holds.   *)
THEOREM SavesAreAlwaysCounted == RunsAnyProgram => []SavesAreCounted
<1>1. VMInv => SavesAreCounted
  BY VMInvCounts
<1> QED
  BY <1>1, VMInvIsInvariant, PTL

-----------------------------------------------------------------------------
(* How many threads there may be: as many as instructions.                  *)

Of(kind) == {i \in DOMAIN Insts : Insts[i].op \in kind}
VisitedOf(kind) == {i \in Of(kind) : last_step[i] = current_step}
Number(kind) == Cardinality(Of(kind))
NumberVisited(kind) == Cardinality(VisitedOf(kind))
Forks == {"Split"}
Bound == Max({InitialCapacity, 2 * Len(Insts)})

Quiet == {"call", "exec", "returned", "done"}
Runs(t) == IF t \in {Idle, Matched} THEN 0 ELSE 1

(* The threads there are when so many instructions that consume a character *)
(* and so many that fork have run in the step.                              *)
Fits(ring, at, t, consumed, forked) ==
    /\ ring.capacity <= Bound
    /\ at \in Quiet \cup {"loop", "step", "last step", "exit"}
    /\ at \in Quiet => Len(Current(ring)) = 0 /\ Len(NextThreads(ring)) = 0 /\ t = Idle
    /\ at = "loop" => /\ Len(NextThreads(ring)) = 0 /\ t = Idle
                      /\ Len(Current(ring)) <= 1 + Number(Consumers)
    /\ at = "exit" => Len(Current(ring)) = 0 /\ t = Idle
    /\ at \in {"step", "last step"} =>
          /\ Len(NextThreads(ring)) <= consumed
          /\ Len(Current(ring)) + Len(NextThreads(ring)) + Runs(t)
               <= 1 + Number(Consumers) + forked

RingInv ==
    /\ DOMAIN last_step = DOMAIN Insts
    /\ Fits(m_threads, stage, thread, NumberVisited(Consumers), NumberVisited(Forks))

LEMMA MaxOfTwo ==
  ASSUME NEW a \in Nat, NEW b \in Nat
  PROVE  Max({a, b}) \in Nat /\ a <= Max({a, b}) /\ b <= Max({a, b})
<1> DEFINE S == {a, b}
<1>1. \E x \in S : \A y \in S : x >= y
  <2>1. CASE a >= b
    BY <2>1
  <2>2. CASE ~(a >= b)
    BY <2>2
  <2> QED
    BY <2>1, <2>2
<1>2. Max(S) \in S /\ \A y \in S : Max(S) >= y
  <2> HIDE DEF S
  <2> QED
    BY <1>1 DEF Max
<1> DEFINE m == Max(S)
<1> HIDE DEF m
<1>3. m \in S /\ \A y \in S : m >= y
  BY <1>2 DEF m
<1>4. m \in Nat /\ a <= m /\ b <= m
  BY <1>3
<1> QED
  BY <1>4 DEF m

LEMMA BoundIs ==
  ASSUME IsProgram(program)
  PROVE  Bound \in Nat /\ InitialCapacity <= Bound /\ 2 * Len(Insts) <= Bound
<1>1. Len(Insts) \in Nat /\ InitialCapacity \in Nat
  BY ProgramFacts, CapacityAssumption
<1> DEFINE a == InitialCapacity
           b == 2 * Len(Insts)
<1>2. a \in Nat /\ b \in Nat
  BY <1>1
<1> HIDE DEF a, b
<1>3. Max({a, b}) \in Nat /\ a <= Max({a, b}) /\ b <= Max({a, b})
  BY <1>2, MaxOfTwo
<1> QED
  BY <1>3 DEF Bound, a, b

(* A program has a Match, which neither consumes nor forks.                 *)
LEMMA InstructionsCounted ==
  ASSUME IsProgram(program)
  PROVE  /\ 1 + Number(Consumers) + Number(Forks) <= Len(Insts)
         /\ Number(Consumers) \in Nat /\ Number(Forks) \in Nat
         /\ IsFiniteSet(Of(Consumers)) /\ IsFiniteSet(Of(Forks))
<1> DEFINE n == Len(Insts)
           C == Of(Consumers)
           S == Of(Forks)
           D == 1 .. n
<1>1. n \in Nat \ {0} /\ DOMAIN Insts = D /\ Insts[n].op = "Match" /\ n \in D
  BY ProgramFacts
<1>2. C \in SUBSET D /\ S \in SUBSET D /\ C \cap S = {} /\ n \notin C \cup S
  BY <1>1 DEF Of, Consumers, Forks
<1>3. IsFiniteSet(D) /\ Cardinality(D) = n
  <2>1. n \in Int /\ ~(1 > n)
    BY <1>1
  <2> HIDE DEF n
  <2>2. IsFiniteSet(1 .. n) /\ Cardinality(1 .. n) = IF 1 > n THEN 0 ELSE n - 1 + 1
    BY <2>1, FS_Interval
  <2> QED
    BY <2>1, <2>2
<1> HIDE DEF C, S, D, n
<1>4. IsFiniteSet(C) /\ IsFiniteSet(S)
  BY <1>2, <1>3, FS_Subset
<1>5. /\ Cardinality(C) \in Nat /\ Cardinality(S) \in Nat
      /\ IsFiniteSet(C \cup S) /\ Cardinality(C \cup S) = Cardinality(C) + Cardinality(S)
  <2>1. Cardinality(C) \in Nat /\ Cardinality(S) \in Nat
    BY <1>4, FS_CardinalityType
  <2>2. /\ IsFiniteSet(C \cup S)
        /\ Cardinality(C \cup S) = Cardinality(C) + Cardinality(S) - Cardinality(C \cap S)
    BY <1>4, FS_Union
  <2>3. Cardinality(C \cap S) = 0
    BY <1>2, FS_EmptySet
  <2> QED
    BY <2>1, <2>2, <2>3
<1> DEFINE A == C \cup S
           B == D \ {n}
<1>6. A \in SUBSET B
  BY <1>2
<1>7. IsFiniteSet(B) /\ Cardinality(B) = n - 1
  BY <1>1, <1>3, FS_RemoveElement
<1> HIDE DEF A, B
<1>8. Cardinality(A) <= Cardinality(B)
  BY <1>6, <1>7, FS_Subset
<1>9. 1 + Cardinality(C) + Cardinality(S) <= n
  BY <1>1, <1>5, <1>7, <1>8 DEF A
<1> QED
  BY <1>4, <1>5, <1>9 DEF Number, C, S, n

LEMMA VisitedCounted ==
  ASSUME NEW kind, IsFiniteSet(Of(kind))
  PROVE  /\ IsFiniteSet(VisitedOf(kind)) /\ NumberVisited(kind) \in Nat
         /\ NumberVisited(kind) <= Number(kind)
<1> DEFINE S == Of(kind)
           T == VisitedOf(kind)
<1>1. T \in SUBSET S
  BY DEF VisitedOf
<1> HIDE DEF S, T
<1>2. IsFiniteSet(T) /\ Cardinality(T) <= Cardinality(S)
  BY <1>1, FS_Subset DEF S
<1>3. Cardinality(T) \in Nat
  BY <1>2, FS_CardinalityType
<1> QED
  BY <1>2, <1>3 DEF S, T, Number, NumberVisited

(* An instruction that runs is one more that has run in the step.           *)
LEMMA VisitCounts ==
  ASSUME NEW kind, IsFiniteSet(Of(kind)), NEW i, i \in DOMAIN Insts,
         DOMAIN last_step = DOMAIN Insts, ~Visited(i), program' = program,
         current_step' = current_step, last_step' = [last_step EXCEPT ![i] = current_step]
  PROVE  NumberVisited(kind)'
           = NumberVisited(kind) + (IF Insts[i].op \in kind THEN 1 ELSE 0)
<1> DEFINE T == VisitedOf(kind)
           U == VisitedOf(kind)'
<1>1. IsFiniteSet(T) /\ i \notin T
  BY VisitedCounted DEF VisitedOf, Visited
<1>2. Of(kind)' = Of(kind)
  BY DEF Of, Insts
<1>3. \A j \in DOMAIN Insts : last_step'[j] = IF j = i THEN current_step ELSE last_step[j]
  OBVIOUS
<1>4. U = {j \in Of(kind) : last_step'[j] = current_step}
  BY <1>2 DEF VisitedOf
<1>5. \A j \in Of(kind) : j \in DOMAIN Insts
  BY DEF Of
<1>6. i \in Of(kind) <=> Insts[i].op \in kind
  BY DEF Of
<1>7. U = IF Insts[i].op \in kind THEN T \cup {i} ELSE T
  BY <1>3, <1>4, <1>5, <1>6 DEF VisitedOf
<1> HIDE DEF T, U
<1>8. Cardinality(T) \in Nat /\ Cardinality(T \cup {i}) = Cardinality(T) + 1
  BY <1>1, FS_CardinalityType, FS_AddElement
<1>9. Cardinality(U) = Cardinality(T) + (IF Insts[i].op \in kind THEN 1 ELSE 0)
  BY <1>7, <1>8
<1> QED
  BY <1>9 DEF NumberVisited, T, U

LEMMA StackLengths ==
  ASSUME NEW c \in Seq(Threads), NEW t \in Threads
  PROVE  /\ Len(c) \in Nat
         /\ Len(Pushed(t, c)) = Len(c) + 1 /\ Len(Append(c, t)) = Len(c) + 1
         /\ c # <<>> => Len(c) > 0 /\ Len(Tail(c)) = Len(c) - 1
         /\ Len(c) > 0 => Len(SubSeq(c, 1, Len(c) - 1)) = Len(c) - 1
<1> DEFINE u == <<t>>
           n == Len(c)
<1>1. u \in Seq(Threads) /\ Len(u) = 1 /\ Pushed(t, c) = u \o c
  BY DEF Pushed
<1> HIDE DEF u
<1>2. n \in Nat /\ Len(u \o c) = 1 + n
  BY <1>1, LenProperties, ConcatProperties
<1>3. Len(Append(c, t)) = n + 1
  BY AppendProperties
<1>4. c # <<>> => n > 0 /\ Len(Tail(c)) = n - 1
  BY <1>2, EmptySeq, HeadTailProperties
<1>5. ASSUME n > 0
      PROVE  Len(SubSeq(c, 1, n - 1)) = n - 1
  <2> DEFINE m == n - 1
  <2>1. m \in Int /\ m \in Nat /\ \A i \in 1 .. m : i \in 1 .. Len(c)
    BY <1>2, <1>5
  <2>2. \A i \in 1 .. m : c[i] \in Threads
    BY <2>1, ElementOfSeq
  <2> HIDE DEF m, n
  <2>3. Len(SubSeq(c, 1, m)) = IF 1 <= m THEN m - 1 + 1 ELSE 0
    BY <2>1, <2>2, SubSeqProperties
  <2>4. Len(SubSeq(c, 1, m)) = m
    BY <2>1, <2>3
  <2> QED
    BY <2>4 DEF m
<1> QED
  BY <1>1, <1>2, <1>3, <1>4, <1>5

LEMMA RingFacts ==
  ASSUME VMTypeOK, RingInv
  PROVE  /\ IsProgram(program) /\ DOMAIN last_step = DOMAIN Insts
         /\ IsRing(m_threads, Threads)
         /\ Fits(m_threads, stage, thread, NumberVisited(Consumers), NumberVisited(Forks))
         /\ Current(m_threads) \in Seq(Threads) /\ NextThreads(m_threads) \in Seq(Threads)
         /\ Len(Current(m_threads)) \in Nat /\ Len(NextThreads(m_threads)) \in Nat
         /\ m_threads.capacity \in Nat
         /\ NumberVisited(Consumers) \in Nat /\ NumberVisited(Consumers) <= Number(Consumers)
         /\ NumberVisited(Forks) \in Nat /\ NumberVisited(Forks) <= Number(Forks)
         /\ Number(Consumers) \in Nat /\ Number(Forks) \in Nat /\ Len(Insts) \in Nat
         /\ 1 + Number(Consumers) + Number(Forks) <= Len(Insts)
<1>1. /\ IsProgram(program) /\ IsRing(m_threads, Threads)
      /\ Current(m_threads) \in Seq(Threads) /\ NextThreads(m_threads) \in Seq(Threads)
  BY TypeFacts
<1>2. /\ Len(Current(m_threads)) \in Nat /\ Len(NextThreads(m_threads)) \in Nat
      /\ m_threads.capacity \in Nat
  BY <1>1, RingIsEmpty
<1>3. /\ Number(Consumers) \in Nat /\ Number(Forks) \in Nat /\ Len(Insts) \in Nat
      /\ 1 + Number(Consumers) + Number(Forks) <= Len(Insts)
      /\ IsFiniteSet(Of(Consumers)) /\ IsFiniteSet(Of(Forks))
  BY <1>1, InstructionsCounted, ProgramFacts
<1>4. /\ NumberVisited(Consumers) \in Nat /\ NumberVisited(Consumers) <= Number(Consumers)
      /\ NumberVisited(Forks) \in Nat /\ NumberVisited(Forks) <= Number(Forks)
  BY <1>3, VisitedCounted
<1> QED
  BY <1>1, <1>2, <1>3, <1>4 DEF RingInv

LEMMA StillFits ==
  ASSUME IsProgram(program), program' = program, DOMAIN last_step' = DOMAIN Insts,
         NEW ring, ring = m_threads', NEW vc, vc = NumberVisited(Consumers)',
         NEW vs, vs = NumberVisited(Forks)', Fits(ring, stage', thread', vc, vs)
  PROVE  RingInv'
<1>1. Insts' = Insts
  BY DEF Insts
<1>2. Number(Consumers)' = Number(Consumers) /\ Bound' = Bound
  BY <1>1 DEF Number, Of, Bound
<1>3. Fits(m_threads, stage, thread, NumberVisited(Consumers), NumberVisited(Forks))'
  BY <1>2 DEF Fits
<1> QED
  BY <1>1, <1>3 DEF RingInv

LEMMA NothingVisited ==
  ASSUME IsProgram(program), program' = program, NEW kind,
         last_step' = last_step, current_step' = current_step
  PROVE  NumberVisited(kind)' = NumberVisited(kind)
BY DEF NumberVisited, VisitedOf, Of, Insts

LEMMA GrowsInBound ==
  ASSUME IsProgram(program), NEW cap \in Nat, cap <= Bound, NEW m \in Nat, m <= Len(Insts),
         NEW new, new = IF m = cap THEN 2 * cap ELSE cap
  PROVE  new <= Bound /\ new \in Nat
<1>1. Bound \in Nat /\ 2 * Len(Insts) <= Bound /\ Len(Insts) \in Nat
  BY BoundIs, ProgramFacts
<1> DEFINE b == Bound
           l == Len(Insts)
<1>2. b \in Nat /\ 2 * l <= b /\ l \in Nat /\ cap <= b /\ m <= l
  BY <1>1
<1> HIDE DEF b, l
<1>3. new <= b /\ new \in Nat
  BY <1>2
<1> QED
  BY <1>3 DEF b

LEMMA RunsAtMost ==
  ASSUME NEW t
  PROVE  /\ Runs(t) \in 0 .. 1 /\ Runs(Idle) = 0 /\ Runs(Matched) = 0
         /\ t \notin {Idle, Matched} => Runs(t) = 1
BY DEF Runs

(* The same threads, and some of those of this step gone.                   *)
LEMMA FewerFit ==
  ASSUME VMTypeOK, RingInv, Stepping, UNCHANGED <<program, stage>>,
         DOMAIN last_step' = DOMAIN Insts,
         NEW ring, ring = m_threads', ring.capacity = m_threads.capacity,
         Len(Current(ring)) \in Nat, Len(NextThreads(ring)) = Len(NextThreads(m_threads)),
         Len(Current(ring)) + Runs(thread') <= Len(Current(m_threads)) + Runs(thread),
         NEW vc \in Nat, vc = NumberVisited(Consumers)', vc >= NumberVisited(Consumers),
         NEW vs \in Nat, vs = NumberVisited(Forks)', vs >= NumberVisited(Forks)
  PROVE  RingInv'
<1> DEFINE c == Len(Current(m_threads))
           n == Len(NextThreads(m_threads))
           d == Len(Current(ring))
           r == Runs(thread)
           q == Runs(thread')
           u == NumberVisited(Consumers)
           v == NumberVisited(Forks)
           k == Number(Consumers)
<1>1. /\ n <= u /\ c + n + r <= 1 + k + v /\ m_threads.capacity <= Bound
      /\ stage' \in {"step", "last step"}
      /\ c \in Nat /\ n \in Nat /\ u \in Nat /\ v \in Nat /\ k \in Nat
  BY RingFacts DEF Fits, Stepping
<1>2. d \in Nat /\ d + q <= c + r /\ vc >= u /\ vs >= v
  OBVIOUS
<1>3. r \in Nat /\ q \in Nat
  BY RunsAtMost
<1> HIDE DEF c, n, d, r, q, u, v, k
<1>4. n <= vc /\ d + n + q <= 1 + k + vs
  <2>1. c \in Nat /\ n \in Nat /\ r \in Nat /\ d \in Nat /\ q \in Nat
    BY <1>1, <1>2, <1>3
  <2>2. u \in Nat /\ v \in Nat /\ k \in Nat
    BY <1>1
  <2>3. n <= u /\ c + n + r <= 1 + k + v /\ d + q <= c + r
    BY <1>1, <1>2
  <2>4. u <= vc /\ v <= vs
    BY <1>1, <1>2
  <2>5. n <= vc
    BY <2>1, <2>2, <2>3, <2>4
  <2>6. d + n + q <= 1 + k + v
    BY <2>1, <2>2, <2>3
  <2>7. d + n + q <= 1 + k + vs
    BY <2>1, <2>2, <2>4, <2>6
  <2> QED
    BY <2>5, <2>7
<1>5. Fits(ring, stage', thread', vc, vs)
  BY <1>1, <1>4 DEF Fits, Quiet, n, d, q, k
<1> QED
  BY <1>5, StillFits, RingFacts

LEMMA QuietKeepsRing ==
  ASSUME VMTypeOK, RingInv, UNCHANGED <<program, m_threads, thread, last_step, current_step>>,
         \/ stage \in Quiet /\ stage' \in Quiet \cup {"exit"}
         \/ stage = "exit" /\ NextIsEmpty(m_threads) /\ stage' \in Quiet
         \/ /\ Stepping /\ CurrentIsEmpty(m_threads) /\ thread = Idle
            /\ stage' = "exit"
         \/ stage' = stage
  PROVE  RingInv'
<1> DEFINE ring == m_threads
           vc == NumberVisited(Consumers)
           vs == NumberVisited(Forks)
<1>1. /\ IsProgram(program) /\ Fits(ring, stage, thread, vc, vs) /\ IsRing(ring, Threads)
      /\ DOMAIN last_step' = DOMAIN Insts /\ ring = m_threads'
  BY RingFacts
<1>2. vc = NumberVisited(Consumers)' /\ vs = NumberVisited(Forks)'
  BY <1>1, NothingVisited
<1>3. /\ CurrentIsEmpty(ring) => Len(Current(ring)) = 0
      /\ NextIsEmpty(ring) => Len(NextThreads(ring)) = 0
  BY <1>1, RingIsEmpty, EmptySeq
<1> HIDE DEF ring, vc, vs
<1>4. CASE stage' = stage
  BY <1>1, <1>2, <1>4, StillFits
<1>5. CASE stage \in Quiet /\ stage' \in Quiet \cup {"exit"}
  <2>1. Fits(ring, stage', thread', vc, vs)
    BY <1>1, <1>5 DEF Fits, Quiet
  <2> QED
    BY <1>1, <1>2, <2>1, StillFits
<1>6. CASE stage = "exit" /\ NextIsEmpty(m_threads) /\ stage' \in Quiet
  <2>1. Fits(ring, stage', thread', vc, vs)
    BY <1>1, <1>3, <1>6 DEF Fits, Quiet, ring
  <2> QED
    BY <1>1, <1>2, <2>1, StillFits
<1>7. CASE Stepping /\ CurrentIsEmpty(m_threads) /\ thread = Idle /\ stage' = "exit"
  <2>1. Fits(ring, stage', thread', vc, vs)
    BY <1>1, <1>3, <1>7 DEF Fits, Quiet, Stepping, ring
  <2> QED
    BY <1>1, <1>2, <2>1, StillFits
<1> QED
  BY <1>4, <1>5, <1>6, <1>7

LEMMA ExecProgramKeepsRing ==
  ASSUME VMTypeOK, RingInv, ExecProgram
  PROVE  RingInv'
<1>0. stage = "exec" /\ thread' = thread /\ program' = program /\ last_step' = last_step
  BY DEF ExecProgram, call
<1>1. /\ IsProgram(program) /\ IsRing(m_threads, Threads)
      /\ DOMAIN last_step' = DOMAIN Insts
      /\ Current(m_threads) \in Seq(Threads) /\ NextThreads(m_threads) \in Seq(Threads)
      /\ Len(Current(m_threads)) = 0 /\ Len(NextThreads(m_threads)) = 0 /\ thread = Idle
      /\ m_threads.capacity <= Bound /\ m_threads.capacity \in Nat
  BY <1>0, RingFacts DEF Fits, Quiet
<1> DEFINE next == m_threads'
           vc == NumberVisited(Consumers)'
           vs == NumberVisited(Forks)'
           t == NewThread
<1>2. \/ stage' = "exit" /\ next = m_threads
      \/ stage' = "loop" /\ next = PushCurrent(m_threads, t)
  BY DEF ExecProgram
<1> HIDE DEF vc, vs, next, t
<1>3. CASE stage' = "exit" /\ next = m_threads
  <2>1. Fits(next, stage', thread', vc, vs)
    BY <1>0, <1>1, <1>3 DEF Fits, Quiet
  <2> QED
    BY <1>0, <1>1, <2>1, StillFits DEF next, vc, vs
<1>4. CASE stage' = "loop" /\ next = PushCurrent(m_threads, t)
  <2>1. t \in Threads
    BY <1>1, RunningIsThread DEF t
  <2>2. /\ Current(next) = Pushed(t, Current(m_threads))
        /\ NextThreads(next) = NextThreads(m_threads)
        /\ next.capacity = IF Len(Current(m_threads)) + 1 + Len(NextThreads(m_threads))
                                = m_threads.capacity
                           THEN 2 * m_threads.capacity ELSE m_threads.capacity
    BY <1>1, <1>4, <2>1, PushCurrentHolds
  <2> DEFINE c == Current(m_threads)
  <2>c. c \in Seq(Threads) /\ Len(c) = 0 /\ Current(next) = Pushed(t, c)
    BY <1>1, <2>2
  <2>l. Len(Pushed(t, c)) = Len(c) + 1
    <3> HIDE DEF c
    <3> QED
      BY <2>1, <2>c, StackLengths
  <2> HIDE DEF c
  <2>3. Len(Current(next)) = 1 /\ Len(NextThreads(next)) = 0
    BY <1>1, <2>c, <2>l, <2>2
  <2>4. 1 <= 1 + Number(Consumers) /\ 1 <= Len(Insts)
    BY <1>1, InstructionsCounted, ProgramFacts
  <2>5. next.capacity = IF 1 = m_threads.capacity
                        THEN 2 * m_threads.capacity ELSE m_threads.capacity
    BY <1>1, <2>2
  <2> DEFINE m == 1
             new == next.capacity
             old == m_threads.capacity
  <2>6. /\ m \in Nat /\ m <= Len(Insts) /\ old \in Nat /\ old <= Bound
        /\ new = IF m = old THEN 2 * old ELSE old
    BY <1>1, <2>4, <2>5
  <2> HIDE DEF m, new, old
  <2>7. new <= Bound
    BY <1>1, <2>6, GrowsInBound
  <2>8. Fits(next, stage', thread', vc, vs)
    BY <1>0, <1>1, <1>4, <2>3, <2>4, <2>7 DEF Fits, Quiet, new
  <2> QED
    BY <1>0, <1>1, <2>8, StillFits DEF next, vc, vs
<1> QED
  BY <1>2, <1>3, <1>4

LEMMA StepBeginsKeepsRing ==
  ASSUME VMTypeOK, RingInv, StepBegins
  PROVE  RingInv'
<1> DEFINE ring == m_threads
           vc == NumberVisited(Consumers)'
           vs == NumberVisited(Forks)'
           c == Len(Current(ring))
           k == Number(Consumers)
<1>0. /\ stage = "loop" /\ thread' = thread /\ program' = program /\ ring = m_threads'
      /\ stage' \in {"step", "last step"} /\ last_step' = StepsKept(last_step, current_step)
  BY DEF StepBegins, call
<1>1. /\ IsProgram(program) /\ DOMAIN last_step = DOMAIN Insts
      /\ Len(NextThreads(ring)) = 0 /\ thread = Idle /\ c <= 1 + k
      /\ ring.capacity <= Bound /\ c \in Nat /\ k \in Nat
  BY <1>0, RingFacts DEF Fits
<1>2. DOMAIN last_step' = DOMAIN Insts
  BY <1>0, <1>1 DEF StepsKept
<1>3. vc \in Nat /\ vs \in Nat
  <2>1. IsFiniteSet(Of(Consumers)) /\ IsFiniteSet(Of(Forks))
    BY <1>1, InstructionsCounted
  <2>2. ASSUME NEW kind, IsFiniteSet(Of(kind))
        PROVE  NumberVisited(kind)' \in Nat
    <3> DEFINE S == Of(kind)
               T == VisitedOf(kind)'
    <3>1. T \in SUBSET S
      BY <1>0 DEF VisitedOf, Of, Insts
    <3> HIDE DEF S, T
    <3>2. IsFiniteSet(T)
      BY <2>2, <3>1, FS_Subset DEF S
    <3>3. Cardinality(T) \in Nat
      BY <3>2, FS_CardinalityType
    <3> QED
      BY <3>3 DEF T, NumberVisited
  <2> QED
    BY <2>1, <2>2
<1>4. Runs(thread') = 0
  BY <1>0, <1>1, RunsAtMost
<1> HIDE DEF ring, vc, vs, c, k
<1>5. 0 <= vc /\ c + 0 + 0 <= 1 + k + vs
  BY <1>1, <1>3
<1>6. Fits(ring, stage', thread', vc, vs)
  BY <1>0, <1>1, <1>4, <1>5 DEF Fits, Quiet, c, k
<1> QED
  BY <1>0, <1>1, <1>2, <1>6, StillFits DEF vc, vs

LEMMA FewerFitInStep ==
  ASSUME VMTypeOK, RingInv, Stepping,
         UNCHANGED <<program, stage, last_step, current_step>>,
         NEW ring, ring = m_threads', ring.capacity = m_threads.capacity,
         Len(Current(ring)) \in Nat, Len(NextThreads(ring)) = Len(NextThreads(m_threads)),
         Len(Current(ring)) + Runs(thread') <= Len(Current(m_threads)) + Runs(thread)
  PROVE  RingInv'
<1> DEFINE vc == NumberVisited(Consumers)'
           vs == NumberVisited(Forks)'
           u == NumberVisited(Consumers)
           v == NumberVisited(Forks)
<1>1. u \in Nat /\ v \in Nat /\ IsProgram(program)
  BY RingFacts
<1>2. vc = u /\ vs = v
  BY <1>1, NothingVisited
<1> HIDE DEF vc, vs, u, v
<1>3. vc \in Nat /\ vs \in Nat /\ vc >= u /\ vs >= v
  BY <1>1, <1>2
<1>4. DOMAIN last_step' = DOMAIN Insts
  BY RingFacts
<1>5. UNCHANGED <<program, stage>>
  OBVIOUS
<1> QED
  BY <1>3, <1>4, <1>5, FewerFit DEF vc, vs, u, v

LEMMA PopThreadKeepsRing ==
  ASSUME VMTypeOK, RingInv, PopThread
  PROVE  RingInv'
<1> DEFINE ring == m_threads'
           c == Current(m_threads)
           q == Runs(thread')
           r == Runs(thread)
<1>1. /\ Stepping /\ thread = Idle /\ ~CurrentIsEmpty(m_threads)
      /\ UNCHANGED <<program, stage, last_step, current_step>>
      /\ ring = PopCurrent(m_threads) /\ ring = m_threads'
  BY DEF PopThread, call, place
<1>2. IsRing(m_threads, Threads) /\ c \in Seq(Threads)
  BY TypeFacts
<1>3. /\ Current(ring) = Tail(c) /\ c # <<>>
      /\ NextThreads(ring) = NextThreads(m_threads) /\ ring.capacity = m_threads.capacity
  BY <1>1, <1>2, PopCurrentHolds
<1>4. r = 0 /\ q \in 0 .. 1
  BY <1>1, RunsAtMost
<1> HIDE DEF c, ring, q, r
<1>5. Len(c) \in Nat /\ Len(c) > 0 /\ Len(Tail(c)) = Len(c) - 1
  <2>1. NewThread \in Threads
    BY RunningIsThread, TypeFacts
  <2> QED
    BY <1>2, <1>3, <2>1, StackLengths
<1>6. Len(Current(ring)) \in Nat /\ Len(Current(ring)) + q <= Len(c) + r
  BY <1>3, <1>4, <1>5
<1>7. /\ Len(NextThreads(ring)) = Len(NextThreads(m_threads))
      /\ ring.capacity = m_threads.capacity
  BY <1>3
<1> QED
  BY <1>1, <1>6, <1>7, FewerFitInStep DEF c, q, r

LEMMA RedundantKeepsRing ==
  ASSUME VMTypeOK, RingInv, Redundant
  PROVE  RingInv'
<1> DEFINE ring == m_threads
           k == Len(Current(ring))
           q == Runs(thread')
           r == Runs(thread)
<1>1. /\ Stepping /\ thread \notin {Idle, Matched} /\ thread' = Idle
      /\ UNCHANGED <<program, stage, last_step, current_step>>
      /\ ring = m_threads'
  BY DEF Redundant, Fails, call, place
<1>2. k \in Nat
  BY RingFacts
<1>3. r = 1 /\ q = 0
  BY <1>1, RunsAtMost
<1> HIDE DEF k, q, r
<1>4. k + q <= k + r
  BY <1>2, <1>3
<1> QED
  BY <1>1, <1>2, <1>4, FewerFitInStep DEF k, q, r, ring

LEMMA DropLowerKeepsRing ==
  ASSUME VMTypeOK, RingInv, DropLower
  PROVE  RingInv'
<1> DEFINE ring == m_threads'
           c == Current(m_threads)
           q == Runs(thread')
           r == Runs(thread)
<1>1. /\ Stepping /\ thread = Matched /\ ring = m_threads'
      /\ UNCHANGED <<program, stage, last_step, current_step>>
      /\ thread' \in {Idle, Matched}
      /\ \/ ring = m_threads
         \/ ~CurrentIsEmpty(m_threads) /\ ring = PopCurrent(m_threads)
  BY DEF DropLower, call, place
<1>2. IsRing(m_threads, Threads) /\ c \in Seq(Threads) /\ Len(c) \in Nat
  BY RingFacts
<1>3. r = 0 /\ q = 0
  BY <1>1, RunsAtMost
<1>4. /\ \/ Current(ring) = c
         \/ Current(ring) = Tail(c) /\ c # <<>>
      /\ NextThreads(ring) = NextThreads(m_threads) /\ ring.capacity = m_threads.capacity
  BY <1>1, <1>2, PopCurrentHolds
<1> HIDE DEF c, ring, q, r
<1>5. Len(Current(ring)) \in Nat /\ Len(Current(ring)) <= Len(c)
  <2>1. NewThread \in Threads
    BY RunningIsThread, TypeFacts
  <2>2. c # <<>> => Len(c) > 0 /\ Len(Tail(c)) = Len(c) - 1
    BY <1>2, <2>1, StackLengths
  <2> QED
    BY <1>2, <1>4, <2>2
<1>6. Len(Current(ring)) + q <= Len(c) + r
  BY <1>2, <1>3, <1>5
<1>7. /\ Len(NextThreads(ring)) = Len(NextThreads(m_threads))
      /\ ring.capacity = m_threads.capacity
  BY <1>4
<1> QED
  BY <1>1, <1>5, <1>6, <1>7, FewerFitInStep DEF c, q, r

(* What an instruction that runs adds to those that have run.               *)
LEMMA StepCounts ==
  ASSUME VMTypeOK, RingInv, StepThread
  PROVE  /\ UNCHANGED <<program, stage>> /\ Stepping
         /\ thread \notin {Idle, Matched} /\ Runs(thread) = 1
         /\ DOMAIN last_step' = DOMAIN Insts
         /\ NumberVisited(Consumers)'
              = NumberVisited(Consumers) + (IF Inst.op \in Consumers THEN 1 ELSE 0)
         /\ NumberVisited(Forks)'
              = NumberVisited(Forks) + (IF Inst.op \in Forks THEN 1 ELSE 0)
<1> DEFINE i == thread.inst
<1>1. /\ UNCHANGED <<program, stage, current_step>> /\ Stepping
      /\ thread \notin {Idle, Matched} /\ ~Visited(i)
      /\ last_step' = [last_step EXCEPT ![i] = current_step]
  BY DEF StepThread, call, place
<1>2. i \in DOMAIN Insts /\ DOMAIN last_step = DOMAIN Insts /\ IsProgram(program)
  BY <1>1, TypeFacts, RingFacts DEF Running
<1>3. Runs(thread) = 1
  BY <1>1, RunsAtMost
<1>4. DOMAIN last_step' = DOMAIN Insts
  BY <1>1, <1>2
<1>5. Inst.op = Insts[i].op
  BY DEF Inst
<1> HIDE DEF i
<1>6. IsFiniteSet(Of(Consumers)) /\ IsFiniteSet(Of(Forks))
  BY <1>2, InstructionsCounted
<1> DEFINE k == Consumers
           f == Forks
<1>k. IsFiniteSet(Of(k)) /\ IsFiniteSet(Of(f))
  BY <1>6
<1> HIDE DEF k, f
<1>7. NumberVisited(k)' = NumberVisited(k) + (IF Insts[i].op \in k THEN 1 ELSE 0)
  BY <1>1, <1>2, <1>k, VisitCounts
<1>8. NumberVisited(f)' = NumberVisited(f) + (IF Insts[i].op \in f THEN 1 ELSE 0)
  BY <1>1, <1>2, <1>k, VisitCounts
<1>9. /\ NumberVisited(Consumers)'
           = NumberVisited(Consumers) + (IF Inst.op \in Consumers THEN 1 ELSE 0)
      /\ NumberVisited(Forks)'
           = NumberVisited(Forks) + (IF Inst.op \in Forks THEN 1 ELSE 0)
  BY <1>5, <1>7, <1>8 DEF k, f
<1> QED
  BY <1>1, <1>3, <1>4, <1>9

(* An instruction that leaves the ring as it is.                            *)
LEMMA StaysInRing ==
  ASSUME VMTypeOK, RingInv, StepThread, m_threads' = m_threads
  PROVE  RingInv'
<1> DEFINE ring == m_threads
           c == Len(Current(ring))
           q == Runs(thread')
           r == Runs(thread)
           vc == NumberVisited(Consumers)'
           vs == NumberVisited(Forks)'
           u == NumberVisited(Consumers)
           v == NumberVisited(Forks)
           a == IF Inst.op \in Consumers THEN 1 ELSE 0
           b == IF Inst.op \in Forks THEN 1 ELSE 0
<1>0. a \in 0 .. 1 /\ b \in 0 .. 1
  OBVIOUS
<1>1. /\ UNCHANGED <<program, stage>> /\ Stepping /\ ring = m_threads'
      /\ DOMAIN last_step' = DOMAIN Insts /\ r = 1
      /\ vc = u + a /\ vs = v + b
  BY StepCounts
<1>2. c \in Nat /\ u \in Nat /\ v \in Nat
  BY RingFacts
<1>3. q \in 0 .. 1
  BY RunsAtMost
<1> HIDE DEF c, q, r, vc, vs, u, v, a, b
<1>4. vc \in Nat /\ vc >= u
  BY <1>0, <1>1, <1>2
<1>5. vs \in Nat /\ vs >= v
  BY <1>0, <1>1, <1>2
<1>6. c + q <= c + r
  BY <1>1, <1>2, <1>3
<1> QED
  BY <1>1, <1>2, <1>4, <1>5, <1>6, FewerFit DEF c, q, r, vc, vs, u, v, ring

(* What a thread that waits in the ring takes of it.                        *)
LEMMA OneMoreFits ==
  ASSUME VMTypeOK, RingInv, Stepping, thread \notin {Idle, Matched}
  PROVE  /\ Len(Current(m_threads)) + Len(NextThreads(m_threads)) + 1
              <= 1 + Number(Consumers) + NumberVisited(Forks)
         /\ Len(NextThreads(m_threads)) <= NumberVisited(Consumers)
         /\ Len(Current(m_threads)) + 1 + Len(NextThreads(m_threads)) \in Nat
         /\ Len(Current(m_threads)) + 1 + Len(NextThreads(m_threads)) <= Len(Insts)
         /\ m_threads.capacity <= Bound
<1> DEFINE c == Len(Current(m_threads))
           n == Len(NextThreads(m_threads))
           v == NumberVisited(Forks)
           k == Number(Consumers)
           f == Number(Forks)
           l == Len(Insts)
           r == Runs(thread)
<1>1. r = 1
  BY RunsAtMost
<1>2. /\ n <= NumberVisited(Consumers) /\ c + n + r <= 1 + k + v
      /\ m_threads.capacity <= Bound
  BY RingFacts DEF Fits, Stepping
<1>3. /\ c \in Nat /\ n \in Nat /\ v \in Nat /\ k \in Nat /\ f \in Nat /\ l \in Nat
      /\ v <= f /\ 1 + k + f <= l
  BY RingFacts
<1> HIDE DEF c, n, v, k, f, l, r
<1>4. c + n + 1 <= 1 + k + v
  BY <1>1, <1>2
<1>5. c + 1 + n \in Nat /\ c + 1 + n <= l
  BY <1>3, <1>4
<1> QED
  BY <1>2, <1>4, <1>5 DEF c, n, v, k, l

LEMMA ConsumeKeepsRing ==
  ASSUME VMTypeOK, RingInv, StepThread, Consume
  PROVE  RingInv'
<1> DEFINE ring == m_threads'
           t == [thread EXCEPT !.inst = @ + 1]
           vc == NumberVisited(Consumers)'
           vs == NumberVisited(Forks)'
           u == NumberVisited(Consumers)
           v == NumberVisited(Forks)
           s == Current(m_threads)
           o == NextThreads(m_threads)
           k == Number(Consumers)
           a == IF Inst.op \in Consumers THEN 1 ELSE 0
           b == IF Inst.op \in Forks THEN 1 ELSE 0
<1>0. a = 1 /\ b = 0
  BY DEF Consume, Consumers, Forks
<1>0a. /\ UNCHANGED <<program, stage>> /\ Stepping /\ thread \notin {Idle, Matched}
       /\ DOMAIN last_step' = DOMAIN Insts
       /\ vc = u + a /\ vs = v + b
  BY StepCounts
<1>0b. u \in Nat /\ v \in Nat
  BY RingFacts
<1>1. /\ UNCHANGED <<program, stage>> /\ Stepping /\ thread \notin {Idle, Matched}
      /\ DOMAIN last_step' = DOMAIN Insts
      /\ vc = u + 1 /\ vs = v
  <2> HIDE DEF vc, vs, u, v, a, b
  <2>1. vc = u + 1 /\ vs = v
    BY <1>0, <1>0a, <1>0b
  <2> QED
    BY <1>0a, <2>1
<1>2. \/ m_threads' = m_threads
      \/ ring = PushNext(m_threads, t) /\ thread' = Idle
  BY DEF Consume
<1>3. CASE m_threads' = m_threads
  BY <1>3, StaysInRing
<1>4. CASE ring = PushNext(m_threads, t) /\ thread' = Idle
  <2>1. t \in Threads
    <3>1. thread \in Running /\ Running \subseteq Threads
      BY <1>1, TypeFacts, RunningIsThread
    <3> QED
      BY <3>1 DEF Threads
  <2>2. IsRing(m_threads, Threads) /\ s \in Seq(Threads) /\ o \in Seq(Threads)
    BY TypeFacts
  <2>2a. Len(s) \in Nat /\ Len(o) \in Nat /\ u \in Nat /\ v \in Nat /\ k \in Nat
         /\ IsProgram(program) /\ m_threads.capacity \in Nat
    BY RingFacts
  <2> HIDE DEF t, ring
  <2>3. /\ Current(ring) = s /\ NextThreads(ring) = Append(o, t)
        /\ ring.capacity = IF Len(s) + 1 + Len(o) = m_threads.capacity
                           THEN 2 * m_threads.capacity ELSE m_threads.capacity
    BY <1>4, <2>1, <2>2, PushNextHolds
  <2>4. /\ Len(s) + Len(o) + 1 <= 1 + k + v /\ Len(o) <= u
        /\ Len(s) + 1 + Len(o) \in Nat /\ Len(s) + 1 + Len(o) <= Len(Insts)
        /\ m_threads.capacity <= Bound
    BY <1>1, OneMoreFits
  <2> HIDE DEF s, o, vc, vs, u, v, k
  <2>5. Len(Append(o, t)) = Len(o) + 1
    BY <2>1, <2>2, StackLengths
  <2> DEFINE n == Len(o)
             c == Len(s)
             p == Len(NextThreads(ring))
             m == c + 1 + n
             new == ring.capacity
             old == m_threads.capacity
             q == Runs(thread')
  <2>6. p = n + 1 /\ n \in Nat /\ c \in Nat /\ c + n + 1 <= 1 + k + v /\ n <= u
    BY <2>2a, <2>3, <2>4, <2>5
  <2>7. /\ m \in Nat /\ m <= Len(Insts) /\ old \in Nat /\ old <= Bound
        /\ new = IF m = old THEN 2 * old ELSE old
    BY <2>2a, <2>3, <2>4
  <2>8. q = 0
    BY <1>4, RunsAtMost
  <2>9. Len(Current(ring)) = c
    BY <2>3
  <2> HIDE DEF n, c, p, m, new, old, q
  <2>10. new <= Bound
    BY <2>2a, <2>7, GrowsInBound
  <2>11. p <= vc
    BY <1>1, <2>2a, <2>6
  <2>12. c + p + q <= 1 + k + vs
    BY <1>1, <2>2a, <2>6, <2>8
  <2>13. Fits(ring, stage', thread', vc, vs)
    BY <1>1, <2>9, <2>10, <2>11, <2>12 DEF Fits, Quiet, Stepping, new, p, q, k
  <2> QED
    BY <1>1, <2>2a, <2>13, StillFits DEF ring, vc, vs
<1> QED
  BY <1>2, <1>3, <1>4

LEMMA SplitKeepsRing ==
  ASSUME VMTypeOK, RingInv, StepThread, TakeSplit
  PROVE  RingInv'
<1> DEFINE ring == m_threads'
           parent == thread.inst + 1
           target == thread.inst + Inst.param.offset
           second == IF Inst.param.prioritize_parent THEN target ELSE parent
           t == [thread EXCEPT !.inst = second]
           vc == NumberVisited(Consumers)'
           vs == NumberVisited(Forks)'
           u == NumberVisited(Consumers)
           v == NumberVisited(Forks)
           s == Current(m_threads)
           o == NextThreads(m_threads)
           k == Number(Consumers)
           a == IF Inst.op \in Consumers THEN 1 ELSE 0
           b == IF Inst.op \in Forks THEN 1 ELSE 0
<1>0. a = 0 /\ b = 1
  BY DEF TakeSplit, Consumers, Forks
<1>0a. /\ UNCHANGED <<program, stage>> /\ Stepping /\ thread \notin {Idle, Matched}
       /\ DOMAIN last_step' = DOMAIN Insts
       /\ vc = u + a /\ vs = v + b
  BY StepCounts
<1>0b. u \in Nat /\ v \in Nat
  BY RingFacts
<1>1. /\ UNCHANGED <<program, stage>> /\ Stepping /\ thread \notin {Idle, Matched}
      /\ DOMAIN last_step' = DOMAIN Insts
      /\ vc = u /\ vs = v + 1
  <2> HIDE DEF vc, vs, u, v, a, b
  <2>1. vc = u /\ vs = v + 1
    BY <1>0, <1>0a, <1>0b
  <2> QED
    BY <1>0a, <2>1
<1>2. \/ m_threads' = m_threads
      \/ ring = PushCurrent(m_threads, t)
  BY DEF TakeSplit
<1>3. CASE m_threads' = m_threads
  BY <1>3, StaysInRing
<1>4. CASE ring = PushCurrent(m_threads, t)
  <2>1. t \in Threads
    <3>1. thread \in Running /\ Running \subseteq Threads /\ IsProgram(program)
      BY <1>1, TypeFacts, RunningIsThread
    <3>2. Inst.op = "Split"
      BY DEF TakeSplit
    <3>3. second \in DOMAIN Insts
      <4>1. thread.inst \in DOMAIN Insts
        BY <3>1 DEF Running
      <4>2. Followers(Insts, thread.inst) = {parent, target}
        BY <3>2 DEF Followers, Inst
      <4>3. {parent, target} \subseteq DOMAIN Insts
        BY <3>1, <4>1, <4>2, ProgramFacts
      <4> QED
        BY <4>3
    <3> HIDE DEF second
    <3>4. t \in Running
      BY <3>1, <3>3 DEF Running
    <3> QED
      BY <3>1, <3>4
  <2>2. IsRing(m_threads, Threads) /\ s \in Seq(Threads) /\ o \in Seq(Threads)
    BY TypeFacts
  <2>2a. Len(s) \in Nat /\ Len(o) \in Nat /\ u \in Nat /\ v \in Nat /\ k \in Nat
         /\ IsProgram(program) /\ m_threads.capacity \in Nat
    BY RingFacts
  <2> HIDE DEF t, ring
  <2>3. /\ Current(ring) = Pushed(t, s) /\ NextThreads(ring) = o
        /\ ring.capacity = IF Len(s) + 1 + Len(o) = m_threads.capacity
                           THEN 2 * m_threads.capacity ELSE m_threads.capacity
    BY <1>4, <2>1, <2>2, PushCurrentHolds
  <2>4. /\ Len(s) + Len(o) + 1 <= 1 + k + v /\ Len(o) <= u
        /\ Len(s) + 1 + Len(o) \in Nat /\ Len(s) + 1 + Len(o) <= Len(Insts)
        /\ m_threads.capacity <= Bound
    BY <1>1, OneMoreFits
  <2> HIDE DEF s, o, vc, vs, u, v, k
  <2>5. Len(Pushed(t, s)) = Len(s) + 1
    BY <2>1, <2>2, StackLengths
  <2> DEFINE n == Len(o)
             c == Len(s)
             d == Len(Current(ring))
             m == c + 1 + n
             new == ring.capacity
             old == m_threads.capacity
             q == Runs(thread')
  <2>6. d = c + 1 /\ n \in Nat /\ c \in Nat /\ c + n + 1 <= 1 + k + v /\ n <= u
    BY <2>2a, <2>3, <2>4, <2>5
  <2>7. /\ m \in Nat /\ m <= Len(Insts) /\ old \in Nat /\ old <= Bound
        /\ new = IF m = old THEN 2 * old ELSE old
    BY <2>2a, <2>3, <2>4
  <2>8. q \in 0 .. 1
    BY RunsAtMost
  <2>9. Len(NextThreads(ring)) = n
    BY <2>3
  <2> HIDE DEF n, c, d, m, new, old, q
  <2>10. new <= Bound
    BY <2>2a, <2>7, GrowsInBound
  <2>11. n <= vc
    BY <1>1, <2>6
  <2>12. d + n + q <= 1 + k + vs
    BY <1>1, <2>2a, <2>6, <2>8
  <2>13. Fits(ring, stage', thread', vc, vs)
    BY <1>1, <2>9, <2>10, <2>11, <2>12 DEF Fits, Quiet, Stepping, new, d, q, k
  <2> QED
    BY <1>1, <2>2a, <2>13, StillFits DEF ring, vc, vs
<1> QED
  BY <1>2, <1>3, <1>4

LEMMA StepThreadKeepsRing ==
  ASSUME VMTypeOK, RingInv, StepThread
  PROVE  RingInv'
<1>1. CASE Consume
  BY <1>1, ConsumeKeepsRing
<1>2. CASE TakeSplit
  BY <1>2, SplitKeepsRing
<1>3. CASE Match \/ NoMatch \/ TakeJump \/ SavePosition \/ CheckAssertion
  <2>1. m_threads' = m_threads
    BY <1>3 DEF Match, NoMatch, TakeJump, SavePosition, CheckAssertion
  <2> QED
    BY <2>1, StaysInRing
<1> QED
  BY <1>1, <1>2, <1>3 DEF StepThread

(* The threads that consumed are those of the next step, and one may start. *)
LEMMA SwapsKeepsRing ==
  ASSUME VMTypeOK, RingInv, stage = "step", thread = Idle, CurrentIsEmpty(m_threads),
         NEW mid, mid = m_threads \/ mid = PushNext(m_threads, NewThread),
         m_threads' = SwapNext(mid), stage' = "loop",
         UNCHANGED <<program, last_step, current_step, thread>>
  PROVE  RingInv'
<1> DEFINE t == NewThread
           next == m_threads'
           o == NextThreads(m_threads)
           s == Current(m_threads)
           u == NumberVisited(Consumers)
           k == Number(Consumers)
           f == Number(Forks)
           vc == NumberVisited(Consumers)'
           vs == NumberVisited(Forks)'
           old == m_threads.capacity
           l == Len(Insts)
<1>1. /\ IsProgram(program) /\ DOMAIN last_step' = DOMAIN Insts
      /\ IsRing(m_threads, Threads) /\ o \in Seq(Threads) /\ t \in Threads
  BY RingFacts, RunningIsThread
<1>2. s = <<>> /\ Len(s) = 0
  BY <1>1, RingIsEmpty, EmptySeq
<1>3. /\ Len(o) \in Nat /\ Len(o) <= u /\ u <= k /\ k \in Nat /\ u \in Nat
      /\ old \in Nat /\ old <= Bound /\ l \in Nat /\ 1 + k + f <= l /\ f \in Nat
  BY RingFacts DEF Fits
<1>4. thread' = Idle /\ program' = program /\ next = m_threads' /\ next = SwapNext(mid)
      /\ stage' = "loop" /\ (mid = m_threads \/ mid = PushNext(m_threads, t))
  OBVIOUS
<1> HIDE DEF t, next
<1>5. /\ IsRing(PushNext(m_threads, t), Threads)
      /\ Current(PushNext(m_threads, t)) = s
      /\ NextThreads(PushNext(m_threads, t)) = Append(o, t)
      /\ PushNext(m_threads, t).capacity = IF Len(s) + 1 + Len(o) = old
                                           THEN 2 * old ELSE old
  BY <1>1, PushNextHolds
<1> HIDE DEF o, s, u, k, f, vc, vs, old, l
<1>6. Len(Append(o, t)) = Len(o) + 1
  BY <1>1, StackLengths
<1> DEFINE m == 1 + Len(o)
           more == PushNext(m_threads, t)
<1>7. m \in Nat /\ m <= Len(Insts)
  BY <1>3 DEF l
<1>8. more.capacity <= Bound
  <2>1. more.capacity = IF m = old THEN 2 * old ELSE old
    BY <1>2, <1>3, <1>5
  <2> DEFINE new == more.capacity
  <2> HIDE DEF m, new
  <2>2. new = IF m = old THEN 2 * old ELSE old
    BY <2>1 DEF new
  <2>3. new <= Bound
    BY <1>1, <1>3, <1>7, <2>2, GrowsInBound
  <2> QED
    BY <2>3 DEF new
<1> HIDE DEF m
<1>9. /\ IsRing(mid, Threads) /\ Current(mid) = <<>> /\ mid.capacity <= Bound
      /\ NextThreads(mid) = o \/ NextThreads(mid) = Append(o, t)
  BY <1>1, <1>2, <1>3, <1>4, <1>5, <1>8 DEF o, s, old
<1>10. CurrentIsEmpty(mid)
  BY <1>9, RingIsEmpty
<1>11. /\ Current(next) = NextThreads(mid) /\ NextThreads(next) = <<>>
       /\ next.capacity = mid.capacity
  BY <1>4, <1>9, <1>10, SwapNextHolds
<1>12. Len(NextThreads(next)) = 0 /\ next.capacity <= Bound
  BY <1>9, <1>11, EmptySeq
<1> DEFINE d == Len(Current(next))
<1>13. d = Len(o) \/ d = Len(o) + 1
  BY <1>6, <1>9, <1>11
<1> HIDE DEF d
<1>14. d <= 1 + k
  BY <1>3, <1>13
<1>15. Fits(next, stage', thread', vc, vs)
  BY <1>4, <1>12, <1>14 DEF Fits, Quiet, d, k
<1> QED
  BY <1>1, <1>4, <1>15, StillFits DEF vc, vs

LEMMA DropThreadKeepsRing ==
  ASSUME VMTypeOK, RingInv, DropThread
  PROVE  RingInv'
<1> DEFINE next == m_threads'
           vc == NumberVisited(Consumers)'
           vs == NumberVisited(Forks)'
<1>1. /\ stage = "exit" /\ ~NextIsEmpty(m_threads) /\ next = PopNext(m_threads)
      /\ UNCHANGED <<program, stage, thread, last_step>> /\ next = m_threads'
  BY DEF DropThread, call, place
<1>2. /\ IsProgram(program) /\ DOMAIN last_step' = DOMAIN Insts
      /\ IsRing(m_threads, Threads) /\ Len(Current(m_threads)) = 0 /\ thread = Idle
      /\ m_threads.capacity <= Bound
  BY <1>1, RingFacts DEF Fits
<1> HIDE DEF next, vc, vs
<1>3. Current(next) = Current(m_threads) /\ next.capacity = m_threads.capacity
  BY <1>1, <1>2, PopNextHolds
<1>4. Fits(next, stage', thread', vc, vs)
  BY <1>1, <1>2, <1>3 DEF Fits, Quiet
<1> QED
  BY <1>1, <1>2, <1>4, StillFits DEF vc, vs

LEMMA NextKeepsRing ==
  ASSUME VMTypeOK, RingInv, [Next]_vars
  PROVE  RingInv'
<1>1. CASE Exec
  BY <1>1, QuietKeepsRing DEF Exec, found, Quiet
<1>2. CASE ExecProgram
  BY <1>2, ExecProgramKeepsRing
<1>3. CASE StepBegins
  BY <1>3, StepBeginsKeepsRing
<1>4. CASE PopThread
  BY <1>4, PopThreadKeepsRing
<1>5. CASE Redundant
  BY <1>5, RedundantKeepsRing
<1>6. CASE StepThread
  BY <1>6, StepThreadKeepsRing
<1>7. CASE DropLower
  BY <1>7, DropLowerKeepsRing
<1>8. CASE SearchOn
  <2>1. PICK mid : /\ mid = m_threads \/ mid = PushNext(m_threads, NewThread)
                   /\ m_threads' = SwapNext(mid)
    BY <1>8 DEF SearchOn, Advance
  <2>2. /\ CurrentIsEmpty(m_threads) /\ thread = Idle /\ stage = "step" /\ stage' = "loop"
        /\ UNCHANGED <<program, last_step, current_step, thread>>
    BY <1>8 DEF SearchOn, Stepped, Advance, call
  <2> QED
    BY <2>1, <2>2, SwapsKeepsRing
<1>9. CASE StepEnds
  <2>1. /\ CurrentIsEmpty(m_threads) /\ thread = Idle /\ stage = "step"
        /\ UNCHANGED <<program, last_step, current_step, thread>>
    BY <1>9 DEF StepEnds, Stepped, call
  <2>2. \/ m_threads' = m_threads /\ stage' = "exit"
        \/ m_threads' = SwapNext(m_threads) /\ stage' = "loop"
    BY <1>9 DEF StepEnds, Advance
  <2>3. CASE m_threads' = m_threads /\ stage' = "exit"
    BY <2>1, <2>3, QuietKeepsRing DEF Stepping
  <2>4. CASE m_threads' = SwapNext(m_threads) /\ stage' = "loop"
    <3> DEFINE mid == m_threads
    <3>1. /\ mid = m_threads \/ mid = PushNext(m_threads, NewThread)
          /\ m_threads' = SwapNext(mid) /\ stage' = "loop"
      BY <2>4
    <3> HIDE DEF mid
    <3> QED
      BY <2>1, <3>1, SwapsKeepsRing
  <2> QED
    BY <2>2, <2>3, <2>4
<1>10. CASE LastStepEnds
  BY <1>10, QuietKeepsRing DEF LastStepEnds, call, found, Stepping
<1>11. CASE DropThread
  BY <1>11, DropThreadKeepsRing
<1>12. CASE Return
  BY <1>12, QuietKeepsRing DEF Return, call, found, Quiet
<1>13. CASE Iterate
  BY <1>13, QuietKeepsRing DEF Iterate, found, Quiet
<1>14. CASE UNCHANGED vars
  BY <1>14, QuietKeepsRing DEF vars, call, place, found
<1> QED
  BY <1>1, <1>2, <1>3, <1>4, <1>5, <1>6, <1>7, <1>8, <1>9, <1>10, <1>11, <1>12, <1>13,
     <1>14 DEF Next

LEMMA RingStarts ==
  ASSUME IsProgram(program), InitVM
  PROVE  RingInv
<1> DEFINE ring == m_threads
           vc == NumberVisited(Consumers)
           vs == NumberVisited(Forks)
<1>1. /\ ring = EmptyRing(Idle) /\ stage = "call" /\ thread = Idle
      /\ DOMAIN last_step = DOMAIN Insts /\ ring = m_threads
  BY DEF InitVM
<1>2. Idle \in Threads
  BY DEF Threads, Idle, None
<1> HIDE DEF ring, vc, vs
<1>3. /\ Current(ring) = <<>> /\ NextThreads(ring) = <<>>
      /\ ring.capacity = InitialCapacity
  <2> DEFINE any == Idle
  <2>1. any \in Threads /\ ring = EmptyRing(any)
    BY <1>1, <1>2
  <2> HIDE DEF any
  <2> QED
    BY <2>1, EmptyRingHolds
<1>4. Len(Current(ring)) = 0 /\ Len(NextThreads(ring)) = 0
  BY <1>3, EmptySeq
<1>5. ring.capacity <= Bound
  BY <1>3, BoundIs
<1>6. Fits(ring, stage, thread, vc, vs)
  BY <1>1, <1>4, <1>5 DEF Fits, Quiet
<1> QED
  BY <1>1, <1>6 DEF RingInv, vc, vs

(* The ring has room for at most twice as many threads as the program has   *)
(* instructions, or for as many as it starts with, whatever the program and *)
(* the subject are: the maximum capacity that DualThreadStack claims.       *)
THEOREM RingIsAlwaysBounded == RunsAnyProgram => []RingIsBounded
<1>1. IsProgram(program) /\ InitVM => RingInv
  BY RingStarts
<1>2. VMInv /\ RingInv /\ [Next]_vars => RingInv'
  BY NextKeepsRing DEF VMInv
<1>3. RingInv => RingIsBounded
  BY DEF RingInv, Fits, RingIsBounded, Bound
<1> QED
  BY <1>1, <1>2, <1>3, VMInvIsInvariant, PTL DEF RunsAnyProgram

=============================================================================
