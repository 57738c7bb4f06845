---------------------------- MODULE ThreadStack ----------------------------
(***************************************************************************)
(* The threads of a step and those of the next one in a ring buffer        *)
(* (src/src/regex_vm.hh, DualThreadStack): the current ones are from       *)
(* `current' to `next_begin', pushed and popped at `current', and the next *)
(* ones from there to `next_end', where they are pushed.                   *)
(***************************************************************************)
EXTENDS Integers

CONSTANT InitialCapacity

ASSUME CapacityAssumption == InitialCapacity \in Nat /\ InitialCapacity > 1

EmptyRing(any) ==
    [data |-> [i \in 0 .. InitialCapacity - 1 |-> any], capacity |-> InitialCapacity,
     current |-> 0, next_begin |-> 0, next_end |-> 0]

CurrentIsEmpty(ring) == ring.current = ring.next_begin
NextIsEmpty(ring) == ring.next_end = ring.next_begin

Before(ring, i) == (i - 1) % ring.capacity
After(ring, i) == (i + 1) % ring.capacity

(* All places are taken when the ends meet after a push.                    *)
Grow(ring, pushed_current) ==
    LET n == ring.capacity
        begin == (ring.next_begin - ring.current) % n
    IN  [data |-> [i \in 0 .. 2 * n - 1 |-> ring.data[(ring.current + i) % n]],
         capacity |-> 2 * n,
         current |-> 0,
         next_begin |-> IF pushed_current /\ begin = 0 THEN n ELSE begin,
         next_end |-> n]
GrowIfNoneNext(ring, pushed_current) ==
    IF ring.next_begin = ring.next_end THEN Grow(ring, pushed_current) ELSE ring
GrowIfn(ring, pushed_current) ==
    IF ring.current = ring.next_end THEN Grow(ring, pushed_current) ELSE ring

PushCurrent(ring, thread) ==
    LET i == Before(ring, ring.current)
    IN  GrowIfn([ring EXCEPT !.data[i] = thread, !.current = i], TRUE)
CurrentTop(ring) == ring.data[ring.current]
PopCurrent(ring) == [ring EXCEPT !.current = After(ring, @)]

PushNext(ring, thread) ==
    GrowIfn([ring EXCEPT !.data[ring.next_end] = thread, !.next_end = After(ring, @)], FALSE)
NextTop(ring) == ring.data[Before(ring, ring.next_end)]
PopNext(ring) == [ring EXCEPT !.next_end = Before(ring, @)]

SwapNext(ring) == [ring EXCEPT !.current = ring.next_begin, !.next_begin = ring.next_end]

(* What the ring holds.                                                     *)
Count(ring, from, to) == (to - from) % ring.capacity
Current(ring) ==
    [k \in 1 .. Count(ring, ring.current, ring.next_begin) |->
        ring.data[(ring.current + k - 1) % ring.capacity]]
NextThreads(ring) ==
    [k \in 1 .. Count(ring, ring.next_begin, ring.next_end) |->
        ring.data[(ring.next_begin + k - 1) % ring.capacity]]
=============================================================================
