----------------------------- MODULE RingBuffer -----------------------------
(***************************************************************************)
(* RingBuffer (src/trading/indicators/RingBuffer.h): a fixed vector with   *)
(* the physical index of its oldest entry and the number of valid entries. *)
(* What lies outside of the valid entries stays in the vector.             *)
(***************************************************************************)
EXTENDS Integers

Ring(capacity) ==
    [buf |-> [i \in 0..capacity - 1 |-> 0], cap |-> capacity, head |-> 0, size |-> 0]

ClearRing(b) == [b EXCEPT !.head = 0, !.size = 0]

Full(b) == b.cap # 0 /\ b.size = b.cap

PhysicalIndexFromOldest(b, i) == IF b.cap = 0 THEN 0 ELSE (b.head + i) % b.cap

PhysicalIndexFromNewest(b, back) ==
    IF b.cap = 0 THEN 0
    ELSE (((b.head + b.size - 1) % b.cap) + b.cap - (back % b.cap)) % b.cap

\* The entry that a push overwrites; 0, which changes no sum, if there is none.
Overwritten(b) == IF Full(b) THEN b.buf[b.head] ELSE 0

Push(b, v) ==
    IF b.cap = 0 THEN b
    ELSE IF b.size = b.cap
    THEN [b EXCEPT !.buf[b.head] = v, !.head = (b.head + 1) % b.cap]
    ELSE [b EXCEPT !.buf[PhysicalIndexFromOldest(b, b.size)] = v, !.size = @ + 1]

\* An optional as a set of at most one value.
ValueFromBack(b, back) ==
    IF back >= b.size THEN {} ELSE {b.buf[PhysicalIndexFromNewest(b, back)]}

=============================================================================
