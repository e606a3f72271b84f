------------------------------- MODULE RingOps -------------------------------
(* Pointer arithmetic on a ring, the way the driver and the RTL write it: byte
   offsets, compared and subtracted, the size added when the distance wraps; and
   the delay of a registered flag.                                            *)
EXTENDS Integers

\* How far b is ahead of a on a ring of the given size, the way the driver
\* computes it at every use: a subtraction, plus the size when it wraps.
Ahead(a, b, size) == IF b >= a THEN b - a ELSE size - a + b

\* One step further, back to 0 at the end of the ring.
Bump(p, by, size) == IF p + by >= size THEN 0 ELSE p + by

\* A shift register: place k holds what went in k steps ago.
Shifted(reg, in) == [k \in DOMAIN reg |-> IF k = 1 THEN in ELSE reg[k - 1]]

\* Where the x-th unit of a stream lies that is written round and round a ring.
At(x, p, size) == p \in 0..size-1 /\ p = x % size
=============================================================================
