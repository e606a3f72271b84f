------------------------------ MODULE PrbsCheck ------------------------------
(***************************************************************************)
(* The PRBS diagnostic (prbs.c, diag_prbs in diag.c): building the lookup  *)
(* tables from the shift register, and the checker that locks on the first *)
(* sample of a block, compares in chunks up to the end of the table, finds *)
(* the first wrong sample by bisection and locks again.                    *)
(*                                                                         *)
(* A sample is its place 0 .. L - 1 in the table, or Idle: all zeros, the  *)
(* state the shift register never has, which has no place.                 *)
(***************************************************************************)
EXTENDS Integers, Sequences

CONSTANTS Width,     \* bits of the shift register: 16
          IqBits,    \* bits of I and of Q: 12
          L,         \* places of the table as the checker sees it
          N,         \* samples of a block
          MaxPrbsBlocks  \* bound: blocks received

ASSUME PrbsAssumption ==
  /\ {Width, IqBits, L, N, MaxPrbsBlocks} \subseteq Nat \ {0}
  /\ Width = 16 /\ IqBits = 12

Idle == -1

VARIABLES lutn, lfsr, lut, stream, queue, pos, errors, at, blk, trouble, reads
pvars == <<lutn, lfsr, lut, stream, queue, pos, errors, at, blk, trouble, reads>>
\* lutn, lfsr:  loop counter and state of prbs_init
\* lut:         the states stored last, for places lutn - Turns .. lutn - 1
\* stream:      place of the next sample on the wire
\* queue:       blocks the driver has ready
\* pos, errors: of diag_prbs
\* blk, at:     the block checked last, and the index reported wrong (-1: none)
\* trouble:     samples and blocks that were damaged or lost (ghost)
\* reads:       blocks produced so far

Bit(x, i) == (x \div (2 ^ i)) % 2
BitRev12(x) == LET r[i \in 0 .. IqBits] ==
                    IF i = 0 THEN 0 ELSE 2 * r[i - 1] + Bit(x, i - 1)
              IN  r[IqBits]

\* The exclusive or of the bits from..to of x.
Parity(x, from, to) ==
  LET p[i \in from - 1 .. to] ==
        IF i = from - 1 THEN 0 ELSE (p[i - 1] + Bit(x, i)) % 2
  IN  p[to]

LfsrNext(x) ==
  (2 * x + ((Parity(x, 4, 15) + Parity(x, 1, 2)) % 2)) % (2 ^ Width)

\* I and Q of a state, before they are shifted into the upper bits of a word.
LutI(x) == (x \div 16) % (2 ^ IqBits)
LutQ(x) == BitRev12(x % (2 ^ IqBits))
StateFromIq(i, q) == 16 * (i % (2 ^ IqBits)) + (BitRev12(q % (2 ^ IqBits)) % 16)

\* The length of the table, which prbs.h gives as 65535.
PrbsLen == 2 ^ Width - 1
Turns == 15   \* divides PrbsLen

PrbsInit ==
  /\ lutn = 0 /\ lfsr = 1 /\ lut = <<>>
  /\ stream = 0 /\ queue = <<>> /\ pos = -1
  /\ errors = 0 /\ at = -1 /\ blk = <<>> /\ trouble = 0 /\ reads = 0

\* Turns turns of the loop of prbs_init in one step (a behaviour of TLC has fewer
\* states than the table has places).
LutStep ==
  /\ lutn < PrbsLen
  /\ LET walk[k \in 0 .. Turns] == IF k = 0 THEN lfsr ELSE LfsrNext(walk[k - 1])
     IN  /\ lut' = [k \in 1 .. Turns |-> walk[k - 1]]
         /\ lfsr' = walk[Turns]
  /\ lutn' = lutn + Turns
  /\ UNCHANGED <<stream, queue, pos, errors, at, blk, trouble, reads>>

\* prbs_fill_block: n samples from place p on, in chunks that end with the table.
FillBlock(p, n) ==
  LET chunk == IF L - p > n THEN n ELSE L - p
      fill[k \in 0 .. n] ==
        IF k = 0 THEN <<>>
        ELSE LET q == IF k <= chunk THEN p + k - 1 ELSE (k - chunk - 1) % L
             IN  Append(fill[k - 1], q)
  IN  fill[n]

\* The loopback delivers a block: clean, with one wrong sample, after a loss of
\* samples, or idle, before the transmitter has begun (external).
Deliver ==
  /\ lutn = PrbsLen /\ reads < MaxPrbsBlocks
  /\ reads' = reads + 1
  /\ \E gap \in {0, 1}, kind \in {"clean", "wrong", "idle"} :
       \E begin \in IF reads = 0 THEN 0 .. L - 1 ELSE {stream} :
       LET first == (begin + gap) % L
           clean == FillBlock(first, N)
       IN  /\ kind = "idle" => gap = 0 /\ trouble = 0 /\ reads = 0 /\ begin = 0
           /\ queue' \in {Append(queue, b) : b \in
                CASE kind = "clean" -> {clean}
                  [] kind = "idle"  -> {[j \in 1 .. N |-> Idle]}
                  [] kind = "wrong" -> {[clean EXCEPT ![j] = (@ + 1) % L] : j \in 1 .. N}}
           /\ stream' = IF kind = "idle" THEN begin ELSE (first + N) % L
           /\ trouble' = trouble + gap + (IF kind = "wrong" THEN 1 ELSE 0)
  /\ UNCHANGED <<lutn, lfsr, lut, pos, errors, at, blk>>

\* memcmp of samples a .. z - 1 of block b (from 0) with the table from place p.
Same(b, p, a, z) == \A j \in a .. z - 1 : b[j + 1] = p + (j - a)

\* Slip: the bisection goes on to lo = hi - 1 from the wrong half.
BisectOther(b, s, p, chunk) ==
  LET step[d \in 0 .. chunk] ==
        LET r == IF d = chunk THEN <<0, chunk>> ELSE step[d + 1]
            mid == r[1] + (r[2] - r[1]) \div 2
        IN  CASE d = chunk -> r
              [] r[2] - r[1] <= 1 -> r
              [] Same(b, p + r[1], s + r[1], s + mid) -> <<r[1], mid>>
              [] OTHER -> <<mid, r[2]>>
  IN  step[0][1]

\* The bisection inside a chunk that starts at sample s and place p: keep the
\* first difference in lo .. hi - 1.
Bisect(b, s, p, chunk) ==
  LET step[d \in 0 .. chunk] ==      \* d: turns left, an upper bound
        LET r == IF d = chunk THEN <<0, chunk>> ELSE step[d + 1]
            mid == r[1] + (r[2] - r[1]) \div 2
        IN  CASE d = chunk -> r
              [] r[2] - r[1] <= 1 -> r
              [] Same(b, p + r[1], s + r[1], s + mid) -> <<mid, r[2]>>
              [] OTHER -> <<r[1], mid>>
  IN  step[0][1]

\* The comparison of a whole block from place p: the chunk by chunk loop, at most
\* N turns.  bad is the index reported wrong, place where the next sample belongs.
Compare(b, p) ==
  LET run[k \in 0 .. N] ==
        IF k = 0 THEN [s |-> 0, p |-> p, bad |-> -1]
        ELSE LET r == run[k - 1]
                 chunk == IF L - r.p > N - r.s THEN N - r.s ELSE L - r.p
             IN  CASE r.s = N \/ r.bad >= 0 -> r
                   [] Same(b, r.p, r.s, r.s + chunk) ->
                        [r EXCEPT !.s = r.s + chunk, !.p = (r.p + chunk) % L]
                   [] OTHER -> [r EXCEPT !.bad = r.s + Bisect(b, r.s, r.p, chunk)]
  IN  run[N]

\* After an error, blocks are read and thrown away until the last one read and
\* what lies behind it are two blocks or less: w waiting, or fewer.  The block
\* the FPGA has begun counts, so that w is 1 only at a block boundary.
Caught(q, w) == SubSeq(q, IF Len(q) > w THEN (Len(q) - w) + 1 ELSE 1, Len(q))

\* One turn of the loop of diag_prbs.
CheckBlock ==
  /\ queue # <<>>
  /\ LET b == Head(queue)
         p == IF pos < 0 THEN b[1] ELSE pos
         r == Compare(b, p)
     IN  /\ blk' = b
         /\ \/ /\ p = Idle           \* no state: try the next block
               /\ queue' = Tail(queue) /\ at' = -1
               /\ UNCHANGED <<pos, errors>>
            \/ /\ p # Idle /\ r.bad < 0
               /\ queue' = Tail(queue) /\ pos' = r.p /\ at' = -1
               /\ UNCHANGED errors
            \/ /\ p # Idle /\ r.bad >= 0
               /\ \E w \in {0, 1} : queue' = Caught(Tail(queue), w)
               /\ pos' = -1
               /\ errors' = errors + 1 /\ at' = r.bad
  /\ UNCHANGED <<lutn, lfsr, lut, stream, trouble, reads>>

PrbsNext == LutStep \/ Deliver \/ CheckBlock
PrbsSpec == PrbsInit /\ [][PrbsNext]_pvars
-----------------------------------------------------------------------------
\* The register comes back to its first state after PrbsLen steps and not
\* before: every sample that is not idle has exactly one place in g_prbs_pos.
FullPeriod ==
  /\ \A k \in DOMAIN lut : lut[k] # 0 /\ (lut[k] = 1 <=> (lutn - Turns) + (k - 1) = 0)
  /\ lutn = PrbsLen => lfsr = 1

\* What the table stores for a state gives the state back.
LutRoundTrip == \A k \in DOMAIN lut : StateFromIq(LutI(lut[k]), LutQ(lut[k])) = lut[k]

\* Every error has a cause: without a loss or a wrong sample none is counted,
\* and one wrong sample counts at most twice, once if the lock is on it.
ErrorsHaveCause == errors <= 2 * trouble

\* The sample reported is the first that is not the successor of the one before
\* it (or, for sample 0, is not where the block before left off).
FirstWrongReported ==
  at >= 0 => /\ \A j \in 1 .. at - 1 : blk[j + 1] = (blk[j] + 1) % L
             /\ at > 0 => blk[at + 1] # (blk[at] + 1) % L

\* Locked with nothing waiting, the checker expects the next sample of the
\* stream, unless the lock itself was taken on a wrong one.
LockHolds ==
  pos >= 0 /\ queue = <<>> /\ N > 1 => pos = stream

\* The checker reports what happened to the sequence: its table is a bijection,
\* and no error is counted, or place reported, that the line did not cause.
PrbsSound ==
  /\ pos \in -1 .. L - 1 /\ at \in -1 .. N - 1 /\ lfsr \in 0 .. 2 ^ Width - 1
  /\ FullPeriod /\ LutRoundTrip /\ ErrorsHaveCause /\ FirstWrongReported /\ LockHolds
=============================================================================
