---------------------------- MODULE TxRingProofs ----------------------------
(* What TxRing guarantees for every block size, every set of ring sizes, any
   prefill, any number of sessions and any amount of data.  IInv of TxRing is
   inductive: its conjuncts are proved preserved one after the other, and the
   properties are read off it.  The last theorem shows that the FPGA of TxRing
   does no more than RingReader allows.                                       *)
EXTENDS TxRing, RingLemmas

\* A ring has a size.
LEMMA SizesNat == \A s \in Sizes \cup {0} : s \in Nat
  BY SizesAssumption

\* A ring is a whole number of blocks.
LEMMA SizeInBlocks == \A s \in Sizes \cup {0} : \E m \in Nat : s = m * B
<1>1. \E m \in Nat : 0 = m * B
  <2>1. 0 = 0 * B
    BY BAssumption
  <2> QED
    BY <2>1
<1>2. \A s \in Sizes : \E m \in Nat : s = m * B
  BY SizesAssumption
<1> QED
  BY <1>1, <1>2

\* A multiple of the block is itself after division.
LEMMA Multiple ==
  ASSUME NEW j \in Int, NEW x \in Int, x = j * B
  PROVE  x = (x \div B) * B
<1>1. 0 \in 0..B-1 /\ x = j * B + 0
  BY BAssumption
<1>2. x \div B = j
  BY <1>1, BAssumption, DivUnique
<1> QED
  BY <1>2

\* The start of a block, moved on by a block, is the start of a block of the ring.
LEMMA NextBlock ==
  ASSUME NEW size \in Sizes, NEW w \in Nat, w = (w \div B) * B, w + B <= size
  PROVE  /\ (w + B) % size \in Nat
         /\ ((w + B) % size) + B <= size
         /\ (w + B) % size = (((w + B) % size) \div B) * B
         /\ size > 0 /\ w < size
<1> DEFINE r == w \div B
<1>1. PICK m \in Nat : size = m * B
  BY SizeInBlocks
<1>2. size \in Nat /\ size > 0 /\ B \in Nat /\ B > 0 /\ w < size
  BY SizesNat, BAssumption
<1>3. r \in Nat /\ w = r * B
  BY <1>2, DivNat
<1> HIDE DEF r
<1>4. w + B = (r + 1) * B
  BY <1>2, <1>3
<1>5. CASE w + B < size
  <2>1. (w + B) % size = w + B
    BY <1>2, <1>5, ModSmall
  <2>2. (r + 1) * B < m * B /\ r + 1 \in Int /\ m \in Int
    BY <1>1, <1>3, <1>4, <1>5
  <2>3. r + 1 < m
    BY <1>2, <2>2, MulCancel
  <2>4. (r + 2) * B <= m * B
    BY <1>2, <1>3, <2>3, MulMono
  <2>5. (r + 2) * B = (r + 1) * B + B
    BY <1>2, <1>3
  <2>6. (w + B) + B <= size
    BY <1>1, <1>4, <2>4, <2>5
  <2>7. w + B = ((w + B) \div B) * B
    <3>1. w + B \in Int /\ r + 1 \in Int /\ w + B = (r + 1) * B
      BY <1>2, <1>4, <2>2
    <3> DEFINE u == w + B
               v == r + 1
    <3>2. u \in Int /\ v \in Int /\ u = v * B
      BY <3>1
    <3> HIDE DEF u, v
    <3>3. u = (u \div B) * B
      BY <3>2, Multiple
    <3> QED
      BY <3>3 DEF u
  <2> QED
    BY <1>2, <2>1, <2>6, <2>7
<1>6. CASE w + B = size
  <2>1. (w + B) % size = 0
    BY <1>2, <1>6, ModSelf
  <2>2. 0 = (0 \div B) * B
    <3>1. 0 = 0 * B
      BY <1>2
    <3> QED
      BY <3>1, Multiple
  <2>3. 0 + B <= size /\ 0 \in Nat
    BY <1>2, <1>6
  <2> QED
    BY <1>2, <2>1, <2>2, <2>3
<1> QED
  BY <1>2, <1>5, <1>6

\* With a block to spare, the block at the write position holds nothing that is
\* still to be read.
LEMMA FreeBlock ==
  ASSUME NEW size \in Nat, NEW g \in Int, NEW s \in Int, NEW p \in Nat,
         At(s, p, size), s - g <= size - B, p + B <= size, NEW x \in g..s-1
  PROVE  x % size \notin p..p+B-1
<1> SUFFICES ASSUME x % size \in p..p+B-1 PROVE FALSE
  OBVIOUS
<1> DEFINE q == x % size
           i == q - p
<1>1. size > 0 /\ B \in Nat /\ B > 0
  BY BAssumption
<1>2. q \in 0..size-1 /\ i \in 0..B-1 /\ q = p + i
  BY <1>1, DivMod
<1>3. At(x, q, size)
  BY <1>2 DEF At
<1>4. On(x, q, size) /\ On(s, p, size)
  BY <1>3, AtOn
<1> HIDE DEF q, i
<1>5. PICK k \in Int : x = q + k * size
  BY <1>4 DEF On
<1>6. PICK j \in Int : s = p + j * size
  BY <1>4 DEF On
<1>7. (j - k) * size = j * size - k * size /\ j - k \in Int
  BY <1>1, MulDist
<1>8. j * size \in Int /\ k * size \in Int
  BY <1>1
<1>9. (j - k) * size = i + (s - x)
  <2>1. q \in Int /\ i \in Int
    BY <1>2
  <2> DEFINE a == j * size
             c == k * size
  <2>2. a \in Int /\ c \in Int /\ (j - k) * size = a - c
    BY <1>7, <1>8
  <2>3. x = q + c /\ s = p + a /\ q = p + i /\ p \in Int
    BY <1>2, <1>5, <1>6
  <2> HIDE DEF a, c
  <2>4. a - c = i + (s - x)
    BY <2>1, <2>2, <2>3
  <2> QED
    BY <2>2, <2>4
<1>10. s - x >= 1 /\ s - x <= size - B
  BY <1>1
<1>11. (j - k) * size > 0 /\ (j - k) * size < size /\ -size < (j - k) * size
  <2> DEFINE e == (j - k) * size
  <2>1. e = i + (s - x)
    BY <1>9
  <2>2. i \in 0..B-1 /\ s - x \in Int
    BY <1>2
  <2> HIDE DEF e
  <2>3. e > 0 /\ e < size /\ -size < e
    BY <1>1, <1>10, <2>1, <2>2
  <2> QED
    BY <2>3 DEF e
<1>12. j - k = 0
  BY <1>1, <1>7, <1>11, OnlyZero
<1> QED
  BY <1>1, <1>11, <1>12

-----------------------------------------------------------------------------
(* Types and phases.                                                        *)

\* The places of the mapped ring.
LEMMA InPlaces ==
  ASSUME NEW size \in Sizes
  PROVE  0..size-1 \subseteq Places
  BY DEF Places

\* A ring holds a block at least.
LEMMA SizeAtLeastB == \A s \in Sizes : s > 0 /\ B <= s
<1> SUFFICES ASSUME NEW s \in Sizes PROVE s > 0 /\ B <= s
  OBVIOUS
<1>1. PICK n \in 1..s : s = n * B
  BY SizesAssumption
<1>2. s \in Nat /\ B \in Nat /\ 1 <= n /\ n \in Int
  BY <1>1, SizesNat, BAssumption
<1>3. 1 * B <= n * B
  BY <1>2, MulMono
<1> QED
  BY <1>1, <1>2, <1>3, BAssumption

\* The start of the ring is a multiple of the block.
LEMMA AlignedZero == 0 = (0 \div B) * B
<1>1. 0 = 0 * B
  BY BAssumption
<1> QED
  BY <1>1, Multiple

\* The block the client writes to lies in the mapped ring.
LEMMA BlockInRing ==
  ASSUME TypeOK, PhaseInv, cpc # "none"
  PROVE  /\ txbuf_size \in Sizes /\ txbuf_size \in Nat
         /\ Stretch(wr, B) \subseteq 0..txbuf_size-1
         /\ Stretch(tx_wr_ptr, B) \subseteq 0..txbuf_size-1
         /\ 0..txbuf_size-1 \subseteq Places
<1>1. txbuf_size \in Sizes /\ txbuf_size \in Nat
  BY SizesNat DEF TypeOK, PhaseInv
<1> QED
  BY <1>1, InPlaces, BAssumption DEF TypeOK, PhaseInv, Stretch

\* The types hold at the start.
LEMMA TypeInit == Init => TypeOK
  BY BoundsAssumption DEF Init, TypeOK

\* Every step keeps them.
LEMMA TypeStep ==
  ASSUME TypeOK, PhaseInv, [Next]_vars
  PROVE  TypeOK'
<1> USE BAssumption, BoundsAssumption
        DEF TypeOK, hwVars, fileVars, cVars, history, vars
<1>0. txbuf_size \in Nat /\ hwSize \in Nat
  BY SizesNat
<1>1. CASE HwLatch
  BY <1>1 DEF HwLatch
<1>2. CASE HwStart
  BY <1>2 DEF HwStart
<1>3. ASSUME NEW next \in {0, 1}, HwDone(next) PROVE TypeOK'
  <2>1. tx_buf_rd' \in Nat
    BY <1>3 DEF HwDone, Bump
  <2>2. got' \in Nat /\ upset' \in {{}, {"full"}, {"chain"}}
    BY <1>3 DEF HwDone
  <2> QED
    BY <1>3, <2>1, <2>2 DEF HwDone
<1>4. CASE HwStop
  BY <1>4 DEF HwStop
<1>5. CASE Open
  BY <1>5 DEF Open
<1>6. CASE Mmap
  BY <1>6 DEF Mmap
<1>7. CASE Enable
  BY <1>7 DEF Enable
<1>8. CASE Release
  BY <1>8 DEF Release
<1>9. CASE Accept
  BY <1>9 DEF Accept
<1>10. CASE Fill
  <2>1. txbuf_size > 0
    BY <1>10 DEF Fill, PhaseInv
  <2>2. wr' \in Nat
    BY <1>0, <1>10, <2>1, DivMod DEF Fill
  <2>3. mem' \in [Places -> Int]
    <3>1. \A p \in Places : p \in Stretch(wr, B) => sent + (p - wr) \in Int
      BY DEF Stretch
    <3> QED
      BY <1>10, <3>1 DEF Fill
  <2>4. dirty' \subseteq Places
    BY <1>10, BlockInRing DEF Fill
  <2>5. left' \in 0..Prefill
    BY <1>10 DEF Fill, NextLeft
  <2> QED
    BY <1>10, <2>2, <2>3, <2>4, <2>5 DEF Fill
<1>11. CASE WriteWait
  BY <1>11 DEF WriteWait
<1>12. CASE WriteFlush
  BY <1>12 DEF WriteFlush
<1>13. CASE WritePublish
  BY <1>13 DEF WritePublish
<1>14. CASE Disconnect
  BY <1>14 DEF Disconnect
<1>15. CASE UNCHANGED vars
  BY <1>15
<1> QED
  BY <1>1, <1>2, <1>3, <1>4, <1>5, <1>6, <1>7, <1>8, <1>9, <1>10, <1>11, <1>12,
     <1>13, <1>14, <1>15 DEF Next, Hw, Session, Write

\* The phases hold at the start.
LEMMA PhaseInit == Init => PhaseInv
  BY DEF Init, PhaseInv

\* Every step keeps the phases of the file and of the hardware.
LEMMA PhaseStep ==
  ASSUME TypeOK, PhaseInv, [Next]_vars
  PROVE  PhaseInv'
<1> USE DEF PhaseInv, hwVars, fileVars, cVars, history, vars
<1>0. /\ busy \in {0, 1} /\ tx_en \in {0, 1} /\ in_use \in {0, 1} /\ left \in Nat
      /\ hwState \in {"STANDBY", "RUN"} /\ wr \in Nat /\ tx_wr_ptr \in Nat
      /\ cpc \in {"none", "fill", "wait", "flush", "publish", "done"}
      /\ txbuf_size \in Sizes \cup {0} /\ txbuf_size \in Nat /\ B \in Nat
  BY SizesNat, BAssumption, BoundsAssumption DEF TypeOK
<1>1. CASE HwLatch
  BY <1>0, <1>1 DEF HwLatch
<1>2. CASE HwStart
  BY <1>0, <1>2 DEF HwStart
<1>3. ASSUME NEW next \in {0, 1}, HwDone(next) PROVE PhaseInv'
  <2>1. tx_en = 1 \/ in_use = 0
    BY <1>0, <1>3 DEF HwDone
  <2>2. UNCHANGED <<hwState, hwSize, tx_en, tx_buf_wr, fileVars, tx_wr_ptr, cVars>>
    BY <1>3 DEF HwDone
  <2>3. hwState = "RUN"
    BY <1>3 DEF HwDone
  <2> QED
    BY <1>0, <2>1, <2>2, <2>3
<1>4. CASE HwStop
  BY <1>0, <1>4 DEF HwStop
<1>5. CASE Open
  BY <1>0, <1>5 DEF Open
<1>6. CASE Mmap
  BY <1>0, <1>6 DEF Mmap
<1>7. CASE Enable
  BY <1>0, <1>7 DEF Enable
<1>8. CASE Release
  BY <1>0, <1>8 DEF Release
<1>9. CASE Accept
  <2>1. txbuf_size \in Sizes
    BY <1>0, <1>9 DEF Accept
  <2>2. B <= txbuf_size /\ 0 = (0 \div B) * B
    BY <2>1, SizeAtLeastB, AlignedZero
  <2> QED
    BY <1>0, <1>9, <2>2 DEF Accept
<1>10. CASE Fill
  <2>1. /\ txbuf_size \in Sizes /\ wr = (wr \div B) * B /\ wr + B <= txbuf_size
        /\ tx_wr_ptr + B <= txbuf_size
    BY <1>0, <1>10 DEF Fill
  <2> DEFINE w == (wr + B) % txbuf_size
  <2>2. w + B <= txbuf_size /\ w = (w \div B) * B
    BY <1>0, <2>1, NextBlock
  <2>3. wr' = w
    BY <1>10 DEF Fill
  <2> HIDE DEF w
  <2>4. /\ cpc = "fill" /\ cpc' = "wait" /\ (left > 0 \/ tx_en = 1)
        /\ left' = NextLeft
        /\ UNCHANGED <<hwVars, tx_en, tx_buf_wr, fileVars, tx_wr_ptr, got>>
    BY <1>10 DEF Fill
  <2>5. left = 0 => left' = 0
    BY <2>4 DEF NextLeft
  <2> QED
    BY <1>0, <2>1, <2>2, <2>3, <2>4, <2>5
<1>11. CASE WriteWait
  BY <1>0, <1>11 DEF WriteWait
<1>12. CASE WriteFlush
  BY <1>0, <1>12 DEF WriteFlush
<1>13. CASE WritePublish
  BY <1>0, <1>13 DEF WritePublish
<1>14. CASE Disconnect
  BY <1>0, <1>14 DEF Disconnect
<1>15. CASE UNCHANGED vars
  BY <1>15
<1> QED
  BY <1>1, <1>2, <1>3, <1>4, <1>5, <1>6, <1>7, <1>8, <1>9, <1>10, <1>11, <1>12,
     <1>13, <1>14, <1>15 DEF Next, Hw, Session, Write

-----------------------------------------------------------------------------
(* What the pointers mean.                                                  *)

\* Two ends of the stream at the same place, less than a ring apart, coincide;
\* so a reader that sees a burst in the ring has one.
LEMMA SeenIsThere ==
  ASSUME NEW size \in Nat, NEW x \in Int, NEW p, NEW q,
         At(x, p, size), At(x, q, size)
  PROVE  Ahead(p, q, size) = 0
  BY DEF At, Ahead

\* One chunk, as the ring does not wrap inside a block: the block is flushed.
LEMMA FlushCovers ==
  ASSUME TypeOK, PhaseInv, cpc # "none", wr = (tx_wr_ptr + B) % txbuf_size,
         B < txbuf_size
  PROVE  Stretch(tx_wr_ptr, B) \subseteq Flushed
<1>1. /\ txbuf_size \in Nat /\ tx_wr_ptr \in Nat /\ B \in Nat /\ B > 0 /\ wr \in Nat
      /\ tx_wr_ptr + B <= txbuf_size
  BY SizesNat, BAssumption DEF TypeOK, PhaseInv
<1>2. Ahead(tx_wr_ptr, wr, txbuf_size) = B
  <2>1. CASE tx_wr_ptr + B < txbuf_size
    <3>1. (tx_wr_ptr + B) % txbuf_size = tx_wr_ptr + B
      BY <1>1, <2>1, ModSmall
    <3> QED
      BY <1>1, <3>1 DEF Ahead
  <2>2. CASE tx_wr_ptr + B = txbuf_size
    <3>1. wr = 0
      BY <1>1, <2>2, ModSelf
    <3> QED
      BY <1>1, <2>2, <3>1 DEF Ahead
  <2> QED
    BY <1>1, <2>1, <2>2
<1>3. B <= txbuf_size - tx_wr_ptr
  BY <1>1
<1> QED
  BY <1>2, <1>3 DEF Flushed

\* The exact account holds at the start.
LEMMA ExactInit == Init => ExactInv
<1>1. 0 = (0 \div B) * B
  BY AlignedZero
<1> QED
  BY <1>1 DEF Init, ExactInv

\* Every step keeps the account of the bytes exact.
LEMMA ExactStep ==
  ASSUME TypeOK, PhaseInv, ExactInv, [Next]_vars
  PROVE  ExactInv'
<1> USE DEF ExactInv, hwVars, fileVars, cVars, history, vars
<1> SUFFICES ASSUME upset' = {} PROVE ExactInv'
  OBVIOUS
<1>0. /\ txbuf_size \in Nat /\ B \in Nat /\ B > 0
      /\ sent \in Nat /\ got \in Nat /\ wr \in Nat /\ tx_wr_ptr \in Nat
      /\ tx_buf_rd \in Nat /\ busy \in {0, 1} /\ tx_en \in {0, 1} /\ in_use \in {0, 1}
      /\ cpc \in {"none", "fill", "wait", "flush", "publish", "done"}
  BY SizesNat, BAssumption DEF TypeOK
<1>1. CASE HwLatch
  BY <1>0, <1>1 DEF HwLatch, PhaseInv
<1>2. CASE HwStart
  <2>1. /\ hwState = "RUN" /\ upset = {} /\ hwSize = txbuf_size /\ cpc # "none"
        /\ tx_buf_wr = tx_wr_ptr
    BY <1>2 DEF HwStart, PhaseInv
  <2>2. Ahead(tx_buf_rd, tx_wr_ptr, txbuf_size) >= 1
    BY <1>2, <2>1 DEF HwStart, HasBurst
  <2>3. /\ At(got, tx_buf_rd, txbuf_size) /\ At(sent, tx_wr_ptr, txbuf_size)
        /\ got <= sent
    BY <2>1
  <2>4. got # sent
    BY <1>0, <2>2, <2>3, SeenIsThere
  <2>5. got < sent
    BY <1>0, <2>3, <2>4
  <2> QED
    BY <1>2, <2>1, <2>5 DEF HwStart
<1>3. ASSUME NEW next \in {0, 1}, HwDone(next) PROVE ExactInv'
  <2>1. /\ hwState = "RUN" /\ upset = {} /\ hwSize = txbuf_size /\ cpc # "none"
        /\ busy = 1 /\ busy' = next
    BY <1>3 DEF HwDone, PhaseInv
  <2>2. /\ got' = got + 1 /\ tx_buf_rd' = Bump(tx_buf_rd, 1, txbuf_size)
        /\ next = 1 => got + 1 # sent
    BY <1>3, <2>1 DEF HwDone
  <2>3. UNCHANGED <<hwState, hwSize, tx_en, tx_buf_wr, fileVars, tx_wr_ptr, cVars,
                    mem, dirty, sent>>
    BY <1>3 DEF HwDone
  <2>4. At(got + 1, tx_buf_rd', txbuf_size)
    <3>1. On(got, tx_buf_rd, txbuf_size)
      BY <1>0, <2>1, AtOn
    <3>2. On(got + 1, Bump(tx_buf_rd, 1, txbuf_size), txbuf_size)
      BY <1>0, <3>1, OnNext
    <3>3. got + 1 \in Int
      BY <1>0
    <3> QED
      BY <1>0, <2>2, <3>2, <3>3, AtOn
  <2>5. got < sent
    BY <2>1
  <2>6. next = 1 => got + 1 < sent
    BY <1>0, <2>2, <2>5
  <2> QED
    BY <1>0, <2>1, <2>2, <2>3, <2>4, <2>5, <2>6
<1>4. CASE HwStop
  BY <1>0, <1>4 DEF HwStop, PhaseInv
<1>5. CASE Open
  <2>1. 0 = (0 \div B) * B
    BY AlignedZero
  <2> QED
    BY <1>5, <2>1 DEF Open
<1>6. CASE Mmap
  BY <1>0, <1>6 DEF Mmap, PhaseInv
<1>7. CASE Enable
  BY <1>0, <1>7 DEF Enable
<1>8. CASE Release
  BY <1>0, <1>8 DEF Release
<1>9. CASE Accept
  <2>1. /\ tx_wr_ptr = 0 /\ sent = 0 /\ got = 0 /\ tx_buf_rd = 0
        /\ txbuf_size \in Sizes /\ txbuf_size > 0
    BY <1>0, <1>9 DEF Accept, PhaseInv, TypeOK
  <2>2. At(0, 0, txbuf_size) /\ B <= txbuf_size
    BY <1>0, <2>1, AtZero, SizeAtLeastB
  <2> QED
    BY <1>0, <1>9, <2>1, <2>2 DEF Accept
<1>10. CASE Fill
  <2>1. /\ upset = {} /\ wr = tx_wr_ptr /\ sent - got <= txbuf_size - B
        /\ cpc = "fill" /\ cpc' = "wait" /\ wr' = (wr + B) % txbuf_size
        /\ mem' = [p \in Places |->
                     IF p \in Stretch(wr, B) THEN sent + (p - wr) ELSE mem[p]]
        /\ UNCHANGED <<hwVars, tx_en, tx_buf_wr, fileVars, tx_wr_ptr, sent, got, upset>>
    BY <1>10 DEF Fill
  <2>2. \A i \in 0..B-1 : mem'[tx_wr_ptr + i] = sent + i
    <3> SUFFICES ASSUME NEW i \in 0..B-1 PROVE mem'[tx_wr_ptr + i] = sent + i
      OBVIOUS
    <3>1. tx_wr_ptr + i \in Stretch(wr, B)
      BY <1>0, <2>1 DEF Stretch
    <3>2. tx_wr_ptr + i \in Places
      BY <2>1, <3>1, BlockInRing
    <3>3. sent + ((tx_wr_ptr + i) - wr) = sent + i
      BY <1>0, <2>1
    <3> QED
      BY <2>1, <3>1, <3>2, <3>3
  <2>3. sent + B - got <= txbuf_size
    BY <1>0, <2>1
  <2> QED
    BY <1>0, <2>1, <2>2, <2>3
<1>11. CASE WriteWait
  <2>1. /\ upset = {} /\ cpc = "wait" /\ cpc' = "flush"
        /\ sent + B - got # txbuf_size /\ Room(tx_buf_rd)
        /\ UNCHANGED <<hwVars, tx_en, tx_buf_wr, fileVars, tx_wr_ptr, wr, left,
                       mem, dirty, sent, got>>
    BY <1>11 DEF WriteWait
  <2>2. /\ sent + B - got <= txbuf_size /\ wr = (tx_wr_ptr + B) % txbuf_size
        /\ On(got, tx_buf_rd, txbuf_size) /\ On(sent, tx_wr_ptr, txbuf_size)
        /\ got <= sent
    BY <1>0, <2>1, AtOn
  <2>3. On(sent + B, wr, txbuf_size)
    <3>1. sent \in Int /\ B \in Int
      BY <1>0
    <3>2. On(sent + B, (tx_wr_ptr + B) % txbuf_size, txbuf_size)
      BY <1>0, <2>2, <3>1, OnMod, Zenon
    <3> QED
      BY <2>2, <3>2, Zenon
  <2>4. sent + B \in Int /\ got <= sent + B /\ (sent + B) - got < txbuf_size
    BY <1>0, <2>1, <2>2
  <2>5. Ahead(tx_buf_rd, wr, txbuf_size) = (sent + B) - got
    BY <1>0, <2>2, <2>3, <2>4, AheadExact
  <2>6. sent + B - got <= txbuf_size - B
    BY <1>0, <2>1, <2>5 DEF Room
  <2> QED
    BY <1>0, <2>1, <2>6
<1>12. CASE WriteFlush
  <2>1. /\ upset = {} /\ cpc = "flush" /\ cpc' = "publish"
        /\ dirty' = dirty \ Flushed
        /\ UNCHANGED <<hwVars, tx_en, tx_buf_wr, fileVars, tx_wr_ptr, wr, left,
                       mem, sent, got>>
    BY <1>12 DEF WriteFlush
  <2>2. sent + B - got <= txbuf_size - B /\ got <= sent
    BY <2>1
  <2>3. B < txbuf_size
    BY <1>0, <2>2
  <2>4. Stretch(tx_wr_ptr, B) \subseteq Flushed
    BY <2>1, <2>3, FlushCovers
  <2>5. dirty' \cap Stretch(tx_wr_ptr, B) = {}
    BY <2>1, <2>4
  <2> QED
    BY <1>0, <2>1, <2>5
<1>13. CASE WritePublish
  <2>1. /\ upset = {} /\ cpc = "publish" /\ cpc' = "fill"
        /\ tx_wr_ptr' = wr /\ tx_buf_wr' = wr /\ sent' = sent + B
        /\ UNCHANGED <<hwVars, tx_en, fileVars, wr, left, mem, dirty, got>>
    BY <1>13 DEF WritePublish
  <2>2. /\ sent + B - got <= txbuf_size - B /\ wr = (tx_wr_ptr + B) % txbuf_size
        /\ On(sent, tx_wr_ptr, txbuf_size) /\ got <= sent
    BY <1>0, <2>1, AtOn
  <2>3. On(sent + B, wr, txbuf_size)
    <3>1. sent \in Int /\ B \in Int
      BY <1>0
    <3>2. On(sent + B, (tx_wr_ptr + B) % txbuf_size, txbuf_size)
      BY <1>0, <2>2, <3>1, OnMod, Zenon
    <3> QED
      BY <2>2, <3>2, Zenon
  <2>4. At(sent + B, wr, txbuf_size)
    <3>1. sent + B \in Int
      BY <1>0
    <3> QED
      BY <1>0, <2>3, <3>1, AtOn
  <2>5. sent' = (sent' \div B) * B
    <3> DEFINE r == sent \div B
               v == r + 1
    <3>1. r \in Nat /\ sent = r * B
      BY <1>0, <2>1, DivNat
    <3> HIDE DEF r
    <3>2. sent' = v * B /\ v \in Int /\ sent' \in Int
      BY <1>0, <2>1, <3>1
    <3> HIDE DEF v
    <3> QED
      BY <3>2, Multiple
  <2> QED
    BY <1>0, <2>1, <2>2, <2>4, <2>5
<1>14. CASE Disconnect
  BY <1>0, <1>14 DEF Disconnect
<1>15. CASE UNCHANGED vars
  BY <1>15
<1> QED
  BY <1>1, <1>2, <1>3, <1>4, <1>5, <1>6, <1>7, <1>8, <1>9, <1>10, <1>11, <1>12,
     <1>13, <1>14, <1>15 DEF Next, Hw, Session, Write

-----------------------------------------------------------------------------
(* What the FPGA may read is in memory.                                     *)

\* Where the bursts between got and sent lie.
LEMMA UnreadInRing ==
  ASSUME TypeOK, PhaseInv, cpc # "none", NEW x \in Int
  PROVE  x % txbuf_size \in 0..txbuf_size-1 /\ x % txbuf_size \in Places
<1>1. txbuf_size \in Nat /\ txbuf_size > 0 /\ 0..txbuf_size-1 \subseteq Places
  BY BlockInRing DEF PhaseInv
<1> QED
  BY <1>1, DivMod

\* Nothing is published at the start.
LEMMA FlushedInit == Init => PublishedIsFlushed
  BY DEF Init, PublishedIsFlushed

\* What is published was flushed before, and stays.
LEMMA FlushedStep ==
  ASSUME TypeOK, PhaseInv, ExactInv, PublishedIsFlushed, [Next]_vars
  PROVE  PublishedIsFlushed'
<1> USE DEF hwVars, fileVars, cVars, history, vars
<1> SUFFICES ASSUME upset' = {}, NEW x \in got'..sent'-1
             PROVE  x % txbuf_size' \notin dirty' /\ mem'[x % txbuf_size'] = x
  BY DEF PublishedIsFlushed
<1>0. /\ txbuf_size \in Nat /\ B \in Nat /\ B > 0
      /\ sent \in Nat /\ got \in Nat /\ wr \in Nat /\ tx_wr_ptr \in Nat
  BY SizesNat, BAssumption DEF TypeOK
\* Every step that publishes nothing, reads nothing and leaves memory alone.
<1>a. ASSUME UNCHANGED <<txbuf_size, mem, sent>>, dirty' \subseteq dirty,
             got' \in Nat, got <= got', upset = {}
      PROVE  x % txbuf_size' \notin dirty' /\ mem'[x % txbuf_size'] = x
  <2>1. x \in got..sent-1
    BY <1>0, <1>a
  <2> QED
    BY <1>a, <2>1 DEF PublishedIsFlushed
<1>1. CASE Hw
  <2>1. ASSUME NEW next \in {0, 1}, HwDone(next)
        PROVE  /\ UNCHANGED <<txbuf_size, mem, sent, dirty>>
               /\ got' \in Nat /\ got <= got' /\ upset = {}
    <3>1. upset = {} /\ UNCHANGED <<txbuf_size, mem, sent, dirty>>
      BY <2>1 DEF HwDone
    <3>2. got' = got + 1
      BY <2>1, <3>1 DEF HwDone
    <3> QED
      BY <1>0, <3>1, <3>2
  <2>2. CASE HwLatch \/ HwStart \/ HwStop
    BY <1>0, <1>a, <2>2 DEF HwLatch, HwStart, HwStop
  <2> QED
    BY <1>1, <1>a, <2>1, <2>2 DEF Hw
<1>2. CASE Open
  BY <1>2 DEF Open
<1>3. CASE Mmap
  <2>1. sent' = 0 /\ got' \in Nat
    BY <1>0, <1>3 DEF Mmap, PhaseInv, TypeOK
  <2> QED
    BY <2>1
<1>4. CASE Release
  BY <1>0, <1>a, <1>4 DEF Release
<1>5. CASE Accept \/ Enable \/ Disconnect
  BY <1>0, <1>a, <1>5 DEF Accept, Enable, Disconnect
<1>6. CASE Fill
  <2>1. /\ upset = {} /\ cpc = "fill"
        /\ mem' = [p \in Places |->
                     IF p \in Stretch(wr, B) THEN sent + (p - wr) ELSE mem[p]]
        /\ dirty' = dirty \cup Stretch(wr, B)
        /\ UNCHANGED <<txbuf_size, sent, got>>
    BY <1>6 DEF Fill
  <2>2. /\ At(sent, wr, txbuf_size) /\ sent - got <= txbuf_size - B
        /\ wr + B <= txbuf_size
    BY <2>1 DEF ExactInv, PhaseInv
  <2>3. x \in got..sent-1 /\ sent \in Int /\ got \in Int
    BY <1>0, <2>1
  <2>4. x % txbuf_size \notin Stretch(wr, B)
    BY <1>0, <2>2, <2>3, FreeBlock DEF Stretch
  <2>5. x % txbuf_size \in Places
    BY <2>1, <2>3, UnreadInRing
  <2>6. x % txbuf_size \notin dirty /\ mem[x % txbuf_size] = x
    BY <2>1, <2>3 DEF PublishedIsFlushed
  <2> QED
    BY <2>1, <2>4, <2>5, <2>6
<1>7. CASE WriteWait
  <2>1. upset = {} /\ UNCHANGED <<txbuf_size, mem, sent, dirty, got>>
    BY <1>7 DEF WriteWait
  <2> QED
    BY <1>0, <1>a, <2>1
<1>8. CASE WriteFlush
  <2>1. /\ upset = {} /\ dirty' \subseteq dirty
        /\ UNCHANGED <<txbuf_size, mem, sent, got>>
    BY <1>8 DEF WriteFlush
  <2> QED
    BY <1>0, <1>a, <2>1
<1>9. CASE WritePublish
  <2>1. /\ upset = {} /\ cpc = "publish" /\ sent' = sent + B
        /\ UNCHANGED <<txbuf_size, mem, dirty, got>>
    BY <1>9 DEF WritePublish
  <2>2. CASE x \in got..sent-1
    BY <2>1, <2>2 DEF PublishedIsFlushed
  <2>3. CASE x \in sent..sent+B-1
    <3> DEFINE i == x - sent
    <3>1. i \in 0..B-1 /\ i \in Nat /\ x = sent + i
      BY <1>0, <2>3
    <3> HIDE DEF i
    <3>2. /\ At(sent, tx_wr_ptr, txbuf_size) /\ tx_wr_ptr + B <= txbuf_size
          /\ mem[tx_wr_ptr + i] = sent + i
          /\ dirty \cap Stretch(tx_wr_ptr, B) = {}
      BY <2>1, <3>1 DEF ExactInv, PhaseInv
    <3>3. sent \in Int /\ tx_wr_ptr + i < txbuf_size
      BY <1>0, <3>1, <3>2
    <3>4. At(sent + i, tx_wr_ptr + i, txbuf_size)
      BY <1>0, <3>1, <3>2, <3>3, PlaceOf
    <3>5. x % txbuf_size = tx_wr_ptr + i
      BY <3>1, <3>4 DEF At
    <3>6. tx_wr_ptr + i \in Stretch(tx_wr_ptr, B)
      BY <1>0, <3>1 DEF Stretch
    <3> QED
      BY <2>1, <3>1, <3>2, <3>5, <3>6
  <2> QED
    BY <1>0, <2>1, <2>2, <2>3
<1>10. CASE UNCHANGED vars
  BY <1>0, <1>a, <1>10
<1> QED
  BY <1>1, <1>2, <1>3, <1>4, <1>5, <1>6, <1>7, <1>8, <1>9, <1>10 DEF Next, Session, Write

-----------------------------------------------------------------------------
(* The theorems.                                                            *)

\* The invariant every other result is read off.
THEOREM Invariance == Spec => []IInv
<1>1. Init => IInv
  BY TypeInit, PhaseInit, ExactInit, FlushedInit DEF IInv
<1>2. IInv /\ [Next]_vars => IInv'
  BY TypeStep, PhaseStep, ExactStep, FlushedStep DEF IInv
<1> QED
  BY <1>1, <1>2, PTL DEF Spec

\* Every variable of write(), of its client and of the FPGA keeps its type.
THEOREM TypeCorrect == Spec => []TypeOK
<1>1. IInv => TypeOK
  BY DEF IInv
<1> QED
  BY <1>1, Invariance, PTL

\* write() publishes no burst that is not flushed, for every block and ring
\* size, and the client overwrites none before the FPGA has read it.
THEOREM NothingStale == Spec => []PublishedIsFlushed
<1>1. IInv => PublishedIsFlushed
  BY DEF IInv
<1> QED
  BY <1>1, Invariance, PTL

\* One free block, which write() keeps, is enough for a client that fills the
\* next block before it asks for room.
THEOREM OneFreeBlock == Spec => []FillIsFree
<1>1. IInv => FillIsFree
  <2> SUFFICES ASSUME IInv, upset = {}, cpc = "fill", NEW x \in got..sent-1
               PROVE  x % txbuf_size \notin Stretch(wr, B)
    BY DEF FillIsFree
  <2>1. /\ At(sent, wr, txbuf_size) /\ sent - got <= txbuf_size - B
        /\ wr + B <= txbuf_size
    BY DEF IInv, ExactInv, PhaseInv
  <2>2. txbuf_size \in Nat /\ wr \in Nat /\ sent \in Int /\ got \in Int
    BY SizesNat DEF IInv, TypeOK
  <2> QED
    BY <2>1, <2>2, FreeBlock DEF Stretch
<1> QED
  BY <1>1, Invariance, PTL

\* The FPGA transmits the client's samples, in order, none twice, none stale, as
\* long as it was neither overfilled nor overran.
THEOREM StreamIntact == Spec => []TxIntact
<1>1. IInv => TxIntact
  <2> SUFFICES ASSUME IInv, upset = {}, busy = 1
               PROVE  mem[tx_buf_rd] = got /\ tx_buf_rd \notin dirty
    BY DEF TxIntact
  <2>1. cpc # "none" /\ got < sent
    BY DEF IInv, PhaseInv, ExactInv, TypeOK
  <2>2. tx_buf_rd = got % txbuf_size
    BY <2>1 DEF IInv, ExactInv, At
  <2>3. got \in got..sent-1
    BY <2>1 DEF IInv, TypeOK
  <2> QED
    BY <2>2, <2>3 DEF IInv, PublishedIsFlushed
<1> QED
  BY <1>1, Invariance, PTL

\* write() never blocks before ENABLE, for any prefill and any ring: the client
\* reaches the call that makes the FPGA drain.
THEOREM PrefillReachesEnable == Spec => []PrefillNeverBlocks
<1>1. IInv => PrefillNeverBlocks
  <2> SUFFICES ASSUME IInv, cpc = "wait", tx_en = 0 PROVE Room(tx_buf_rd)
    BY DEF PrefillNeverBlocks
  <2>1. tx_buf_rd = 0 /\ wr + B <= txbuf_size
    BY DEF IInv, PhaseInv
  <2>2. wr \in Nat /\ txbuf_size \in Nat /\ B \in Nat
    BY SizesNat, BAssumption DEF IInv, TypeOK
  <2> QED
    BY <2>1, <2>2 DEF Room, Ahead
<1> QED
  BY <1>1, Invariance, PTL

\* The FPGA of this model does no more than RingReader allows, which the RTL's
\* reader is proved to implement.
THEOREM Refinement == Spec => ReaderAsPromised
<1>1. Init => R!Init
  BY DEF Init, R!Init
<1>2. IInv /\ [Next]_vars => [R!Next]_(R!vars)
  <2> SUFFICES ASSUME IInv, [Next]_vars PROVE R!Next \/ UNCHANGED R!vars
    OBVIOUS
  <2> USE DEF hwVars, fileVars, cVars, history, R!vars
  <2>1. CASE HwLatch
    <3>1. txbuf_size \in Sizes
      BY <2>1, SizesNat DEF HwLatch, IInv, TypeOK, PhaseInv
    <3>2. R!Latch
      BY <2>1, <3>1 DEF HwLatch, R!Latch
    <3> QED
      BY <3>2 DEF R!Next
  <2>2. CASE HwStart
    <3>1. R!Start
      BY <2>2 DEF HwStart, HasBurst, R!Start, R!HasBurst, R!Ahead, Ahead
    <3> QED
      BY <3>1 DEF R!Next
  <2>3. ASSUME NEW next \in {0, 1}, HwDone(next) PROVE R!Next
    <3>1. R!Done
      BY <2>3 DEF HwDone, HasBurst, R!Done, R!HasBurst, R!Ahead, Ahead, R!Bump, Bump
    <3> QED
      BY <3>1 DEF R!Next
  <2>4. CASE HwStop
    <3>1. R!Stop
      BY <2>4 DEF HwStop, R!Stop
    <3> QED
      BY <3>1 DEF R!Next
  <2>5. CASE Open
    <3>1. R!Reset
      BY <2>5 DEF Open, R!Reset
    <3> QED
      BY <3>1 DEF R!Next
  <2>6. CASE Enable \/ Release
    <3>1. R!SetEnable
      BY <2>6 DEF Enable, Release, R!SetEnable
    <3> QED
      BY <3>1 DEF R!Next
  <2>7. CASE WritePublish
    <3>1. cpc # "none"
      BY <2>7 DEF WritePublish
    <3>2. wr \in Stretch(wr, B)
      BY BAssumption DEF IInv, TypeOK, Stretch
    <3>3. wr \in Places
      BY <3>1, <3>2, BlockInRing DEF IInv
    <3>4. R!SetWr
      BY <2>7, <3>3 DEF WritePublish, R!SetWr
    <3> QED
      BY <3>4 DEF R!Next
  <2>8. CASE Mmap \/ Accept \/ Fill \/ Disconnect \/ WriteWait \/ WriteFlush
    BY <2>8 DEF Mmap, Accept, Fill, Disconnect, WriteWait, WriteFlush
  <2>9. CASE UNCHANGED vars
    BY <2>9 DEF vars
  <2> QED
    BY <2>1, <2>2, <2>3, <2>4, <2>5, <2>6, <2>7, <2>8, <2>9
    DEF Next, Hw, Session, Write
<1> QED
  BY <1>1, <1>2, Invariance, PTL DEF Spec, R!Spec, ReaderAsPromised

\* What is published and not read yet stays as it was published, for every block
\* size, ring and prefill.
THEOREM UnreadSafe == Spec => []UnreadIsSafe
<1>1. FillIsFree /\ PublishedIsFlushed => UnreadIsSafe
  BY DEF UnreadIsSafe
<1> QED
  BY <1>1, OneFreeBlock, NothingStale, PTL
=============================================================================
