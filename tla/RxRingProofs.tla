---------------------------- MODULE RxRingProofs ----------------------------
(* What RxRing guarantees for every block size, every set of ring sizes, any
   number of sessions and any amount of data.  IInv of RxRing is inductive: its
   conjuncts are proved preserved one after the other, each with one step per
   action, and the properties are read off it.                               *)
EXTENDS RxRing, RingLemmas

\* A ring has a size.
LEMMA SizesNat == \A s \in Sizes \cup {0} : s \in Nat
  BY SizesAssumption

\* A ring is a whole number of blocks.
LEMMA SizeInBlocks ==
  ASSUME NEW s \in Sizes \cup {0}
  PROVE  s \div B \in Nat /\ s = (s \div B) * B
<1>1. PICK n \in Nat : s = n * B
  <2>1. CASE s = 0
    <3>1. s = 0 * B
      BY <2>1, BAssumption
    <3> QED  BY <3>1
  <2>2. CASE s \in Sizes
    <3>1. PICK n \in 1..s : s = n * B
      BY <2>2, SizesAssumption
    <3> QED  BY <3>1, <2>2, SizesNat
  <2> QED  BY <2>1, <2>2
<1>2. s = n * B + 0 /\ 0 \in 0..B-1 /\ s \in Int
  BY <1>1, BAssumption
<1>3. s \div B = n
  BY <1>2, BAssumption, DivUnique
<1> QED  BY <1>1, <1>3

\* A function stays one of its type when one value is replaced.
LEMMA ExceptType ==
  ASSUME NEW S, NEW T, NEW f \in [S -> T], NEW i, NEW v \in T
  PROVE  [f EXCEPT ![i] = v] \in [S -> T]
  OBVIOUS

\* The types hold at the start.
LEMMA TypeInit == Init => TypeOK
<1> SUFFICES ASSUME Init PROVE TypeOK
  OBVIOUS
<1>1. mem \in [Places -> -1..MaxTotal]
  BY BoundsAssumption DEF Init
<1> QED
  BY <1>1, BoundsAssumption DEF Init, TypeOK, Upsets

\* Every step keeps them.
LEMMA TypeStep ==
  ASSUME TypeOK, PhaseInv, [Next]_vars
  PROVE  TypeOK'
<1> USE BAssumption, BoundsAssumption
        DEF TypeOK, Upsets, hwVars, fileVars, drvVars, tVars, rVars, history, vars
<1>0. rxbuf_size \in Nat /\ hwSize \in Nat /\ total + inflight <= MaxTotal
  BY SizesNat DEF PhaseInv
<1>1. CASE HwLatch
  BY <1>1 DEF HwLatch
<1>2. CASE HwData
  <2>1. mem' \in [Places -> -1..MaxTotal]
    <3>1. total + inflight \in -1..MaxTotal
      BY <1>0
    <3> QED
      BY <3>1, <1>2, ExceptType DEF HwData
  <2>2. /\ inflight' \in 0..MaxInflight
        /\ UNCHANGED <<hwState, hwSize, rx_buf_wr, rx_en, total, pos, told, counted, upset>>
        /\ UNCHANGED <<fileVars, drvVars, tVars, epc, rVars>>
    BY <1>2 DEF HwData
  <2> QED
    BY <2>1, <2>2
<1>3. CASE HwResp
  <2>1. rx_buf_wr' \in Nat
    BY <1>3, <1>0 DEF HwResp, Bump
  <2> QED
    BY <1>3, <1>0, <2>1 DEF HwResp
<1>4. CASE HwDisable
  BY <1>4 DEF HwDisable
<1>4a. CASE HwStop
  BY <1>4a DEF HwStop
<1>5. CASE Open
  BY <1>5 DEF Open, HwReset
<1>6. CASE Mmap
  BY <1>6 DEF Mmap
<1>7. CASE Release
  BY <1>7 DEF Release
<1>8. CASE Enable
  <2>1. CASE EnableOff
    BY <2>1 DEF EnableOff
  <2>2. CASE EnableRdPtr
    BY <2>2 DEF EnableRdPtr
  <2>3. CASE EnableTimerPtr
    BY <2>3 DEF EnableTimerPtr
  <2>4. CASE EnableReady
    BY <2>4 DEF EnableReady
  <2>5. CASE EnableOn
    BY <2>5 DEF EnableOn
  <2> QED
    BY <1>8, <2>1, <2>2, <2>3, <2>4, <2>5 DEF Enable
<1>9. CASE TimerRead
  BY <1>9 DEF TimerRead
<1>10. CASE TimerCount
  <2> DEFINE new == NewBlocks(Ahead(timer_wr_ptr, t_wr, rxbuf_size))
  <2>1. new \in Int
    BY <1>0, DivMod DEF NewBlocks, Ahead
  <2>2. rxbuf_size > 0 /\ new > 0 =>
          (timer_wr_ptr + new * B) % rxbuf_size \in Nat /\ counted + new \in Nat
    BY <1>0, <2>1, DivMod
  <2> HIDE DEF new
  <2>3. CASE rxbuf_size > 0 /\ new > 0
    <3>1. /\ timer_wr_ptr' = (timer_wr_ptr + new * B) % rxbuf_size
          /\ blocks_ready' = blocks_ready + new /\ counted' = counted + new
          /\ upset' \subseteq Upsets
      BY <1>10, <2>3 DEF TimerCount, new
    <3>2. /\ tpc' = "idle" /\ t_wr' = 0 /\ t_age' = "stale"
          /\ UNCHANGED <<hwVars, fileVars, rd_ptr, epc, rVars, total, mem, pos, told>>
      BY <1>10 DEF TimerCount
    <3> QED
      BY <2>1, <2>2, <2>3, <3>1, <3>2
  <2>4. CASE ~(rxbuf_size > 0 /\ new > 0)
    BY <1>10, <2>4 DEF TimerCount, new
  <2> QED
    BY <2>3, <2>4
<1>11. CASE ReadEnter
  <2>1. N \in Nat
    BY <1>0, DivNat DEF N
  <2> QED
    BY <1>11, <2>1 DEF ReadEnter
<1>12. CASE ReadWake \/ ReadCheck \/ ReadTake \/ ReadFault
  <2>1. CASE ReadWake
    BY <2>1 DEF ReadWake
  <2>2. CASE ReadCheck
    BY <2>2 DEF ReadCheck
  <2>3. CASE ReadTake
    BY <2>3 DEF ReadTake
  <2>4. CASE ReadFault
    BY <2>4 DEF ReadFault
  <2> QED
    BY <1>12, <2>1, <2>2, <2>3, <2>4
<1>13. CASE ReadSnap
  <2>1. rxbuf_size \div 2 \in Nat /\ rxbuf_size \div 2 <= rxbuf_size
    BY <1>0
  <2>2. Ahead(rxbuf_size \div 2, rx_buf_wr, rxbuf_size) \in Nat
    BY <1>0, <2>1 DEF Ahead
  <2>3. SnapTarget \in Nat
    BY <2>2, DivNat DEF SnapTarget
  <2>4. LostTo(SnapTarget) \in Int
    BY <1>0, <2>3 DEF LostTo, Ahead
  <2>5. (total - (rxbuf_size \div 2)) \div B \in Int /\ LostTo(SnapTarget) \div B \in Int
    BY <2>1, <2>4, DivMod
  <2> QED
    BY <1>13, <2>3, <2>4, <2>5 DEF ReadSnap
<1>14. CASE ReadCopy
  <2>1. rd_ptr' \in Nat
    BY <1>14, <1>0 DEF ReadCopy, Bump
  <2> QED
    BY <1>14, <2>1 DEF ReadCopy
<1>15. CASE UNCHANGED vars
  BY <1>15
<1> QED
  BY <1>1, <1>2, <1>3, <1>4, <1>4a, <1>5, <1>6, <1>7, <1>8, <1>9, <1>10, <1>11, <1>12,
     <1>13, <1>14, <1>15 DEF Next, Hw, File, Read

\* The phases hold at the start.
LEMMA PhaseInit == Init => PhaseInv
  BY BoundsAssumption DEF Init, PhaseInv, Session

\* Every step keeps the phases of the file, the timer and the reader.
LEMMA PhaseStep ==
  ASSUME TypeOK, PhaseInv, [Next]_vars
  PROVE  PhaseInv'
<1> USE BAssumption, BoundsAssumption
        DEF PhaseInv, Session, hwVars, fileVars, drvVars, tVars, rVars, history, vars
<1>0. /\ rxbuf_size \in Nat /\ total \in 0..MaxTotal /\ inflight \in 0..MaxInflight
      /\ enables \in Nat /\ max_blocks \in Nat
      /\ in_use \in {0, 1} /\ rx_en \in {0, 1}
  BY SizesNat DEF TypeOK
<1>1. CASE HwLatch
  BY <1>0, <1>1 DEF HwLatch
<1>2. CASE HwData
  BY <1>0, <1>2 DEF HwData
<1>3. CASE HwResp
  BY <1>0, <1>3 DEF HwResp
<1>4. CASE HwDisable
  BY <1>0, <1>4 DEF HwDisable
<1>4a. CASE HwStop
  BY <1>0, <1>4a DEF HwStop
<1>5. CASE Open
  BY <1>0, <1>5 DEF Open, HwReset
<1>6. CASE Mmap
  <2>1. \A s \in Sizes : s \in Nat
    BY SizesNat
  <2> QED
    BY <1>0, <1>6, <2>1 DEF Mmap
<1>7. CASE Release
  BY <1>0, <1>7 DEF Release
<1>8. CASE Enable
  <2>1. CASE EnableOff
    BY <1>0, <2>1 DEF EnableOff
  <2>2. CASE EnableRdPtr
    BY <1>0, <2>2 DEF EnableRdPtr
  <2>3. CASE EnableTimerPtr
    BY <1>0, <2>3 DEF EnableTimerPtr
  <2>4. CASE EnableReady
    BY <1>0, <2>4 DEF EnableReady
  <2>5. CASE EnableOn
    BY <1>0, <2>5 DEF EnableOn
  <2> QED
    BY <1>8, <2>1, <2>2, <2>3, <2>4, <2>5 DEF Enable
<1>9. CASE TimerRead
  BY <1>0, <1>9 DEF TimerRead
<1>10. CASE TimerCount
  <2>1. /\ tpc' = "idle" /\ ("reenable" \notin upset' => "reenable" \notin upset)
        /\ ("reenable" \in upset' => "reenable" \in upset)
    BY <1>10 DEF TimerCount
  <2>2. UNCHANGED <<hwVars, fileVars, epc, rVars, total>>
    BY <1>10 DEF TimerCount
  <2> QED
    BY <1>0, <2>1, <2>2
<1>11. CASE ReadEnter
  <2>1. N * B = rxbuf_size
    BY <1>11, SizeInBlocks DEF N, ReadEnter, TypeOK
  <2> QED
    BY <1>0, <1>11, <2>1 DEF ReadEnter
<1>12. CASE ReadWake
  BY <1>0, <1>12 DEF ReadWake
<1>13. CASE ReadCheck
  BY <1>0, <1>13 DEF ReadCheck
<1>14. CASE ReadSnap
  <2>1. /\ rpc = "snap" /\ rpc' = "take"
        /\ ("reenable" \in upset' <=> "reenable" \in upset)
    BY <1>14 DEF ReadSnap
  <2>2. UNCHANGED <<hwVars, fileVars, tVars, epc, max_blocks, total>>
    BY <1>14 DEF ReadSnap
  <2> QED
    BY <1>0, <2>1, <2>2
<1>15. CASE ReadTake
  BY <1>0, <1>15 DEF ReadTake
<1>16. CASE ReadCopy
  BY <1>0, <1>16 DEF ReadCopy
<1>17. CASE ReadFault
  BY <1>0, <1>17 DEF ReadFault
<1>18. CASE UNCHANGED vars
  BY <1>18
<1> QED
  BY <1>1, <1>2, <1>3, <1>4, <1>4a, <1>5, <1>6, <1>7, <1>8, <1>9, <1>10, <1>11, <1>12,
     <1>13, <1>14, <1>15, <1>16, <1>17, <1>18 DEF Next, Hw, File, Read

-----------------------------------------------------------------------------
(* However late the timer and the reader are.                               *)

\* What calm sessions keep holds at the start.
LEMMA CalmInit == Init => CalmInv
  BY DEF Init, CalmInv, Calm, Session

\* The snap puts rd_ptr on a block of the ring, and what it takes off
\* blocks_ready is less than the ring.
LEMMA SnapInRing ==
  ASSUME TypeOK, rxbuf_size > 0, rx_buf_wr < rxbuf_size, rd_ptr < rxbuf_size
  PROVE  /\ SnapTarget \in 0..rxbuf_size-1
         /\ SnapTarget = (SnapTarget \div B) * B
         /\ LostTo(SnapTarget) \in 0..rxbuf_size-1
         /\ LostTo(SnapTarget) \div B \in Nat
         /\ LostTo(SnapTarget) \div B < rxbuf_size \div B
<1> DEFINE a == Ahead(rxbuf_size \div 2, rx_buf_wr, rxbuf_size)
           d == LostTo(SnapTarget)
           n == rxbuf_size \div B
<1>1. rxbuf_size \in Nat /\ rx_buf_wr \in Nat /\ rd_ptr \in Nat
  BY SizesNat DEF TypeOK
<1>2. n \in Nat /\ rxbuf_size = n * B
  BY SizeInBlocks DEF TypeOK
<1>3. a \in 0..rxbuf_size-1
  BY <1>1 DEF Ahead
<1>4. a \div B \in Nat /\ (a \div B) * B \in Nat /\ (a \div B) * B <= a
  BY <1>3, BAssumption, DivNat
<1>5. SnapTarget = (a \div B) * B
  BY DEF SnapTarget
<1>6. SnapTarget \in 0..rxbuf_size-1
  BY <1>1, <1>3, <1>4, <1>5
<1>7. SnapTarget \div B = a \div B
  <2>1. (a \div B) * B \in Int /\ 0 \in 0..B-1 /\ (a \div B) * B = (a \div B) * B + 0
    BY <1>4, BAssumption
  <2> QED  BY <1>4, <1>5, <2>1, BAssumption, DivUnique
<1>8. d \in 0..rxbuf_size-1
  BY <1>1, <1>6 DEF LostTo, Ahead
<1>9. d \div B \in Nat /\ (d \div B) * B <= d /\ (d \div B) * B \in Nat
  BY <1>8, BAssumption, DivNat
<1> HIDE DEF d, n
<1>10. (d \div B) * B < n * B
  BY <1>1, <1>2, <1>8, <1>9
<1>11. d \div B < n
  BY <1>2, <1>9, <1>10, BAssumption, MulCancel
<1> QED
  BY <1>5, <1>6, <1>7, <1>8, <1>9, <1>11 DEF d, n

\* A pointer to a block, moved on by a block, is a pointer to a block.
LEMMA NextBlock ==
  ASSUME TypeOK, rxbuf_size > 0, rd_ptr < rxbuf_size, rd_ptr = (rd_ptr \div B) * B
  PROVE  LET next == Bump(rd_ptr, B, rxbuf_size)
         IN  /\ next \in Nat /\ next < rxbuf_size /\ next = (next \div B) * B
             /\ rd_ptr + B <= rxbuf_size
<1> DEFINE n == rxbuf_size \div B
           r == rd_ptr \div B
<1>1. rxbuf_size \in Nat /\ rd_ptr \in Nat /\ B \in Nat /\ B > 0
  BY SizesNat, BAssumption DEF TypeOK
<1>2. n \in Nat /\ rxbuf_size = n * B
  BY SizeInBlocks DEF TypeOK
<1>3. r \in Nat /\ rd_ptr = r * B
  BY <1>1, DivNat
<1> HIDE DEF n, r
<1>4. r < n
  BY <1>1, <1>2, <1>3, MulCancel
<1>5. (r + 1) * B <= n * B /\ (r + 1) * B = r * B + B
  BY <1>1, <1>2, <1>3, <1>4, MulMono, MulDist
<1>6. rd_ptr + B <= rxbuf_size
  BY <1>2, <1>3, <1>5
<1>7. CASE rd_ptr + B >= rxbuf_size
  <2>1. Bump(rd_ptr, B, rxbuf_size) = 0
    BY <1>7 DEF Bump
  <2>2. 0 = (0 \div B) * B
    BY <1>1
  <2> QED  BY <1>1, <1>6, <2>1, <2>2
<1>8. CASE rd_ptr + B < rxbuf_size
  <2>1. Bump(rd_ptr, B, rxbuf_size) = rd_ptr + B
    BY <1>1, <1>8 DEF Bump
  <2>2. rd_ptr + B = (r + 1) * B + 0 /\ 0 \in 0..B-1 /\ r + 1 \in Int
    BY <1>1, <1>3, <1>5
  <2>3. (rd_ptr + B) \div B = r + 1
    BY <1>1, <2>2, DivUnique
  <2> QED  BY <1>1, <1>3, <1>5, <1>6, <1>8, <2>1, <2>3
<1> QED
  BY <1>1, <1>7, <1>8

\* Every step keeps it.
LEMMA CalmStep ==
  ASSUME TypeOK, PhaseInv, CalmInv, [Next]_vars
  PROVE  CalmInv'
<1> USE BAssumption DEF CalmInv, Session, hwVars, fileVars, drvVars, tVars, rVars,
        history, vars
<1>0. /\ rxbuf_size \in Nat /\ rx_buf_wr \in Nat /\ rd_ptr \in Nat
      /\ hwSize \in Nat /\ blocks_ready \in Int /\ max_blocks \in Nat
      /\ in_use \in {0, 1} /\ rx_en \in {0, 1}
      /\ hwState \in {"STANDBY", "RUN", "DRAIN"}
  BY SizesNat DEF TypeOK
<1>c. Calm => "reenable" \notin upset /\ "overlap" \notin upset
  BY DEF Calm
<1>d. Calm /\ in_use = 1 => hwState # "DRAIN"
  BY <1>c DEF PhaseInv
<1>1. CASE HwLatch
  <2>1. rx_en = 1 /\ hwState = "STANDBY" /\ Calm' = Calm
    BY <1>1 DEF HwLatch, Calm
  <2>2. in_use = 1 /\ rxbuf_size > 0
    BY <2>1 DEF PhaseInv
  <2>3. 0 = (0 \div B) * B
    OBVIOUS
  <2> QED
    BY <1>0, <1>1, <2>1, <2>2, <2>3 DEF HwLatch
<1>2. CASE HwData
  BY <1>0, <1>2 DEF HwData, Calm
<1>3. CASE HwResp
  <2>1. hwState # "STANDBY" /\ Calm' = Calm
    BY <1>0, <1>3 DEF HwResp, PhaseInv, Calm
  <2>2. in_use = 1 /\ Calm => rx_buf_wr' < rxbuf_size
    BY <1>0, <1>d, <1>3, <2>1 DEF HwResp, Bump
  <2> QED
    BY <1>0, <1>d, <1>3, <2>1, <2>2 DEF HwResp
<1>4. CASE HwDisable
  BY <1>0, <1>4 DEF HwDisable, Calm
<1>4a. CASE HwStop
  <2>1. hwState = "DRAIN" /\ Calm' = Calm
    BY <1>4a DEF HwStop, Calm
  <2>2. Calm => in_use = 0
    BY <1>0, <1>c, <2>1 DEF PhaseInv, Calm
  <2> QED
    BY <1>0, <1>4a, <2>1, <2>2 DEF HwStop
<1>5. CASE Open
  BY <1>0, <1>5 DEF Open, HwReset, Calm, PhaseInv
<1>6. CASE Mmap
  <2>1. Calm => ~Session
    BY <1>6 DEF Mmap
  <2> QED
    BY <1>0, <1>6, <2>1 DEF Mmap, Calm
<1>7. CASE Release
  BY <1>0, <1>7 DEF Release, Calm
<1>8. CASE Enable
  <2>0. Calm /\ epc # "idle" => in_use = 1 /\ hwState = "STANDBY"
    BY <1>0, <1>c DEF PhaseInv
  <2>1. CASE EnableOff
    BY <1>0, <2>1 DEF EnableOff, Calm
  <2>2. CASE EnableRdPtr
    <3>1. 0 = (0 \div B) * B
      OBVIOUS
    <3> QED
      BY <1>0, <2>2, <3>1 DEF EnableRdPtr, Calm
  <2>3. CASE EnableTimerPtr
    BY <1>0, <2>3 DEF EnableTimerPtr, Calm
  <2>4. CASE EnableReady
    BY <1>0, <2>0, <2>4 DEF EnableReady, Calm
  <2>5. CASE EnableOn
    BY <1>0, <2>5 DEF EnableOn, Calm
  <2> QED
    BY <1>8, <2>1, <2>2, <2>3, <2>4, <2>5 DEF Enable
<1>9. CASE TimerRead
  BY <1>0, <1>9 DEF TimerRead, Calm
<1>10. CASE TimerCount
  <2> DEFINE new == NewBlocks(Ahead(timer_wr_ptr, t_wr, rxbuf_size))
  <2>1. new \in Int
    BY <1>0, DivMod DEF NewBlocks, Ahead, TypeOK
  <2>2. UNCHANGED <<hwVars, fileVars, rd_ptr, epc, rVars>>
    BY <1>10 DEF TimerCount
  <2>3. CASE rxbuf_size > 0 /\ new > 0
    <3>1. blocks_ready' = blocks_ready + new
      BY <1>10, <2>3 DEF TimerCount
    <3>2. Calm' => Calm /\ t_age = "fresh" /\ tpc = "count"
      BY <1>10, <2>3 DEF TimerCount, Calm
    <3>3. Calm' => Session
      BY <1>c, <3>2 DEF PhaseInv
    <3> HIDE DEF new
    <3> QED
      BY <1>0, <2>1, <2>2, <2>3, <3>1, <3>2, <3>3
  <2>4. CASE ~(rxbuf_size > 0 /\ new > 0)
    <3>1. UNCHANGED <<blocks_ready, upset>>
      BY <1>10, <2>4 DEF TimerCount
    <3> QED
      BY <1>0, <2>2, <3>1 DEF Calm
  <2> QED
    BY <2>3, <2>4
<1>11. CASE ReadEnter
  BY <1>0, <1>11 DEF ReadEnter, Calm
<1>12. CASE ReadWake
  <2>1. Calm => ~(in_use = 1 /\ hwState = "STANDBY")
    BY <1>0, <1>12 DEF ReadWake, Awake
  <2> QED
    BY <1>0, <1>12, <2>1 DEF ReadWake, Awake, Calm
<1>13. CASE ReadCheck
  BY <1>0, <1>13 DEF ReadCheck, Overrun, Calm
<1>14. CASE ReadSnap
  <2>1. /\ rpc = "snap" /\ rpc' = "take" /\ rd_ptr' = SnapTarget
        /\ blocks_ready' = blocks_ready - (LostTo(SnapTarget) \div B)
        /\ (Calm' <=> Calm)
        /\ UNCHANGED <<hwVars, fileVars>>
    BY <1>14 DEF ReadSnap, Calm
  <2>2. Calm => Session
    BY <1>0, <1>d, <2>1 DEF PhaseInv
  <2>3. max_blocks * B = rxbuf_size /\ rxbuf_size > 0
    BY <2>1 DEF PhaseInv
  <2>4. rxbuf_size \div B = max_blocks
    <3>1. 0 \in 0..B-1 /\ rxbuf_size = max_blocks * B + 0 /\ max_blocks \in Int
      BY <1>0, <2>3
    <3> QED
      BY <1>0, <3>1, DivUnique
  <2>5. Calm => /\ SnapTarget \in 0..rxbuf_size-1
                /\ SnapTarget = (SnapTarget \div B) * B
                /\ LostTo(SnapTarget) \div B \in Nat
                /\ LostTo(SnapTarget) \div B < max_blocks
    BY <2>2, <2>3, <2>4, SnapInRing
  <2>6. Calm => blocks_ready >= max_blocks
    BY <2>1
  <2> QED
    BY <1>0, <2>1, <2>2, <2>5, <2>6
<1>15. CASE ReadTake
  BY <1>0, <1>15 DEF ReadTake, Calm
<1>16. CASE ReadCopy
  <2>1. /\ rpc = "copy" /\ rpc' = "idle" /\ rd_ptr' = Bump(rd_ptr, B, rxbuf_size)
        /\ (Calm' <=> Calm)
        /\ UNCHANGED <<hwVars, fileVars, blocks_ready>>
    BY <1>16 DEF ReadCopy, Calm
  <2>2. Calm => Session
    BY <1>0, <1>d, <2>1 DEF PhaseInv
  <2>3. Calm => /\ rd_ptr' \in Nat /\ rd_ptr' < rxbuf_size
                /\ rd_ptr' = (rd_ptr' \div B) * B
    BY <2>1, <2>2, NextBlock
  <2> QED
    BY <1>0, <2>1, <2>2, <2>3
<1>17. CASE ReadFault
  BY <1>0, <1>17 DEF ReadFault, Calm
<1>18. CASE UNCHANGED vars
  BY <1>18 DEF Calm
<1> QED
  BY <1>1, <1>2, <1>3, <1>4, <1>4a, <1>5, <1>6, <1>7, <1>8, <1>9, <1>10, <1>11, <1>12,
     <1>13, <1>14, <1>15, <1>16, <1>17, <1>18 DEF Next, Hw, File, Read

-----------------------------------------------------------------------------
(* As long as nothing happened that the driver cannot cope with.            *)

\* The exact account holds at the start.
LEMMA ExactInit == Init => ExactInv
  BY BAssumption DEF Init, ExactInv, Session, Taken

\* A session whose account is exact is calm.
LEMMA ExactIsCalm == Exact => Calm
  BY DEF Exact, Calm

\* What a timer tick that read a pointer of this session accepts has been
\* written, and moves the timer's pointer to its place.
LEMMA CountExact ==
  ASSUME TypeOK, Exact, ExactInv, Session, tpc = "count", t_age = "fresh",
         rxbuf_size > 0
  PROVE  LET new == NewBlocks(Ahead(timer_wr_ptr, t_wr, rxbuf_size))
         IN  new \in Int /\ new > 0 =>
               /\ (counted + new) * B <= total
               /\ At((counted + new) * B,
                     (timer_wr_ptr + new * B) % rxbuf_size, rxbuf_size)
<1> DEFINE d == Ahead(timer_wr_ptr, t_wr, rxbuf_size)
           new == NewBlocks(d)
<1>1. /\ rxbuf_size \in Nat /\ timer_wr_ptr \in Nat /\ t_wr \in Nat
      /\ counted \in Nat /\ total \in Nat /\ B \in Nat /\ B > 0
  BY SizesNat, BAssumption, BoundsAssumption DEF TypeOK
<1>2. counted * B + d <= total /\ At(counted * B, timer_wr_ptr, rxbuf_size)
  BY DEF ExactInv
<1>3. d \in Int
  BY <1>1 DEF Ahead
<1>4. new \in Int /\ d % B \in 0..B-1 /\ d = new * B + (d % B)
  BY <1>1, <1>3, DivMod DEF NewBlocks
<1> HIDE DEF d, new
<1>5. (counted + new) * B = counted * B + new * B
  BY <1>1, <1>4, MulDist
<1>6. (counted + new) * B <= total
  BY <1>1, <1>2, <1>3, <1>4, <1>5
<1>7. counted * B \in Int /\ new * B \in Int /\ (counted + new) * B \in Int
  BY <1>1, <1>4
<1>8. On(counted * B, timer_wr_ptr, rxbuf_size)
  BY <1>1, <1>2, <1>7, AtOn
<1>9. On(counted * B + new * B, (timer_wr_ptr + new * B) % rxbuf_size, rxbuf_size)
  BY <1>1, <1>7, <1>8, OnMod
<1>10. At((counted + new) * B, (timer_wr_ptr + new * B) % rxbuf_size, rxbuf_size)
  BY <1>1, <1>5, <1>7, <1>9, AtOn
<1> QED
  BY <1>6, <1>10 DEF new, d

\* A snap less than one and a half rings late tells the client exactly how far
\* it moves.
LEMMA SnapExact ==
  ASSUME TypeOK, PhaseInv, CalmInv, ExactInv, Exact, Session, rpc = "snap",
         total < pos * B + rxbuf_size + (rxbuf_size \div 2)
  PROVE  LET new == (total - (rxbuf_size \div 2)) \div B
         IN  /\ new \in Int /\ new >= pos
             /\ LostTo(SnapTarget) \div B = new - pos
             /\ At(new * B, SnapTarget, rxbuf_size)
<1> DEFINE half == rxbuf_size \div 2
           n == rxbuf_size \div B
           new == (total - half) \div B
<1>1. /\ rxbuf_size \in Nat /\ rxbuf_size > 0 /\ total \in Nat /\ pos \in Int
      /\ B \in Nat /\ B > 0 /\ rd_ptr \in Nat /\ rx_buf_wr \in Nat
      /\ max_blocks \in Nat /\ counted \in Nat /\ blocks_ready \in Int
  BY SizesNat, BAssumption, BoundsAssumption DEF TypeOK, PhaseInv
<1>2. n \in Nat /\ rxbuf_size = n * B
  BY SizeInBlocks DEF TypeOK
<1>3. half \in 0..rxbuf_size-1
  BY <1>1
<1>4. pos >= 0 /\ pos * B + rxbuf_size <= total
  <2>1. blocks_ready >= max_blocks /\ max_blocks * B = rxbuf_size
    BY ExactIsCalm DEF CalmInv, PhaseInv
  <2>2. pos >= 0 /\ pos + blocks_ready <= counted /\ counted * B <= total
    BY <1>1 DEF ExactInv, Taken
  <2>3. (pos + max_blocks) * B <= counted * B
    BY <1>1, <2>1, <2>2, MulMono
  <2>4. (pos + max_blocks) * B = pos * B + rxbuf_size
    BY <1>1, <2>1, MulDist
  <2> QED
    BY <1>1, <2>2, <2>3, <2>4
<1>5. total - half \in Int /\ new \in Int /\ (total - half) % B \in 0..B-1
      /\ total - half = new * B + ((total - half) % B)
  BY <1>1, <1>3, DivMod
<1> HIDE DEF half, n, new
<1>6. new >= pos
  <2>1. pos * B < (new + 1) * B
    BY <1>1, <1>3, <1>4, <1>5, MulDist
  <2> QED
    BY <1>1, <1>5, <2>1, MulCancel
<1>7. At(new * B, SnapTarget, rxbuf_size) /\ On(new * B, SnapTarget, rxbuf_size)
  <2>1. On(total, rx_buf_wr, rxbuf_size)
    BY <1>1, AtOn DEF ExactInv
  <2>2. On(total - half, Ahead(half, rx_buf_wr, rxbuf_size), rxbuf_size)
    BY <1>1, <1>3, <2>1, OnBack
  <2>3. On(new * B, SnapTarget, rxbuf_size)
    <3> DEFINE a == Ahead(half, rx_buf_wr, rxbuf_size)
    <3>1. SnapTarget = (a \div B) * B
      BY DEF SnapTarget, half
    <3>2. On(total - half, a, n * B)
      BY <1>2, <2>2
    <3> HIDE DEF a
    <3>3. On(((total - half) \div B) * B, (a \div B) * B, n * B)
      BY <1>1, <1>2, <1>5, <3>2, OnFloor
    <3> QED
      BY <1>2, <3>1, <3>3 DEF new
  <2> QED
    BY <1>1, <1>5, <2>3, AtOn
<1>8. LostTo(SnapTarget) = new * B - pos * B
  <2>1. On(pos * B, rd_ptr, rxbuf_size)
    BY <1>1, AtOn DEF ExactInv
  <2>2. pos * B \in Int /\ new * B \in Int /\ pos * B <= new * B
    BY <1>1, <1>5, <1>6, MulMono
  <2>3. new * B - pos * B < rxbuf_size
    BY <1>1, <1>3, <1>5 DEF half
  <2> QED
    BY <1>1, <1>7, <2>1, <2>2, <2>3, AheadExact DEF LostTo
<1>9. LostTo(SnapTarget) \div B = new - pos
  <2>1. LostTo(SnapTarget) = (new - pos) * B + 0 /\ 0 \in 0..B-1
    BY <1>1, <1>5, <1>8, MulDist
  <2>2. LostTo(SnapTarget) \in Int /\ new - pos \in Int
    BY <1>1, <1>5, <1>8
  <2> QED
    BY <1>1, <2>1, <2>2, DivUnique
<1> QED
  BY <1>5, <1>6, <1>7, <1>9 DEF new, half

\* Every step keeps the account of the blocks exact.
LEMMA ExactStep ==
  ASSUME TypeOK, PhaseInv, CalmInv, ExactInv, [Next]_vars
  PROVE  ExactInv'
<1> USE DEF ExactInv, Session, Taken, hwVars, fileVars, drvVars, tVars, rVars,
            history, vars
<1>0. /\ rxbuf_size \in Nat /\ rx_buf_wr \in Nat /\ rd_ptr \in Nat
      /\ timer_wr_ptr \in Nat /\ t_wr \in Nat /\ hwSize \in Nat
      /\ blocks_ready \in Int /\ pos \in Int /\ counted \in Nat /\ total \in Nat
      /\ in_use \in {0, 1} /\ rx_en \in {0, 1} /\ hwState \in {"STANDBY", "RUN", "DRAIN"}
      /\ B \in Nat /\ B > 0 /\ counted * B \in Int
  BY SizesNat, BAssumption, BoundsAssumption DEF TypeOK
<1>c. Exact => /\ "reenable" \notin upset /\ "overlap" \notin upset
               /\ "lag" \notin upset /\ "deep" \notin upset
  BY DEF Exact
<1>d. Exact /\ in_use = 1 => hwState # "DRAIN"
  BY <1>c DEF PhaseInv
<1>1. CASE HwLatch
  <2>1. Exact' = Exact /\ in_use = 1 /\ rxbuf_size > 0
    BY <1>1 DEF HwLatch, Exact, PhaseInv
  <2>2. Exact => /\ rd_ptr = 0 /\ timer_wr_ptr = 0 /\ pos = 0 /\ counted = 0
                 /\ t_age = "stale" \/ tpc = "idle"
    BY <1>c, <1>1, ExactIsCalm DEF HwLatch, CalmInv, PhaseInv, TypeOK
  <2>3. At(0, 0, rxbuf_size) /\ 0 * B = 0
    BY <1>0, <2>1, AtZero
  <2> QED
    BY <1>0, <1>1, <2>1, <2>2, <2>3 DEF HwLatch, TypeOK
<1>2. CASE HwData
  BY <1>0, <1>2 DEF HwData, Exact
<1>3. CASE HwResp
  <2>1. /\ total' = total + 1 /\ rx_buf_wr' = Bump(rx_buf_wr, 1, hwSize)
        /\ (Exact' <=> Exact) /\ hwState # "STANDBY"
        /\ UNCHANGED <<hwState, fileVars, drvVars, tVars, epc, rVars, rx_en,
                       pos, told, counted>>
    BY <1>0, <1>3 DEF HwResp, Exact, PhaseInv
  <2>2. Exact /\ Session => hwSize = rxbuf_size
    BY ExactIsCalm DEF CalmInv
  <2>3. Exact /\ Session => At(total + 1, rx_buf_wr', rxbuf_size)
    BY <1>0, <2>1, <2>2, AtOn, OnNext
  <2>4. Ahead(timer_wr_ptr, t_wr, rxbuf_size) \in Int
    BY <1>0 DEF Ahead
  <2> QED
    BY <1>0, <2>1, <2>3, <2>4
<1>4. CASE HwDisable
  BY <1>0, <1>4 DEF HwDisable, Exact
<1>4a. CASE HwStop
  <2>1. Exact => in_use = 0
    BY <1>0, <1>c, <1>4a DEF HwStop, PhaseInv, Exact
  <2> QED
    BY <1>0, <1>4a, <2>1 DEF HwStop, Exact
<1>5. CASE Open
  BY <1>0, <1>5 DEF Open, HwReset, PhaseInv
<1>6. CASE Mmap
  <2>1. hwState = "STANDBY"
    BY <1>6 DEF Mmap, PhaseInv
  <2> QED
    BY <1>0, <1>6, <2>1 DEF Mmap, Exact
<1>7. CASE Release
  BY <1>0, <1>7 DEF Release, Exact
<1>8. CASE Enable
  <2>0. Exact /\ epc # "idle" => in_use = 1 /\ hwState = "STANDBY"
    BY <1>0, <1>c DEF PhaseInv
  <2>1. CASE EnableOff
    <3>1. Exact' => Exact /\ hwState = "STANDBY" /\ enables = 0
      BY <1>0, <2>1 DEF EnableOff, Exact, PhaseInv, TypeOK
    <3> QED
      BY <1>0, <2>1, <3>1 DEF EnableOff
  <2>2. CASE EnableRdPtr
    BY <1>0, <2>0, <2>2 DEF EnableRdPtr, Exact, PhaseInv
  <2>3. CASE EnableTimerPtr
    BY <1>0, <2>0, <2>3 DEF EnableTimerPtr, Exact
  <2>4. CASE EnableReady
    <3>1. Exact => blocks_ready = 0 /\ rpc \in {"idle", "wait"}
      BY <2>0, <2>4, ExactIsCalm DEF EnableReady, CalmInv
    <3> QED
      BY <1>0, <2>0, <2>4, <3>1 DEF EnableReady, Exact
  <2>5. CASE EnableOn
    BY <1>0, <2>0, <2>5 DEF EnableOn, Exact
  <2> QED
    BY <1>8, <2>1, <2>2, <2>3, <2>4, <2>5 DEF Enable
<1>9. CASE TimerRead
  <2>1. /\ Exact' => Exact
        /\ Exact' /\ Session => total - counted * B < rxbuf_size
        /\ t_wr' = rx_buf_wr
    <3>1. /\ upset' = IF hwState = "RUN" /\ total - counted * B >= rxbuf_size
                      THEN upset \cup {"lag"} ELSE upset
          /\ t_wr' = rx_buf_wr
      BY <1>9 DEF TimerRead
    <3> QED
      BY <1>0, <3>1 DEF Exact
  <2>2. Exact' /\ Session => counted * B + Ahead(timer_wr_ptr, rx_buf_wr, rxbuf_size) <= total
    BY <1>0, <2>1, AtOn, AheadExact
  <2> QED
    BY <1>0, <1>9, <2>1, <2>2 DEF TimerRead
<1>10. CASE TimerCount
  <2> DEFINE new == NewBlocks(Ahead(timer_wr_ptr, t_wr, rxbuf_size))
  <2>1. new \in Int
    BY <1>0, DivMod DEF NewBlocks, Ahead
  <2>2. UNCHANGED <<hwVars, fileVars, rd_ptr, epc, rVars, total, pos, told>>
        /\ tpc' = "idle"
    BY <1>10 DEF TimerCount
  <2>3. CASE rxbuf_size > 0 /\ new > 0
    <3>1. /\ blocks_ready' = blocks_ready + new /\ counted' = counted + new
          /\ timer_wr_ptr' = (timer_wr_ptr + new * B) % rxbuf_size
      BY <1>10, <2>3 DEF TimerCount
    <3>2. Exact' => Exact /\ t_age = "fresh" /\ tpc = "count"
      <4>1. /\ upset' = IF t_age = "fresh" THEN upset ELSE upset \cup {"overlap"}
            /\ tpc = "count"
        BY <1>10, <2>3 DEF TimerCount
      <4> QED
        BY <4>1 DEF Exact
    <3>3. Exact' => Session
      BY <1>c, <3>2 DEF PhaseInv
    <3>4. Exact' => /\ (counted + new) * B <= total
                    /\ At((counted + new) * B, timer_wr_ptr', rxbuf_size)
      <4> SUFFICES ASSUME Exact'
                   PROVE  /\ (counted + new) * B <= total
                          /\ At((counted + new) * B, timer_wr_ptr', rxbuf_size)
        OBVIOUS
      <4>1. Exact /\ Session /\ tpc = "count" /\ t_age = "fresh"
        BY <3>2, <3>3
      <4> HIDE DEF ExactInv, Session
      <4> QED
        BY <2>1, <2>3, <3>1, <4>1, CountExact
    <3> HIDE DEF new
    <3> QED
      BY <1>0, <2>1, <2>2, <2>3, <3>1, <3>2, <3>3, <3>4
  <2>4. CASE ~(rxbuf_size > 0 /\ new > 0)
    <3>1. UNCHANGED <<blocks_ready, timer_wr_ptr, counted, upset>>
      BY <1>10, <2>4 DEF TimerCount
    <3> QED
      BY <1>0, <2>2, <3>1 DEF Exact
  <2> QED
    BY <2>3, <2>4
<1>11. CASE ReadEnter
  BY <1>0, <1>11 DEF ReadEnter, Exact
<1>12. CASE ReadWake
  BY <1>0, <1>12 DEF ReadWake, Exact
<1>13. CASE ReadCheck
  BY <1>0, <1>13 DEF ReadCheck, Exact
<1>14. CASE ReadSnap
  <2> DEFINE new == (total - (rxbuf_size \div 2)) \div B
             gone == LostTo(SnapTarget) \div B
  <2>1. /\ rpc = "snap" /\ rpc' = "take" /\ rd_ptr' = SnapTarget
        /\ blocks_ready' = blocks_ready - gone
        /\ told' = told + gone /\ pos' = new
        /\ UNCHANGED <<hwVars, fileVars, timer_wr_ptr, tVars, epc, total, counted>>
    BY <1>14 DEF ReadSnap
  <2>2. Exact' => Exact /\ total < pos * B + rxbuf_size + (rxbuf_size \div 2)
    BY <1>0, <1>14 DEF ReadSnap, Exact
  <2>3. Exact => Session
    BY <1>0, <1>d, <2>1, ExactIsCalm DEF PhaseInv, CalmInv
  <2>4. Exact' => /\ new \in Int /\ new >= pos /\ gone = new - pos
                  /\ At(new * B, SnapTarget, rxbuf_size)
    BY <2>1, <2>2, <2>3, SnapExact
  <2> HIDE DEF new, gone
  <2> QED
    BY <1>0, <2>1, <2>2, <2>3, <2>4
<1>15. CASE ReadTake
  BY <1>0, <1>15 DEF ReadTake, Exact
<1>16. CASE ReadCopy
  <2>1. /\ rpc = "copy" /\ rpc' = "idle" /\ rd_ptr' = Bump(rd_ptr, B, rxbuf_size)
        /\ pos' = pos + 1 /\ told' = told + 1 /\ (Exact' <=> Exact)
        /\ UNCHANGED <<hwVars, fileVars, timer_wr_ptr, blocks_ready, tVars, epc,
                       total, counted>>
    BY <1>16 DEF ReadCopy, Exact
  <2>2. Exact => Session
    BY <1>0, <1>d, <2>1, ExactIsCalm DEF PhaseInv, CalmInv
  <2>3. Exact => At((pos + 1) * B, rd_ptr', rxbuf_size)
    <3>1. rxbuf_size \div B \in Nat /\ rxbuf_size = (rxbuf_size \div B) * B
      BY SizeInBlocks DEF TypeOK
    <3>2. Exact => On(pos * B, rd_ptr, (rxbuf_size \div B) * B)
      BY <1>0, <2>2, <3>1, AtOn
    <3>3. Exact => On((pos + 1) * B, Bump(rd_ptr, B, (rxbuf_size \div B) * B),
                      (rxbuf_size \div B) * B)
      BY <1>0, <3>1, <3>2, OnNextBlock
    <3>4. (pos + 1) * B \in Int
      BY <1>0
    <3> QED
      BY <1>0, <2>1, <3>1, <3>3, <3>4, AtOn
  <2> QED
    BY <1>0, <2>1, <2>2, <2>3
<1>17. CASE ReadFault
  BY <1>0, <1>17 DEF ReadFault, Exact
<1>18. CASE UNCHANGED vars
  BY <1>18 DEF Exact
<1> QED
  BY <1>1, <1>2, <1>3, <1>4, <1>4a, <1>5, <1>6, <1>7, <1>8, <1>9, <1>10, <1>11, <1>12,
     <1>13, <1>14, <1>15, <1>16, <1>17, <1>18 DEF Next, Hw, File, Read

-----------------------------------------------------------------------------
(* What the ring holds.                                                     *)

\* What the memory holds is known at the start.
LEMMA MemInit == Init => MemInv
  BY DEF Init, MemInv, Session

\* Every step keeps what is known of the memory.
LEMMA MemStep ==
  ASSUME TypeOK, PhaseInv, CalmInv, ExactInv, MemInv, [Next]_vars
  PROVE  MemInv'
<1> USE DEF MemInv, Session, hwVars, fileVars, drvVars, tVars, rVars, history, vars
<1>0. /\ rxbuf_size \in Nat /\ hwSize \in Nat /\ rx_buf_wr \in Nat
      /\ total \in Nat /\ inflight \in Nat
  BY SizesNat, BoundsAssumption DEF TypeOK
<1>1. CASE HwLatch
  <2>1. total' = 0 /\ inflight' = 0
    BY <1>1 DEF HwLatch, PhaseInv
  <2> QED
    BY <1>0, <2>1
<1>2. CASE HwData
  <2> SUFFICES ASSUME Exact', Session',
                      NEW y \in (total' + inflight') - rxbuf_size'..(total' + inflight') - 1,
                      y >= 0
               PROVE  mem'[y % rxbuf_size'] = y
    OBVIOUS
  <2> DEFINE end == total + inflight
  <2>1. /\ Exact /\ Session /\ UNCHANGED <<rxbuf_size, total>>
        /\ inflight' = inflight + 1 /\ inflight < MaxInflight
        /\ mem' = [mem EXCEPT ![(rx_buf_wr + inflight) % hwSize] = end]
    BY <1>2 DEF HwData, Exact
  <2>2. /\ hwSize = rxbuf_size /\ rxbuf_size > 0 /\ rxbuf_size \in Sizes
        /\ At(total, rx_buf_wr, rxbuf_size)
    BY <2>1, ExactIsCalm DEF CalmInv, ExactInv, TypeOK
  <2>3. end \in Nat /\ y \in Int /\ y >= end + 1 - rxbuf_size /\ y <= end
    BY <1>0, <2>1
  <2>4. (rx_buf_wr + inflight) % rxbuf_size = end % rxbuf_size
    <3>1. On(total, rx_buf_wr, rxbuf_size) /\ total \in Int /\ inflight \in Int
      BY <1>0, <2>2, AtOn
    <3>2. On(end, (rx_buf_wr + inflight) % rxbuf_size, rxbuf_size)
      BY <1>0, <3>1, OnMod
    <3> HIDE DEF end
    <3>3. At(end, (rx_buf_wr + inflight) % rxbuf_size, rxbuf_size)
      BY <1>0, <2>3, <3>2, AtOn
    <3> QED
      BY <3>3 DEF At
  <2>5. mem' = [mem EXCEPT ![end % rxbuf_size] = end]
    BY <2>1, <2>2, <2>4
  <2>6. \A z \in Int : z % rxbuf_size \in Places
    <3> SUFFICES ASSUME NEW z \in Int PROVE z % rxbuf_size \in Places
      OBVIOUS
    <3>1. z % rxbuf_size \in 0..rxbuf_size-1
      BY <1>0, <2>2, DivMod
    <3> QED
      BY <2>2, <3>1 DEF Places
  <2>7. mem \in [Places -> -1..MaxTotal]
    BY DEF TypeOK
  <2>8. CASE y = end
    BY <2>1, <2>3, <2>5, <2>6, <2>7, <2>8
  <2>9. CASE y # end
    <3>1. y < end /\ end - y < rxbuf_size /\ y \in end - rxbuf_size..end - 1
      BY <1>0, <2>3, <2>9
    <3>2. mem[y % rxbuf_size] = y
      BY <2>1, <3>1
    <3> HIDE DEF end
    <3>3. y \in Int /\ end \in Int
      BY <2>3
    <3>4. y % rxbuf_size # end % rxbuf_size
      BY <1>0, <3>1, <3>3, ModDiffer
    <3>5. y % rxbuf_size \in Places
      BY <2>6, <3>3
    <3>6. mem'[y % rxbuf_size] = mem[y % rxbuf_size]
      BY <2>5, <2>7, <3>4, <3>5
    <3> QED
      BY <2>1, <3>2, <3>6
  <2> QED
    BY <2>8, <2>9
<1>3. CASE HwResp
  <2>1. /\ (Exact' => Exact) /\ (Session' => Session)
        /\ UNCHANGED <<rxbuf_size, mem>>
        /\ total' + inflight' = total + inflight
    BY <1>0, <1>3 DEF HwResp, Exact
  <2>2. ASSUME NEW y \in (total' + inflight') - rxbuf_size'..(total' + inflight') - 1
        PROVE  y \in (total + inflight) - rxbuf_size..(total + inflight) - 1
    BY <2>1, <2>2
  <2> QED
    BY <2>1, <2>2
<1>4. CASE HwDisable \/ HwStop
  BY <1>4 DEF HwDisable, HwStop
<1>5. CASE Open
  BY <1>5 DEF Open, HwReset
<1>6. CASE Mmap
  <2>1. Exact => ~Session
    BY <1>6, ExactIsCalm DEF Mmap, CalmInv
  <2> QED
    BY <1>6, <2>1 DEF Mmap, Exact
<1>7. CASE Release
  BY <1>7 DEF Release
\* No other step touches the ring or the FPGA.
<1>8. ASSUME UNCHANGED <<hwVars, in_use, rxbuf_size, total, mem>>, Exact' => Exact
      PROVE  MemInv'
  BY <1>8
<1>9. CASE Enable
  BY <1>8, <1>9 DEF Enable, EnableOff, EnableRdPtr, EnableTimerPtr, EnableReady,
                    EnableOn, Exact
<1>10. CASE TimerRead
  BY <1>8, <1>10 DEF TimerRead, Exact
<1>11. CASE TimerCount
  <2>1. upset \subseteq upset' /\ UNCHANGED <<hwVars, in_use, rxbuf_size, total, mem>>
    BY <1>11 DEF TimerCount
  <2> QED
    BY <1>8, <2>1 DEF Exact
<1>12. CASE ReadEnter \/ Read
  BY <1>8, <1>12 DEF ReadEnter, Read, ReadWake, ReadCheck, ReadSnap, ReadTake,
                     ReadCopy, ReadFault, Exact
<1>13. CASE UNCHANGED vars
  BY <1>8, <1>13 DEF Exact
<1> QED
  BY <1>1, <1>2, <1>3, <1>4, <1>5, <1>6, <1>7, <1>9, <1>10, <1>11, <1>12, <1>13
  DEF Next, Hw, File

-----------------------------------------------------------------------------
(* The theorems.                                                            *)

\* The invariant every other result is read off: phases, ranges, and the place
\* of each pointer in the stream.
THEOREM Invariance == Spec => []IInv
<1>1. Init => IInv
  BY TypeInit, PhaseInit, CalmInit, ExactInit, MemInit DEF IInv
<1>2. IInv /\ [Next]_vars => IInv'
  BY TypeStep, PhaseStep, CalmStep, ExactStep, MemStep DEF IInv
<1> QED
  BY <1>1, <1>2, PTL DEF Spec

\* Every variable of the driver and of the FPGA keeps its type, whatever the
\* ring, the number of sessions and the order of timer, read and ioctl.
THEOREM TypeCorrect == Spec => []TypeOK
<1>1. IInv => TypeOK
  BY DEF IInv
<1> QED
  BY <1>1, Invariance, PTL

\* The timer never announces a block the FPGA has not written completely
\* (ad936x_axi_timer and the count read() takes from).
THEOREM ReadyImpliesWritten == Spec => []ReadyIsWritten
<1>1. IInv => ReadyIsWritten
  <2> SUFFICES ASSUME IInv, Exact
               PROVE  (pos + Taken + blocks_ready) * B <= total
    BY DEF ReadyIsWritten, Exact
  <2>1. /\ pos + Taken + blocks_ready <= counted /\ counted * B <= total
        /\ pos + Taken + blocks_ready \in Int /\ counted \in Int /\ total \in Int
    BY BoundsAssumption DEF IInv, ExactInv, TypeOK, Taken
  <2>2. (pos + Taken + blocks_ready) * B <= counted * B
    BY <2>1, BAssumption, MulMono
  <2> QED
    BY <2>1, <2>2, BAssumption
<1> QED
  BY <1>1, Invariance, PTL

\* Blocks delivered and lost_bytes reported add up to the reader's place in the
\* stream: read() neither skips nor repeats data silently.
THEOREM AccountingIsExact == Spec => []AccountExact
<1>1. IInv => AccountExact
  BY DEF IInv, ExactInv, Exact, AccountExact
<1> QED
  BY <1>1, Invariance, PTL

\* The overrun branch of read() is entered only after a real overrun.
THEOREM OverrunsAreReal == Spec => []OverrunIsRealUnlessUpset
<1>1. IInv => OverrunIsRealUnlessUpset
  <2> SUFFICES ASSUME IInv, Exact, rpc = "snap"
               PROVE  total >= pos * B + rxbuf_size
    BY DEF OverrunIsRealUnlessUpset, OverrunIsReal, Exact
  <2>1. /\ blocks_ready >= max_blocks /\ max_blocks * B = rxbuf_size
        /\ blocks_ready \in Int /\ max_blocks \in Nat
    BY ExactIsCalm DEF IInv, CalmInv, PhaseInv, TypeOK
  <2>2. /\ pos + blocks_ready <= counted /\ counted * B <= total
        /\ pos \in Int /\ counted \in Int /\ total \in Int
    BY BoundsAssumption, <2>1 DEF IInv, ExactInv, Taken, TypeOK
  <2>3. (pos + max_blocks) * B <= counted * B
    BY <2>1, <2>2, BAssumption, MulMono
  <2>4. (pos + max_blocks) * B = pos * B + rxbuf_size
    BY <2>1, <2>2, BAssumption, MulDist
  <2> QED
    BY <2>1, <2>2, <2>3, <2>4, BAssumption
<1> QED
  BY <1>1, Invariance, PTL

\* However late the timer or the reader is: the offset read() returns names a
\* whole block of the mapping.
THEOREM ReadStaysInRing == Spec => []RdInRing
<1>1. IInv => RdInRing
  <2> SUFFICES ASSUME IInv, Calm, rpc = "copy"
               PROVE  rd_ptr + B <= rxbuf_size
    BY DEF RdInRing, Calm
  <2>1. in_use = 1 /\ rxbuf_size > 0 /\ hwState = "RUN"
    BY DEF IInv, PhaseInv, CalmInv, TypeOK, Calm
  <2>2. TypeOK /\ rd_ptr < rxbuf_size /\ rd_ptr = (rd_ptr \div B) * B
    BY <2>1 DEF IInv, CalmInv, Session
  <2> QED
    BY <2>1, <2>2, NextBlock
<1> QED
  BY <1>1, Invariance, PTL

\* However late the timer or the reader is: blocks_ready never goes negative.
THEOREM ReadyNeverNegative == Spec => []BlocksReadyNonNeg
<1>1. IInv => BlocksReadyNonNeg
  BY DEF IInv, CalmInv, Calm, BlocksReadyNonNeg
<1> QED
  BY <1>1, Invariance, PTL

\* With one ENABLE per open file, as tx.c and rx.c call it, every 0->1 edge of
\* the enable bit finds the writer where it resets rx_buf_wr.
THEOREM EdgeSeen == EnablesPerOpen = 1 => (Spec => EdgeRestartsWriter)
<1> SUFFICES ASSUME EnablesPerOpen = 1 PROVE Spec => EdgeRestartsWriter
  OBVIOUS
<1>1. IInv /\ [Next]_vars => [rx_en = 0 /\ rx_en' = 1 => hwState = "STANDBY"]_vars
  <2> SUFFICES ASSUME IInv, Next, rx_en = 0, rx_en' = 1
               PROVE  hwState = "STANDBY"
    BY DEF vars, hwVars
  <2>1. EnableOn
    BY DEF Next, Hw, File, Enable, Read, HwLatch, HwData, HwResp, HwDisable, HwStop, Open,
           Mmap, Release, EnableOff, EnableRdPtr, EnableTimerPtr, EnableReady,
           TimerRead, TimerCount, ReadEnter, ReadWake, ReadCheck, ReadSnap,
           ReadTake, ReadCopy, ReadFault, hwVars
  <2>2. "reenable" \notin upset
    BY DEF IInv, PhaseInv, TypeOK
  <2> QED
    BY <2>1, <2>2 DEF EnableOn, IInv, PhaseInv, Session, TypeOK
<1> QED
  BY <1>1, Invariance, PTL DEF Spec, EdgeRestartsWriter

\* read() hands out no stale block, for every block and ring size: a block in the
\* client's hands holds the stream from its place on, and exactly that until the
\* FPGA comes round to it.
THEOREM NothingStale == Spec => []NoStaleBlock
<1>1. IInv => NoStaleBlock
  <2> DEFINE end == total + inflight
  <2> SUFFICES ASSUME IInv, Exact, rpc = "copy", NEW i \in 0..B-1
               PROVE  /\ mem[rd_ptr + i] >= pos * B + i
                      /\ end <= pos * B + rxbuf_size => mem[rd_ptr + i] = pos * B + i
    BY DEF NoStaleBlock, Exact
  <2>1. /\ rxbuf_size \in Nat /\ B \in Nat /\ B > 0 /\ pos \in Nat /\ rd_ptr \in Nat
        /\ total \in Nat /\ inflight \in Nat /\ counted \in Nat /\ blocks_ready \in Int
    BY SizesNat, BAssumption, BoundsAssumption DEF IInv, TypeOK, ExactInv
  <2>2. Session /\ Calm /\ blocks_ready >= 0
    BY ExactIsCalm DEF IInv, PhaseInv, CalmInv, TypeOK, Session, Calm
  <2>3. /\ rxbuf_size > 0 /\ At(pos * B, rd_ptr, rxbuf_size)
        /\ rd_ptr < rxbuf_size /\ rd_ptr = (rd_ptr \div B) * B
    BY <2>2 DEF IInv, CalmInv, ExactInv
  <2>4. rd_ptr + B <= rxbuf_size
    BY <2>3, NextBlock DEF IInv
  <2> DEFINE b == pos * B
             x == b + i
  <2>5. b \in Int /\ b + B <= total
    <3>1. (pos + 1) * B = pos * B + B /\ pos * B \in Int
      BY <2>1, MulDist
    <3>2. pos + 1 <= counted /\ counted * B <= total
      BY <2>1, <2>2 DEF IInv, ExactInv, Taken
    <3>3. (pos + 1) * B <= counted * B
      BY <2>1, <3>2, MulMono
    <3> QED
      BY <2>1, <3>1, <3>2, <3>3
  <2> HIDE DEF b
  <2>6. x \in Int /\ x >= 0 /\ x < end /\ end \in Int
    <3>1. b >= 0
      BY <2>1, DivNat DEF b
    <3> QED
      BY <2>1, <2>5, <3>1
  <2>7. x % rxbuf_size = rd_ptr + i
    <3>1. At(b, rd_ptr, rxbuf_size) /\ i \in Nat /\ rd_ptr + i < rxbuf_size
      BY <2>1, <2>3, <2>4 DEF b
    <3>2. At(b + i, rd_ptr + i, rxbuf_size)
      BY <2>1, <2>5, <3>1, PlaceOf
    <3> QED
      BY <3>2 DEF At
  <2> HIDE DEF x
  <2>8. PICK y \in end - rxbuf_size..end - 1 :
          /\ y % rxbuf_size = x % rxbuf_size /\ y >= x
          /\ x >= end - rxbuf_size => y = x
    <3> HIDE DEF end
    <3> QED
      BY <2>1, <2>3, <2>6, LastRound
  <2>9. mem[y % rxbuf_size] = y
    <3>1. y >= 0
      BY <2>1, <2>6, <2>8
    <3>2. /\ y \in (total + inflight) - rxbuf_size..(total + inflight) - 1
          /\ Exact /\ Session /\ MemInv
      BY <2>1, <2>2, <2>8 DEF IInv
    <3> QED
      BY <3>1, <3>2 DEF MemInv
  <2>10. mem[rd_ptr + i] = y
    BY <2>7, <2>8, <2>9
  <2>11. end <= b + rxbuf_size => x >= end - rxbuf_size
    BY <2>1, <2>5, <2>6 DEF x
  <2> QED
    BY <2>8, <2>10, <2>11 DEF x, b
<1> QED
  BY <1>1, Invariance, PTL

\* The FPGA of this model does no more than RingWriter allows, which the RTL's
\* writer is proved to implement.
THEOREM Refinement == Spec => WriterAsPromised
<1>1. Init => W!Init
  BY DEF Init, W!Init
<1>2. IInv /\ [Next]_vars => [W!Next]_(W!vars)
  <2> SUFFICES ASSUME IInv, [Next]_vars PROVE W!Next \/ UNCHANGED W!vars
    OBVIOUS
  <2> USE DEF hwVars, fileVars, drvVars, tVars, rVars, history, W!vars
  <2>1. CASE HwLatch
    <3>1. rxbuf_size \in Sizes
      BY <2>1, SizesNat DEF HwLatch, IInv, TypeOK, PhaseInv
    <3>2. W!Latch
      BY <2>1, <3>1 DEF HwLatch, W!Latch
    <3> QED
      BY <3>2 DEF W!Next
  <2>2. CASE HwData
    <3>1. W!Work
      BY <2>2 DEF HwData, W!Work, W!Quiet
    <3> QED
      BY <3>1 DEF W!Next
  <2>3. CASE HwResp
    <3>1. hwState = "RUN" \/ hwState = "DRAIN"
      BY <2>3 DEF HwResp, IInv, TypeOK, PhaseInv
    <3>2. W!Work \/ W!Drain
      BY <2>3, <3>1 DEF HwResp, W!Work, W!Drain, W!Respond, W!Bump, Bump
    <3> QED
      BY <3>2 DEF W!Next
  <2>4. CASE HwDisable
    <3>1. W!Disable
      BY <2>4 DEF HwDisable, W!Disable, W!Quiet
    <3> QED
      BY <3>1 DEF W!Next
  <2>5. CASE HwStop
    <3>1. W!Stop
      BY <2>5 DEF HwStop, W!Stop
    <3> QED
      BY <3>1 DEF W!Next
  <2>6. CASE Open
    <3>1. W!Reset
      BY <2>6 DEF Open, HwReset, W!Reset
    <3> QED
      BY <3>1 DEF W!Next
  <2>7. CASE Release \/ EnableOff \/ EnableOn
    <3>1. W!SetEnable
      BY <2>7 DEF Release, EnableOff, EnableOn, W!SetEnable
    <3> QED
      BY <3>1 DEF W!Next
  <2>8. CASE Mmap \/ EnableRdPtr \/ EnableTimerPtr \/ EnableReady
    BY <2>8 DEF Mmap, EnableRdPtr, EnableTimerPtr, EnableReady
  <2>9. CASE TimerRead \/ TimerCount \/ ReadEnter \/ Read
    BY <2>9 DEF TimerRead, TimerCount, ReadEnter, Read, ReadWake, ReadCheck, ReadSnap,
                ReadTake, ReadCopy, ReadFault
  <2>10. CASE UNCHANGED vars
    BY <2>10 DEF vars
  <2> QED
    BY <2>1, <2>2, <2>3, <2>4, <2>5, <2>6, <2>7, <2>8, <2>9, <2>10
    DEF Next, Hw, File, Enable
<1> QED
  BY <1>1, <1>2, Invariance, PTL DEF Spec, W!Spec, WriterAsPromised

\* No offset and no counter of the driver ever leaves its bounds, for every block
\* and ring size.
THEOREM Bounded == Spec => []StateInBounds
<1>1. TypeOK /\ BlocksReadyNonNeg /\ RdInRing => StateInBounds
  BY DEF StateInBounds
<1> QED
  BY <1>1, TypeCorrect, ReadyNeverNegative, ReadStaysInRing, PTL

\* What is announced has been written and what is handed out is what was
\* announced, for every block and ring size.
THEOREM Delivered == Spec => []DeliveredIsWritten
<1>1. ReadyIsWritten /\ NoStaleBlock => DeliveredIsWritten
  BY DEF DeliveredIsWritten
<1> QED
  BY <1>1, ReadyImpliesWritten, NothingStale, PTL
=============================================================================
