------------------------- MODULE AxiMasterRdProofs --------------------------
(* What AxiMasterRd guarantees for every burst length, ring size, base address,
   depth of the sample FIFO and lag of the burst FIFO's flag.  IInv of AxiMasterRd is inductive; its conjuncts
   are proved preserved one after the other.  The last theorem shows that the
   master implements RingReader.                                              *)
EXTENDS AxiMasterRd, RingLemmas

\* What the assumptions say of the constants.
LEMMA Constants ==
  /\ g_burst_len \in Nat /\ g_burst_len > 0
  /\ c_fifo_depth = 4 * g_burst_len
  /\ Base \in Nat /\ TxFifoDepth \in Nat /\ FlagLag \in Nat
  /\ \A n \in Sizes : n \in Nat /\ n > 0
  BY BurstAssumption, BaseAssumption, DepthAssumption, SizesAssumption,
     LagAssumption DEF c_fifo_depth

\* The end of a buffer is an address.
LEMMA SizeInNat == \A n \in Sizes \cup {0} : n \in Nat /\ Base + n \in Nat
  BY BaseAssumption, SizesAssumption

\* The flag shows one value or the other, whatever it is late by.
LEMMA FlagIsBoolean ==
  ASSUME TypeOK
  PROVE  s_fifo_prog_full \subseteq BOOLEAN
<1>1. Reached \in BOOLEAN
  BY DEF Reached
<1>2. \A k \in 1..FlagLag : late[k] \in BOOLEAN
  BY DEF TypeOK
<1> QED
  BY <1>1, <1>2 DEF s_fifo_prog_full

\* What one clock does to the registers, state by state.
LEMMA ClockCases ==
  ASSUME TypeOK, PlaceInv, FeedInv, NEW arready \in Bit, NEW rvalid \in Bit,
         Clock(arready, rvalid)
  PROVE  /\ UNCHANGED regs
         /\ \/ /\ s_state = "STANDBY" /\ i_enable = 1 /\ s_state' = "IDLE"
               /\ i_buf_size \in Sizes
               /\ s_base_addr' = Base /\ s_ar_addr' = Base
               /\ s_buf_size' = i_buf_size /\ s_top_addr' = Base + i_buf_size
               /\ s_rd_ptr' = 0 /\ beats' = 0 /\ avail' = AvailAtStart
            \/ /\ s_state = "STANDBY" /\ UNCHANGED <<sm, avail>>
            \/ /\ s_state = "IDLE" /\ UNCHANGED <<s_rd_ptr, s_ar_addr, latch, beats, avail>>
               /\ \/ i_enable = 0 /\ s_state' = "STANDBY"
                  \/ FALSE \in s_fifo_prog_full /\ s_has_burst /\ s_state' = "AR_SEND"
                  \/ s_state' = "IDLE"
            \/ /\ s_state = "AR_SEND" /\ UNCHANGED <<sm, avail>>
            \/ /\ s_state = "AR_SEND" /\ s_state' = "R_RECV"
               /\ s_ar_addr' = s_ar_addr + 1 /\ beats' = g_burst_len
               /\ UNCHANGED <<s_rd_ptr, latch, avail>>
            \/ /\ s_state = "R_RECV" /\ rvalid = 0 /\ UNCHANGED <<sm, avail>>
            \/ /\ s_state = "R_RECV" /\ rvalid = 1 /\ beats > 1 /\ beats' = beats - 1
               /\ UNCHANGED <<s_state, s_rd_ptr, s_ar_addr, latch, avail>>
            \/ /\ s_state = "R_RECV" /\ rvalid = 1 /\ beats = 1 /\ beats' = 0
               /\ s_ar_addr' = Wrap(s_ar_addr)
               /\ s_rd_ptr' = Bump(s_rd_ptr, 1, s_buf_size)
               /\ avail' = (IF avail >= 0 THEN avail - 1 ELSE avail)
               /\ UNCHANGED latch
               /\ \/ FALSE \in s_fifo_prog_full /\ s_has_burst /\ s_state' = "AR_SEND"
                  \/ s_state' = "IDLE"
<1>1. /\ s_rd_ptr' = IF s_state = "STANDBY" /\ i_enable = 1 THEN 0
                     ELSE IF Last(rvalid) THEN Bump(s_rd_ptr, 1, s_buf_size)
                     ELSE s_rd_ptr
      /\ avail' = IF s_state = "STANDBY" /\ i_enable = 1 THEN AvailAtStart
                  ELSE IF Last(rvalid) /\ avail >= 0 THEN avail - 1 ELSE avail
      /\ UNCHANGED regs
  BY DEF Clock, Publish
<1>2. Last(rvalid) <=> s_state = "R_RECV" /\ rvalid = 1 /\ beats = 1
  BY DEF Last, o_rready
<1>3. /\ s_state = "R_RECV" => beats > 0
      /\ s_state # "R_RECV" => beats = 0
      /\ beats \in Nat
  BY Constants DEF FeedInv, o_rready, TypeOK
<1>4. CASE Standby
  <2>1. s_state = "STANDBY" /\ ~Last(rvalid) /\ beats' = 0
    BY <1>2, <1>3, <1>4 DEF Standby
  <2>2. CASE i_enable = 1
    <3>1. i_buf_size \in Sizes
      BY <2>2 DEF TypeOK, PlaceInv
    <3> QED
      BY <1>1, <1>4, <2>1, <2>2, <3>1 DEF Standby
  <2>3. CASE i_enable # 1
    BY <1>1, <1>4, <2>1, <2>3 DEF Standby, sm
  <2> QED
    BY <2>2, <2>3
<1>5. CASE \E full \in s_fifo_prog_full : Idle(full)
  <2>1. PICK full \in s_fifo_prog_full : Idle(full)
    BY <1>5
  <2>2. s_state = "IDLE" /\ ~Last(rvalid)
    BY <1>2, <2>1 DEF Idle
  <2>3. ~full => FALSE \in s_fifo_prog_full
    BY <2>1, FlagIsBoolean
  <2> QED
    BY <1>1, <2>1, <2>2, <2>3 DEF Idle
<1>6. CASE ArSend(arready)
  <2>1. s_state = "AR_SEND" /\ ~Last(rvalid)
    BY <1>2, <1>6 DEF ArSend
  <2>2. CASE arready = 1
    BY <1>1, <1>6, <2>1, <2>2 DEF ArSend
  <2>3. CASE arready # 1
    BY <1>1, <1>6, <2>1, <2>3 DEF ArSend, sm
  <2> QED
    BY <2>2, <2>3
<1>7. CASE \E full \in s_fifo_prog_full : RRecv(rvalid, full)
  <2>0. PICK full \in s_fifo_prog_full : RRecv(rvalid, full)
    BY <1>7
  <2>1. s_state = "R_RECV" /\ beats' = beats - rvalid /\ beats > 0
    BY <1>3, <2>0 DEF RRecv
  <2>2. CASE rvalid = 0
    <3>1. beats' = beats /\ ~Last(rvalid)
      BY <1>2, <1>3, <2>1, <2>2
    <3> QED
      BY <1>1, <2>0, <2>1, <2>2, <3>1 DEF RRecv, sm
  <2>3. CASE rvalid = 1 /\ beats = 1
    <3>1. beats' = 0 /\ Last(rvalid)
      BY <1>2, <1>3, <2>1, <2>3
    <3>2. ~full => FALSE \in s_fifo_prog_full
      BY <2>0, FlagIsBoolean
    <3> QED
      BY <1>1, <2>0, <2>1, <2>3, <3>1, <3>2 DEF RRecv
  <2>4. CASE rvalid = 1 /\ beats # 1
    <3>1. beats' = beats - 1 /\ beats > 1 /\ ~Last(rvalid)
      BY <1>2, <1>3, <2>1, <2>4
    <3> QED
      BY <1>1, <2>0, <2>1, <2>4, <3>1 DEF RRecv
  <2> QED
    BY <2>2, <2>3, <2>4 DEF Bit
<1> QED
  BY <1>4, <1>5, <1>6, <1>7 DEF Clock

\* The FIFO and the unpacker, which the state machine does not touch.
LEMMA FifoStep ==
  ASSUME TypeOK, NEW rvalid \in Bit, FifoAndUnpack(rvalid)
  PROVE  /\ s_unpack_hi' \in Bit /\ tx_fifo' \in 0..TxFifoDepth
         /\ level' \in Nat
         /\ IF s_state = "R_RECV" /\ rvalid = 1
            THEN level' = level + 1 \/ level' = level
            ELSE level' = level \/ level' = level - 1
<1> DEFINE move == level > 0 /\ s_tx_axis_ready
           wr == IF o_rready /\ rvalid = 1 THEN 1 ELSE 0
           rd == IF move /\ s_unpack_hi = 1 THEN 1 ELSE 0
<1>1. /\ level' = level + wr - rd
      /\ s_unpack_hi' = IF move THEN 1 - s_unpack_hi ELSE s_unpack_hi
      /\ tx_fifo' = IF move THEN tx_fifo + 1 ELSE tx_fifo
  BY DEF FifoAndUnpack
<1>2. level \in Nat /\ tx_fifo \in 0..TxFifoDepth /\ s_unpack_hi \in {0, 1}
  BY DEF TypeOK, Bit
<1>3. wr = IF s_state = "R_RECV" /\ rvalid = 1 THEN 1 ELSE 0
  BY DEF o_rready
<1>4. rd \in {0, 1} /\ (rd = 1 => level > 0)
  OBVIOUS
<1>5. s_unpack_hi' \in Bit /\ tx_fifo' \in 0..TxFifoDepth
  BY <1>1, <1>2, Constants DEF Bit, s_tx_axis_ready
<1> HIDE DEF wr, rd, move
<1> QED
  BY <1>1, <1>2, <1>3, <1>4, <1>5

\* The flag's last values move on by one place.
LEMMA LateStep ==
  ASSUME TypeOK, late' = Shifted(late, Reached)
  PROVE  /\ late' \in [1..FlagLag -> BOOLEAN]
         /\ \A k \in 1..FlagLag : late'[k] = IF k = 1 THEN Reached ELSE late[k - 1]
<1>1. FlagLag \in Nat /\ Reached \in BOOLEAN /\ late \in [1..FlagLag -> BOOLEAN]
  BY Constants DEF TypeOK, Reached
<1>2. late' = [k \in 1..FlagLag |-> IF k = 1 THEN Reached ELSE late[k - 1]]
  BY <1>1 DEF Shifted
<1>3. \A k \in 1..FlagLag : (IF k = 1 THEN Reached ELSE late[k - 1]) \in BOOLEAN
  BY <1>1
<1> QED
  BY <1>1, <1>2, <1>3

-----------------------------------------------------------------------------
(* IInv, conjunct by conjunct.                                              *)

\* The invariant holds after the reset.
LEMMA InitInv == Init => IInv
<1> SUFFICES ASSUME Init PROVE IInv
  OBVIOUS
<1>1. TypeOK
  BY Constants DEF Init, TypeOK, Bit, States, Settled
<1>2. PlaceInv /\ FeedInv /\ AvailInv
  BY Constants DEF Init, PlaceInv, FeedInv, AvailInv, Ahead, o_arvalid, o_rready
<1> QED
  BY <1>1, <1>2 DEF IInv

\* Every step keeps the types.
LEMMA TypeStep ==
  ASSUME TypeOK, PlaceInv, FeedInv, [Next]_vars
  PROVE  TypeOK'
<1> USE Constants DEF Bit, States
<1>1. ASSUME NEW arready \in Bit, NEW rvalid \in Bit, Clock(arready, rvalid)
      PROVE  TypeOK'
  <2>1. s_unpack_hi' \in Bit /\ tx_fifo' \in 0..TxFifoDepth /\ level' \in Nat
    <3>1. FifoAndUnpack(rvalid)
      BY <1>1 DEF Clock
    <3> QED
      BY <1>1, <3>1, FifoStep
  <2>2. /\ s_state \in States /\ s_rd_ptr \in Nat /\ s_ar_addr \in Nat
        /\ s_base_addr \in {0, Base} /\ s_top_addr \in Nat
        /\ s_buf_size \in Sizes \cup {0} /\ i_buf_size \in Sizes \cup {0}
        /\ s_buf_size \in Nat
        /\ beats \in 0..g_burst_len /\ avail \in Int /\ i_wr_ptr \in Nat
        /\ AvailAtStart \in Int
    BY DEF TypeOK, AvailAtStart
  <2>3. Bump(s_rd_ptr, 1, s_buf_size) \in Nat /\ Wrap(s_ar_addr) \in Nat
    BY <2>2 DEF Bump, Wrap
  <2>4. s_state' \in States /\ s_rd_ptr' \in Nat
    <3>1. s_state' = s_state \/ s_state' \in {"STANDBY", "IDLE", "AR_SEND", "R_RECV"}
      BY <1>1, ClockCases DEF sm
    <3>2. \/ s_rd_ptr' = s_rd_ptr \/ s_rd_ptr' = 0
          \/ s_rd_ptr' = Bump(s_rd_ptr, 1, s_buf_size)
      BY <1>1, ClockCases DEF sm
    <3> QED
      BY <2>2, <2>3, <3>1, <3>2
  <2>5. s_ar_addr' \in Nat /\ beats' \in 0..g_burst_len /\ avail' \in Int
    <3>1. \/ s_ar_addr' = s_ar_addr \/ s_ar_addr' = Base
          \/ s_ar_addr' = s_ar_addr + 1 \/ s_ar_addr' = Wrap(s_ar_addr)
      BY <1>1, ClockCases DEF sm
    <3>2. \/ beats' = beats \/ beats' = 0 \/ beats' = g_burst_len
          \/ beats > 1 /\ beats' = beats - 1
      BY <1>1, ClockCases DEF sm
    <3>3. \/ avail' = avail \/ avail' = AvailAtStart
          \/ avail' = (IF avail >= 0 THEN avail - 1 ELSE avail)
      BY <1>1, ClockCases DEF sm
    <3> QED
      BY <2>2, <2>3, <3>1, <3>2, <3>3
  <2>6. /\ s_base_addr' \in {0, Base} /\ s_top_addr' \in Nat
        /\ s_buf_size' \in Sizes \cup {0}
    <3>1. \/ UNCHANGED latch
          \/ /\ s_base_addr' = Base /\ i_buf_size \in Sizes
             /\ s_buf_size' = i_buf_size /\ s_top_addr' = Base + i_buf_size
      BY <1>1, ClockCases DEF sm
    <3> QED
      BY <2>2, <3>1, SizeInNat DEF latch
  <2>7. i_enable' \in Bit /\ i_buf_size' \in Sizes \cup {0} /\ i_wr_ptr' \in Nat
    BY <1>1, ClockCases DEF regs, TypeOK
  <2>8. late' \in [1..FlagLag -> BOOLEAN]
    BY <1>1, LateStep DEF Clock
  <2> QED
    BY <2>1, <2>4, <2>5, <2>6, <2>7, <2>8 DEF TypeOK
<1>2. CASE Sample
  BY <1>2 DEF Sample, TypeOK, regs, sm, latch
<1>3. CASE SetEnable
  BY <1>3 DEF SetEnable, TypeOK, sm, latch, out
<1>4. CASE SetWr
  <2>1. PICK n \in 1..i_buf_size :
          /\ i_wr_ptr' = (i_wr_ptr + n) % i_buf_size
          /\ avail' = IF avail >= 0 /\ avail + n <= i_buf_size THEN avail + n ELSE -1
    BY <1>4 DEF SetWr
  <2>2. i_buf_size \in Nat /\ i_buf_size > 0 /\ i_wr_ptr \in Nat /\ avail \in Int
    BY <1>4, SizeInNat DEF TypeOK, SetWr
  <2>3. i_wr_ptr' \in Nat /\ avail' \in Int
    BY <2>1, <2>2, DivMod
  <2> QED
    BY <1>4, <2>3 DEF SetWr, TypeOK, sm, latch, out
<1>5. CASE Reset
  BY <1>5 DEF Reset, TypeOK, Settled
<1>6. CASE UNCHANGED vars
  BY <1>6 DEF vars, regs, sm, latch, out, TypeOK
<1> QED
  BY <1>1, <1>2, <1>3, <1>4, <1>5, <1>6 DEF Next

\* The next address and the published pointer move alike, each with its own wrap.
LEMMA PlaceStep ==
  ASSUME TypeOK, PlaceInv, FeedInv, [Next]_vars
  PROVE  PlaceInv'
<1>1. ASSUME NEW arready \in Bit, NEW rvalid \in Bit, Clock(arready, rvalid)
      PROVE  PlaceInv'
  <2>1. s_rd_ptr \in Nat /\ s_ar_addr \in Nat /\ s_buf_size \in Nat /\ Base \in Nat
    BY Constants DEF TypeOK
  <2>2. s_state # "STANDBY" =>
          /\ s_buf_size \in Sizes /\ s_buf_size = i_buf_size /\ s_buf_size > 0
          /\ s_base_addr = Base /\ s_top_addr = Base + s_buf_size
          /\ s_rd_ptr < s_buf_size
          /\ s_ar_addr = Base + s_rd_ptr + (IF s_state = "R_RECV" THEN 1 ELSE 0)
    BY Constants DEF PlaceInv
  <2>3. s_state = "R_RECV" =>
          /\ Bump(s_rd_ptr, 1, s_buf_size) < s_buf_size
          /\ Wrap(s_ar_addr) = Base + Bump(s_rd_ptr, 1, s_buf_size)
    BY <2>1, <2>2 DEF Bump, Wrap
  <2>4. /\ i_buf_size > 0 => i_wr_ptr < i_buf_size /\ s_rd_ptr < i_buf_size
        /\ i_buf_size = 0 => i_wr_ptr = 0 /\ i_enable = 0
    BY DEF PlaceInv
  <2>5. i_buf_size' = i_buf_size /\ i_wr_ptr' = i_wr_ptr /\ i_enable' = i_enable
    BY <1>1, ClockCases DEF regs
  <2>6. s_state' # "STANDBY" =>
          /\ s_buf_size' \in Sizes /\ s_buf_size' = i_buf_size
          /\ s_base_addr' = Base /\ s_top_addr' = Base + s_buf_size'
          /\ s_rd_ptr' < s_buf_size'
          /\ s_ar_addr' = Base + s_rd_ptr' + (IF s_state' = "R_RECV" THEN 1 ELSE 0)
    <3> SUFFICES ASSUME s_state' # "STANDBY"
                 PROVE  /\ s_buf_size' \in Sizes /\ s_buf_size' = i_buf_size
                        /\ s_base_addr' = Base /\ s_top_addr' = Base + s_buf_size'
                        /\ s_rd_ptr' < s_buf_size'
                        /\ s_ar_addr' = Base + s_rd_ptr'
                                        + (IF s_state' = "R_RECV" THEN 1 ELSE 0)
      OBVIOUS
    <3>1. CASE s_state = "STANDBY"
      <4>1. /\ i_buf_size \in Sizes /\ s_state' = "IDLE"
            /\ s_base_addr' = Base /\ s_ar_addr' = Base
            /\ s_buf_size' = i_buf_size /\ s_top_addr' = Base + i_buf_size
            /\ s_rd_ptr' = 0
        BY <1>1, <3>1, ClockCases DEF sm
      <4>2. i_buf_size > 0 /\ Base + 0 + 0 = Base
        BY <2>1, <4>1, Constants
      <4> QED
        BY <4>1, <4>2
    <3>2. CASE s_state # "STANDBY"
      <4>1. UNCHANGED latch
        BY <1>1, <3>2, ClockCases DEF sm
      <4>2. \/ /\ s_rd_ptr' = s_rd_ptr
               /\ \/ s_ar_addr' = s_ar_addr /\ s_state # "R_RECV" /\ s_state' # "R_RECV"
                  \/ s_ar_addr' = s_ar_addr /\ s_state = "R_RECV" /\ s_state' = "R_RECV"
                  \/ /\ s_ar_addr' = s_ar_addr + 1
                     /\ s_state = "AR_SEND" /\ s_state' = "R_RECV"
            \/ /\ s_rd_ptr' = Bump(s_rd_ptr, 1, s_buf_size)
               /\ s_ar_addr' = Wrap(s_ar_addr)
               /\ s_state = "R_RECV" /\ s_state' # "R_RECV"
        BY <1>1, <3>2, ClockCases DEF sm
      <4>3. Base + Bump(s_rd_ptr, 1, s_buf_size) + 0 = Base + Bump(s_rd_ptr, 1, s_buf_size)
        BY <2>1 DEF Bump
      <4>4. /\ s_rd_ptr' < s_buf_size
            /\ s_ar_addr' = Base + s_rd_ptr' + (IF s_state' = "R_RECV" THEN 1 ELSE 0)
        <5>1. /\ s_ar_addr = Base + s_rd_ptr + (IF s_state = "R_RECV" THEN 1 ELSE 0)
              /\ s_rd_ptr < s_buf_size
          BY <2>2, <3>2
        <5>2. CASE s_rd_ptr' = s_rd_ptr /\ s_state' # "R_RECV" /\ s_state # "R_RECV"
                   /\ s_ar_addr' = s_ar_addr
          BY <5>1, <5>2
        <5>3. CASE s_rd_ptr' = s_rd_ptr /\ s_state' = "R_RECV" /\ s_state = "R_RECV"
                   /\ s_ar_addr' = s_ar_addr
          BY <5>1, <5>3
        <5>4. CASE s_rd_ptr' = s_rd_ptr /\ s_state' = "R_RECV" /\ s_state = "AR_SEND"
                   /\ s_ar_addr' = s_ar_addr + 1
          BY <2>1, <5>1, <5>4
        <5>5. CASE s_rd_ptr' = Bump(s_rd_ptr, 1, s_buf_size) /\ s_state = "R_RECV"
                   /\ s_ar_addr' = Wrap(s_ar_addr) /\ s_state' # "R_RECV"
          BY <2>3, <4>3, <5>5
        <5> QED
          BY <4>2, <5>2, <5>3, <5>4, <5>5
      <4> QED
        BY <2>2, <3>2, <4>1, <4>4 DEF latch
    <3> QED
      BY <3>1, <3>2
  <2>7. i_buf_size > 0 => s_rd_ptr' < i_buf_size
    <3>1. CASE s_state' # "STANDBY"
      BY <2>6, <3>1
    <3>2. CASE s_state' = "STANDBY"
      <4>1. s_rd_ptr' = s_rd_ptr
        BY <1>1, <3>2, ClockCases DEF sm
      <4> QED
        BY <2>4, <4>1
    <3> QED
      BY <3>1, <3>2
  <2> QED
    BY <2>4, <2>5, <2>6, <2>7 DEF PlaceInv
<1>2. CASE Sample \/ UNCHANGED vars
  BY <1>2 DEF Sample, vars, regs, sm, latch, PlaceInv
<1>3. CASE SetEnable
  BY <1>3 DEF SetEnable, sm, latch, PlaceInv
<1>4. CASE SetWr
  <2>1. PICK n \in 1..i_buf_size : i_wr_ptr' = (i_wr_ptr + n) % i_buf_size
    BY <1>4 DEF SetWr
  <2>2. i_buf_size \in Nat /\ i_buf_size > 0 /\ i_wr_ptr \in Nat
    BY <1>4, SizeInNat DEF TypeOK, SetWr
  <2>3. i_wr_ptr' < i_buf_size
    BY <2>1, <2>2, DivMod
  <2> QED
    BY <1>4, <2>2, <2>3 DEF SetWr, sm, latch, PlaceInv
<1>5. CASE Reset
  BY <1>5, Constants DEF Reset, PlaceInv
<1> QED
  BY <1>1, <1>2, <1>3, <1>4, <1>5 DEF Next

\* A burst is let start only with room for all of it, but for the words that may
\* have come since the flag was right: one a cycle, for FlagLag cycles.
LEMMA FeedStep ==
  ASSUME TypeOK, PlaceInv, FeedInv, [Next]_vars
  PROVE  FeedInv'
<1>0. /\ g_burst_len \in Nat /\ g_burst_len > 0 /\ c_fifo_depth = 4 * g_burst_len
      /\ FlagLag \in Nat
  BY Constants
<1>1. ASSUME NEW arready \in Bit, NEW rvalid \in Bit, Clock(arready, rvalid)
      PROVE  FeedInv'
  <2>1. /\ level' \in Nat
        /\ IF s_state = "R_RECV" /\ rvalid = 1
           THEN level' = level + 1 \/ level' = level
           ELSE level' = level \/ level' = level - 1
    <3>1. FifoAndUnpack(rvalid)
      BY <1>1 DEF Clock
    <3> QED
      BY <1>1, <3>1, FifoStep
  <2>2. level \in Nat /\ beats \in Nat
    BY <1>0 DEF TypeOK
  <2>3. /\ level <= 4 * g_burst_len + FlagLag
        /\ s_state = "AR_SEND" => level <= 3 * g_burst_len + FlagLag
        /\ s_state = "R_RECV"  =>
             beats > 0 /\ level + beats <= 4 * g_burst_len + FlagLag
        /\ s_state # "R_RECV" => beats = 0
    BY <1>0 DEF FeedInv, o_arvalid, o_rready
  <2>4. s_state' = "AR_SEND" /\ s_state # "AR_SEND" =>
          level < 3 * g_burst_len + FlagLag
    <3> SUFFICES ASSUME s_state' = "AR_SEND", s_state # "AR_SEND"
                 PROVE  level < 3 * g_burst_len + FlagLag
      OBVIOUS
    <3>1. FALSE \in s_fifo_prog_full
      BY <1>1, ClockCases DEF sm
    <3>2. Reached = FALSE \/ \E k \in 1..FlagLag : late[k] = FALSE
      BY <3>1 DEF s_fifo_prog_full
    <3>3. CASE Reached = FALSE
      BY <1>0, <2>2, <3>3 DEF Reached
    <3>4. CASE \E k \in 1..FlagLag : late[k] = FALSE
      <4>1. PICK k \in 1..FlagLag : late[k] = FALSE
        BY <3>4
      <4>2. level < 3 * g_burst_len + k
        BY <4>1 DEF FeedInv
      <4> QED
        BY <1>0, <2>2, <4>1, <4>2
    <3> QED
      BY <3>2, <3>3, <3>4
  <2>5. s_state' = "AR_SEND" => level' <= 3 * g_burst_len + FlagLag
    BY <1>0, <2>1, <2>2, <2>3, <2>4
  <2>6. /\ s_state' = "R_RECV" =>
             beats' > 0 /\ level' + beats' <= 4 * g_burst_len + FlagLag
        /\ s_state' # "R_RECV" => beats' = 0
    <3>1. \/ s_state # "R_RECV" /\ s_state' # "R_RECV" /\ beats' = 0
          \/ s_state = "AR_SEND" /\ s_state' = "R_RECV" /\ beats' = g_burst_len
          \/ s_state = "R_RECV" /\ s_state' = "R_RECV" /\ beats' = beats /\ rvalid = 0
          \/ /\ s_state = "R_RECV" /\ s_state' = "R_RECV" /\ rvalid = 1
             /\ beats > 1 /\ beats' = beats - 1
          \/ s_state = "R_RECV" /\ s_state' # "R_RECV" /\ beats' = 0
      BY <1>1, <2>3, ClockCases DEF sm
    <3> QED
      BY <1>0, <2>1, <2>2, <2>3, <3>1
  <2>7. level' <= 4 * g_burst_len + FlagLag
    BY <1>0, <2>1, <2>2, <2>3
  <2>8. \A k \in 1..FlagLag : ~late'[k] => level' < 3 * g_burst_len + k
    <3> SUFFICES ASSUME NEW k \in 1..FlagLag, ~late'[k]
                 PROVE  level' < 3 * g_burst_len + k
      OBVIOUS
    <3>1. late'[k] = IF k = 1 THEN Reached ELSE late[k - 1]
      BY <1>1, LateStep DEF Clock
    <3>2. level < 3 * g_burst_len + (k - 1)
      <4>1. CASE k = 1
        <5>1. ~Reached
          BY <3>1, <4>1
        <5>2. level < 3 * g_burst_len
          BY <1>0, <2>2, <5>1 DEF Reached
        <5> QED
          BY <1>0, <2>2, <4>1, <5>2
      <4>2. CASE k # 1
        <5>1. k - 1 \in 1..FlagLag /\ ~late[k - 1]
          BY <1>0, <3>1, <4>2
        <5> QED
          BY <5>1 DEF FeedInv
      <4> QED
        BY <4>1, <4>2
    <3> QED
      BY <1>0, <2>1, <2>2, <3>2
  <2> QED
    BY <1>0, <2>5, <2>6, <2>7, <2>8 DEF FeedInv, o_arvalid, o_rready, c_fifo_depth
<1>2. CASE Sample \/ SetEnable \/ SetWr \/ UNCHANGED vars
  BY <1>2 DEF Sample, SetEnable, SetWr, vars, sm, out, FeedInv, o_arvalid, o_rready,
              c_fifo_depth
<1>3. CASE Reset
  BY <1>0, <1>3 DEF Reset, FeedInv, o_arvalid, o_rready, c_fifo_depth
<1> QED
  BY <1>1, <1>2, <1>3 DEF Next

\* A place is on itself.
LEMMA OnSelf ==
  ASSUME NEW size \in Nat, NEW p \in 0..size-1
  PROVE  On(p, p, size)
<1>1. p = p + 0 * size
  OBVIOUS
<1> QED
  BY <1>1 DEF On

\* A pointer is where the distance to it says.
LEMMA OnAhead ==
  ASSUME NEW size \in Nat, NEW p \in 0..size-1, NEW q \in 0..size-1
  PROVE  /\ On(p + Ahead(p, q, size), q, size)
         /\ Ahead(p, q, size) \in 0..size-1
<1>1. CASE q >= p
  <2>1. p + Ahead(p, q, size) = q + 0 * size /\ Ahead(p, q, size) \in 0..size-1
    BY <1>1 DEF Ahead
  <2> QED
    BY <2>1 DEF On
<1>2. CASE ~(q >= p)
  <2>1. p + Ahead(p, q, size) = q + 1 * size /\ Ahead(p, q, size) \in 0..size-1
    BY <1>2 DEF Ahead
  <2> QED
    BY <2>1 DEF On
<1> QED
  BY <1>1, <1>2

\* The write pointer moves ahead: so does the distance, short of a whole ring.
LEMMA AheadMore ==
  ASSUME NEW size \in Nat, NEW p \in 0..size-1, NEW q \in 0..size-1, NEW d \in Nat,
         Ahead(p, q, size) + d < size
  PROVE  Ahead(p, (q + d) % size, size) = Ahead(p, q, size) + d
<1> DEFINE a == Ahead(p, q, size)
<1>1. On(p, p, size) /\ On(p + a, q, size) /\ a \in 0..size-1
  BY OnSelf, OnAhead
<1> HIDE DEF a
<1>2. On((p + a) + d, (q + d) % size, size)
  <2>1. p + a \in Int /\ d \in Int
    BY <1>1
  <2> QED
    BY <1>1, <2>1, OnMod
<1>3. (p + a) + d \in Int /\ p <= (p + a) + d /\ ((p + a) + d) - p < size
  BY <1>1 DEF a
<1>4. Ahead(p, (q + d) % size, size) = ((p + a) + d) - p
  BY <1>1, <1>2, <1>3, AheadExact
<1> QED
  BY <1>1, <1>4 DEF a

\* The read pointer moves over a burst that is there: the distance shrinks.
LEMMA AheadLess ==
  ASSUME NEW size \in Nat, NEW p \in 0..size-1, NEW q \in 0..size-1,
         Ahead(p, q, size) >= 1
  PROVE  Ahead(Bump(p, 1, size), q, size) = Ahead(p, q, size) - 1
<1> DEFINE a == Ahead(p, q, size)
<1>1. On(p, p, size) /\ On(p + a, q, size) /\ a \in 0..size-1 /\ a >= 1
  BY OnSelf, OnAhead
<1> HIDE DEF a
<1>2. On(p + 1, Bump(p, 1, size), size)
  BY <1>1, OnNext
<1>3. /\ p + 1 \in Int /\ p + a \in Int /\ p + 1 <= p + a
      /\ (p + a) - (p + 1) < size
  BY <1>1
<1>4. Ahead(Bump(p, 1, size), q, size) = (p + a) - (p + 1)
  BY <1>1, <1>2, <1>3, AheadExact
<1> QED
  BY <1>1, <1>4 DEF a

\* The burst published fills the ring: the pointers meet.
LEMMA AheadFull ==
  ASSUME NEW size \in Nat, NEW p \in 0..size-1, NEW q \in 0..size-1, NEW d \in Nat,
         Ahead(p, q, size) + d = size
  PROVE  Ahead(p, (q + d) % size, size) = 0
<1> DEFINE a == Ahead(p, q, size)
<1>1. On(p, p, size) /\ On(p + a, q, size) /\ a \in 0..size-1 /\ a + d = size
  BY OnSelf, OnAhead
<1> HIDE DEF a
<1>2. On((p + a) + d, (q + d) % size, size)
  <2>1. p + a \in Int /\ d \in Int
    BY <1>1
  <2> QED
    BY <1>1, <2>1, OnMod
<1>3. (p + a) + d = p + size
  BY <1>1
<1>4. On(p, (q + d) % size, size)
  <2>1. (q + d) % size \in 0..size-1
    BY <1>2 DEF On
  <2>2. PICK k \in Int : p + size = ((q + d) % size) + k * size
    BY <1>2, <1>3 DEF On
  <2>3. k - 1 \in Int /\ (k - 1) * size = k * size - size /\ k * size \in Int
    BY <2>2, MulDist
  <2>4. p = ((q + d) % size) + (k - 1) * size
    BY <2>1, <2>2, <2>3
  <2> QED
    BY <2>1, <2>3, <2>4 DEF On
<1>5. p - p = 0 /\ p \in Int /\ p <= p /\ p - p < size
  OBVIOUS
<1> QED
  BY <1>1, <1>4, <1>5, AheadExact

\* The first burst is taken from a ring that was full.
LEMMA AheadOfFull ==
  ASSUME NEW size \in Nat, NEW p \in 0..size-1, NEW q \in 0..size-1,
         Ahead(p, q, size) = 0
  PROVE  /\ q = p
         /\ Ahead(Bump(p, 1, size), q, size) = size - 1
<1>1. q = p
  BY DEF Ahead
<1> QED
  BY <1>1 DEF Ahead, Bump

\* What the driver adds and what the master takes move the distance alike, a ring
\* that is full looking empty.
LEMMA AvailStep ==
  ASSUME TypeOK, PlaceInv, FeedInv, AvailInv, [Next]_vars
  PROVE  AvailInv'
<1>0. /\ i_buf_size \in Nat /\ i_wr_ptr \in Nat /\ s_rd_ptr \in Nat
      /\ avail \in -1..i_buf_size
      /\ i_buf_size > 0 => i_wr_ptr \in 0..i_buf_size-1 /\ s_rd_ptr \in 0..i_buf_size-1
  BY SizeInNat DEF TypeOK, AvailInv, PlaceInv
<1>1. ASSUME NEW arready \in Bit, NEW rvalid \in Bit, Clock(arready, rvalid)
      PROVE  AvailInv'
  <2>1. i_wr_ptr' = i_wr_ptr /\ i_buf_size' = i_buf_size
    BY <1>1, ClockCases DEF regs
  <2>2. \/ s_rd_ptr' = s_rd_ptr /\ avail' = avail
        \/ s_rd_ptr' = 0 /\ avail' = AvailAtStart /\ i_buf_size > 0
        \/ /\ s_rd_ptr' = Bump(s_rd_ptr, 1, i_buf_size) /\ i_buf_size > 0
           /\ avail' = IF avail >= 0 THEN avail - 1 ELSE avail
    BY <1>1, ClockCases, Constants DEF sm, PlaceInv
  <2>3. CASE s_rd_ptr' = s_rd_ptr /\ avail' = avail
    BY <2>1, <2>3 DEF AvailInv
  <2>4. CASE s_rd_ptr' = 0 /\ avail' = AvailAtStart /\ i_buf_size > 0
    <3>1. CASE s_rd_ptr = 0 /\ avail = i_buf_size
      BY <2>1, <2>4, <3>1 DEF AvailInv, AvailAtStart
    <3>2. CASE ~(s_rd_ptr = 0 /\ avail = i_buf_size)
      <4>1. avail' = i_wr_ptr /\ i_wr_ptr \in 0..i_buf_size-1
        BY <1>0, <2>4, <3>2 DEF AvailAtStart
      <4>2. Ahead(0, i_wr_ptr, i_buf_size) = i_wr_ptr
        BY <1>0 DEF Ahead
      <4> QED
        BY <1>0, <2>1, <2>4, <4>1, <4>2 DEF AvailInv
    <3> QED
      BY <3>1, <3>2
  <2>5. CASE /\ s_rd_ptr' = Bump(s_rd_ptr, 1, i_buf_size) /\ i_buf_size > 0
             /\ avail' = IF avail >= 0 THEN avail - 1 ELSE avail
    <3> DEFINE a == Ahead(s_rd_ptr, i_wr_ptr, i_buf_size)
    <3>1. CASE avail <= 0
      <4>1. avail' = -1
        BY <1>0, <2>5, <3>1
      <4> QED
        BY <1>0, <2>1, <4>1 DEF AvailInv
    <3>2. CASE avail >= 1 /\ avail # i_buf_size
      <4>1. a = avail /\ avail' = avail - 1
        BY <1>0, <2>5, <3>2 DEF AvailInv
      <4>2. Ahead(s_rd_ptr', i_wr_ptr, i_buf_size) = avail'
        BY <1>0, <2>5, <3>2, <4>1, AheadLess
      <4> QED
        BY <1>0, <2>1, <3>2, <4>1, <4>2 DEF AvailInv
    <3>3. CASE avail >= 1 /\ avail = i_buf_size
      <4>1. a = 0 /\ avail' = i_buf_size - 1
        BY <1>0, <2>5, <3>3 DEF AvailInv
      <4>2. Ahead(s_rd_ptr', i_wr_ptr, i_buf_size) = avail'
        BY <1>0, <2>5, <3>3, <4>1, AheadOfFull
      <4> QED
        BY <1>0, <2>1, <3>3, <4>1, <4>2 DEF AvailInv
    <3> QED
      BY <1>0, <3>1, <3>2, <3>3
  <2> QED
    BY <2>2, <2>3, <2>4, <2>5
<1>2. CASE Sample \/ SetEnable \/ UNCHANGED vars
  BY <1>2 DEF Sample, SetEnable, vars, regs, sm, latch, out, AvailInv
<1>3. CASE SetWr
  <2>1. PICK n \in 1..i_buf_size :
          /\ i_wr_ptr' = (i_wr_ptr + n) % i_buf_size
          /\ avail' = IF avail >= 0 /\ avail + n <= i_buf_size THEN avail + n ELSE -1
    BY <1>3 DEF SetWr
  <2>2. /\ s_rd_ptr' = s_rd_ptr /\ i_buf_size' = i_buf_size /\ i_buf_size > 0
        /\ n \in Nat
    BY <1>0, <1>3 DEF SetWr, sm
  <2>3. CASE avail >= 0 /\ avail + n <= i_buf_size
    <3>1. Ahead(s_rd_ptr, i_wr_ptr, i_buf_size) = avail /\ avail' = avail + n
      BY <1>0, <2>1, <2>2, <2>3 DEF AvailInv
    <3>2. CASE avail + n < i_buf_size
      <4>1. Ahead(s_rd_ptr, i_wr_ptr', i_buf_size) = avail + n
        BY <1>0, <2>1, <2>2, <3>1, <3>2, AheadMore
      <4> QED
        BY <1>0, <2>2, <2>3, <3>1, <3>2, <4>1 DEF AvailInv
    <3>3. CASE avail + n = i_buf_size
      <4>1. Ahead(s_rd_ptr, i_wr_ptr', i_buf_size) = 0
        BY <1>0, <2>1, <2>2, <3>1, <3>3, AheadFull
      <4> QED
        BY <1>0, <2>2, <3>1, <3>3, <4>1 DEF AvailInv
    <3> QED
      BY <1>0, <2>3, <3>2, <3>3
  <2>4. CASE ~(avail >= 0 /\ avail + n <= i_buf_size)
    <3>1. avail' = -1
      BY <2>1, <2>4
    <3> QED
      BY <1>0, <2>2, <3>1 DEF AvailInv
  <2> QED
    BY <2>3, <2>4
<1>4. CASE Reset
  <2>1. /\ i_buf_size' \in Nat /\ i_buf_size' > 0
        /\ avail' = 0 /\ s_rd_ptr' = 0 /\ i_wr_ptr' = 0
    BY <1>4, Constants DEF Reset
  <2> QED
    BY <2>1 DEF AvailInv, Ahead
<1> QED
  BY <1>1, <1>2, <1>3, <1>4 DEF Next

-----------------------------------------------------------------------------
(* The theorems.                                                            *)

\* IInv holds in every state the master can reach.
THEOREM Invariance == Spec => []IInv
<1>1. ASSUME IInv, [Next]_vars PROVE IInv'
  BY <1>1, TypeStep, PlaceStep, FeedStep, AvailStep DEF IInv
<1> QED
  BY <1>1, InitInv, PTL DEF Spec

\* Every signal keeps its range, the sample FIFO within its depth included.
THEOREM TypeCorrect == Spec => []TypeOK
<1>1. IInv => TypeOK
  BY DEF IInv
<1> QED
  BY <1>1, Invariance, PTL

\* The words of the bursts need at most FlagLag words beyond FIFO_WRITE_DEPTH,
\* whatever the burst length and however late the flag: with a prompt flag they
\* fit exactly (o_rready does not ask whether the FIFO is full).
THEOREM BurstsFit == Spec => []RoomForBurst
<1>1. IInv => RoomForBurst
  BY Constants DEF IInv, FeedInv, RoomForBurst
<1> QED
  BY <1>1, Invariance, PTL

\* No burst is read from outside the latched ring, whatever its size and base.
THEOREM BurstsStayInRing == Spec => []ArInRing
<1>1. ASSUME IInv PROVE ArInRing
  <2>1. s_rd_ptr \in Nat /\ s_buf_size \in Nat /\ Base \in Nat
    BY <1>1, Constants DEF IInv, TypeOK
  <2>2. s_state = "AR_SEND" => s_ar_addr = Base + s_rd_ptr + 0 /\ s_rd_ptr < s_buf_size
    BY <1>1 DEF IInv, PlaceInv
  <2> QED
    BY <2>1, <2>2 DEF ArInRing, o_arvalid
<1> QED
  BY <1>1, Invariance, PTL

\* The address generator and the published pointer never drift apart.
THEOREM PointersAgree == Spec => []ArMatchesPtr
<1>1. ASSUME IInv PROVE ArMatchesPtr
  <2>1. s_rd_ptr \in Nat /\ Base \in Nat
    BY <1>1, Constants DEF IInv, TypeOK
  <2>2. s_state \in {"IDLE", "AR_SEND"} =>
          s_ar_addr = Base + s_rd_ptr + 0 /\ s_base_addr = Base
    BY <1>1 DEF IInv, PlaceInv
  <2> QED
    BY <2>1, <2>2 DEF ArMatchesPtr
<1> QED
  BY <1>1, Invariance, PTL

\* Out of IDLE no burst is started that software has not published.
THEOREM IdleIsSafe == Spec => IdleStartsPublished
<1>1. ASSUME IInv, [Next]_vars, s_state = "IDLE", s_state' = "AR_SEND", avail >= 0
      PROVE  avail >= 1
  <2>1. s_has_burst
    <3>1. CASE \E arready, rvalid \in Bit : Clock(arready, rvalid)
      BY <1>1, <3>1, ClockCases DEF IInv, sm
    <3>2. CASE Sample \/ SetEnable \/ SetWr \/ Reset \/ UNCHANGED vars
      BY <1>1, <3>2 DEF Sample, SetEnable, SetWr, Reset, sm, vars
    <3> QED
      BY <1>1, <3>1, <3>2 DEF Next
  <2>2. s_buf_size = i_buf_size /\ avail \in Int
    BY <1>1 DEF IInv, PlaceInv, TypeOK
  <2> QED
    BY <1>1, <2>1, <2>2 DEF IInv, AvailInv, s_has_burst, s_data_avail
<1>2. IInv /\ [Next]_vars =>
        [s_state = "IDLE" /\ s_state' = "AR_SEND" /\ avail >= 0 => avail >= 1]_vars
  BY <1>1
<1> QED
  BY <1>2, Invariance, PTL DEF Spec, IdleStartsPublished

-----------------------------------------------------------------------------
(* The refinement.                                                          *)

\* One clock of the master is one step of RingReader, or none.
LEMMA ClockRefines ==
  ASSUME IInv, NEW arready \in Bit, NEW rvalid \in Bit, Clock(arready, rvalid)
  PROVE  R!Next \/ UNCHANGED R!vars
<1>0. TypeOK /\ PlaceInv /\ FeedInv
  BY DEF IInv
<1>1. i_enable' = i_enable /\ i_wr_ptr' = i_wr_ptr
  BY <1>0, ClockCases DEF regs
<1>2. s_has_burst => R!HasBurst
  BY DEF s_has_burst, s_data_avail, R!HasBurst, R!Ahead, Ahead
<1>3. CASE s_state = "STANDBY" /\ s_state' # "STANDBY"
  <2>1. /\ i_enable = 1 /\ s_state' = "IDLE" /\ s_buf_size' \in Sizes /\ s_rd_ptr' = 0
    BY <1>0, <1>3, ClockCases DEF sm
  <2>2. R!Latch
    BY <1>1, <1>3, <2>1 DEF R!Latch
  <2> QED
    BY <2>2 DEF R!Next
<1>4. CASE s_state = "STANDBY" /\ s_state' = "STANDBY"
  <2>1. UNCHANGED sm
    BY <1>0, <1>4, ClockCases
  <2> QED
    BY <1>1, <2>1 DEF sm, latch, R!vars
<1>5. CASE s_state = "IDLE"
  <2>1. s_rd_ptr' = s_rd_ptr /\ s_buf_size' = s_buf_size
    BY <1>0, <1>5, ClockCases DEF latch
  <2>2. \/ i_enable = 0 /\ s_state' = "STANDBY"
        \/ s_has_burst /\ s_state' = "AR_SEND"
        \/ s_state' = "IDLE"
    BY <1>0, <1>5, ClockCases
  <2>3. CASE i_enable = 0 /\ s_state' = "STANDBY"
    <3>1. R!Stop
      BY <1>1, <1>5, <2>1, <2>3 DEF R!Stop
    <3> QED
      BY <3>1 DEF R!Next
  <2>4. CASE s_has_burst /\ s_state' = "AR_SEND"
    <3>1. R!Start
      BY <1>1, <1>2, <1>5, <2>1, <2>4 DEF R!Start
    <3> QED
      BY <3>1 DEF R!Next
  <2>5. CASE s_state' = "IDLE"
    BY <1>1, <1>5, <2>1, <2>5 DEF R!vars
  <2> QED
    BY <2>2, <2>3, <2>4, <2>5
<1>6. CASE s_state \in {"AR_SEND", "R_RECV"}
  <2>1. /\ s_buf_size' = s_buf_size
        /\ \/ s_rd_ptr' = s_rd_ptr /\ s_state' \in {"AR_SEND", "R_RECV"}
           \/ /\ s_rd_ptr' = Bump(s_rd_ptr, 1, s_buf_size)
              /\ \/ s_has_burst /\ s_state' = "AR_SEND"
                 \/ s_state' = "IDLE"
    BY <1>0, <1>6, ClockCases DEF sm, latch
  <2>2. CASE s_rd_ptr' = s_rd_ptr /\ s_state' \in {"AR_SEND", "R_RECV"}
    BY <1>1, <1>6, <2>1, <2>2 DEF R!vars
  <2>3. CASE /\ s_rd_ptr' = Bump(s_rd_ptr, 1, s_buf_size)
             /\ \/ s_has_burst /\ s_state' = "AR_SEND"
                \/ s_state' = "IDLE"
    <3>1. s_rd_ptr' = R!Bump(s_rd_ptr, 1, s_buf_size)
      BY <2>3 DEF R!Bump, Bump
    <3>2. R!Done
      BY <1>1, <1>2, <1>6, <2>1, <2>3, <3>1 DEF R!Done
    <3> QED
      BY <3>2 DEF R!Next
  <2> QED
    BY <2>1, <2>2, <2>3
<1> QED
  BY <1>0, <1>3, <1>4, <1>5, <1>6 DEF TypeOK, States

\* The write pointers the register may hold.
LEMMA InOffsets ==
  ASSUME NEW n \in Sizes, NEW p \in 0..n-1
  PROVE  p \in Offsets
  BY DEF Offsets

\* The master does what RingReader, and with it the driver's model, expects.
THEOREM Refinement == Spec => ImplementsReader
<1>1. Init => R!Init
  BY DEF Init, R!Init
<1>2. IInv /\ [Next]_vars => [R!Next]_(R!vars)
  <2> SUFFICES ASSUME IInv, [Next]_vars PROVE R!Next \/ UNCHANGED R!vars
    OBVIOUS
  <2>1. ASSUME NEW arready \in Bit, NEW rvalid \in Bit, Clock(arready, rvalid)
        PROVE  R!Next \/ UNCHANGED R!vars
    BY <2>1, ClockRefines
  <2>2. CASE Sample \/ UNCHANGED vars
    BY <2>2 DEF Sample, vars, regs, sm, latch, R!vars
  <2>3. CASE SetEnable
    <3>1. i_enable' \in {0, 1}
      BY <2>3 DEF SetEnable, IInv, TypeOK, Bit
    <3>2. R!SetEnable
      BY <2>3, <3>1 DEF SetEnable, sm, latch, R!SetEnable
    <3> QED
      BY <3>2 DEF R!Next
  <2>4. CASE SetWr
    <3>1. PICK n \in 1..i_buf_size : i_wr_ptr' = (i_wr_ptr + n) % i_buf_size
      BY <2>4 DEF SetWr
    <3>2. i_buf_size \in Nat /\ i_buf_size > 0 /\ i_wr_ptr \in Nat /\ i_buf_size \in Sizes
      BY <2>4, SizeInNat DEF IInv, TypeOK, SetWr
    <3>3. i_wr_ptr' \in Offsets
      BY <3>1, <3>2, DivMod, InOffsets
    <3>4. R!SetWr
      BY <2>4, <3>3 DEF SetWr, sm, latch, R!SetWr
    <3> QED
      BY <3>4 DEF R!Next
  <2>5. CASE Reset
    <3>1. i_wr_ptr' \in Offsets
      <4>1. i_wr_ptr' \in 0..i_buf_size'-1 /\ i_buf_size' \in Sizes
        BY <2>5, Constants DEF Reset
      <4> QED
        BY <4>1, InOffsets
    <3>2. R!Reset
      BY <2>5, <3>1 DEF Reset, R!Reset
    <3> QED
      BY <3>2 DEF R!Next
  <2> QED
    BY <2>1, <2>2, <2>3, <2>4, <2>5 DEF Next
<1> QED
  BY <1>1, <1>2, Invariance, PTL DEF Spec, R!Spec, ImplementsReader

\* Every burst comes from its place and needs no more room than RoomForBurst says,
\* for every ring, base, length and lag.
THEOREM BurstsPlaced == Spec => []BurstsFitRing
<1>1. RoomForBurst /\ ArInRing /\ ArMatchesPtr => BurstsFitRing
  BY DEF BurstsFitRing
<1> QED
  BY <1>1, BurstsFit, BurstsStayInRing, PointersAgree, PTL
=============================================================================
