------------------------- MODULE AxiMasterWrProofs --------------------------
(* What AxiMasterWr guarantees for every burst length, ring size, base address,
   number of outstanding bursts and lag of the burst FIFO's flag.  IInv of AxiMasterWr is inductive; its
   conjuncts are proved preserved one after the other.  The last theorem shows
   that the master implements RingWriter.                                     *)
EXTENDS AxiMasterWr, RingLemmas

\* What the assumptions say of the constants.
LEMMA Constants ==
  /\ g_burst_len \in Nat /\ g_burst_len > 0 /\ c_fifo_depth \in Nat
  /\ c_fifo_depth = 4 * g_burst_len
  /\ Base \in Nat /\ RxFifoDepth \in Nat /\ FlagLag \in Nat
  /\ MaxOutstanding \in Nat /\ MaxOutstanding > 0 /\ MaxOutstanding < 16
  /\ \A n \in Sizes : n \in Nat /\ n > 0
  BY BurstAssumption, BaseAssumption, DepthAssumption, OutstandingAssumption,
     SizesAssumption, LagAssumption DEF c_fifo_depth

\* The end of a buffer is an address.
LEMMA TopInNat == \A n \in Sizes : Base + n \in Nat
  BY BaseAssumption, SizesAssumption

\* The four-bit counter never wraps: the slave takes at most MaxOutstanding
\* commands and answers none it does not hold.
LEMMA CountExact ==
  ASSUME TypeOK, CountInv, NEW awready \in Bit, NEW wready \in Bit,
         NEW bvalid \in Bit, NEW tvalid \in Bit,
         Clock(awready, wready, bvalid, tvalid)
  PROVE  /\ s_pending_cnt' = s_pending_cnt + Req(awready) - bvalid
         /\ Req(awready) \in Bit
         /\ Req(awready) = 1 => s_pending_cnt < MaxOutstanding /\ s_state = "AW_SEND"
         /\ s_pending_cnt >= bvalid /\ due >= bvalid
<1>1. Req(awready) \in Bit /\ (Req(awready) = 1 => awready = 1 /\ s_state = "AW_SEND")
  BY DEF Req, Bit, o_awvalid
<1>2. /\ awready = 1 => s_pending_cnt < MaxOutstanding
      /\ bvalid = 1 => due > 0
  BY DEF Clock, Slave
<1>3. s_pending_cnt \in 0..15 /\ due \in Nat /\ due <= s_pending_cnt
  BY DEF TypeOK, CountInv
<1>4. s_pending_cnt >= bvalid /\ due >= bvalid
  BY <1>2, <1>3 DEF Bit
<1>5. s_pending_cnt + Req(awready) - bvalid \in 0..15
  BY <1>1, <1>2, <1>3, <1>4, Constants DEF Bit
<1>6. s_pending_cnt' = (s_pending_cnt + Req(awready) - bvalid) % 16
  BY DEF Clock, Count
<1>7. \A x \in 0..15 : x % 16 = x
  OBVIOUS
<1> QED
  BY <1>1, <1>2, <1>4, <1>5, <1>6, <1>7

\* The flag may show a burst in the FIFO.
FlagMayBeUp == TRUE \in s_fifo_prog_full

\* The flag shows one value or the other, whatever it is late by.
LEMMA FlagIsBoolean ==
  ASSUME TypeOK
  PROVE  s_fifo_prog_full \subseteq BOOLEAN
<1>1. Reached \in BOOLEAN
  BY DEF Reached
<1>2. \A k \in 1..FlagLag : late[k] \in BOOLEAN
  BY DEF TypeOK
<1> QED
  BY <1>1, <1>2 DEF s_fifo_prog_full

\* What one clock does to the registers, state by state.
LEMMA ClockCases ==
  ASSUME TypeOK, CountInv, PlaceInv, NEW awready \in Bit, NEW wready \in Bit,
         NEW bvalid \in Bit, NEW tvalid \in Bit,
         Clock(awready, wready, bvalid, tvalid)
  PROVE  \/ /\ s_state = "STANDBY" /\ i_enable = 1 /\ s_state' = "IDLE"
            /\ s_base_addr' = Base /\ s_aw_addr' = Base
            /\ s_buf_size' \in Sizes /\ s_top_addr' = Base + s_buf_size'
            /\ s_wr_ptr' = 0 /\ s_beat_cnt' = s_beat_cnt /\ Req(awready) = 0
            /\ bvalid = 0 /\ s_pending_cnt = 0 /\ due' = due
         \/ /\ s_state = "STANDBY" /\ i_enable # 1 /\ UNCHANGED <<sm, s_wr_ptr>>
            /\ Req(awready) = 0 /\ bvalid = 0 /\ due' = due
         \/ /\ s_state # "STANDBY"
            /\ s_wr_ptr' = IF bvalid = 1 THEN Bump(s_wr_ptr, 1, s_buf_size)
                           ELSE s_wr_ptr
            /\ UNCHANGED <<s_base_addr, s_top_addr, s_buf_size>>
            /\ \/ /\ s_state = "IDLE" /\ Req(awready) = 0 /\ due' = due - bvalid
                  /\ \/ i_enable = 0 /\ s_state' = "WAIT_OUTSTANDING"
                     \/ i_enable = 1 /\ FlagMayBeUp /\ s_state' = "AW_SEND"
                     \/ i_enable = 1 /\ s_state' = "IDLE"
                  /\ UNCHANGED <<s_beat_cnt, s_aw_addr>>
               \/ /\ s_state = "AW_SEND" /\ Req(awready) = 0 /\ due' = due - bvalid
                  /\ UNCHANGED <<s_state, s_beat_cnt, s_aw_addr>>
               \/ /\ s_state = "AW_SEND" /\ Req(awready) = 1 /\ due' = due - bvalid
                  /\ s_state' = "W_SEND" /\ s_beat_cnt' = 0
                  /\ s_aw_addr' = s_aw_addr + 1
               \/ /\ s_state = "W_SEND" /\ Req(awready) = 0 /\ wready = 0
                  /\ due' = due - bvalid
                  /\ UNCHANGED <<s_state, s_beat_cnt, s_aw_addr>>
               \/ /\ s_state = "W_SEND" /\ Req(awready) = 0 /\ wready = 1
                  /\ ~o_wlast /\ due' = due - bvalid
                  /\ s_beat_cnt' = s_beat_cnt + 1
                  /\ UNCHANGED <<s_state, s_aw_addr>>
               \/ /\ s_state = "W_SEND" /\ Req(awready) = 0 /\ wready = 1
                  /\ o_wlast /\ due' = due + 1 - bvalid
                  /\ s_beat_cnt' = s_beat_cnt /\ s_aw_addr' = Wrap(s_aw_addr)
                  /\ \/ FlagMayBeUp /\ s_state' = "AW_SEND"
                     \/ s_state' = "IDLE"
               \/ /\ s_state = "WAIT_OUTSTANDING" /\ Req(awready) = 0
                  /\ due' = due - bvalid
                  /\ \/ s_pending_cnt = 0 /\ s_state' = "STANDBY"
                     \/ s_state' = s_state
                  /\ UNCHANGED <<s_beat_cnt, s_aw_addr>>
<1> DEFINE req == Req(awready)
<1>1. req \in Bit /\ (req = 1 <=> s_state = "AW_SEND" /\ awready = 1)
  BY DEF Req, o_awvalid, Bit
<1>2. /\ due' = due + (IF o_wvalid /\ o_wlast /\ wready = 1 THEN 1 ELSE 0) - bvalid
      /\ s_wr_ptr' = IF s_state = "STANDBY" /\ i_enable = 1 THEN 0
                     ELSE IF bvalid = 1 THEN Bump(s_wr_ptr, 1, s_buf_size)
                     ELSE s_wr_ptr
  BY DEF Clock, Slave, Publish
<1>3. s_pending_cnt >= bvalid /\ due \in Nat /\ s_pending_cnt \in Nat
  <2>1. s_pending_cnt >= bvalid
    BY CountExact
  <2> QED
    BY <2>1 DEF TypeOK
<1>4. i_enable \in Bit
  BY DEF TypeOK
<1>5. CASE \E size \in Sizes : Standby(size)
  <2>1. s_state = "STANDBY" /\ s_pending_cnt = 0 /\ bvalid = 0 /\ req = 0 /\ due' = due
    BY <1>1, <1>2, <1>3, <1>5 DEF Standby, CountInv, Bit, o_wvalid
  <2>2. CASE i_enable = 1
    BY <1>2, <1>5, <2>1, <2>2 DEF Standby
  <2>3. CASE i_enable # 1
    BY <1>2, <1>5, <2>1, <2>3 DEF Standby, sm
  <2> QED
    BY <2>2, <2>3
<1>6. CASE \E full \in s_fifo_prog_full : Idle(full)
  <2>0. PICK full \in s_fifo_prog_full : Idle(full)
    BY <1>6
  <2>1. req = 0 /\ due' = due - bvalid /\ s_state = "IDLE"
    BY <1>1, <1>2, <1>3, <2>0 DEF Idle, Bit, o_wvalid
  <2>2. full => FlagMayBeUp
    BY <2>0, FlagIsBoolean DEF FlagMayBeUp
  <2> HIDE DEF req
  <2> QED
    BY <1>2, <1>4, <2>0, <2>1, <2>2 DEF Idle, Bit, req
<1>7. CASE AwSend(awready)
  <2>1. due' = due - bvalid /\ s_state = "AW_SEND"
    BY <1>1, <1>2, <1>3, <1>7 DEF AwSend, Bit, o_wvalid
  <2>2. CASE awready = 1
    BY <1>1, <1>2, <1>7, <2>1, <2>2 DEF AwSend
  <2>3. CASE awready = 0
    <3>1. req = 0
      BY <1>1, <2>3 DEF Bit
    <3> QED
      BY <1>2, <1>7, <2>1, <2>3, <3>1 DEF AwSend
  <2> QED
    BY <2>2, <2>3 DEF Bit
<1>8. CASE \E full \in s_fifo_prog_full : WSend(wready, full)
  <2>0. PICK full \in s_fifo_prog_full : WSend(wready, full)
    BY <1>8
  <2>1. req = 0 /\ s_state = "W_SEND" /\ o_wvalid
    BY <1>1, <2>0 DEF WSend, Bit, o_wvalid
  <2>2. CASE wready = 0
    <3>1. due' = due - bvalid
      BY <1>2, <1>3, <2>2 DEF Bit
    <3> QED
      BY <1>2, <2>0, <2>1, <2>2, <3>1 DEF WSend
  <2>3. CASE wready = 1 /\ ~o_wlast
    <3>1. due' = due - bvalid
      BY <1>2, <1>3, <2>3 DEF Bit
    <3> QED
      BY <1>2, <2>0, <2>1, <2>3, <3>1 DEF WSend
  <2>4. CASE wready = 1 /\ o_wlast
    <3>1. due' = due + 1 - bvalid
      BY <1>2, <1>3, <2>1, <2>4 DEF Bit
    <3>2. full => FlagMayBeUp
      BY <2>0, FlagIsBoolean DEF FlagMayBeUp
    <3> QED
      BY <1>2, <2>0, <2>1, <2>4, <3>1, <3>2 DEF WSend
  <2> QED
    BY <2>2, <2>3, <2>4 DEF Bit
<1>9. CASE WaitOutstanding
  <2>1. req = 0 /\ due' = due - bvalid /\ s_state = "WAIT_OUTSTANDING"
    BY <1>1, <1>2, <1>3, <1>9 DEF WaitOutstanding, Bit, o_wvalid
  <2> HIDE DEF req
  <2> QED
    BY <1>2, <1>9, <2>1 DEF WaitOutstanding, req
<1> QED
  BY <1>5, <1>6, <1>7, <1>8, <1>9 DEF Clock

-----------------------------------------------------------------------------
(* IInv, conjunct by conjunct.                                              *)

\* The invariant holds after the reset.
LEMMA InitInv == Init => IInv
<1> SUFFICES ASSUME Init PROVE IInv
  OBVIOUS
<1>1. TypeOK
  BY Constants DEF Init, TypeOK, Bit, States, Settled
<1>2. CountInv /\ PlaceInv /\ AwMatchesPtr /\ FeedInv
  BY Constants DEF Init, CountInv, PlaceInv, AwMatchesPtr, FeedInv, ShortByFlag,
                   o_wvalid, Settled
<1> QED
  BY <1>1, <1>2 DEF IInv

\* The sample side and the packer, which the state machine does not touch.
LEMMA FifoStep ==
  ASSUME TypeOK, NEW wready \in Bit, NEW tvalid \in Bit,
         PackAndFifo(tvalid, wready)
  PROVE  /\ s_prev_tvalid' \in Bit /\ rx_fifo' \in 0..RxFifoDepth
         /\ level' \in 0..c_fifo_depth
         /\ \/ level' = level \/ level' = level + 1
            \/ s_state = "W_SEND" /\ wready = 1 /\ level' = level - 1
<1> DEFINE accept == tvalid = 1 /\ rx_fifo > 0 /\ o_tready
           wr == IF accept /\ s_prev_tvalid = 1 THEN 1 ELSE 0
           rd == IF o_wvalid /\ wready = 1 /\ level > 0 THEN 1 ELSE 0
<1>1. /\ s_prev_tvalid' = IF accept THEN 1 - s_prev_tvalid ELSE s_prev_tvalid
      /\ level' = level + wr - rd
      /\ rx_fifo' = IF accept THEN rx_fifo - 1 ELSE rx_fifo
  BY DEF PackAndFifo
<1>2. level \in 0..c_fifo_depth /\ rx_fifo \in 0..RxFifoDepth /\ s_prev_tvalid \in {0, 1}
  BY DEF TypeOK, Bit
<1>3. wr \in {0, 1} /\ (wr = 1 => level < c_fifo_depth)
  BY <1>2 DEF o_tready
<1>4. rd \in {0, 1} /\ (rd = 1 => level > 0 /\ s_state = "W_SEND" /\ wready = 1)
  BY DEF o_wvalid
<1>5. s_prev_tvalid' \in Bit /\ rx_fifo' \in 0..RxFifoDepth
  BY <1>1, <1>2, Constants DEF Bit
<1> HIDE DEF wr, rd, accept
<1>6. \/ level' = level \/ level' = level + 1
      \/ s_state = "W_SEND" /\ wready = 1 /\ level' = level - 1
  BY <1>1, <1>2, <1>3, <1>4
<1>7. level' \in 0..c_fifo_depth
  BY <1>1, <1>2, <1>3, <1>4, Constants
<1> QED
  BY <1>5, <1>6, <1>7

\* The flag's last values move on by one place.
LEMMA LateStep ==
  ASSUME TypeOK, late' = Shifted(late, Reached)
  PROVE  /\ late' \in [1..FlagLag -> BOOLEAN]
         /\ \A k \in 1..FlagLag : late'[k] = IF k = 1 THEN Reached ELSE late[k - 1]
<1>1. FlagLag \in Nat /\ Reached \in BOOLEAN /\ late \in [1..FlagLag -> BOOLEAN]
  BY Constants DEF TypeOK, Reached
<1>2. late' = [k \in 1..FlagLag |-> IF k = 1 THEN Reached ELSE late[k - 1]]
  BY <1>1 DEF Shifted
<1>3. \A k \in 1..FlagLag : (IF k = 1 THEN Reached ELSE late[k - 1]) \in BOOLEAN
  BY <1>1
<1> QED
  BY <1>1, <1>2, <1>3

\* Every step keeps the types.
LEMMA TypeStep ==
  ASSUME TypeOK, CountInv, PlaceInv, [Next]_vars
  PROVE  TypeOK'
<1> USE Constants DEF Bit, States
<1>1. ASSUME NEW awready \in Bit, NEW wready \in Bit, NEW bvalid \in Bit,
             NEW tvalid \in Bit, Clock(awready, wready, bvalid, tvalid)
      PROVE  TypeOK'
  <2>1. /\ s_prev_tvalid' \in Bit /\ rx_fifo' \in 0..RxFifoDepth
        /\ level' \in 0..c_fifo_depth
    BY <1>1, FifoStep DEF Clock
  <2>2. i_enable' \in Bit /\ s_rx_enable' \in Bit
    BY <1>1 DEF Clock, TypeOK
  <2>3. s_pending_cnt' \in 0..15 /\ due >= bvalid
    <3>1. /\ s_pending_cnt' = s_pending_cnt + Req(awready) - bvalid
          /\ Req(awready) \in Bit /\ s_pending_cnt >= bvalid /\ due >= bvalid
          /\ Req(awready) = 1 => s_pending_cnt < MaxOutstanding
      BY <1>1, CountExact
    <3>2. s_pending_cnt \in 0..15
      BY DEF TypeOK
    <3> QED
      BY <3>1, <3>2
  <2>4. /\ s_state \in States /\ s_beat_cnt \in 0..g_burst_len-1
        /\ s_aw_addr \in Nat /\ s_base_addr \in {0, Base} /\ s_top_addr \in Nat
        /\ s_buf_size \in Sizes \cup {0} /\ s_wr_ptr \in Nat /\ due \in Nat
        /\ s_buf_size \in Nat
    BY DEF TypeOK
  <2>5. Bump(s_wr_ptr, 1, s_buf_size) \in Nat /\ Wrap(s_aw_addr) \in Nat
    BY <2>4 DEF Bump, Wrap
  <2>6. o_wlast <=> s_beat_cnt = g_burst_len - 1
    BY DEF o_wlast
  <2>7. s_state' \in States /\ due' \in Nat /\ s_wr_ptr' \in Nat
    BY <1>1, <2>3, <2>4, <2>5, ClockCases DEF sm
  <2>8. s_beat_cnt' \in 0..g_burst_len-1
    BY <1>1, <2>4, <2>6, ClockCases DEF sm
  <2>9. s_aw_addr' \in Nat /\ s_base_addr' \in {0, Base}
    BY <1>1, <2>4, <2>5, ClockCases DEF sm
  <2>10. s_top_addr' \in Nat /\ s_buf_size' \in Sizes \cup {0}
    <3>1. \/ UNCHANGED <<s_top_addr, s_buf_size>>
          \/ s_buf_size' \in Sizes /\ s_top_addr' = Base + s_buf_size'
      BY <1>1, ClockCases DEF sm
    <3>2. CASE UNCHANGED <<s_top_addr, s_buf_size>>
      BY <2>4, <3>2
    <3>3. CASE s_buf_size' \in Sizes /\ s_top_addr' = Base + s_buf_size'
      BY <3>3, TopInNat
    <3> QED
      BY <3>1, <3>2, <3>3
  <2>11. late' \in [1..FlagLag -> BOOLEAN]
    BY <1>1, LateStep DEF Clock
  <2> QED
    BY <2>1, <2>2, <2>3, <2>7, <2>8, <2>9, <2>10, <2>11 DEF TypeOK
<1>2. CASE Sample
  BY <1>2 DEF Sample, TypeOK, sm, fifo
<1>3. CASE CrossEnable
  BY <1>3 DEF CrossEnable, TypeOK, sm, fifo
<1>4. CASE SetEnable
  BY <1>4 DEF SetEnable, TypeOK, sm, rx, fifo
<1>5. CASE Reset
  BY <1>5 DEF Reset, TypeOK, Settled
<1>6. CASE UNCHANGED vars
  BY <1>6 DEF vars, sm, rx, fifo, TypeOK
<1> QED
  BY <1>1, <1>2, <1>3, <1>4, <1>5, <1>6 DEF Next

\* Every step keeps the account of the outstanding bursts.
LEMMA CountStep ==
  ASSUME TypeOK, CountInv, PlaceInv, [Next]_vars
  PROVE  CountInv'
<1> USE DEF Bit
<1>1. ASSUME NEW awready \in Bit, NEW wready \in Bit, NEW bvalid \in Bit,
             NEW tvalid \in Bit, Clock(awready, wready, bvalid, tvalid)
      PROVE  CountInv'
  <2>1. /\ s_pending_cnt' = s_pending_cnt + Req(awready) - bvalid
        /\ Req(awready) \in Bit
        /\ Req(awready) = 1 => s_pending_cnt < MaxOutstanding /\ s_state = "AW_SEND"
        /\ s_pending_cnt >= bvalid
    BY <1>1, CountExact
  <2>2. /\ s_pending_cnt = due + (IF s_state = "W_SEND" THEN 1 ELSE 0)
        /\ s_pending_cnt <= MaxOutstanding
        /\ s_state = "STANDBY" => s_pending_cnt = 0
        /\ due \in Nat /\ s_pending_cnt \in Nat
    BY DEF CountInv, TypeOK
  <2>3. s_pending_cnt' <= MaxOutstanding
    BY <2>1, <2>2, Constants
  <2>4. /\ s_pending_cnt' = due' + (IF s_state' = "W_SEND" THEN 1 ELSE 0)
        /\ s_state' = "STANDBY" => s_pending_cnt' = 0
    BY <1>1, <2>1, <2>2, ClockCases DEF sm
  <2> QED
    BY <2>3, <2>4 DEF CountInv
<1>2. CASE Sample \/ CrossEnable \/ SetEnable \/ UNCHANGED vars
  BY <1>2 DEF Sample, CrossEnable, SetEnable, vars, sm, CountInv
<1>3. CASE Reset
  BY <1>3, Constants DEF Reset, CountInv, TypeOK
<1> QED
  BY <1>1, <1>2, <1>3 DEF Next

\* Every step keeps the pointers and the beat counter where they belong.
LEMMA PlaceStep ==
  ASSUME TypeOK, CountInv, PlaceInv, [Next]_vars
  PROVE  PlaceInv'
<1>1. ASSUME NEW awready \in Bit, NEW wready \in Bit, NEW bvalid \in Bit,
             NEW tvalid \in Bit, Clock(awready, wready, bvalid, tvalid)
      PROVE  PlaceInv'
  <2>1. s_wr_ptr \in Nat /\ s_aw_addr \in Nat /\ s_buf_size \in Nat
    BY Constants DEF TypeOK
  <2>2. s_state # "STANDBY" =>
          /\ s_buf_size \in Sizes /\ s_base_addr = Base /\ s_buf_size > 0
          /\ s_top_addr = Base + s_buf_size /\ s_wr_ptr < s_buf_size
          /\ IF s_state = "W_SEND" THEN s_aw_addr \in Base+1..s_top_addr
                                   ELSE s_aw_addr \in Base..s_top_addr-1
    BY Constants DEF PlaceInv
  <2>3. s_state # "STANDBY" => Bump(s_wr_ptr, 1, s_buf_size) < s_buf_size
    BY <2>1, <2>2 DEF Bump
  <2>4. s_state = "W_SEND" => Wrap(s_aw_addr) \in Base..s_top_addr-1
    BY <2>1, <2>2, Constants DEF Wrap
  <2> QED
    BY <1>1, <2>1, <2>2, <2>3, <2>4, ClockCases, Constants DEF PlaceInv, sm
<1>2. CASE Sample \/ CrossEnable \/ SetEnable \/ UNCHANGED vars
  BY <1>2 DEF Sample, CrossEnable, SetEnable, vars, sm, PlaceInv
<1>3. CASE Reset
  BY <1>3 DEF Reset, PlaceInv
<1> QED
  BY <1>1, <1>2, <1>3 DEF Next

\* The next address and the published pointer move alike, each with its own wrap.
LEMMA PtrStep ==
  ASSUME TypeOK, CountInv, PlaceInv, AwMatchesPtr, [Next]_vars
  PROVE  AwMatchesPtr'
<1>1. ASSUME NEW awready \in Bit, NEW wready \in Bit, NEW bvalid \in Bit,
             NEW tvalid \in Bit, Clock(awready, wready, bvalid, tvalid),
             s_state' # "STANDBY"
      PROVE  (s_aw_addr' - s_base_addr') % s_buf_size' =
               (s_wr_ptr' + s_pending_cnt') % s_buf_size'
  <2> DEFINE req == Req(awready)
  <2>1. /\ s_pending_cnt' = s_pending_cnt + req - bvalid /\ req \in Int
        /\ bvalid \in {0, 1} /\ s_pending_cnt >= bvalid
    BY <1>1, CountExact DEF Bit
  <2>2. /\ s_wr_ptr \in Nat /\ s_aw_addr \in Nat /\ s_pending_cnt \in Nat
        /\ s_buf_size \in Nat /\ Base \in Nat
    BY Constants DEF TypeOK
  <2>3. CASE s_state = "STANDBY"
    <3>1. /\ s_aw_addr' = Base /\ s_base_addr' = Base /\ s_wr_ptr' = 0
          /\ s_pending_cnt = 0 /\ req = 0 /\ bvalid = 0
      BY <1>1, <2>3, ClockCases DEF sm
    <3>2. s_aw_addr' - s_base_addr' = 0 /\ s_wr_ptr' + s_pending_cnt' = 0
      BY <2>1, <2>2, <3>1
    <3> QED
      BY <3>2
  <2>4. CASE s_state # "STANDBY"
    <3> DEFINE x == s_aw_addr - s_base_addr
               y == s_wr_ptr + s_pending_cnt
               size == s_buf_size
    <3>1. /\ s_base_addr = Base /\ s_top_addr = Base + size /\ size > 0
          /\ s_wr_ptr < size /\ x % size = y % size
          /\ s_state = "W_SEND" => s_aw_addr <= s_top_addr
      BY <2>2, <2>4, Constants DEF PlaceInv, AwMatchesPtr
    <3>2. /\ s_wr_ptr' = IF bvalid = 1 THEN Bump(s_wr_ptr, 1, size) ELSE s_wr_ptr
          /\ s_base_addr' = s_base_addr /\ s_buf_size' = size
      BY <1>1, <2>4, ClockCases
    <3>3. \/ s_aw_addr' = s_aw_addr + req
          \/ req = 0 /\ s_state = "W_SEND" /\ s_aw_addr' = Wrap(s_aw_addr)
      <4>1. \/ s_aw_addr' = s_aw_addr /\ req = 0
            \/ s_aw_addr' = s_aw_addr + 1 /\ req = 1
            \/ req = 0 /\ s_state = "W_SEND" /\ s_aw_addr' = Wrap(s_aw_addr)
        BY <1>1, <2>4, ClockCases
      <4> QED
        BY <2>2, <4>1
    <3>4. PICK j \in {-1, 0} : s_aw_addr' - s_base_addr' = x + req + j * size
      <4>1. CASE s_aw_addr' = s_aw_addr + req
        <5>1. s_aw_addr' - s_base_addr' = x + req + 0 * size
          BY <2>1, <2>2, <3>1, <3>2, <4>1
        <5> QED
          BY <5>1
      <4>2. CASE req = 0 /\ s_state = "W_SEND" /\ s_aw_addr' = Wrap(s_aw_addr)
        <5>1. CASE s_aw_addr >= s_top_addr
          <6>1. s_aw_addr = s_base_addr + size /\ s_aw_addr' = s_base_addr
            BY <2>2, <3>1, <4>2, <5>1 DEF Wrap
          <6>2. s_aw_addr' - s_base_addr' = x + req + (-1) * size
            BY <2>2, <3>1, <3>2, <4>2, <6>1
          <6> QED
            BY <6>2
        <5>2. CASE ~(s_aw_addr >= s_top_addr)
          <6>1. s_aw_addr' - s_base_addr' = x + req + 0 * size
            BY <2>2, <3>1, <3>2, <4>2, <5>2 DEF Wrap
          <6> QED
            BY <6>1
        <5> QED
          BY <5>1, <5>2
      <4> QED
        BY <3>3, <4>1, <4>2
    <3>5. PICK k \in {-1, 0} : s_wr_ptr' + s_pending_cnt' = y + req + k * size
      <4>1. CASE bvalid = 0
        <5>1. s_wr_ptr' + s_pending_cnt' = y + req + 0 * size
          BY <2>1, <2>2, <3>2, <4>1
        <5> QED
          BY <5>1
      <4>2. CASE bvalid = 1 /\ s_wr_ptr + 1 >= size
        <5>1. s_wr_ptr' = 0 /\ s_wr_ptr = size - 1
          BY <2>2, <3>1, <3>2, <4>2 DEF Bump
        <5>2. s_wr_ptr' + s_pending_cnt' = y + req + (-1) * size
          BY <2>1, <2>2, <4>2, <5>1
        <5> QED
          BY <5>2
      <4>3. CASE bvalid = 1 /\ ~(s_wr_ptr + 1 >= size)
        <5>1. s_wr_ptr' + s_pending_cnt' = y + req + 0 * size
          BY <2>1, <2>2, <3>2, <4>3 DEF Bump
        <5> QED
          BY <5>1
      <4> QED
        BY <2>1, <4>1, <4>2, <4>3
    <3>6. x \in Int /\ y \in Int /\ size \in Nat /\ j \in Int /\ k \in Int
      BY <2>2, <3>1
    <3> HIDE DEF x, y, size, req
    <3>7. (x + req + j * size) % size = (y + req + k * size) % size
      <4>1. size > 0 /\ x % size = y % size /\ req \in Int
        BY <2>1, <3>1
      <4> QED
        BY <3>6, <4>1, ModShift
    <3> QED
      BY <3>2, <3>4, <3>5, <3>7
  <2> QED
    BY <2>3, <2>4
<1>2. CASE Sample \/ CrossEnable \/ SetEnable \/ UNCHANGED vars
  BY <1>2 DEF Sample, CrossEnable, SetEnable, vars, sm, AwMatchesPtr
<1>3. CASE Reset
  BY <1>3 DEF Reset, AwMatchesPtr
<1> QED
  BY <1>1, <1>2, <1>3 DEF Next, AwMatchesPtr

\* A word leaves the burst FIFO with every beat and only then: the flag was right
\* up to one word for every cycle it is late.
LEMMA FeedStep ==
  ASSUME TypeOK, CountInv, PlaceInv, FeedInv, [Next]_vars
  PROVE  FeedInv'
<1>0. g_burst_len \in Nat /\ FlagLag \in Nat
  BY Constants
<1>1. ASSUME NEW awready \in Bit, NEW wready \in Bit, NEW bvalid \in Bit,
             NEW tvalid \in Bit, Clock(awready, wready, bvalid, tvalid)
      PROVE  FeedInv'
  <2>1. \/ level' = level \/ level' = level + 1
        \/ s_state = "W_SEND" /\ wready = 1 /\ level' = level - 1
    <3>1. PackAndFifo(tvalid, wready)
      BY <1>1 DEF Clock
    <3> QED
      BY <1>1, <3>1, FifoStep
  <2>2. level \in Nat /\ s_beat_cnt \in 0..g_burst_len-1
    BY Constants DEF TypeOK
  <2>3. /\ s_state = "AW_SEND" => level + 1 + FlagLag >= g_burst_len
        /\ s_state = "W_SEND" => level + s_beat_cnt + 1 + FlagLag >= g_burst_len
    BY DEF FeedInv, ShortByFlag, o_wvalid
  <2>4. s_state' = "AW_SEND" => s_state = "AW_SEND" \/ level + FlagLag >= g_burst_len
    <3> SUFFICES ASSUME s_state' = "AW_SEND", s_state # "AW_SEND"
                 PROVE  level + FlagLag >= g_burst_len
      OBVIOUS
    <3>1. FlagMayBeUp
      BY <1>1, ClockCases DEF sm
    <3>2. Reached = TRUE \/ \E k \in 1..FlagLag : late[k] = TRUE
      BY <3>1 DEF FlagMayBeUp, s_fifo_prog_full
    <3>3. CASE Reached = TRUE
      BY <1>0, <2>2, <3>3 DEF Reached
    <3>4. CASE \E k \in 1..FlagLag : late[k] = TRUE
      <4>1. PICK k \in 1..FlagLag : late[k] = TRUE
        BY <3>4
      <4>2. level + k >= g_burst_len
        BY <4>1 DEF FeedInv
      <4> QED
        BY <1>0, <2>2, <4>1, <4>2
    <3> QED
      BY <3>2, <3>3, <3>4
  <2>5. s_state' = "W_SEND" =>
          \/ s_state = "AW_SEND" /\ s_beat_cnt' = 0
          \/ s_state = "W_SEND" /\ s_beat_cnt' = s_beat_cnt /\ wready = 0
          \/ s_state = "W_SEND" /\ s_beat_cnt' = s_beat_cnt + 1
    BY <1>1, ClockCases DEF sm
  <2>6. s_state' = "AW_SEND" => level' + 1 + FlagLag >= g_burst_len
    <3> SUFFICES ASSUME s_state' = "AW_SEND"
                 PROVE  level' + 1 + FlagLag >= g_burst_len
      OBVIOUS
    <3>1. CASE s_state = "AW_SEND"
      <4>1. level' >= level /\ level + 1 + FlagLag >= g_burst_len
        BY <1>0, <2>1, <2>2, <2>3, <3>1
      <4> QED
        BY <1>0, <2>1, <2>2, <4>1
    <3>2. CASE level + FlagLag >= g_burst_len
      <4>1. level' + 1 >= level
        BY <1>0, <2>1, <2>2
      <4> QED
        BY <1>0, <2>1, <2>2, <3>2, <4>1
    <3> QED
      BY <2>4, <3>1, <3>2
  <2>7. s_state' = "W_SEND" => level' + s_beat_cnt' + 1 + FlagLag >= g_burst_len
    BY <1>0, <2>1, <2>2, <2>3, <2>5
  <2>8. \A k \in 1..FlagLag : late'[k] => level' + k >= g_burst_len
    <3> SUFFICES ASSUME NEW k \in 1..FlagLag, late'[k]
                 PROVE  level' + k >= g_burst_len
      OBVIOUS
    <3>1. late'[k] = IF k = 1 THEN Reached ELSE late[k - 1]
      BY <1>1, LateStep DEF Clock
    <3>2. level + (k - 1) >= g_burst_len
      <4>1. CASE k = 1
        <5>1. Reached
          BY <3>1, <4>1
        <5>2. level >= g_burst_len
          BY <5>1 DEF Reached
        <5> QED
          BY <1>0, <2>2, <4>1, <5>2
      <4>2. CASE k # 1
        <5>1. k - 1 \in 1..FlagLag /\ late[k - 1]
          BY <1>0, <3>1, <4>2
        <5> QED
          BY <5>1 DEF FeedInv
      <4> QED
        BY <4>1, <4>2
    <3>3. level' + 1 >= level
      BY <1>0, <2>1, <2>2
    <3> QED
      BY <1>0, <2>1, <2>2, <3>2, <3>3
  <2> QED
    BY <2>6, <2>7, <2>8 DEF FeedInv, ShortByFlag, o_wvalid
<1>2. CASE Sample \/ CrossEnable \/ SetEnable \/ UNCHANGED vars
  BY <1>2 DEF Sample, CrossEnable, SetEnable, vars, sm, fifo, FeedInv, ShortByFlag,
              o_wvalid
<1>3. CASE Reset
  BY <1>3 DEF Reset, Settled, FeedInv, ShortByFlag, o_wvalid
<1> QED
  BY <1>1, <1>2, <1>3 DEF Next

-----------------------------------------------------------------------------
(* The theorems.                                                            *)

\* IInv holds in every state the master can reach.
THEOREM Invariance == Spec => []IInv
<1>1. ASSUME IInv, [Next]_vars PROVE IInv'
  BY <1>1, TypeStep, CountStep, PlaceStep, PtrStep, FeedStep DEF IInv
<1> QED
  BY <1>1, InitInv, PTL DEF Spec

\* Every signal keeps its range: the FIFOs never overflow, the four-bit counter
\* of outstanding bursts never wraps.
THEOREM TypeCorrect == Spec => []TypeOK
<1>1. IInv => TypeOK
  BY DEF IInv
<1> QED
  BY <1>1, Invariance, PTL

\* No burst is addressed outside the latched ring, whatever its size and base.
THEOREM BurstsStayInRing == Spec => []AwInRing
<1>1. IInv => AwInRing
  BY Constants DEF IInv, TypeOK, PlaceInv, AwInRing
<1> QED
  BY <1>1, Invariance, PTL

\* The address generator and the published pointer never drift apart.
THEOREM PointersAgree == Spec => []AwMatchesPtr
<1>1. IInv => AwMatchesPtr
  BY DEF IInv
<1> QED
  BY <1>1, Invariance, PTL

\* A session starts with no response of the one before under way.
THEOREM StandbyQuiet == Spec => []StandbyIsQuiet
<1>1. IInv => StandbyIsQuiet
  BY DEF IInv, CountInv, TypeOK, StandbyIsQuiet
<1> QED
  BY <1>1, Invariance, PTL

\* A burst started back to back is short by one word at most, and one for each
\* cycle the flag is late.
THEOREM ShortByTheFlag == Spec => []ShortByFlag
<1>1. IInv => ShortByFlag
  BY DEF IInv, FeedInv
<1> QED
  BY <1>1, Invariance, PTL

-----------------------------------------------------------------------------
(* The refinement.                                                          *)

\* One clock of the master is one step of RingWriter, or none.
LEMMA ClockRefines ==
  ASSUME IInv, NEW awready \in Bit, NEW wready \in Bit, NEW bvalid \in Bit,
         NEW tvalid \in Bit, Clock(awready, wready, bvalid, tvalid)
  PROVE  W!Next \/ UNCHANGED W!vars
<1> DEFINE state == IF s_state = "STANDBY" THEN "STANDBY"
                    ELSE IF s_state = "WAIT_OUTSTANDING" THEN "DRAIN" ELSE "RUN"
           req == Req(awready)
<1>0. TypeOK /\ CountInv /\ PlaceInv
  BY DEF IInv
<1>1. /\ s_pending_cnt' = s_pending_cnt + req - bvalid
      /\ req \in {0, 1} /\ (req = 1 => s_pending_cnt < MaxOutstanding)
      /\ s_pending_cnt >= bvalid
  BY <1>0, CountExact DEF Bit
<1>2. bvalid \in {0, 1} /\ s_pending_cnt \in Nat /\ s_wr_ptr \in Nat
      /\ i_enable \in {0, 1}
  BY <1>0 DEF Bit, TypeOK
<1>3. i_enable' = i_enable
  BY DEF Clock
<1> HIDE DEF req
<1>4. CASE s_state = "STANDBY" /\ i_enable = 1
  <2>1. /\ s_state' = "IDLE" /\ s_buf_size' \in Sizes /\ s_wr_ptr' = 0
        /\ req = 0 /\ bvalid = 0
    BY <1>0, <1>4, ClockCases DEF sm, req
  <2>2. s_pending_cnt' = s_pending_cnt
    BY <1>1, <1>2, <2>1
  <2>3. W!Latch
    BY <1>3, <1>4, <2>1, <2>2 DEF W!Latch
  <2> QED
    BY <2>3 DEF W!Next
<1>5. CASE s_state = "STANDBY" /\ i_enable # 1
  <2>1. /\ s_state' = s_state /\ s_buf_size' = s_buf_size /\ s_wr_ptr' = s_wr_ptr
        /\ req = 0 /\ bvalid = 0
    BY <1>0, <1>5, ClockCases DEF sm, req
  <2>2. s_pending_cnt' = s_pending_cnt
    BY <1>1, <1>2, <2>1
  <2> QED
    BY <1>3, <2>1, <2>2 DEF W!vars
<1>6. CASE s_state # "STANDBY"
  <2>1. /\ s_wr_ptr' = IF bvalid = 1 THEN Bump(s_wr_ptr, 1, s_buf_size)
                       ELSE s_wr_ptr
        /\ s_buf_size' = s_buf_size
    BY <1>0, <1>6, ClockCases
  <2>2. bvalid = 1 => W!Respond
    BY <1>1, <1>2, <2>1 DEF W!Respond, W!Bump, Bump
  <2>3. bvalid = 0 => W!Quiet
    BY <2>1 DEF W!Quiet
  <2>4. CASE state = "RUN" /\ state' = "RUN"
    <3>1. CASE req = 0 /\ bvalid = 0
      <4>1. s_pending_cnt' = s_pending_cnt /\ s_wr_ptr' = s_wr_ptr
        BY <1>1, <1>2, <2>1, <3>1
      <4> QED
        BY <1>3, <2>1, <2>4, <4>1 DEF W!vars
    <3>2. CASE req = 1 /\ bvalid = 0
      <4>1. s_pending_cnt' = s_pending_cnt + 1 /\ s_pending_cnt < MaxOutstanding
        BY <1>1, <1>2, <3>2
      <4>2. W!Work
        BY <1>3, <2>1, <2>3, <2>4, <3>2, <4>1 DEF W!Work
      <4> QED
        BY <4>2 DEF W!Next
    <3>3. CASE req = 0 /\ bvalid = 1
      <4>1. s_pending_cnt' = s_pending_cnt - 1
        BY <1>1, <1>2, <3>3
      <4>2. W!Work
        BY <1>3, <2>1, <2>2, <2>4, <3>3, <4>1 DEF W!Work
      <4> QED
        BY <4>2 DEF W!Next
    <3>4. CASE req = 1 /\ bvalid = 1
      <4>1. s_pending_cnt' = s_pending_cnt
        BY <1>1, <1>2, <3>4
      <4>2. W!Work
        BY <1>3, <2>1, <2>2, <2>4, <3>4, <4>1 DEF W!Work
      <4> QED
        BY <4>2 DEF W!Next
    <3> QED
      BY <1>1, <1>2, <3>1, <3>2, <3>3, <3>4
  <2>5. CASE s_state = "IDLE" /\ s_state' = "WAIT_OUTSTANDING"
    <3>1. i_enable = 0 /\ req = 0
      BY <1>0, <2>5, ClockCases DEF sm, req
    <3>2. \/ bvalid = 1 /\ s_pending_cnt' = s_pending_cnt - 1
          \/ bvalid = 0 /\ s_pending_cnt' = s_pending_cnt
      BY <1>1, <1>2, <3>1
    <3>3. W!Disable
      BY <1>3, <2>1, <2>2, <2>3, <2>5, <3>1, <3>2 DEF W!Disable
    <3> QED
      BY <3>3 DEF W!Next
  <2>6. CASE s_state = "WAIT_OUTSTANDING"
    <3>1. /\ req = 0
          /\ \/ s_state' = s_state
             \/ s_pending_cnt = 0 /\ s_state' = "STANDBY"
      BY <1>0, <2>6, ClockCases DEF sm, req
    <3>2. CASE bvalid = 1
      <4>1. s_pending_cnt' = s_pending_cnt - 1 /\ s_state' = s_state
        BY <1>1, <1>2, <3>1, <3>2
      <4>2. W!Drain
        BY <1>3, <2>1, <2>2, <2>6, <3>2, <4>1 DEF W!Drain
      <4> QED
        BY <4>2 DEF W!Next
    <3>3. CASE bvalid = 0
      <4>1. s_pending_cnt' = s_pending_cnt /\ s_wr_ptr' = s_wr_ptr
        BY <1>1, <1>2, <2>1, <3>1, <3>3
      <4>2. CASE s_state' = s_state
        BY <1>3, <2>1, <4>1, <4>2 DEF W!vars
      <4>3. CASE s_pending_cnt = 0 /\ s_state' = "STANDBY"
        <5>1. W!Stop
          BY <1>3, <2>1, <2>6, <4>1, <4>3 DEF W!Stop
        <5> QED
          BY <5>1 DEF W!Next
      <4> QED
        BY <3>1, <4>2, <4>3
    <3> QED
      BY <1>2, <3>2, <3>3
  <2>7. \/ s_state = "WAIT_OUTSTANDING"
        \/ s_state = "IDLE" /\ s_state' = "WAIT_OUTSTANDING"
        \/ /\ s_state \in {"IDLE", "AW_SEND", "W_SEND"}
           /\ s_state' \in {"IDLE", "AW_SEND", "W_SEND"}
    BY <1>0, <1>6, ClockCases DEF sm
  <2> QED
    BY <2>4, <2>5, <2>6, <2>7
<1> QED
  BY <1>4, <1>5, <1>6

\* The master does what RingWriter, and with it the driver's model, expects.
THEOREM Refinement == Spec => ImplementsWriter
<1>1. Init => W!Init
  BY DEF Init, W!Init
<1>2. IInv /\ [Next]_vars => [W!Next]_(W!vars)
  <2> SUFFICES ASSUME IInv, [Next]_vars PROVE W!Next \/ UNCHANGED W!vars
    OBVIOUS
  <2>1. ASSUME NEW awready \in Bit, NEW wready \in Bit, NEW bvalid \in Bit,
               NEW tvalid \in Bit, Clock(awready, wready, bvalid, tvalid)
        PROVE  W!Next \/ UNCHANGED W!vars
    BY <2>1, ClockRefines
  <2>2. CASE Sample \/ CrossEnable \/ UNCHANGED vars
    BY <2>2 DEF Sample, CrossEnable, vars, sm, W!vars
  <2>3. CASE SetEnable
    <3>1. i_enable' \in {0, 1}
      BY <2>3 DEF SetEnable, IInv, TypeOK, Bit
    <3>2. W!SetEnable
      BY <2>3, <3>1 DEF SetEnable, sm, W!SetEnable
    <3> QED
      BY <3>2 DEF W!Next
  <2>4. CASE Reset
    <3>1. W!Reset
      BY <2>4 DEF Reset, W!Reset
    <3> QED
      BY <3>1 DEF W!Next
  <2> QED
    BY <2>1, <2>2, <2>3, <2>4 DEF Next
<1> QED
  BY <1>1, <1>2, Invariance, PTL DEF Spec, W!Spec, ImplementsWriter

\* Every burst goes to its place with its data, but for the words ShortByFlag
\* names, for every ring, base, length and lag.
THEOREM BurstsPlaced == Spec => []BurstsInRing
<1>1. AwInRing /\ AwMatchesPtr /\ ShortByFlag => BurstsInRing
  BY DEF BurstsInRing
<1> QED
  BY <1>1, BurstsStayInRing, PointersAgree, ShortByTheFlag, PTL
=============================================================================
